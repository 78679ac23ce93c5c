-------------------------- MODULE AnalyzeRun_proofs --------------------------
(***************************************************************************)
(* Theorems about the other parts of an analyze run: the names of files    *)
(* and forms (AnalyzeForms), the conversion of a file (Conversion) and the *)
(* pages of read_file (Paging), for any files, names, limits and tools;    *)
(* and that the parts keep to their types when they stand side by side.    *)
(***************************************************************************)
EXTENDS MCAnalyze, AnalyzeChat_proofs

-----------------------------------------------------------------------------
\* Names

\* Letters of names: a name is a sequence of them.
Letters == Plain \cup Suffixes

LEMMA NamesTyped ==
  /\ \A n \in Names : n \in Seq(Letters) /\ Len(n) \in 1 .. 2
  /\ \A n \in Forms : n \in Seq(Letters) /\ Len(n) \in 2 .. 3 /\ Ending(n) \in Suffixes
  /\ \A n \in Names, s \in Suffixes :
       /\ Append(n, s) \in Forms /\ Ending(Append(n, s)) = s
       /\ Len(Append(n, s)) = Len(n) + 1
       /\ SubSeq(Append(n, s), 1, Len(n)) = n
<1>1. ASSUME NEW n \in Names  PROVE n \in Seq(Letters) /\ Len(n) \in 1 .. 2
  <2>1. CASE \E p \in Plain : n = <<p>>
    BY <2>1 DEF Letters
  <2>2. CASE \E p \in Plain, s \in Suffixes : n = <<p, s>>
    BY <2>2 DEF Letters
  <2> QED  BY <2>1, <2>2 DEF Names
<1>2. ASSUME NEW n \in Names, NEW s \in Suffixes
      PROVE  /\ Append(n, s) \in Forms /\ Append(n, s) \in Seq(Letters)
             /\ Ending(Append(n, s)) = s /\ Len(Append(n, s)) = Len(n) + 1
             /\ SubSeq(Append(n, s), 1, Len(n)) = n
  <2>1. s \in Letters /\ n \in Seq(Letters)
    BY <1>1 DEF Letters
  <2> QED  BY <2>1 DEF Forms, Ending
<1>3. \A n \in Forms : \E m \in Names, s \in Suffixes : n = Append(m, s)
  BY DEF Forms
<1>4. ASSUME NEW n \in Forms
      PROVE  n \in Seq(Letters) /\ Len(n) \in 2 .. 3 /\ Ending(n) \in Suffixes
  <2>1. PICK m \in Names, s \in Suffixes : n = Append(m, s)
    BY <1>3
  <2> QED  BY <1>1, <1>2, <2>1
<1> QED  BY <1>1, <1>2, <1>4

\* A form belongs to one name.
LEMMA FormOfOne ==
  \A m, n \in Names, s, t \in Suffixes : Append(m, s) = Append(n, t) => m = n /\ s = t
BY NamesTyped

-----------------------------------------------------------------------------
\* The inductive invariants of the forms

\* Every file has one name, and no two have the same.
NamedOnce ==
  /\ \A f \in Files : \E n \in Names : entries[n] = f
  /\ \A m, n \in Names : entries[m] = entries[n] /\ entries[n] # NoFile => m = n

\* A file that is not converted yet has no forms.
WaitingBare == \A f \in waiting : forms[f] = {}

\* What FormsFollow says, over names.
FormsKept ==
  /\ \A f \in Files : \A n \in forms[f] :
       /\ derived[n] = f /\ store[n] = f
       /\ \E m \in Names, s \in Suffixes : entries[m] = f /\ n = Append(m, s)
  /\ \A n \in Forms : derived[n] # NoFile => n \in forms[derived[n]]
  /\ derived = store

FormsInv == NamedOnce /\ WaitingBare /\ FormsKept

\* FormsTypeOK, but a picture may be one that is no longer there: a form that
\* could not be renamed may be replaced later.
FormsTyped ==
  /\ waiting \subseteq Files
  /\ entries \in [Names -> Files \cup {NoFile}]
  /\ kind \in [Files -> Kinds]
  /\ forms \in [Files -> SUBSET Forms]
  /\ {store, derived} \subseteq [Forms -> Files \cup {NoFile}]
  /\ marked \subseteq All
  /\ digest \in Seq((Files \cup {NoFile}) \X {"", "jpg"})

\* Marks are counted, and the limit is looked at before each of them.
MarksInv ==
  /\ IsFiniteSet(marked) /\ Len(digest) = Cardinality(marked)
  /\ Cardinality(marked) <= MaxMarks

LEMMA NameIs ==
  ASSUME NamedOnce, NEW n \in Names, entries[n] \in Files
  PROVE  NameOf(entries[n]) = n
<1>1. entries[n] # NoFile
  BY NoFileAssumption
<1>2. \A m \in Names : entries[m] = entries[n] => m = n
  BY <1>1 DEF NamedOnce
<1> QED  BY <1>2 DEF NameOf

LEMMA NameIn ==
  ASSUME NamedOnce, NEW f \in Files
  PROVE  NameOf(f) \in Names /\ entries[NameOf(f)] = f
BY DEF NamedOnce, NameOf

-----------------------------------------------------------------------------
\* Forms follow their files

LEMMA SuffixesTyped == \A k \in Kinds : SuffixesOf(k) \subseteq Suffixes
BY DEF Kinds, SuffixesOf, Suffixes

LEMMA LookupTyped ==
  ASSUME FormsTyped, NEW n \in Forms
  PROVE  {store[n], derived[n]} \subseteq Files \cup {NoFile}
<1>1. store \in [Forms -> Files \cup {NoFile}] /\ derived \in [Forms -> Files \cup {NoFile}]
  BY DEF FormsTyped
<1> QED  BY <1>1

LEMMA ConvertKeeps ==
  ASSUME FormsTyped, FormsInv, NEW f \in Files,
         NEW made_ \in SUBSET SuffixesOf(kind[f]), Convert(f, made_)
  PROVE  FormsInv'
<1> DEFINE name == NameOf(f)
           new  == {Append(name, s) : s \in made_}
<1>1. made_ \subseteq Suffixes /\ name \in Names /\ entries[name] = f
  BY SuffixesTyped, NameIn DEF FormsTyped, FormsInv
<1>2. /\ f \in waiting /\ waiting' = waiting \ {f} /\ entries' = entries
      /\ forms' = [forms EXCEPT ![f] = new]
      /\ store' = [n \in Forms |-> IF n \in new THEN f ELSE store[n]]
      /\ derived' = [n \in Forms |-> IF n \in new THEN f ELSE derived[n]]
  BY DEF Convert
<1>3. \A n \in new : n \in Forms /\ \E s \in Suffixes : n = Append(name, s)
  BY <1>1, NamesTyped
<1>4. forms[f] = {} /\ forms'[f] = new /\ \A g \in Files \ {f} : forms'[g] = forms[g]
  BY <1>2 DEF FormsTyped, FormsInv, WaitingBare
<1> HIDE DEF name, new
<1>5. ASSUME NEW g \in Files \ {f}, NEW n \in forms[g]
      PROVE  /\ n \in Forms \ new /\ derived[n] = g /\ store[n] = g
             /\ \E m \in Names, s \in Suffixes : entries[m] = g /\ n = Append(m, s)
  <2>1. PICK m \in Names, s \in Suffixes : entries[m] = g /\ n = Append(m, s)
    BY DEF FormsInv, FormsKept
  <2>2. m # name
    BY <1>1, <2>1
  <2>3. ASSUME n \in new  PROVE FALSE
    <3>1. PICK t \in Suffixes : n = Append(name, t)
      BY <1>3, <2>3
    <3> QED  BY <1>1, <2>1, <2>2, <3>1, FormOfOne, Zenon
  <2> QED  BY <2>1, <2>3 DEF FormsInv, FormsKept, FormsTyped
<1>6. NamedOnce'
  BY <1>2 DEF FormsInv, NamedOnce
<1>7. WaitingBare'
  BY <1>2, <1>4 DEF FormsInv, WaitingBare, FormsTyped
<1>8. ASSUME NEW g \in Files, NEW n \in forms'[g]
      PROVE  /\ derived'[n] = g /\ store'[n] = g
             /\ \E m \in Names, s \in Suffixes : entries'[m] = g /\ n = Append(m, s)
  <2>1. CASE g = f
    BY <1>1, <1>2, <1>3, <1>4, <2>1
  <2>2. CASE g # f
    BY <1>2, <1>4, <1>5, <2>2
  <2> QED  BY <2>1, <2>2
<1>9. ASSUME NEW n \in Forms, derived'[n] # NoFile  PROVE n \in forms'[derived'[n]]
  <2>1. CASE n \in new
    BY <1>2, <1>4, <2>1
  <2>2. CASE n \notin new
    <3>1. derived'[n] = derived[n]
      BY <1>2, <2>2
    <3>2. derived[n] \in Files /\ n \in forms[derived[n]]
      BY <1>9, <3>1, LookupTyped DEF FormsInv, FormsKept
    <3> QED  BY <1>4, <3>1, <3>2
  <2> QED  BY <2>1, <2>2
<1>10. derived' = store'
  BY <1>2 DEF FormsInv, FormsKept
<1> QED  BY <1>6, <1>7, <1>8, <1>9, <1>10 DEF FormsInv, FormsKept

\* Every form of a file begins with its name, and can be renamed with it.
LEMMA AllMovable ==
  ASSUME FormsInv, NEW f \in Files, NEW old \in Names, entries[old] = f
  PROVE  /\ Movable(f, old) = forms[f]
         /\ \A n \in forms[f] : \E s \in Suffixes : n = Append(old, s)
<1>1. ASSUME NEW n \in forms[f]  PROVE \E s \in Suffixes : n = Append(old, s)
  <2>1. PICK m \in Names, s \in Suffixes : entries[m] = f /\ n = Append(m, s)
    BY DEF FormsInv, FormsKept
  <2>2. m = old
    BY <2>1, NoFileAssumption DEF FormsInv, NamedOnce
  <2> QED  BY <2>1, <2>2
<1> QED  BY <1>1, NamesTyped DEF Movable

\* What a lookup says after all forms of a file have moved from old to new.
LEMMA RelocatedIs ==
  ASSUME NEW f \in Files, NEW new \in Names, NEW moved \in SUBSET Forms,
         NEW map, \A m \in moved : map[m] = f,
         NEW n \in Forms
  PROVE  LET fresh == {Append(new, Ending(m)) : m \in moved} IN
         Relocated(map, moved, NameOf(f), new)[n] =
           IF n \in fresh THEN f ELSE IF n \in moved THEN NoFile ELSE map[n]
<1>1. CASE \E m \in moved : Append(new, Ending(m)) = n
  BY <1>1 DEF Relocated, Renamed
<1>2. CASE ~\E m \in moved : Append(new, Ending(m)) = n
  BY <1>2 DEF Relocated, Renamed
<1> QED  BY <1>1, <1>2

LEMMA RenameNames ==
  ASSUME FormsTyped, NamedOnce, NEW old \in Names, NEW new \in Names, Rename(old, new)
  PROVE  NamedOnce'
<1> DEFINE f == entries[old]
<1>1. /\ f \in Files /\ entries[new] = NoFile /\ old # new
      /\ entries' = [entries EXCEPT ![new] = entries[old], ![old] = NoFile]
  BY DEF Rename, FormsTyped
<1>2. /\ entries'[new] = f /\ entries'[old] = NoFile
      /\ \A m \in Names \ {old, new} : entries'[m] = entries[m]
  BY <1>1 DEF FormsTyped
<1>3. \A m \in Names \ {old} : entries[m] # f
  BY <1>1, NoFileAssumption DEF NamedOnce
<1> HIDE DEF f
<1>4. ASSUME NEW g \in Files  PROVE \E n \in Names : entries'[n] = g
  <2>1. PICK m \in Names : entries[m] = g
    BY DEF NamedOnce
  <2> QED  BY <1>1, <1>2, <2>1, NoFileAssumption DEF f
<1>5. ASSUME NEW m \in Names, NEW n \in Names, entries'[m] = entries'[n], entries'[n] # NoFile
      PROVE  m = n
  BY <1>2, <1>3, <1>5 DEF NamedOnce
<1> QED  BY <1>4, <1>5 DEF NamedOnce

LEMMA RenameKeepsForms ==
  ASSUME ~RenameErrors, FormsTyped, FormsInv, NEW old \in Names, NEW new \in Names,
         Rename(old, new)
  PROVE  FormsInv'
<1> DEFINE f     == entries[old]
           moved == forms[f]
           fresh == {Append(new, Ending(m)) : m \in moved}
<1>1. /\ waiting = {} /\ f \in Files /\ entries[new] = NoFile /\ old # new
      /\ entries' = [entries EXCEPT ![new] = entries[old], ![old] = NoFile]
      /\ waiting' = waiting /\ kind' = kind
  BY DEF Rename, FormsTyped
<1>2. /\ Movable(f, old) = moved /\ NameOf(f) = old
      /\ \A n \in moved : \E s \in Suffixes : n = Append(old, s)
  BY <1>1, AllMovable, NameIs DEF FormsInv
<1>3. moved \subseteq Forms /\ \A m \in moved : derived[m] = f /\ store[m] = f
  BY <1>1 DEF FormsTyped, FormsInv, FormsKept
<1>4. /\ store' = Relocated(store, moved, old, new)
      /\ derived' = Relocated([n \in Forms |-> IF n \in moved THEN f ELSE derived[n]],
                              moved, old, new)
      /\ forms' = [forms EXCEPT ![f] = (@ \ moved) \cup {Renamed(m, old, new) : m \in moved}]
  BY <1>2 DEF Rename
<1>5. /\ fresh \subseteq Forms
      /\ \A n \in fresh : \E s \in Suffixes : n = Append(new, s)
  BY <1>3, NamesTyped
<1>6. forms'[f] = fresh /\ \A g \in Files \ {f} : forms'[g] = forms[g]
  BY <1>1, <1>4 DEF FormsTyped, Renamed
<1> HIDE DEF f, moved, fresh
<1>7. \A n \in Forms : store'[n] = IF n \in fresh THEN f ELSE IF n \in moved THEN NoFile ELSE store[n]
  BY <1>1, <1>2, <1>3, <1>4, RelocatedIs DEF fresh
<1>8. \A n \in Forms : derived'[n] = IF n \in fresh THEN f ELSE IF n \in moved THEN NoFile ELSE derived[n]
  <2> DEFINE map == [n \in Forms |-> IF n \in moved THEN f ELSE derived[n]]
  <2>1. (\A m \in moved : map[m] = f) /\ \A n \in Forms \ moved : map[n] = derived[n]
    BY <1>3
  <2>2. derived' = Relocated(map, moved, old, new)
    BY <1>4
  <2> HIDE DEF map
  <2> QED  BY <1>1, <1>2, <1>3, <2>1, <2>2, RelocatedIs DEF fresh
<1>9. DOMAIN store' = Forms /\ DOMAIN derived' = Forms /\ derived' = store'
  <2>1. derived' = [n \in Forms |-> derived'[n]] /\ store' = [n \in Forms |-> store'[n]]
    BY <1>4 DEF Relocated
  <2>2. \A n \in Forms : derived'[n] = store'[n]
    BY <1>7, <1>8 DEF FormsInv, FormsKept
  <2> QED  BY <2>1, <2>2
<1>10. ASSUME NEW g \in Files \ {f}, NEW n \in forms[g]
       PROVE  /\ n \in Forms /\ n \notin fresh /\ n \notin moved
              /\ \E m \in Names, s \in Suffixes : entries'[m] = g /\ n = Append(m, s)
  <2>1. PICK m \in Names, s \in Suffixes : entries[m] = g /\ n = Append(m, s)
    BY DEF FormsInv, FormsKept
  <2>2. m # old /\ m # new
    BY <1>1, <2>1, NoFileAssumption DEF f
  <2>3. ASSUME n \in fresh \cup moved  PROVE FALSE
    <3>1. PICK o \in {old, new}, t \in Suffixes : n = Append(o, t)
      BY <1>2, <1>5, <2>3
    <3>2. o \in Names /\ m # o
      BY <2>2, <3>1
    <3> QED  BY <2>1, <3>1, <3>2, FormOfOne, Zenon
  <2>4. entries'[m] = g
    BY <1>1, <2>1, <2>2 DEF FormsTyped
  <2> QED  BY <2>1, <2>3, <2>4 DEF FormsTyped
<1>11. NamedOnce'
  BY RenameNames DEF FormsInv
<1>12. WaitingBare'
  BY <1>1 DEF WaitingBare
<1>13. ASSUME NEW g \in Files, NEW n \in forms'[g]
       PROVE  /\ derived'[n] = g /\ store'[n] = g
              /\ \E m \in Names, s \in Suffixes : entries'[m] = g /\ n = Append(m, s)
  <2>1. CASE g = f
    <3>1. entries'[new] = f
      BY <1>1 DEF FormsTyped, f
    <3> QED  BY <1>5, <1>6, <1>7, <1>8, <2>1, <3>1
  <2>2. CASE g # f
    <3>1. n \in forms[g]
      BY <1>6, <2>2
    <3> QED  BY <1>7, <1>8, <1>10, <2>2, <3>1 DEF FormsInv, FormsKept
  <2> QED  BY <2>1, <2>2
<1>14. ASSUME NEW n \in Forms, derived'[n] # NoFile  PROVE n \in forms'[derived'[n]]
  <2>1. CASE n \in fresh
    BY <1>6, <1>8, <2>1
  <2>2. CASE n \notin fresh
    <3>1. derived'[n] = derived[n] /\ n \notin moved
      BY <1>8, <1>14, <2>2
    <3>2. derived[n] \in Files /\ n \in forms[derived[n]]
      BY <1>14, <3>1, LookupTyped DEF FormsInv, FormsKept
    <3> QED  BY <1>6, <3>1, <3>2 DEF moved
  <2> QED  BY <2>1, <2>2
<1> QED  BY <1>9, <1>11, <1>12, <1>13, <1>14 DEF FormsInv, FormsKept

-----------------------------------------------------------------------------
\* Types and marks

LEMMA FormsStart == FormsInit => FormsTyped /\ FormsInv /\ MarksInv
<1> SUFFICES ASSUME FormsInit  PROVE FormsTyped /\ FormsInv /\ MarksInv
  OBVIOUS
<1>1. PICK name \in [Files -> Names] :
        /\ \A f, g \in Files : name[f] = name[g] => f = g
        /\ entries = [n \in Names |->
             IF \E f \in Files : name[f] = n THEN CHOOSE f \in Files : name[f] = n ELSE NoFile]
        /\ kind \in [Files -> Kinds]
  BY DEF FormsInit
<1>2. /\ waiting = Files /\ forms = [f \in Files |-> {}]
      /\ store = [n \in Forms |-> NoFile] /\ derived = store
      /\ marked = {} /\ digest = << >>
  BY DEF FormsInit
<1>3. \A f \in Files : entries[name[f]] = f
  BY <1>1
<1>4. \A n \in Names : entries[n] # NoFile => entries[n] \in Files /\ name[entries[n]] = n
  BY <1>1
<1>5. entries \in [Names -> Files \cup {NoFile}]
  BY <1>1
<1>6. NamedOnce
  BY <1>1, <1>3, <1>4 DEF NamedOnce
<1>7. WaitingBare /\ FormsKept
  BY <1>2 DEF WaitingBare, FormsKept
<1>8. MarksInv
  BY <1>2, FS_EmptySet, LimitAssumption DEF MarksInv
<1>9. FormsTyped
  BY <1>1, <1>2, <1>5 DEF FormsTyped
<1> QED  BY <1>6, <1>7, <1>8, <1>9 DEF FormsInv

LEMMA RelocatedTyped ==
  ASSUME NEW map \in [Forms -> Files \cup {NoFile}], NEW moved \in SUBSET Forms,
         NEW old, NEW new
  PROVE  Relocated(map, moved, old, new) \in [Forms -> Files \cup {NoFile}]
<1>1. ASSUME NEW n \in Forms, \E m \in moved : Renamed(m, old, new) = n
      PROVE  map[CHOOSE m \in moved : Renamed(m, old, new) = n] \in Files \cup {NoFile}
  BY <1>1
<1> QED  BY <1>1 DEF Relocated

LEMMA ProductTyped ==
  ASSUME FormsTyped, NEW n \in All
  PROVE  /\ Product(n) \subseteq All
         /\ Product(n) # {} => Picture(n) \in (Files \cup {NoFile}) \X {"", "jpg"}
<1>1. CASE n \in Names /\ entries[n] # NoFile
  <2>1. entries[n] \in Files /\ forms[entries[n]] \subseteq Forms
    BY <1>1 DEF FormsTyped
  <2> QED  BY <1>1, <2>1 DEF Product, Picture, All
<1>2. CASE ~(n \in Names /\ entries[n] # NoFile)
  <2>1. Product(n) # {} => n \in Forms
    BY <1>2 DEF Product
  <2>2. Product(n) \subseteq {n}
    BY <1>2 DEF Product
  <2>3. n \in Forms => store[n] \in Files \cup {NoFile}
    BY LookupTyped
  <2> QED  BY <1>2, <2>1, <2>2, <2>3 DEF Picture
<1> QED  BY <1>1, <1>2

LEMMA FormsTypeNext ==
  ASSUME FormsTyped, NamedOnce, MarksInv, [FormsNext]_formsVars
  PROVE  FormsTyped' /\ NamedOnce' /\ MarksInv'
<1>1. ASSUME NEW f \in Files, NEW made_ \in SUBSET SuffixesOf(kind[f]), Convert(f, made_)
      PROVE  FormsTyped' /\ NamedOnce' /\ MarksInv'
  <2> DEFINE new == {Append(NameOf(f), s) : s \in made_}
  <2>1. new \in SUBSET Forms
    BY <1>1, SuffixesTyped, NamesTyped, NameIn DEF FormsTyped
  <2>2. /\ UNCHANGED <<entries, kind, marked, digest>> /\ waiting' = waiting \ {f}
        /\ forms' = [forms EXCEPT ![f] = new]
        /\ store' = [n \in Forms |-> IF n \in new THEN f ELSE store[n]]
        /\ derived' = [n \in Forms |-> IF n \in new THEN f ELSE derived[n]]
    BY <1>1 DEF Convert
  <2> HIDE DEF new
  <2>3. forms' \in [Files -> SUBSET Forms]
    BY <2>1, <2>2 DEF FormsTyped
  <2>4. {store', derived'} \subseteq [Forms -> Files \cup {NoFile}]
    BY <2>2, LookupTyped
  <2>5. NamedOnce' /\ MarksInv'
    BY <2>2 DEF NamedOnce, MarksInv
  <2> QED  BY <2>2, <2>3, <2>4, <2>5 DEF FormsTyped
<1>2. ASSUME NEW old \in Names, NEW new \in Names, Rename(old, new)
      PROVE  FormsTyped' /\ NamedOnce' /\ MarksInv'
  <2> DEFINE f == entries[old]
  <2>1. PICK moved \in SUBSET Movable(f, old) :
          /\ store' = Relocated(store, moved, old, new)
          /\ derived' = Relocated([n \in Forms |-> IF n \in moved THEN f ELSE derived[n]],
                                  moved, old, new)
          /\ forms' = [forms EXCEPT ![f] = (@ \ moved) \cup {Renamed(m, old, new) : m \in moved}]
    BY <1>2 DEF Rename
  <2>2. /\ f \in Files /\ UNCHANGED <<waiting, kind, marked, digest>>
        /\ entries' = [entries EXCEPT ![new] = entries[old], ![old] = NoFile]
    BY <1>2 DEF Rename, FormsTyped
  <2>3. moved \in SUBSET Forms
    BY <2>2 DEF Movable, FormsTyped
  <2>4. {Renamed(m, old, new) : m \in moved} \subseteq Forms
    BY <2>3, NamesTyped DEF Renamed
  <2>5. forms' \in [Files -> SUBSET Forms]
    BY <2>1, <2>2, <2>4 DEF FormsTyped
  <2>6. entries' \in [Names -> Files \cup {NoFile}]
    BY <2>2 DEF FormsTyped
  <2>7. store' \in [Forms -> Files \cup {NoFile}]
    BY <2>1, <2>3, RelocatedTyped DEF FormsTyped
  <2>8. derived' \in [Forms -> Files \cup {NoFile}]
    <3> DEFINE map == [n \in Forms |-> IF n \in moved THEN f ELSE derived[n]]
    <3>1. map \in [Forms -> Files \cup {NoFile}]
      BY <2>2, LookupTyped
    <3> HIDE DEF map
    <3>2. derived' = Relocated(map, moved, old, new)
      BY <2>1 DEF map
    <3> QED  BY <2>3, <3>1, <3>2, RelocatedTyped
  <2>9. NamedOnce'
    BY <1>2, RenameNames
  <2> QED  BY <2>2, <2>5, <2>6, <2>7, <2>8, <2>9 DEF FormsTyped, MarksInv
<1>3. ASSUME NEW n \in All, MarkImage(n)  PROVE FormsTyped' /\ NamedOnce' /\ MarksInv'
  <2>1. PICK product \in Product(n) :
          /\ product \notin marked /\ Cardinality(marked) < MaxMarks
          /\ digest' = Append(digest, Picture(n)) /\ marked' = marked \cup {product}
          /\ UNCHANGED <<waiting, entries, kind, forms, store, derived>>
    BY <1>3 DEF MarkImage
  <2>2. product \in All /\ Picture(n) \in (Files \cup {NoFile}) \X {"", "jpg"}
    BY <2>1, ProductTyped
  <2>3. /\ digest' \in Seq((Files \cup {NoFile}) \X {"", "jpg"})
        /\ Len(digest') = Len(digest) + 1
    <3> DEFINE Pictures == (Files \cup {NoFile}) \X {"", "jpg"}
    <3>1. digest \in Seq(Pictures) /\ Picture(n) \in Pictures
      BY <2>2 DEF FormsTyped
    <3> HIDE DEF Pictures
    <3>2. digest' \in Seq(Pictures) /\ Len(digest') = Len(digest) + 1
      BY <2>1, <3>1
    <3> QED  BY <3>2 DEF Pictures
  <2>4. /\ IsFiniteSet(marked') /\ Cardinality(marked') = Cardinality(marked) + 1
        /\ Cardinality(marked) \in Nat
    BY <2>1, FS_AddElement, FS_CardinalityType DEF MarksInv
  <2>5. FormsTyped' /\ NamedOnce'
    BY <2>1, <2>2, <2>3 DEF FormsTyped, NamedOnce
  <2>6. MarksInv'
    <3>1. Len(digest) = Cardinality(marked) /\ Cardinality(marked) < MaxMarks
      BY <2>1 DEF MarksInv
    <3>2. Len(digest') = Len(digest) + 1
      BY <2>3
    <3>3. Cardinality(marked') <= MaxMarks /\ Len(digest') = Cardinality(marked')
      BY <2>4, <3>1, <3>2, LimitAssumption
    <3> QED  BY <2>4, <3>3 DEF MarksInv
  <2> QED  BY <2>5, <2>6
<1>4. ASSUME UNCHANGED formsVars  PROVE FormsTyped' /\ NamedOnce' /\ MarksInv'
  BY <1>4 DEF formsVars, FormsTyped, NamedOnce, MarksInv
<1> QED  BY <1>1, <1>2, <1>3, <1>4 DEF FormsNext

LEMMA FormsInvNext ==
  ASSUME ~RenameErrors, FormsTyped, FormsInv, [FormsNext]_formsVars
  PROVE  FormsInv'
<1>1. ASSUME NEW n \in All, MarkImage(n)  PROVE FormsInv'
  BY <1>1 DEF MarkImage, FormsInv, NamedOnce, WaitingBare, FormsKept
<1>2. ASSUME UNCHANGED formsVars  PROVE FormsInv'
  BY <1>2 DEF formsVars, FormsInv, NamedOnce, WaitingBare, FormsKept
<1> QED  BY <1>1, <1>2, ConvertKeeps, RenameKeepsForms DEF FormsNext

THEOREM FormsTypeCorrect == FormsSpec => [](FormsTyped /\ NamedOnce /\ MarksInv)
<1>1. FormsInit => FormsTyped /\ NamedOnce /\ MarksInv
  BY FormsStart DEF FormsInv
<1>2. (FormsTyped /\ NamedOnce /\ MarksInv) /\ [FormsNext]_formsVars
        => (FormsTyped /\ NamedOnce /\ MarksInv)'
  BY FormsTypeNext
<1> QED  BY <1>1, <1>2, PTL DEF FormsSpec

\* For any files and names, and whether or not forms can be renamed, the digest
\* holds one picture for each name marked and never more than its limit
\* (mark_image).
THEOREM MarksAreCounted == FormsSpec => []MarksCounted
<1>1. MarksInv => MarksCounted
  BY DEF MarksInv, MarksCounted
<1> QED  BY <1>1, FormsTypeCorrect, PTL

\* However many files and names there are, and through any chain of renames,
\* every form is found under the current name of its file, as long as none
\* fails to be renamed: renameDerived promises its best effort only.
THEOREM FormsAlwaysFollow ==
  ASSUME ~RenameErrors
  PROVE  FormsSpec => []FormsFollow
<1>1. FormsInit => FormsInv
  BY FormsStart
<1>2. (FormsTyped /\ NamedOnce /\ MarksInv) /\ FormsInv /\ [FormsNext]_formsVars => FormsInv'
  BY FormsInvNext
<1>3. (FormsTyped /\ NamedOnce /\ MarksInv) /\ FormsInv => FormsFollow
  <2> SUFFICES ASSUME FormsTyped, FormsInv  PROVE FormsFollow
    OBVIOUS
  <2>1. ASSUME NEW f \in Files, NEW n \in forms[f]  PROVE n = Append(NameOf(f), Ending(n))
    <3>1. PICK m \in Names, s \in Suffixes : entries[m] = f /\ n = Append(m, s)
      BY DEF FormsInv, FormsKept
    <3>2. NameOf(f) = m /\ Ending(n) = s
      BY <3>1, NameIs, NamesTyped DEF FormsInv
    <3> QED  BY <3>1, <3>2
  <2> QED  BY <2>1 DEF FormsFollow, FormsInv, FormsKept
<1> QED  BY <1>1, <1>2, <1>3, FormsTypeCorrect, PTL DEF FormsSpec

-----------------------------------------------------------------------------
\* Conversion: the inductive invariant

Todos == {<<"text", "pages">>, <<"pages">>, <<"text">>, <<"image">>, <<"frames">>, << >>}

ScratchNames == {"txt", "csv", "pdf", "png", "2048", "1280", "800"}

AtWork(form) == todo # << >> /\ Head(todo) = form

ConvTyped ==
  /\ ext \in Classes /\ todo \in Todos
  /\ at \in -1 .. 8
  /\ tried \in [FormNames -> SUBSET have]
  /\ late \in BOOLEAN /\ without \in SUBSET FormNames
  /\ scratch \in [ScratchNames -> OutputFile \cup {NoFileYet}]
  /\ drawn \in [{"pg", "mg"} -> Seq(OutputFile)]
  /\ raw \in Seq(OutputFile)
  /\ made \in [FormNames -> Seq(OutputFile)]

\* The tools of the rungs before the n-th.
ToolsBefore(form, n) == {Ladder(form)[i].tool : i \in 1 .. n - 1}

\* What LadderTried says of one form.
GivenUpProperly(form) ==
  tried[form] # {} /\ made[form] = << >> /\ form \notin without
    => tried[form] = have \cap ToolsOf(form)

\* While a form is worked on, the tools of the rungs left behind have been run;
\* frames are looked at when their only tool has been.
LadderClimbed ==
  \A form \in {"text", "image", "frames"} :
    IF ~AtWork(form) THEN GivenUpProperly(form)
    ELSE IF at \in 1 .. Len(Ladder(form)) + 1
      THEN tried[form] = have \cap ToolsBefore(form, at)
      ELSE form = "frames" /\ at \in -1 .. 0 /\ tried[form] = have \cap ToolsOf(form)

Limit(form) == IF form = "pages" THEN MaxPages ELSE MaxFrames

\* The pictures kept and those still to be looked at are never more than the
\* limit, and none is kept before a rung has drawn them all.
PicturesFew ==
  \A form \in {"pages", "frames"} :
    /\ Len(made[form]) <= Limit(form)
    /\ AtWork(form) => Len(made[form]) + Len(raw) <= Limit(form)
    /\ todo # << >> /\ (~AtWork(form) \/ at > 0) => made[form] = << >>

\* What OutputBounded says of the sizes.
OutputFits ==
  \A form \in FormNames : \A i \in 1 .. Len(made[form]) : made[form][i].size = "fit"

\* No rung ahead has left anything in the scratch directory yet.
ScratchFresh ==
  AtWork("text") => \A i \in 1 .. Len(TextLadder(ext)) :
    i >= at /\ TextLadder(ext)[i].file # "stdout" => scratch[TextLadder(ext)[i].file] = NoFileYet

ConvInv ==
  ConvTyped /\ LadderClimbed /\ PicturesFew /\ OutputFits /\ ScratchFresh /\ TextGenuine

-----------------------------------------------------------------------------
\* The ladders

LEMMA TextLadderIs ==
  ASSUME NEW e \in Classes
  PROVE  /\ Len(TextLadder(e)) \in 2 .. 3
         /\ \A i \in 1 .. Len(TextLadder(e)) : TextLadder(e)[i].file \in {"stdout", "txt", "csv"}
         /\ \A i, j \in 1 .. Len(TextLadder(e)) :
              i # j /\ TextLadder(e)[i].file = TextLadder(e)[j].file
                => TextLadder(e)[i].file = "stdout"
<1> DEFINE l == TextLadder(e)
<1>1. CASE e = "pdf"
  <2>1. Len(l) = 2 /\ l[1] = Rung("pdftotext", "stdout") /\ l[2] = Rung("soffice", "txt")
    BY <1>1 DEF TextLadder
  <2>2. \A i \in 1 .. 2 : i = 1 \/ i = 2
    OBVIOUS
  <2> HIDE DEF l
  <2>3. Len(l) \in 2 .. 3 /\ \A i \in 1 .. Len(l) : l[i].file \in {"stdout", "txt", "csv"}
    BY <2>1, <2>2 DEF Rung
  <2>4. \A i, j \in 1 .. Len(l) : i # j /\ l[i].file = l[j].file => l[i].file = "stdout"
    BY <2>1, <2>2 DEF Rung
  <2> QED  BY <2>3, <2>4 DEF l
<1>2. CASE e = "sheet"
  <2>1. Len(l) = 2 /\ l[1] = Rung("soffice", "csv") /\ l[2] = Rung("soffice", "txt")
    BY <1>2 DEF TextLadder
  <2>2. \A i \in 1 .. 2 : i = 1 \/ i = 2
    OBVIOUS
  <2> HIDE DEF l
  <2>3. Len(l) \in 2 .. 3 /\ \A i \in 1 .. Len(l) : l[i].file \in {"stdout", "txt", "csv"}
    BY <2>1, <2>2 DEF Rung
  <2>4. \A i, j \in 1 .. Len(l) : i # j /\ l[i].file = l[j].file => l[i].file = "stdout"
    BY <2>1, <2>2 DEF Rung
  <2> QED  BY <2>3, <2>4 DEF l
<1>3. CASE e = "doc"
  <2>1. Len(l) = 3 /\ l[1] = Rung("catdoc", "stdout") /\ l[2] = Rung("soffice", "txt") /\ l[3] = Rung("pandoc", "stdout")
    BY <1>3 DEF TextLadder
  <2>2. \A i \in 1 .. 3 : i = 1 \/ i = 2 \/ i = 3
    OBVIOUS
  <2> HIDE DEF l
  <2>3. Len(l) \in 2 .. 3 /\ \A i \in 1 .. Len(l) : l[i].file \in {"stdout", "txt", "csv"}
    BY <2>1, <2>2 DEF Rung
  <2>4. \A i, j \in 1 .. Len(l) : i # j /\ l[i].file = l[j].file => l[i].file = "stdout"
    BY <2>1, <2>2 DEF Rung
  <2> QED  BY <2>3, <2>4 DEF l
<1>4. CASE e \notin {"pdf", "sheet", "doc"}
  <2>1. Len(l) = 2 /\ l[1] = Rung("soffice", "txt") /\ l[2] = Rung("pandoc", "stdout")
    BY <1>4 DEF TextLadder
  <2>2. \A i \in 1 .. 2 : i = 1 \/ i = 2
    OBVIOUS
  <2> HIDE DEF l
  <2>3. Len(l) \in 2 .. 3 /\ \A i \in 1 .. Len(l) : l[i].file \in {"stdout", "txt", "csv"}
    BY <2>1, <2>2 DEF Rung
  <2>4. \A i, j \in 1 .. Len(l) : i # j /\ l[i].file = l[j].file => l[i].file = "stdout"
    BY <2>1, <2>2 DEF Rung
  <2> QED  BY <2>3, <2>4 DEF l
<1> QED  BY <1>1, <1>2, <1>3, <1>4

LEMMA ImageLadderIs ==
  /\ Len(ImageLadder) = 7
  /\ \A i \in {1, 2, 3, 5, 6, 7} : ImageLadder[i].tool = "magick"
  /\ ImageLadder[4].tool = "soffice"
  /\ \A i \in 1 .. 7 : ImageLadder[i].file \in {"2048", "1280", "800", "png"}
  /\ \A i \in {3, 7} : ImageLadder[i].file = "800"
<1>1. Len(ImageLadder) = 7
  BY DEF ImageLadder, Steps
<1>2. /\ ImageLadder[1] = Rung("magick", "2048") /\ ImageLadder[2] = Rung("magick", "1280")
      /\ ImageLadder[3] = Rung("magick", "800") /\ ImageLadder[4] = Rung("soffice", "png")
      /\ ImageLadder[5] = Rung("magick", "2048") /\ ImageLadder[6] = Rung("magick", "1280")
      /\ ImageLadder[7] = Rung("magick", "800")
  BY DEF ImageLadder, Steps
<1>3. \A i \in 1 .. 7 : i = 1 \/ i = 2 \/ i = 3 \/ i = 4 \/ i = 5 \/ i = 6 \/ i = 7
  OBVIOUS
<1> QED  BY <1>1, <1>2, <1>3 DEF Rung

LEMMA PagesLadderIs ==
  /\ Len(PagesLadder) = 6
  /\ \A i \in 1 .. 6 : PagesLadder[i].file \in {"pg", "mg", "pdf", "png"}
<1>1. Len(PagesLadder) = 6
  BY DEF PagesLadder, Render
<1>2. /\ PagesLadder[1] = Rung("pdftoppm", "pg") /\ PagesLadder[2] = Rung("magick", "mg")
      /\ PagesLadder[3] = Rung("soffice", "pdf") /\ PagesLadder[4] = Rung("pdftoppm", "pg")
      /\ PagesLadder[5] = Rung("magick", "mg") /\ PagesLadder[6] = Rung("soffice", "png")
  BY DEF PagesLadder, Render
<1>3. \A i \in 1 .. 6 : i = 1 \/ i = 2 \/ i = 3 \/ i = 4 \/ i = 5 \/ i = 6
  OBVIOUS
<1> QED  BY <1>1, <1>2, <1>3 DEF Rung

LEMMA LaddersAre ==
  /\ Ladder("text") = TextLadder(ext) /\ Ladder("image") = ImageLadder
  /\ Ladder("pages") = PagesLadder /\ Len(Ladder("frames")) = 1
BY DEF Ladder

\* A rung that yields nothing leads past all rungs of the tool it ran.
LEMMA ElseTools ==
  ASSUME ConvTyped, NEW form \in {"text", "image", "frames"}, at \in 1 .. Len(Ladder(form))
  PROVE  /\ ElseRung(form) \in at + 1 .. Len(Ladder(form)) + 1
         /\ \A n \in {at + 1, ElseRung(form)} :
              ToolsBefore(form, n) = ToolsBefore(form, at) \cup {Ladder(form)[at].tool}
<1>1. ToolsBefore(form, at + 1) = ToolsBefore(form, at) \cup {Ladder(form)[at].tool}
  <2>1. 1 .. (at + 1) - 1 = (1 .. at - 1) \cup {at}
    OBVIOUS
  <2> QED  BY <2>1 DEF ToolsBefore
<1>2. CASE form \in {"text", "frames"}
  <2>1. ElseRung(form) = at + 1
    BY <1>2 DEF ElseRung
  <2>2. Len(Ladder(form)) \in Nat
    <3>1. ext \in Classes
      BY DEF ConvTyped
    <3>2. Len(TextLadder(ext)) \in 2 .. 3
      BY <3>1, TextLadderIs
    <3> QED  BY <1>2, <3>2, LaddersAre
  <2> QED  BY <1>1, <2>1, <2>2
<1>3. CASE form = "image"
  <2>1. Ladder(form) = ImageLadder /\ at \in 1 .. 7 /\ Len(Ladder(form)) = 7
    BY <1>3, LaddersAre, ImageLadderIs
  <2>2. ElseRung(form) = IF at <= 3 THEN 4 ELSE 8
    BY <1>3 DEF ElseRung
  <2>3. \A n \in 1 .. 8 : ToolsBefore(form, n) =
          IF n = 1 THEN {} ELSE IF n <= 4 THEN {"magick"} ELSE {"magick", "soffice"}
    <3> SUFFICES ASSUME NEW n \in 1 .. 8
                 PROVE  ToolsBefore(form, n) =
                          IF n = 1 THEN {} ELSE IF n <= 4 THEN {"magick"} ELSE {"magick", "soffice"}
      OBVIOUS
    <3>1. ToolsBefore(form, n) = {ImageLadder[i].tool : i \in 1 .. n - 1}
      BY <2>1 DEF ToolsBefore
    <3>2. \A i \in 1 .. 7 : ImageLadder[i].tool = IF i = 4 THEN "soffice" ELSE "magick"
      BY ImageLadderIs
    <3>3. CASE n = 1
      BY <3>1, <3>3
    <3>4. CASE n \in 2 .. 4
      BY <3>1, <3>2, <3>4
    <3>5. CASE n \in 5 .. 8
      <4>1. 1 \in 1 .. n - 1 /\ 4 \in 1 .. n - 1
        BY <3>5
      <4> QED  BY <3>1, <3>2, <3>5, <4>1
    <3> QED  BY <3>3, <3>4, <3>5
  <2>4. ImageLadder[at].tool = IF at = 4 THEN "soffice" ELSE "magick"
    BY <2>1, ImageLadderIs
  <2> QED  BY <1>1, <2>1, <2>2, <2>3, <2>4
<1> QED  BY <1>2, <1>3

\* The forms of a file, one after the other.
LEMMA TodoIs ==
  ASSUME ConvTyped, todo # << >>
  PROVE  /\ Head(todo) \in FormNames
         /\ Tail(todo) \in {<<"pages">>, << >>}
         /\ Tail(todo) = <<"pages">> => Head(Tail(todo)) = "pages"
         /\ Tail(todo) # << >> => Tail(todo) = <<"pages">> /\ Head(todo) = "text"
<1>1. Tail(<<"text", "pages">>) = <<"pages">> /\ Head(<<"text", "pages">>) = "text"
  OBVIOUS
<1>2. \A f \in FormNames : Head(<<f>>) = f /\ Tail(<<f>>) = << >>
  OBVIOUS
<1>3. todo = <<"text", "pages">> \/ \E f \in FormNames : todo = <<f>>
  BY DEF ConvTyped, Todos, FormNames
<1>4. Head(<<"pages">>) = "pages" /\ "text" \in FormNames
  BY DEF FormNames
<1>5. CASE todo = <<"text", "pages">>
  BY <1>1, <1>4, <1>5
<1>6. CASE \E f \in FormNames : todo = <<f>>
  BY <1>2, <1>4, <1>6
<1> QED  BY <1>3, <1>5, <1>6

-----------------------------------------------------------------------------
\* Conversion: what a step leaves as it is

LEMMA SameLadders ==
  ASSUME ext' = ext, NEW form
  PROVE  /\ Ladder(form)' = Ladder(form) /\ ToolsOf(form)' = ToolsOf(form)
         /\ TextLadder(ext)' = TextLadder(ext)
<1>1. TextLadder(ext)' = TextLadder(ext)
  BY DEF TextLadder
<1>2. Ladder(form)' = Ladder(form)
  BY <1>1 DEF Ladder
<1> QED  BY <1>1, <1>2 DEF ToolsOf

LEMMA LadderLengths ==
  ASSUME ConvTyped
  PROVE  /\ Len(Ladder("text")) \in 2 .. 3 /\ Len(Ladder("image")) = 7
         /\ Len(Ladder("pages")) = 6 /\ Len(Ladder("frames")) = 1
<1>1. ext \in Classes
  BY DEF ConvTyped
<1> QED  BY <1>1, LaddersAre, TextLadderIs, ImageLadderIs, PagesLadderIs

LEMMA RunIs ==
  ASSUME ConvTyped, NEW form \in FormNames, NEW ok \in BOOLEAN, Run(form, ok)
  PROVE  /\ Ladder(form)[at].tool \in have
         /\ tried' \in [FormNames -> SUBSET have]
         /\ tried'[form] = tried[form] \cup {Ladder(form)[at].tool}
         /\ \A g \in FormNames \ {form} : tried'[g] = tried[g]
         /\ late' \in BOOLEAN /\ UNCHANGED <<ext, have>>
<1> DEFINE tool == Ladder(form)[at].tool
<1>1. /\ tool \in have /\ tried' = [tried EXCEPT ![form] = @ \cup {tool}]
      /\ late' \in {late, TRUE} /\ UNCHANGED <<ext, have>>
  BY DEF Run
<1> HIDE DEF tool
<1>2. /\ tried' \in [FormNames -> SUBSET have] /\ late' \in BOOLEAN
      /\ tried'[form] = tried[form] \cup {tool}
      /\ \A g \in FormNames \ {form} : tried'[g] = tried[g]
  BY <1>1 DEF ConvTyped
<1> QED  BY <1>1, <1>2 DEF tool

LEMMA LeavesTyped ==
  ASSUME ConvTyped, NEW name \in ScratchNames, NEW sizes \in SUBSET TextSizes,
         NEW ok \in BOOLEAN, NEW left \in Leaves(name, sizes, ok)
  PROVE  /\ left \in OutputFile \cup {NoFileYet}
         /\ left = scratch[name] \/ \E size \in sizes : left = File(size, ok)
         /\ left.size # "none" => left \in OutputFile
<1>1. left = scratch[name] \/ \E size \in sizes : left = File(size, ok)
  BY DEF Leaves
<1>2. \A size \in sizes : File(size, ok) \in OutputFile
  BY DEF File, OutputFile
<1>3. scratch[name] \in OutputFile \cup {NoFileYet}
  BY DEF ConvTyped
<1>4. NoFileYet.size = "none"
  BY DEF NoFileYet
<1> QED  BY <1>1, <1>2, <1>3, <1>4

\* A form is worked on further up its ladder.
LEMMA ClimbKeeps ==
  ASSUME ConvInv, NEW form \in {"text", "image", "frames"}, AtWork(form),
         at \in 1 .. Len(Ladder(form)),
         at' \in {at + 1, ElseRung(form)},
         UNCHANGED <<ext, have, todo, made, raw, drawn, without>>,
         late' \in BOOLEAN, tried' \in [FormNames -> SUBSET have],
         tried'[form] = tried[form] \cup (have \cap {Ladder(form)[at].tool}),
         \A g \in FormNames \ {form} : tried'[g] = tried[g],
         scratch' \in [ScratchNames -> OutputFile \cup {NoFileYet}],
         ScratchFresh'
  PROVE  ConvInv'
<1>1. /\ at' \in at + 1 .. Len(Ladder(form)) + 1
      /\ ToolsBefore(form, at') = ToolsBefore(form, at) \cup {Ladder(form)[at].tool}
  BY ElseTools DEF ConvInv
<1>2. at' \in 1 .. 8
  <2>1. Len(Ladder(form)) \in 1 .. 7
    BY LadderLengths DEF ConvInv
  <2>2. at' \in at + 1 .. Len(Ladder(form)) + 1
    BY <1>1
  <2>3. at \in 1 .. Len(Ladder(form))
    OBVIOUS
  <2>4. \A n \in 1 .. 7 : \A a \in 1 .. n : \A b \in a + 1 .. n + 1 : b \in 1 .. 8
    OBVIOUS
  <2> QED  BY <2>1, <2>2, <2>3, <2>4, Zenon
<1>3. ConvTyped'
  BY <1>2 DEF ConvInv, ConvTyped
<1>4. LadderClimbed'
  <2>1. at' \in 1 .. Len(Ladder(form)') + 1 /\ tried'[form] = have' \cap ToolsBefore(form, at)'
    <3>1. tried[form] = have \cap ToolsBefore(form, at)
      <4>1. at \in 1 .. Len(Ladder(form)) + 1
        BY LadderLengths DEF ConvInv
      <4> QED  BY <4>1 DEF ConvInv, LadderClimbed
    <3>2. ToolsBefore(form, at)' = ToolsBefore(form, at')
      BY SameLadders DEF ToolsBefore
    <3>3. Ladder(form)' = Ladder(form) /\ at \in Nat /\ Len(Ladder(form)) \in Nat
      BY SameLadders, LadderLengths DEF ConvInv, ConvTyped
    <3>4. at' \in 1 .. Len(Ladder(form)) + 1
      BY <1>1, <3>3
    <3> QED  BY <1>1, <3>1, <3>2, <3>3, <3>4
  <2>2. \A g \in {"text", "image", "frames"} : AtWork(g)' <=> AtWork(g)
    BY DEF AtWork
  <2>3. \A g \in {"text", "image", "frames"} \ {form} : ~AtWork(g)
    BY DEF AtWork
  <2>4. ASSUME NEW g \in {"text", "image", "frames"} \ {form}  PROVE GivenUpProperly(g)'
    <3>1. GivenUpProperly(g) /\ g \in FormNames
      BY <2>3 DEF ConvInv, LadderClimbed, FormNames
    <3> QED  BY <3>1, SameLadders DEF GivenUpProperly
  <2> QED  BY <2>1, <2>2, <2>3, <2>4 DEF LadderClimbed
<1>5. PicturesFew'
  <2>1. at > 0 /\ \A g \in {"pages", "frames"} : AtWork(g)' <=> AtWork(g)
    BY DEF AtWork
  <2> QED  BY <2>1 DEF ConvInv, PicturesFew, Limit
<1> QED  BY <1>3, <1>4, <1>5 DEF ConvInv, OutputFits, TextGenuine

\* A form is settled, and the next one is begun.
LEMMA SettleKeeps ==
  ASSUME ConvInv, NEW form \in FormNames, AtWork(form),
         NEW out \in Seq(OutputFile), Settle(form, out),
         \A i \in 1 .. Len(out) : /\ out[i].size = "fit"
                                  /\ form = "text" => out[i].ok,
         form \in {"pages", "frames"} => Len(out) <= Limit(form),
         UNCHANGED <<ext, have>>,
         late' \in BOOLEAN, without' \in {without, without \cup {form}},
         tried' \in [FormNames -> SUBSET have],
         \A g \in FormNames \ {form} : tried'[g] = tried[g],
         form # "pages" => GivenUpProperly(form)'
  PROVE  ConvInv'
<1>1. /\ made' = [made EXCEPT ![form] = out] /\ todo' = Tail(todo)
      /\ scratch' = [f \in DOMAIN scratch |-> NoFileYet]
      /\ drawn' = [t \in DOMAIN drawn |-> << >>] /\ raw' = << >>
      /\ at' = IF Tail(todo) = << >> THEN 1 ELSE First(Head(Tail(todo)))
  BY DEF Settle, Begin
<1>2. /\ todo' \in {<<"pages">>, << >>}
      /\ todo' # << >> => Head(todo') = "pages" /\ form = "text"
  BY <1>1, TodoIs DEF ConvInv, AtWork
<1>3. at' \in {1, 3}
  BY <1>1 DEF First
<1>4. /\ made'[form] = out /\ made' \in [FormNames -> Seq(OutputFile)]
      /\ \A g \in FormNames \ {form} : made'[g] = made[g]
  BY <1>1 DEF ConvInv, ConvTyped
<1>5. ConvTyped'
  <2>1. scratch' \in [ScratchNames -> OutputFile \cup {NoFileYet}]
    BY <1>1 DEF ConvInv, ConvTyped
  <2>2. drawn' \in [{"pg", "mg"} -> Seq(OutputFile)] /\ raw' \in Seq(OutputFile)
    BY <1>1 DEF ConvInv, ConvTyped
  <2>3. todo' \in Todos /\ ext' \in Classes /\ at' \in -1 .. 8
    BY <1>2, <1>3 DEF Todos, ConvInv, ConvTyped
  <2>4. without' \in SUBSET FormNames
    BY DEF ConvInv, ConvTyped
  <2> QED  BY <1>4, <2>1, <2>2, <2>3, <2>4 DEF ConvTyped
<1>6. LadderClimbed'
  <2>1. ASSUME NEW g \in {"text", "image", "frames"}  PROVE ~AtWork(g)' /\ GivenUpProperly(g)'
    <3>1. ~AtWork(g)'
      BY <1>2 DEF AtWork
    <3>2. CASE g = form
      BY <3>1, <3>2
    <3>3. CASE g # form
      <4>1. GivenUpProperly(g) /\ g \in FormNames
        BY <3>3 DEF ConvInv, LadderClimbed, AtWork, FormNames
      <4>2. ToolsOf(g)' = ToolsOf(g)
        BY SameLadders
      <4>3. tried'[g] = tried[g] /\ made'[g] = made[g] /\ (g \in without' <=> g \in without)
        BY <1>4, <3>3, <4>1
      <4> QED  BY <3>1, <4>1, <4>2, <4>3 DEF GivenUpProperly
    <3> QED  BY <3>2, <3>3
  <2> QED  BY <2>1 DEF LadderClimbed
<1>7. PicturesFew'
  <2> SUFFICES ASSUME NEW g \in {"pages", "frames"}
               PROVE  /\ Len(made'[g]) <= Limit(g)
                      /\ Len(made'[g]) + Len(raw') <= Limit(g)
                      /\ todo' # << >> => made'[g] = << >>
    BY DEF PicturesFew, Limit
  <2>1. g \in FormNames /\ made'[g] \in Seq(OutputFile)
    BY <1>4 DEF FormNames
  <2>2. Len(made'[g]) <= Limit(g)
    BY <1>4, <2>1 DEF ConvInv, PicturesFew
  <2>3. Len(raw') = 0 /\ Limit(g) \in Nat
    BY <1>1, ConversionAssumption DEF Limit
  <2>4. Len(made'[g]) \in Nat
    BY <2>1
  <2>5. todo' # << >> => made'[g] = << >>
    <3> SUFFICES ASSUME todo' # << >>  PROVE made'[g] = << >>
      OBVIOUS
    <3>1. form = "text" /\ g # "text" /\ todo # << >> /\ ~AtWork(g)
      BY <1>2 DEF AtWork
    <3>2. made[g] = << >>
      BY <3>1 DEF ConvInv, PicturesFew
    <3> QED  BY <1>4, <2>1, <3>1, <3>2
  <2> QED  BY <2>2, <2>3, <2>4, <2>5
<1>8. OutputFits'
  <2>1. ASSUME NEW g \in FormNames, NEW i \in 1 .. Len(made'[g])
        PROVE  made'[g][i].size = "fit"
    <3>1. CASE g = form
      <4>1. i \in 1 .. Len(out) /\ made'[g] = out
        BY <1>4, <2>1, <3>1
      <4> QED  BY <4>1
    <3>2. CASE g # form
      <4>1. i \in 1 .. Len(made[g]) /\ made'[g] = made[g]
        BY <1>4, <2>1, <3>2
      <4> QED  BY <4>1 DEF ConvInv, OutputFits
    <3> QED  BY <3>1, <3>2
  <2> QED  BY <2>1 DEF OutputFits
<1>9. ScratchFresh'
  BY <1>2 DEF ScratchFresh, AtWork
<1>10. TextGenuine'
  BY <1>4 DEF ConvInv, TextGenuine, FormNames
<1> QED  BY <1>5, <1>6, <1>7, <1>8, <1>9, <1>10 DEF ConvInv

-----------------------------------------------------------------------------
\* Conversion: the actions

LEMMA WorkingIs ==
  ASSUME NEW form, Working(form)
  PROVE  AtWork(form) /\ at \in 1 .. Len(Ladder(form))
BY DEF Working, AtWork

\* A tool that is missing was not run and is passed by.
LEMMA MissingKeeps ==
  ASSUME ConvInv, NEW form \in FormNames, Missing(form)
  PROVE  ConvInv'
<1>1. /\ AtWork(form) /\ at \in 1 .. Len(Ladder(form)) /\ at' = ElseRung(form)
      /\ Ladder(form)[at].tool \notin have
      /\ UNCHANGED <<ext, todo, have, tried, late, scratch, drawn, raw, made, without>>
  BY WorkingIs DEF Missing, Onward
<1>2. CASE form = "pages"
  <2>1. at \in 1 .. 6
    BY <1>1, <1>2, LadderLengths DEF ConvInv
  <2>2. at' \in 1 .. 7
    BY <1>1, <1>2, <2>1 DEF ElseRung
  <2>3. ConvTyped'
    BY <1>1, <2>2 DEF ConvInv, ConvTyped
  <2>4. LadderClimbed'
    <3>1. \A g \in {"text", "image", "frames"} : ~AtWork(g) /\ ~AtWork(g)'
      BY <1>1, <1>2 DEF AtWork
    <3>2. \A g \in {"text", "image", "frames"} : ToolsOf(g)' = ToolsOf(g)
      BY <1>1, SameLadders
    <3> QED  BY <1>1, <3>1, <3>2 DEF ConvInv, LadderClimbed, GivenUpProperly
  <2>5. PicturesFew'
    <3>1. at > 0 /\ \A g \in {"pages", "frames"} : AtWork(g)' <=> AtWork(g)
      BY <1>1, <2>1 DEF AtWork
    <3> QED  BY <1>1, <3>1 DEF ConvInv, PicturesFew, Limit
  <2>6. ScratchFresh'
    BY <1>1, <1>2 DEF ScratchFresh, AtWork
  <2> QED  BY <1>1, <2>3, <2>4, <2>5, <2>6 DEF ConvInv, OutputFits, TextGenuine
<1>3. CASE form # "pages"
  <2>1. form \in {"text", "image", "frames"}
    BY <1>3 DEF FormNames
  <2>2. /\ tried'[form] = tried[form] \cup (have \cap {Ladder(form)[at].tool})
        /\ tried' \in [FormNames -> SUBSET have] /\ late' \in BOOLEAN
        /\ scratch' \in [ScratchNames -> OutputFile \cup {NoFileYet}]
    BY <1>1 DEF ConvInv, ConvTyped
  <2>3. ScratchFresh'
    <3>1. at' \in at + 1 .. Len(Ladder(form)) + 1
      BY <1>1, <2>1, ElseTools DEF ConvInv
    <3>2. TextLadder(ext)' = TextLadder(ext)
      BY <1>1, SameLadders
    <3>3. Len(TextLadder(ext)) \in Nat
      BY LadderLengths, LaddersAre DEF ConvInv
    <3> QED  BY <1>1, <3>1, <3>2, <3>3 DEF ConvInv, ScratchFresh, AtWork
  <2> QED  BY <1>1, <2>1, <2>2, <2>3, ClimbKeeps
<1> QED  BY <1>2, <1>3

\* Only when no rung is left is a form given up.
LEMMA GiveUpKeeps ==
  ASSUME ConvInv, NEW form \in FormNames, GiveUp(form)
  PROVE  ConvInv'
<1>1. /\ AtWork(form) /\ at > Len(Ladder(form)) /\ Settle(form, << >>)
      /\ UNCHANGED <<ext, have, tried, late, without>>
  BY DEF GiveUp, AtWork
<1>2. form # "pages" => GivenUpProperly(form)'
  <2> SUFFICES ASSUME form # "pages"  PROVE GivenUpProperly(form)'
    OBVIOUS
  <2>1. form \in {"text", "image", "frames"}
    BY DEF FormNames
  <2>2. at \in 1 .. Len(Ladder(form)) + 1 /\ tried[form] = have \cap ToolsBefore(form, at)
    <3>1. ~(at \in -1 .. 0)
      BY <1>1, <2>1, LadderLengths DEF ConvInv, ConvTyped
    <3> QED  BY <1>1, <2>1, <3>1 DEF ConvInv, LadderClimbed
  <2>3. at = Len(Ladder(form)) + 1 /\ (at - 1) = Len(Ladder(form))
    BY <1>1, <2>1, <2>2, LadderLengths DEF ConvInv
  <2>4. ToolsBefore(form, at) = ToolsOf(form)
    BY <2>3 DEF ToolsBefore, ToolsOf
  <2>5. ToolsOf(form)' = ToolsOf(form)
    BY <1>1, SameLadders
  <2> QED  BY <1>1, <2>2, <2>4, <2>5 DEF GivenUpProperly
<1>3. << >> \in Seq(OutputFile) /\ Len(<< >>) = 0 /\ 0 <= Limit(form)
  BY ConversionAssumption DEF Limit
<1>4. without' = without /\ late' \in BOOLEAN /\ tried' \in [FormNames -> SUBSET have]
  BY <1>1 DEF ConvInv, ConvTyped
<1>5. \A i \in 1 .. Len(<< >>) :
        << >>[i].size = "fit" /\ (form = "text" => << >>[i].ok)
  BY <1>3
<1>6. \A g \in FormNames \ {form} : tried'[g] = tried[g]
  BY <1>1
<1> QED  BY <1>1, <1>2, <1>3, <1>4, <1>5, <1>6, SettleKeeps

\* A form that was made and fits is written, or given up for want of the write.
LEMMA WrittenKeeps ==
  ASSUME ConvInv, NEW form \in {"text", "image"}, AtWork(form),
         NEW result \in OutputFile, result.size = "fit", form = "text" => result.ok,
         Written(form, <<result>>),
         UNCHANGED <<ext, have>>, late' \in BOOLEAN,
         tried' \in [FormNames -> SUBSET have],
         \A g \in FormNames \ {form} : tried'[g] = tried[g]
  PROVE  ConvInv'
<1> DEFINE out == <<result>>
<1>1. form \in FormNames /\ form \notin {"pages", "frames"}
  BY DEF FormNames
<1>2. /\ out \in Seq(OutputFile) /\ out # << >>
      /\ \A i \in 1 .. Len(out) : out[i].size = "fit" /\ (form = "text" => out[i].ok)
  OBVIOUS
<1>3. \/ Settle(form, out) /\ without' = without
      \/ Settle(form, << >>) /\ without' = without \cup {form}
  BY DEF Written
<1> HIDE DEF out
<1>4. CASE Settle(form, out) /\ without' = without
  <2>1. made'[form] # << >>
    BY <1>1, <1>2, <1>4 DEF Settle, ConvInv, ConvTyped
  <2>2. GivenUpProperly(form)'
    BY <2>1 DEF GivenUpProperly
  <2> QED  BY <1>1, <1>2, <1>4, <2>2, SettleKeeps
<1>5. CASE Settle(form, << >>) /\ without' = without \cup {form}
  <2>1. << >> \in Seq(OutputFile) /\ Len(<< >>) = 0
    OBVIOUS
  <2>2. GivenUpProperly(form)'
    BY <1>5 DEF GivenUpProperly
  <2>3. \A i \in 1 .. Len(<< >>) : << >>[i].size = "fit" /\ (form = "text" => << >>[i].ok)
    BY <2>1
  <2> QED  BY <1>1, <1>5, <2>1, <2>2, <2>3, SettleKeeps
<1> QED  BY <1>3, <1>4, <1>5

\* Text that came from a run that succeeded settles the text, one way or the
\* other.
LEMMA SettleTextKeeps ==
  ASSUME ConvInv, AtWork("text"), NEW size \in TextSizes, SettleText(File(size, TRUE)),
         UNCHANGED <<ext, have>>, late' \in BOOLEAN,
         tried' \in [FormNames -> SUBSET have],
         \A g \in FormNames \ {"text"} : tried'[g] = tried[g]
  PROVE  ConvInv'
<1>1. "text" \in FormNames
  BY DEF FormNames
<1>2. File(size, TRUE).ok = TRUE /\ File(size, TRUE).size = size
  BY DEF File
<1>3. PICK left \in Capped(size) :
        IF left \in {"empty", "blank"}
          THEN Settle("text", << >>) /\ without' = without \cup {"text"}
          ELSE Written("text", <<File(left, TRUE)>>)
  BY <1>2 DEF SettleText
<1>4. CASE left \in {"empty", "blank"}
  <2>1. << >> \in Seq(OutputFile) /\ Len(<< >>) = 0
    OBVIOUS
  <2>2. Settle("text", << >>) /\ without' = without \cup {"text"}
    BY <1>3, <1>4
  <2>3. GivenUpProperly("text")'
    BY <2>2 DEF GivenUpProperly
  <2>4. \A i \in 1 .. Len(<< >>) : << >>[i].size = "fit" /\ ("text" = "text" => << >>[i].ok)
    BY <2>1
  <2> QED  BY <1>1, <2>1, <2>2, <2>3, <2>4, SettleKeeps
<1>5. CASE left \notin {"empty", "blank"}
  <2>1. left = "fit"
    BY <1>3, <1>5 DEF Capped, TextSizes
  <2> DEFINE result == File("fit", TRUE)
  <2>2. result \in OutputFile /\ result.size = "fit" /\ result.ok
    BY DEF File, OutputFile, TextSizes
  <2>3. Written("text", <<result>>)
    BY <1>3, <1>5, <2>1
  <2> HIDE DEF result
  <2> QED  BY <2>2, <2>3, WrittenKeeps
<1> QED  BY <1>4, <1>5

LEMMA ConvertTextKeeps ==
  ASSUME ConvInv, ConvertText
  PROVE  ConvInv'
<1>1. /\ AtWork("text") /\ at \in 1 .. Len(Ladder("text")) /\ "text" \in FormNames
      /\ Ladder("text") = TextLadder(ext) /\ ext \in Classes /\ ConvTyped
  BY WorkingIs, LaddersAre DEF ConvertText, FormNames, ConvInv, ConvTyped
<1> DEFINE name == TextLadder(ext)[at].file
<1>2. PICK ok \in BOOLEAN :
        /\ Run("text", ok)
        /\ IF name = "stdout"
             THEN IF ok THEN \E size \in TextSizes : SettleText(File(size, ok))
                        ELSE Onward(ElseRung("text")) /\ UNCHANGED <<scratch, without>>
             ELSE \E left \in Leaves(name, TextSizes, ok) :
                    IF ok /\ left.size \notin {"none", "empty"}
                      THEN SettleText(left)
                      ELSE /\ scratch' = [scratch EXCEPT ![name] = left]
                           /\ Onward(ElseRung("text")) /\ UNCHANGED without
  BY DEF ConvertText
<1>3. /\ Ladder("text")[at].tool \in have
      /\ tried' \in [FormNames -> SUBSET have]
      /\ tried'["text"] = tried["text"] \cup {Ladder("text")[at].tool}
      /\ \A g \in FormNames \ {"text"} : tried'[g] = tried[g]
      /\ late' \in BOOLEAN /\ UNCHANGED <<ext, have>>
  BY <1>1, <1>2, RunIs
<1>4. name \in {"stdout", "txt", "csv"}
      /\ \A j \in 1 .. Len(TextLadder(ext)) :
           j # at /\ TextLadder(ext)[j].file = name => name = "stdout"
  BY <1>1, TextLadderIs
<1> HIDE DEF name
<1>5. ASSUME Onward(ElseRung("text")), UNCHANGED without,
             scratch' \in [ScratchNames -> OutputFile \cup {NoFileYet}],
             \A f \in ScratchNames : f # name \/ name = "stdout" => scratch'[f] = scratch[f]
      PROVE  ConvInv'
  <2>1. at' = ElseRung("text") /\ UNCHANGED <<todo, made, drawn, raw>>
    BY <1>5 DEF Onward
  <2>2. at' \in at + 1 .. Len(Ladder("text")) + 1
    BY <1>1, <2>1, ElseTools
  <2>3. ScratchFresh'
    <3>1. TextLadder(ext)' = TextLadder(ext)
      BY <1>3, SameLadders
    <3>2. ASSUME NEW i \in 1 .. Len(TextLadder(ext)), i >= at', TextLadder(ext)[i].file # "stdout"
          PROVE  scratch'[TextLadder(ext)[i].file] = NoFileYet
      <4>1. i > at /\ i >= at
        BY <1>1, <2>2, <3>2
      <4>2. scratch[TextLadder(ext)[i].file] = NoFileYet
        BY <1>1, <3>2, <4>1 DEF ConvInv, ScratchFresh
      <4>3. TextLadder(ext)[i].file \in ScratchNames
        BY <1>1, <3>2, TextLadderIs DEF ScratchNames
      <4>4. TextLadder(ext)[i].file # name \/ name = "stdout"
        BY <1>1, <1>4, <3>2, <4>1
      <4> QED  BY <1>5, <4>2, <4>3, <4>4
    <3> QED  BY <3>1, <3>2 DEF ScratchFresh
  <2>4. tried'["text"] = tried["text"] \cup (have \cap {Ladder("text")[at].tool})
    BY <1>3
  <2> QED  BY <1>1, <1>3, <1>5, <2>1, <2>3, <2>4, ClimbKeeps
<1>6. CASE name = "stdout" /\ ok
  <2>1. PICK size \in TextSizes : SettleText(File(size, TRUE))
    BY <1>2, <1>6
  <2> QED  BY <1>1, <1>3, <2>1, SettleTextKeeps
<1>7. CASE name = "stdout" /\ ~ok
  <2>1. Onward(ElseRung("text")) /\ UNCHANGED <<scratch, without>>
    BY <1>2, <1>7
  <2> QED  BY <1>5, <2>1 DEF ConvInv, ConvTyped
<1>8. CASE name # "stdout"
  <2>1. PICK left \in Leaves(name, TextSizes, ok) :
          IF ok /\ left.size \notin {"none", "empty"}
            THEN SettleText(left)
            ELSE /\ scratch' = [scratch EXCEPT ![name] = left]
                 /\ Onward(ElseRung("text")) /\ UNCHANGED without
    BY <1>2, <1>8
  <2>2. name \in ScratchNames
    BY <1>4, <1>8 DEF ScratchNames
  <2>3. /\ left \in OutputFile \cup {NoFileYet}
        /\ left = scratch[name] \/ \E size \in TextSizes : left = File(size, ok)
    BY <1>1, <2>1, <2>2, LeavesTyped
  <2>4. CASE ok /\ left.size \notin {"none", "empty"}
    <3>1. scratch[name] = NoFileYet
      BY <1>1, <1>8 DEF name, ConvInv, ScratchFresh
    <3>2. left # NoFileYet
      BY <2>4 DEF NoFileYet
    <3>3. PICK size \in TextSizes : left = File(size, TRUE)
      BY <2>3, <2>4, <3>1, <3>2
    <3> QED  BY <1>1, <1>3, <2>1, <2>4, <3>3, SettleTextKeeps
  <2>5. CASE ~(ok /\ left.size \notin {"none", "empty"})
    <3>1. /\ scratch' = [scratch EXCEPT ![name] = left]
          /\ Onward(ElseRung("text")) /\ UNCHANGED without
      BY <2>1, <2>5
    <3>2. scratch' \in [ScratchNames -> OutputFile \cup {NoFileYet}]
      BY <1>1, <2>3, <3>1 DEF ConvTyped
    <3> QED  BY <1>1, <1>5, <1>8, <3>1, <3>2 DEF ConvTyped
  <2> QED  BY <2>4, <2>5
<1> QED  BY <1>6, <1>7, <1>8

LEMMA ConvertImageKeeps ==
  ASSUME ConvInv, ConvertImage
  PROVE  ConvInv'
<1>1. /\ AtWork("image") /\ at \in 1 .. Len(Ladder("image")) /\ "image" \in FormNames
      /\ Ladder("image") = ImageLadder /\ ConvTyped
  BY WorkingIs, LaddersAre DEF ConvertImage, FormNames, ConvInv
<1> DEFINE name == ImageLadder[at].file
           Rest(ok) == IF name = "png" THEN {} ELSE Leaves(name, ImageSizes, FALSE)
<1>2. PICK ok \in BOOLEAN :
        /\ Run("image", ok)
        /\ \E left \in Leaves(name, ImageSizes, ok) \cup Rest(ok) :
             IF ok /\ left.size = "fit" /\ name # "png"
               THEN Written("image", <<left>>)
               ELSE /\ scratch' = [scratch EXCEPT ![name] = left]
                    /\ \E rung \in {at + 1, ElseRung("image")} : Onward(rung)
                    /\ without' = without
  BY DEF ConvertImage
<1>3. /\ tried' \in [FormNames -> SUBSET have]
      /\ tried'["image"] = tried["image"] \cup (have \cap {Ladder("image")[at].tool})
      /\ \A g \in FormNames \ {"image"} : tried'[g] = tried[g]
      /\ late' \in BOOLEAN /\ UNCHANGED <<ext, have>>
  BY <1>1, <1>2, RunIs
<1>4. name \in ScratchNames /\ ImageSizes \in SUBSET TextSizes
  BY <1>1, ImageLadderIs DEF ScratchNames, ImageSizes, TextSizes
<1>5. PICK left \in Leaves(name, ImageSizes, ok) \cup Rest(ok) :
        IF ok /\ left.size = "fit" /\ name # "png"
          THEN Written("image", <<left>>)
          ELSE /\ scratch' = [scratch EXCEPT ![name] = left]
               /\ \E rung \in {at + 1, ElseRung("image")} : Onward(rung)
               /\ without' = without
  BY <1>2
<1>6. /\ left \in OutputFile \cup {NoFileYet}
      /\ left.size # "none" => left \in OutputFile
  <2>1. \E b \in BOOLEAN : left \in Leaves(name, ImageSizes, b)
    BY <1>5
  <2> HIDE DEF name
  <2> QED  BY <1>1, <1>4, <2>1, LeavesTyped
<1> HIDE DEF name
<1>7. CASE ok /\ left.size = "fit" /\ name # "png"
  <2>1. left \in OutputFile /\ left.size = "fit"
    BY <1>6, <1>7
  <2>2. Written("image", <<left>>)
    BY <1>5, <1>7
  <2> QED  BY <1>1, <1>3, <2>1, <2>2, WrittenKeeps
<1>8. CASE ~(ok /\ left.size = "fit" /\ name # "png")
  <2>1. scratch' = [scratch EXCEPT ![name] = left] /\ without' = without
    BY <1>5, <1>8
  <2>2. at' \in {at + 1, ElseRung("image")} /\ UNCHANGED <<todo, made, drawn, raw>>
    BY <1>5, <1>8 DEF Onward
  <2>3. scratch' \in [ScratchNames -> OutputFile \cup {NoFileYet}]
    BY <1>1, <1>6, <2>1 DEF ConvTyped
  <2>4. ScratchFresh'
    BY <1>1, <2>2 DEF ScratchFresh, AtWork
  <2> QED  BY <1>1, <1>3, <2>1, <2>2, <2>3, <2>4, ClimbKeeps
<1> QED  BY <1>7, <1>8

-----------------------------------------------------------------------------
\* The pages and frames

\* Steps on the pages or frames touch nothing the other forms rely on.
LEMMA PicturesKeep ==
  ASSUME ConvInv, NEW form \in {"pages", "frames"}, AtWork(form),
         ConvTyped', OutputFits',
         Len(made'[form]) + Len(raw') <= Limit(form),
         at' > 0 => made'[form] = << >>,
         form = "frames" => at' = 0 /\ tried'["frames"] = have \cap ToolsOf("frames"),
         UNCHANGED <<ext, have, todo, without>>,
         \A g \in FormNames \ {form} : tried'[g] = tried[g] /\ made'[g] = made[g]
  PROVE  ConvInv'
<1>1. \A g \in {"text", "image", "pages", "frames"} : (AtWork(g) <=> g = form) /\ (AtWork(g)' <=> g = form)
  BY DEF AtWork
<1>2. form \in FormNames /\ \A g \in {"text", "image"} : g \in FormNames \ {form}
  BY DEF FormNames
<1>3. LadderClimbed'
  <2>1. ASSUME NEW g \in {"text", "image", "frames"}, g # form  PROVE GivenUpProperly(g)'
    <3>1. GivenUpProperly(g)
      BY <1>1, <2>1 DEF ConvInv, LadderClimbed
    <3>2. tried'[g] = tried[g] /\ made'[g] = made[g] /\ ToolsOf(g)' = ToolsOf(g)
      BY <2>1, SameLadders DEF FormNames
    <3> QED  BY <3>1, <3>2 DEF GivenUpProperly
  <2>2. ASSUME form = "frames"
        PROVE  at' \notin 1 .. Len(Ladder(form)') + 1 /\ at' \in -1 .. 0 /\ tried'[form] = have' \cap ToolsOf(form)'
    <3>1. ToolsOf(form)' = ToolsOf(form)
      BY SameLadders
    <3> QED  BY <2>2, <3>1
  <2> QED  BY <1>1, <2>1, <2>2 DEF LadderClimbed
<1>4. PicturesFew'
  <2>1. ASSUME NEW g \in {"pages", "frames"}, g # form
        PROVE  Len(made'[g]) <= Limit(g) /\ made'[g] = << >>
    <3>1. made'[g] = made[g] /\ todo # << >> /\ ~AtWork(g)
      BY <1>1, <2>1 DEF FormNames, AtWork
    <3> QED  BY <3>1 DEF ConvInv, PicturesFew
  <2>2. Len(made'[form]) <= Limit(form)
    <3>1. Len(made'[form]) \in Nat /\ Len(raw') \in Nat /\ Limit(form) \in Nat
      BY <1>2, ConversionAssumption DEF ConvTyped, Limit
    <3> QED  BY <3>1
  <2>3. \A g \in {"pages", "frames"} : Limit(g)' = Limit(g)
    BY DEF Limit
  <2> QED  BY <1>1, <2>1, <2>2, <2>3 DEF PicturesFew
<1>5. ScratchFresh'
  BY <1>1 DEF ScratchFresh
<1>6. TextGenuine'
  BY <1>2 DEF ConvInv, TextGenuine
<1> QED  BY <1>3, <1>4, <1>5, <1>6 DEF ConvInv

LEMMA FirstOfIs ==
  ASSUME NEW S, NEW files \in Seq(S), NEW limit \in Nat
  PROVE  FirstOf(files, limit) \in Seq(S) /\ Len(FirstOf(files, limit)) <= limit
<1> DEFINE n == IF Len(files) < limit THEN Len(files) ELSE limit
<1>1. n \in 0 .. Len(files) /\ n <= limit
  OBVIOUS
<1> HIDE DEF n
<1>2. SubSeq(files, 1, n) \in Seq(S) /\ Len(SubSeq(files, 1, n)) = n
  BY <1>1
<1> QED  BY <1>1, <1>2 DEF FirstOf, n

LEMMA DrawingsTyped ==
  ASSUME NEW ok \in BOOLEAN, NEW new \in Drawings(ok)
  PROVE  new \in Seq(OutputFile)
<1>1. PICK n \in Nat : new \in [1 .. n -> {File(size, ok) : size \in PageSizes}]
  <2>1. \A n \in (IF late THEN {0} ELSE 0 .. MaxDrawn) : n \in Nat
    BY ConversionAssumption
  <2> QED  BY <2>1 DEF Drawings
<1>2. \A size \in PageSizes : File(size, ok) \in OutputFile
  BY DEF File, OutputFile, PageSizes, TextSizes
<1>3. {File(size, ok) : size \in PageSizes} \subseteq OutputFile
  BY <1>2
<1> QED  BY <1>1, <1>3

LEMMA GlobbedTyped ==
  ASSUME ConvTyped, NEW name \in {"pg", "mg"}, NEW new \in Seq(OutputFile), NEW all \in Globbed(name, new)
  PROVE  all \in Seq(OutputFile)
<1> DEFINE old == drawn[name]
           rest == SubSeq(old, Len(new) + 1, Len(old))
<1>1. old \in Seq(OutputFile)
  BY DEF ConvTyped
<1>2. rest \in Seq(OutputFile)
  <2> HIDE DEF old
  <2> QED  BY <1>1
<1>3. all \in {new \o rest, new \o old, old \o new, old}
  BY DEF Globbed
<1> HIDE DEF old, rest
<1>4. new \o rest \in Seq(OutputFile)
  BY <1>2
<1>5. new \o old \in Seq(OutputFile) /\ old \o new \in Seq(OutputFile)
  BY <1>1
<1> QED  BY <1>1, <1>3, <1>4, <1>5

\* Of the pages that are found, no more than the limit are looked at.
LEMMA DrawPagesKeeps ==
  ASSUME ConvInv, DrawPages
  PROVE  ConvInv'
<1>1. /\ AtWork("pages") /\ at \in 1 .. 6 /\ "pages" \in FormNames /\ ConvTyped
      /\ UNCHANGED <<todo, made, scratch, without>>
  BY WorkingIs, LadderLengths DEF DrawPages, FormNames, ConvInv
<1> DEFINE name == PagesLadder[at].file
<1>2. PICK ok \in BOOLEAN :
        /\ Run("pages", ok)
        /\ name \in DOMAIN drawn
        /\ \E new \in Drawings(ok) : \E all \in Globbed(name, new) :
             /\ drawn' = [drawn EXCEPT ![name] = all]
             /\ IF ok /\ all # << >>
                  THEN raw' = FirstOf(all, MaxPages) /\ at' = 0
                  ELSE raw' = raw /\ at' = ElseRung("pages")
  BY Zenon DEF DrawPages
<1>3. /\ tried' \in [FormNames -> SUBSET have]
      /\ \A g \in FormNames \ {"pages"} : tried'[g] = tried[g]
      /\ late' \in BOOLEAN /\ UNCHANGED <<ext, have>>
  BY <1>1, <1>2, RunIs
<1>4. name \in {"pg", "mg"}
  BY <1>1, <1>2 DEF ConvTyped
<1> HIDE DEF name
<1>5a. PICK new \in Drawings(ok) : \E all \in Globbed(name, new) :
         /\ drawn' = [drawn EXCEPT ![name] = all]
         /\ IF ok /\ all # << >>
              THEN raw' = FirstOf(all, MaxPages) /\ at' = 0
              ELSE raw' = raw /\ at' = ElseRung("pages")
  BY <1>2
<1>5. PICK all \in Globbed(name, new) :
        /\ drawn' = [drawn EXCEPT ![name] = all]
        /\ IF ok /\ all # << >>
             THEN raw' = FirstOf(all, MaxPages) /\ at' = 0
             ELSE raw' = raw /\ at' = ElseRung("pages")
  BY <1>5a
<1>6. all \in Seq(OutputFile) /\ MaxPages \in Nat
  BY <1>1, <1>4, <1>5, DrawingsTyped, GlobbedTyped, ConversionAssumption
<1>7. at' \in 0 .. 7
  <2>1. ElseRung("pages") \in 1 .. 7
    BY <1>1 DEF ElseRung
  <2> QED  BY <1>5, <2>1
<1>8. made["pages"] = << >> /\ Len(raw) <= MaxPages /\ raw \in Seq(OutputFile)
  <2>1. made["pages"] = << >> /\ Len(made["pages"]) + Len(raw) <= MaxPages
    BY <1>1 DEF ConvInv, PicturesFew, AtWork, Limit
  <2>2. Len(made["pages"]) = 0 /\ raw \in Seq(OutputFile)
    BY <1>1, <2>1 DEF ConvTyped
  <2> QED  BY <2>1, <2>2
<1>9. raw' \in Seq(OutputFile) /\ Len(raw') <= MaxPages
  BY <1>5, <1>6, <1>8, FirstOfIs
<1>10. drawn' \in [{"pg", "mg"} -> Seq(OutputFile)]
  BY <1>1, <1>5, <1>6 DEF ConvTyped
<1>11. ConvTyped'
  <2>1. at' \in -1 .. 8
    BY <1>7
  <2> QED  BY <1>1, <1>3, <1>9, <1>10, <2>1 DEF ConvTyped
<1>12. Len(made'["pages"]) + Len(raw') <= Limit("pages")
  <2>1. Len(made'["pages"]) = 0 /\ Limit("pages") = MaxPages /\ Len(raw') \in Nat
    BY <1>1, <1>8, <1>9 DEF Limit
  <2> QED  BY <1>9, <2>1
<1>13. OutputFits'
  BY <1>1 DEF ConvInv, OutputFits
<1> QED  BY <1>1, <1>3, <1>8, <1>11, <1>12, <1>13, PicturesKeep

LEMMA ExportPagesKeeps ==
  ASSUME ConvInv, ExportPages
  PROVE  ConvInv'
<1>1. /\ AtWork("pages") /\ at \in 1 .. 6 /\ "pages" \in FormNames /\ ConvTyped
      /\ UNCHANGED <<todo, made, drawn, without>>
  BY WorkingIs, LadderLengths DEF ExportPages, FormNames, ConvInv
<1> DEFINE name == PagesLadder[at].file
<1>2. PICK ok \in BOOLEAN :
        /\ Run("pages", ok)
        /\ name \in DOMAIN scratch
        /\ \E left \in Leaves(name, ImageSizes, ok) :
             /\ scratch' = [scratch EXCEPT ![name] = left]
             /\ LET usable == ok /\ left.size \in {"fit", "big"} IN
                /\ at' = IF ~usable THEN ElseRung("pages") ELSE IF name = "pdf" THEN 4 ELSE 0
                /\ raw' = IF usable /\ name = "png" THEN <<left>> ELSE raw
  BY DEF ExportPages
<1>3. /\ tried' \in [FormNames -> SUBSET have]
      /\ \A g \in FormNames \ {"pages"} : tried'[g] = tried[g]
      /\ late' \in BOOLEAN /\ UNCHANGED <<ext, have>>
  BY <1>1, <1>2, RunIs
<1>4. name \in ScratchNames /\ ImageSizes \in SUBSET TextSizes
  BY <1>1, <1>2 DEF ConvTyped, ImageSizes, TextSizes
<1> HIDE DEF name
<1>5. PICK left \in Leaves(name, ImageSizes, ok) :
        /\ scratch' = [scratch EXCEPT ![name] = left]
        /\ LET usable == ok /\ left.size \in {"fit", "big"} IN
           /\ at' = IF ~usable THEN ElseRung("pages") ELSE IF name = "pdf" THEN 4 ELSE 0
           /\ raw' = IF usable /\ name = "png" THEN <<left>> ELSE raw
  BY <1>2
<1>6. left \in OutputFile \cup {NoFileYet} /\ (left.size # "none" => left \in OutputFile)
  BY <1>1, <1>4, <1>5, LeavesTyped
<1>7. at' \in 0 .. 7
  <2>1. ElseRung("pages") \in 1 .. 7
    BY <1>1 DEF ElseRung
  <2> QED  BY <1>5, <2>1
<1>8. raw' = raw \/ (raw' = <<left>> /\ left \in OutputFile)
  BY <1>5, <1>6
<1>9. scratch' \in [ScratchNames -> OutputFile \cup {NoFileYet}]
  BY <1>1, <1>5, <1>6 DEF ConvTyped
<1>10. ConvTyped'
  <2>1. raw' \in Seq(OutputFile)
    <3>1. raw \in Seq(OutputFile)
      BY <1>1 DEF ConvTyped
    <3>2. left \in OutputFile => <<left>> \in Seq(OutputFile)
      OBVIOUS
    <3> QED  BY <1>8, <3>1, <3>2
  <2>2. at' \in -1 .. 8
    BY <1>7
  <2> QED  BY <1>1, <1>3, <1>9, <2>1, <2>2 DEF ConvTyped
<1>11. made'["pages"] = << >> /\ Len(made'["pages"]) + Len(raw') <= Limit("pages")
  <2>1. made["pages"] = << >> /\ Len(made["pages"]) + Len(raw) <= Limit("pages")
    BY <1>1 DEF ConvInv, PicturesFew, AtWork
  <2>2. Len(<<left>>) = 1 /\ Len(made["pages"]) = 0 /\ 1 <= Limit("pages")
    BY <2>1, ConversionAssumption DEF Limit
  <2>3. CASE raw' = raw
    BY <1>1, <2>1, <2>3
  <2>4. CASE raw' = <<left>>
    BY <1>1, <2>1, <2>2, <2>4
  <2> QED  BY <1>8, <2>3, <2>4
<1>12. OutputFits'
  BY <1>1 DEF ConvInv, OutputFits
<1> QED  BY <1>1, <1>3, <1>10, <1>11, <1>12, PicturesKeep

\* One page or frame has been looked at: it becomes one of the form, or is
\* dropped.
LEMMA LookedKeeps ==
  ASSUME ConvInv, NEW form \in {"pages", "frames"}, Looking(form),
         raw' = Tail(raw), at' = 0,
         NEW picture \in OutputFile, picture.size = "fit",
         made' \in {made, [made EXCEPT ![form] = Append(@, picture)]},
         UNCHANGED <<ext, todo, have, scratch, drawn, without>>, late' \in BOOLEAN,
         tried' \in [FormNames -> SUBSET have],
         \A g \in FormNames \ {"pages"} : tried'[g] = tried[g],
         form = "frames" => tried' = tried
  PROVE  ConvInv'
<1>1. /\ AtWork(form) /\ at <= 0 /\ raw # << >> /\ raw \in Seq(OutputFile)
      /\ form \in FormNames /\ ConvTyped /\ made[form] \in Seq(OutputFile)
  BY DEF Looking, AtWork, FormNames, ConvInv, ConvTyped
<1> DEFINE longer == Append(made[form], picture)
<1>2. /\ longer \in Seq(OutputFile) /\ Len(longer) = Len(made[form]) + 1
      /\ \A i \in 1 .. Len(made[form]) : longer[i] = made[form][i]
      /\ longer[Len(made[form]) + 1] = picture
  BY <1>1
<1>3. made' = made \/ made' = [made EXCEPT ![form] = longer]
  OBVIOUS
<1> HIDE DEF longer
<1>4. /\ made' \in [FormNames -> Seq(OutputFile)] /\ made'[form] \in {made[form], longer}
      /\ \A g \in FormNames \ {form} : made'[g] = made[g]
  BY <1>1, <1>2, <1>3 DEF ConvTyped
<1>5. raw' \in Seq(OutputFile) /\ Len(raw') = Len(raw) - 1 /\ Len(raw) \in Nat
  BY <1>1
<1>6. ConvTyped'
  BY <1>1, <1>4, <1>5 DEF ConvTyped
<1>7. Len(made'[form]) + Len(raw') <= Limit(form)
  <2>1. Len(made[form]) + Len(raw) <= Limit(form) /\ Len(made[form]) \in Nat /\ Limit(form) \in Nat
    BY <1>1, ConversionAssumption DEF ConvInv, PicturesFew, Limit
  <2>2. Len(made'[form]) \in {Len(made[form]), Len(made[form]) + 1}
    BY <1>2, <1>4
  <2> QED  BY <1>5, <2>1, <2>2
<1>8. OutputFits'
  <2>1. ASSUME NEW g \in FormNames, NEW i \in 1 .. Len(made'[g])
        PROVE  made'[g][i].size = "fit"
    <3>1. CASE made'[g] = made[g]
      BY <3>1 DEF ConvInv, OutputFits
    <3>2. CASE g = form /\ made'[g] = longer
      <4>1. i \in 1 .. Len(made[form]) \/ i = Len(made[form]) + 1
        BY <1>1, <1>2, <3>2
      <4> QED  BY <1>1, <1>2, <3>2, <4>1 DEF ConvInv, OutputFits
    <3> QED  BY <1>4, <3>1, <3>2
  <2> QED  BY <2>1 DEF OutputFits
<1>9. form = "frames" => tried'["frames"] = have \cap ToolsOf("frames")
  <2> SUFFICES ASSUME form = "frames"  PROVE tried'["frames"] = have \cap ToolsOf("frames")
    OBVIOUS
  <2>1. at \notin 1 .. Len(Ladder("frames")) + 1
    BY <1>1
  <2>2. tried["frames"] = have \cap ToolsOf("frames")
    BY <1>1, <2>1 DEF ConvInv, LadderClimbed
  <2> QED  BY <1>1, <2>2
<1>10. \A g \in FormNames \ {form} : tried'[g] = tried[g]
  OBVIOUS
<1>11. \A g \in FormNames \ {form} : tried'[g] = tried[g] /\ made'[g] = made[g]
  BY <1>4, <1>10
<1>12. (at' > 0 => made'[form] = << >>) /\ (form = "frames" => at' = 0 /\ tried'["frames"] = have \cap ToolsOf("frames"))
  BY <1>9
<1> QED  BY <1>1, <1>6, <1>7, <1>8, <1>11, <1>12, PicturesKeep

LEMMA KeepPictureKeeps ==
  ASSUME ConvInv, NEW form, KeepPicture(form)
  PROVE  ConvInv'
<1>1. /\ form \in {"pages", "frames"} /\ Looking(form) /\ Head(raw).size = "fit"
      /\ raw' = Tail(raw) /\ at' = 0
      /\ made' \in {made, [made EXCEPT ![form] = Append(@, Head(raw))]}
      /\ UNCHANGED <<ext, todo, have, tried, late, scratch, drawn, without>>
  BY DEF KeepPicture, Keep
<1>2. /\ Head(raw) \in OutputFile /\ late' \in BOOLEAN
      /\ tried' \in [FormNames -> SUBSET have] /\ \A g \in FormNames \ {"pages"} : tried'[g] = tried[g]
  BY <1>1 DEF Looking, ConvInv, ConvTyped
<1> DEFINE picture == Head(raw)
<1>3. picture \in OutputFile /\ picture.size = "fit"
      /\ made' \in {made, [made EXCEPT ![form] = Append(@, picture)]}
  BY <1>1, <1>2
<1> HIDE DEF picture
<1> QED  BY <1>1, <1>2, <1>3, LookedKeeps

LEMMA SkippedKeeps ==
  ASSUME ConvInv, NEW form \in {"pages", "frames"}, Looking(form), Skip,
         UNCHANGED <<ext, todo, have, scratch, drawn, without>>, late' \in BOOLEAN,
         tried' \in [FormNames -> SUBSET have],
         \A g \in FormNames \ {"pages"} : tried'[g] = tried[g],
         form = "frames" => tried' = tried
  PROVE  ConvInv'
<1>1. File("fit", TRUE) \in OutputFile /\ File("fit", TRUE).size = "fit"
  BY DEF File, OutputFile, TextSizes
<1>2. raw' = Tail(raw) /\ at' = 0 /\ made' = made
  BY DEF Skip
<1>3. PICK picture \in OutputFile : picture.size = "fit"
  BY <1>1
<1> QED  BY <1>2, <1>3, LookedKeeps

LEMMA SkipFrameKeeps ==
  ASSUME ConvInv, SkipFrame
  PROVE  ConvInv'
<1>1. /\ Looking("frames") /\ Skip
      /\ UNCHANGED <<ext, todo, have, tried, late, scratch, drawn, without>>
  BY DEF SkipFrame
<1>2. late' \in BOOLEAN /\ tried' \in [FormNames -> SUBSET have]
  BY <1>1 DEF ConvInv, ConvTyped
<1> QED  BY <1>1, <1>2, SkippedKeeps

\* A page that does not fit is dropped, kept when magick's output fits, or
\* goes to the smaller step.
LEMMA ShrinkPageKeeps ==
  ASSUME ConvInv, ShrinkPage
  PROVE  ConvInv'
<1>1. /\ Looking("pages") /\ UNCHANGED <<ext, todo, have, scratch, drawn, without>>
      /\ late' \in {late, TRUE} /\ tried' = [tried EXCEPT !["pages"] = @ \cup ({"magick"} \cap have)]
      /\ AtWork("pages") /\ "pages" \in FormNames /\ ConvTyped
  BY DEF ShrinkPage, Looking, AtWork, FormNames, ConvInv
<1>2. /\ tried' \in [FormNames -> SUBSET have] /\ late' \in BOOLEAN
      /\ \A g \in FormNames \ {"pages"} : tried'[g] = tried[g]
  BY <1>1 DEF ConvTyped
<1>3. \/ Skip
      \/ Keep("pages", File("fit", Head(raw).ok))
      \/ at' = -1 /\ UNCHANGED <<raw, made>>
  BY DEF ShrinkPage
<1>4. CASE Skip
  BY <1>1, <1>2, <1>4, SkippedKeeps
<1>5. CASE Keep("pages", File("fit", Head(raw).ok))
  <2> DEFINE picture == File("fit", Head(raw).ok)
  <2>1. Head(raw) \in OutputFile
    BY <1>1 DEF Looking, ConvTyped
  <2>2. picture \in OutputFile /\ picture.size = "fit"
    BY <2>1 DEF File, OutputFile, TextSizes
  <2>3. /\ raw' = Tail(raw) /\ at' = 0
        /\ made' \in {made, [made EXCEPT !["pages"] = Append(@, picture)]}
    BY <1>5 DEF Keep
  <2> HIDE DEF picture
  <2> QED  BY <1>1, <1>2, <2>2, <2>3, LookedKeeps
<1>6. CASE at' = -1 /\ UNCHANGED <<raw, made>>
  <2>1. at' \in -1 .. 8
    BY <1>6
  <2>2. ConvTyped'
    BY <1>1, <1>2, <1>6, <2>1 DEF ConvTyped
  <2>3. OutputFits' /\ Len(made'["pages"]) + Len(raw') <= Limit("pages")
    BY <1>1, <1>6 DEF ConvInv, OutputFits, PicturesFew
  <2>4. ~(at' > 0)
    BY <1>6
  <2> QED  BY <1>1, <1>2, <1>6, <2>2, <2>3, <2>4, PicturesKeep
<1> QED  BY <1>3, <1>4, <1>5, <1>6

\* Of the frames that are found, no more than the limit are looked at.
LEMMA ExtractFramesKeeps ==
  ASSUME ConvInv, ExtractFrames
  PROVE  ConvInv'
<1>1. /\ AtWork("frames") /\ at = 1 /\ "frames" \in FormNames /\ ConvTyped /\ without' = without
  <2>1. AtWork("frames") /\ at \in 1 .. Len(Ladder("frames")) /\ without' = without
    BY WorkingIs DEF ExtractFrames
  <2>2. Len(Ladder("frames")) = 1
    BY LaddersAre
  <2>3. at = 1
    BY <2>1, <2>2
  <2> QED  BY <2>1, <2>3 DEF FormNames, ConvInv
<1>2. PICK ok \in BOOLEAN :
        /\ Run("frames", ok)
        /\ IF ok
             THEN /\ \E new \in Drawings(ok) : raw' = FirstOf(new, MaxFrames)
                  /\ at' = 0 /\ UNCHANGED <<todo, scratch, drawn, made>>
             ELSE Settle("frames", << >>)
  BY DEF ExtractFrames
<1>3. /\ tried' \in [FormNames -> SUBSET have] /\ Ladder("frames")[1].tool \in have
      /\ tried'["frames"] = tried["frames"] \cup {Ladder("frames")[1].tool}
      /\ \A g \in FormNames \ {"frames"} : tried'[g] = tried[g]
      /\ late' \in BOOLEAN /\ UNCHANGED <<ext, have>>
  BY <1>1, <1>2, RunIs
<1>4. tried'["frames"] = have \cap ToolsOf("frames") /\ ToolsOf("frames")' = ToolsOf("frames")
  <2>1. Len(Ladder("frames")) = 1
    BY LaddersAre
  <2>2. tried["frames"] = have \cap ToolsBefore("frames", 1)
    BY <1>1, <2>1 DEF ConvInv, LadderClimbed
  <2>3. ToolsBefore("frames", 1) = {} /\ ToolsOf("frames") = {Ladder("frames")[1].tool}
    BY <2>1 DEF ToolsBefore, ToolsOf
  <2> QED  BY <1>3, <2>2, <2>3, SameLadders
<1>5. CASE ok
  <2>1. PICK new \in Drawings(ok) : raw' = FirstOf(new, MaxFrames)
    BY <1>2, <1>5
  <2>2. at' = 0 /\ UNCHANGED <<todo, scratch, drawn, made>>
    BY <1>2, <1>5
  <2>3. raw' \in Seq(OutputFile) /\ Len(raw') <= MaxFrames
    <3>1. new \in Seq(OutputFile) /\ MaxFrames \in Nat
      BY <2>1, DrawingsTyped, ConversionAssumption
    <3> QED  BY <2>1, <3>1, FirstOfIs
  <2>4. ConvTyped'
    BY <1>1, <1>3, <2>2, <2>3 DEF ConvTyped
  <2>5. Len(made'["frames"]) + Len(raw') <= Limit("frames")
    <3>1. made["frames"] = << >>
      BY <1>1 DEF ConvInv, PicturesFew, AtWork
    <3>2. Len(made'["frames"]) = 0 /\ Limit("frames") = MaxFrames /\ Len(raw') \in Nat
      BY <2>2, <2>3, <3>1 DEF Limit
    <3> QED  BY <2>3, <3>2
  <2>6. OutputFits' /\ ~(at' > 0)
    BY <2>2 DEF ConvInv, OutputFits
  <2> QED  BY <1>1, <1>3, <1>4, <2>2, <2>4, <2>5, <2>6, PicturesKeep
<1>6. CASE ~ok
  <2>1. << >> \in Seq(OutputFile) /\ Len(<< >>) = 0 /\ 0 <= Limit("frames")
    BY ConversionAssumption DEF Limit
  <2>2. GivenUpProperly("frames")'
    BY <1>3, <1>4 DEF GivenUpProperly
  <2>3. \A i \in 1 .. Len(<< >>) : << >>[i].size = "fit" /\ ("frames" = "text" => << >>[i].ok)
    BY <2>1
  <2>4. Settle("frames", << >>)
    BY <1>2, <1>6
  <2> QED  BY <1>1, <1>3, <2>1, <2>2, <2>3, <2>4, SettleKeeps
<1> QED  BY <1>5, <1>6

LEMMA PicturesDoneKeeps ==
  ASSUME ConvInv, NEW form, PicturesDone(form)
  PROVE  ConvInv'
<1>1. /\ form \in {"pages", "frames"} /\ AtWork(form) /\ at = 0 /\ Settle(form, made[form])
      /\ form \in FormNames /\ ConvTyped /\ UNCHANGED <<ext, have, tried, late, without>>
  BY DEF PicturesDone, AtWork, FormNames, ConvInv
<1> DEFINE out == made[form]
<1>2. /\ out \in Seq(OutputFile) /\ Len(out) <= Limit(form) /\ Settle(form, out)
      /\ \A i \in 1 .. Len(out) : out[i].size = "fit" /\ (form = "text" => out[i].ok)
  BY <1>1 DEF ConvInv, ConvTyped, PicturesFew, OutputFits
<1>3. without' = without /\ late' \in BOOLEAN /\ tried' \in [FormNames -> SUBSET have]
      /\ \A g \in FormNames \ {form} : tried'[g] = tried[g]
  BY <1>1 DEF ConvTyped
<1>4. form = "frames" => GivenUpProperly(form)'
  <2> SUFFICES ASSUME form = "frames"  PROVE GivenUpProperly(form)'
    OBVIOUS
  <2>1. at \notin 1 .. Len(Ladder("frames")) + 1
    BY <1>1
  <2>2. tried["frames"] = have \cap ToolsOf("frames") /\ ToolsOf("frames")' = ToolsOf("frames")
    BY <1>1, <2>1, SameLadders DEF ConvInv, LadderClimbed
  <2> QED  BY <1>1, <2>2 DEF GivenUpProperly
<1> HIDE DEF out
<1> QED  BY <1>1, <1>2, <1>3, <1>4, SettleKeeps

-----------------------------------------------------------------------------
\* Conversion: the invariant and what it says

LEMMA ConvInitHolds ==
  ASSUME ConvInit
  PROVE  ConvInv
<1> USE ConversionAssumption
<1>1. todo \in Todos
  BY DEF ConvInit, FormsOf, Classes, Todos, FormNames
<1>2. ConvTyped
  <2>1. << >> \in Seq(OutputFile) /\ at = 1 /\ late = FALSE /\ without = {}
    BY DEF ConvInit
  <2>2. tried \in [FormNames -> SUBSET have]
    <3>1. tried = [f \in FormNames |-> {}] /\ {} \in SUBSET have
      BY DEF ConvInit
    <3> QED  BY <3>1
  <2>3. scratch \in [ScratchNames -> OutputFile \cup {NoFileYet}]
    BY DEF ConvInit, ScratchNames
  <2>4. drawn \in [{"pg", "mg"} -> Seq(OutputFile)] /\ raw \in Seq(OutputFile)
    <3>1. drawn = [t \in {"pg", "mg"} |-> << >>] /\ raw = << >>
      BY DEF ConvInit
    <3> QED  BY <2>1, <3>1
  <2>5. made \in [FormNames -> Seq(OutputFile)]
    <3>1. made = [f \in FormNames |-> << >>]
      BY DEF ConvInit
    <3> QED  BY <2>1, <3>1
  <2>6. ext \in Classes
    BY DEF ConvInit
  <2>7. late \in BOOLEAN /\ without \in SUBSET FormNames
    BY <2>1
  <2>8. at \in -1 .. 8
    BY <2>1
  <2> QED  BY <1>1, <2>2, <2>3, <2>4, <2>5, <2>6, <2>7, <2>8 DEF ConvTyped
<1>3. LadderClimbed
  <2>1. ASSUME NEW g \in {"text", "image", "frames"}
        PROVE  /\ tried[g] = {} /\ made[g] = << >> /\ ToolsBefore(g, 1) = {}
               /\ 1 \in 1 .. Len(Ladder(g)) + 1
    <3>1. Len(Ladder(g)) \in Nat
      BY <1>2, LadderLengths
    <3> QED  BY <3>1 DEF ConvInit, FormNames, ToolsBefore
  <2>2. at = 1
    BY DEF ConvInit
  <2> QED  BY <2>1, <2>2 DEF LadderClimbed, GivenUpProperly
<1>4. PicturesFew
  <2>1. {"pages", "frames"} \subseteq FormNames /\ Len(<< >>) = 0
    BY DEF FormNames
  <2>2. raw = << >> /\ made = [f \in FormNames |-> << >>]
    BY DEF ConvInit
  <2> QED  BY <2>1, <2>2 DEF PicturesFew, Limit
<1>5. \A g \in FormNames : made[g] = << >>
  BY DEF ConvInit
<1>6. OutputFits
  BY <1>5 DEF OutputFits, FormNames
<1>7. TextGenuine
  BY <1>5 DEF TextGenuine, FormNames
<1>8. ScratchFresh
  <2>1. \A i \in 1 .. Len(TextLadder(ext)) :
          TextLadder(ext)[i].file # "stdout" => TextLadder(ext)[i].file \in ScratchNames
    BY <1>2, TextLadderIs DEF ConvTyped, ScratchNames
  <2> QED  BY <2>1 DEF ConvInit, ScratchFresh, ScratchNames
<1> QED  BY <1>2, <1>3, <1>4, <1>6, <1>7, <1>8 DEF ConvInv

LEMMA ConvNextKeeps ==
  ASSUME ConvInv, [ConvNext]_convVars
  PROVE  ConvInv'
<1>1. CASE UNCHANGED convVars
  <2>1. UNCHANGED <<ext, todo, at, have, tried, late, scratch, drawn, raw, made, without>>
    BY <1>1 DEF convVars
  <2>2. \A g : Ladder(g)' = Ladder(g) /\ ToolsOf(g)' = ToolsOf(g)
    BY <2>1, SameLadders
  <2>3. LadderClimbed'
    BY <2>1, <2>2 DEF ConvInv, LadderClimbed, GivenUpProperly, AtWork, ToolsBefore
  <2>4. ScratchFresh'
    <3>1. TextLadder(ext)' = TextLadder(ext)
      BY <2>1, SameLadders
    <3> QED  BY <2>1, <3>1 DEF ConvInv, ScratchFresh, AtWork
  <2>5. ConvTyped' /\ OutputFits' /\ TextGenuine'
    BY <2>1 DEF ConvInv, ConvTyped, OutputFits, TextGenuine
  <2>6. PicturesFew'
    BY <2>1 DEF ConvInv, PicturesFew, AtWork, Limit
  <2> QED  BY <2>3, <2>4, <2>5, <2>6 DEF ConvInv
<1>2. CASE \E f \in FormNames : Missing(f) \/ GiveUp(f) \/ KeepPicture(f) \/ PicturesDone(f)
  BY <1>2, MissingKeeps, GiveUpKeeps, KeepPictureKeeps, PicturesDoneKeeps
<1>3. CASE ConvertText
  BY <1>3, ConvertTextKeeps
<1>4. CASE ConvertImage
  BY <1>4, ConvertImageKeeps
<1>5. CASE DrawPages
  BY <1>5, DrawPagesKeeps
<1>6. CASE ExportPages
  BY <1>6, ExportPagesKeeps
<1>7. CASE ShrinkPage
  BY <1>7, ShrinkPageKeeps
<1>8. CASE SkipFrame
  BY <1>8, SkipFrameKeeps
<1>9. CASE ExtractFrames
  BY <1>9, ExtractFramesKeeps
<1> QED  BY <1>1, <1>2, <1>3, <1>4, <1>5, <1>6, <1>7, <1>8, <1>9 DEF ConvNext

THEOREM ConvTypeCorrect == ConvSpec => []ConvInv
<1>1. ConvInit => ConvInv
  BY ConvInitHolds
<1>2. ConvInv /\ [ConvNext]_convVars => ConvInv'
  BY ConvNextKeeps
<1> QED  BY <1>1, <1>2, PTL DEF ConvSpec

\* However many files the tools leave, of whatever size, beside whatever an
\* earlier run left, and whenever the deadline strikes, a form that comes out
\* of prepEntry has no empty page, none over its limit and not too many.
THEOREM FormsAreBounded == ConvSpec => []OutputBounded
<1>1. ConvInv => OutputBounded
  BY DEF ConvInv, PicturesFew, Limit, OutputFits, OutputBounded
<1> QED  BY <1>1, ConvTypeCorrect, PTL

\* Text left behind by a run that failed is never taken for the text of the
\* file: no two rungs of a ladder write to the same name.
THEOREM TextIsGenuine == ConvSpec => []TextGenuine
<1>1. ConvInv => TextGenuine
  BY DEF ConvInv
<1> QED  BY <1>1, ConvTypeCorrect, PTL

\* A form is missing only when every tool that could have made it was run.
THEOREM LaddersAreTried == ConvSpec => []LadderTried
<1>1. ConvInv => LadderTried
  <2> SUFFICES ASSUME ConvInv, todo = << >>  PROVE LadderTried
    BY DEF LadderTried
  <2>1. \A f \in {"text", "image", "frames"} : GivenUpProperly(f)
    BY DEF ConvInv, LadderClimbed, AtWork
  <2> QED  BY <2>1 DEF LadderTried, GivenUpProperly
<1> QED  BY <1>1, ConvTypeCorrect, PTL

-----------------------------------------------------------------------------
\* The lines of a text

LEMMA CountFinite ==
  \A m \in Nat : \A S \in SUBSET (1 .. m) : IsFiniteSet(S) /\ Cardinality(S) \in Nat
<1> SUFFICES ASSUME NEW m \in Nat, NEW S \in SUBSET (1 .. m)
             PROVE  IsFiniteSet(S) /\ Cardinality(S) \in Nat
  OBVIOUS
<1>1. 1 \in Int /\ m \in Int
  OBVIOUS
<1> QED  BY <1>1, PartFinite

\* Counting from the left, the count takes every value at an element.
LEMMA NthElement ==
  ASSUME NEW m \in Nat, NEW S \in SUBSET (1 .. m), NEW n \in 1 .. Cardinality(S)
  PROVE  \E i \in S : Cardinality(S \cap 1 .. i) = n
<1> DEFINE Upto(i) == S \cap 1 .. i
           Enough  == {i \in 0 .. m : Cardinality(Upto(i)) >= n}
<1>1. \A i \in 0 .. m : IsFiniteSet(Upto(i)) /\ Cardinality(Upto(i)) \in Nat
  <2> SUFFICES ASSUME NEW i \in 0 .. m
               PROVE  IsFiniteSet(Upto(i)) /\ Cardinality(Upto(i)) \in Nat
    OBVIOUS
  <2>1. Upto(i) \in SUBSET (1 .. i) /\ i \in Nat
    OBVIOUS
  <2> HIDE DEF Upto
  <2> QED  BY <2>1, CountFinite
<1>2. Upto(m) = S /\ Upto(0) = {}
  <2>1. \A x : x \notin 1 .. 0
    OBVIOUS
  <2>2. \A x \in S : x \in 1 .. m
    OBVIOUS
  <2> QED  BY <2>1, <2>2, Zenon
<1>3. m \in Enough /\ Enough \in SUBSET Nat
  <2>1. n <= Cardinality(S)
    OBVIOUS
  <2> QED  BY <1>1, <1>2, <2>1
<1>4. PICK i \in Enough : \A j \in Enough : i <= j
  <2> HIDE DEF Enough
  <2> QED  BY <1>3, LeastOf
<1>5. i # 0
  <2>1. Cardinality(Upto(0)) = 0
    BY <1>2, FS_EmptySet
  <2> QED  BY <1>4, <2>1
<1>6. i - 1 \in 0 .. m /\ i - 1 \notin Enough /\ i \in 1 .. m
  BY <1>4, <1>5
<1>7. Cardinality(Upto(i - 1)) < n /\ Cardinality(Upto(i)) >= n
  <2>1. Cardinality(Upto(i - 1)) \in Nat /\ n \in Int
    BY <1>1, <1>6
  <2>2. ~(Cardinality(Upto(i - 1)) >= n)
    BY <1>6
  <2> HIDE DEF Upto
  <2> QED  BY <1>4, <2>1, <2>2
<1>8. CASE i \notin S
  <2>1. Upto(i - 1) = Upto(i)
    BY <1>6, <1>8
  <2> QED  BY <1>1, <1>6, <1>7, <2>1
<1>9. CASE i \in S
  <2>1. Upto(i) = Upto(i - 1) \cup {i} /\ i \notin Upto(i - 1)
    BY <1>6, <1>9
  <2>2. Cardinality(Upto(i)) = Cardinality(Upto(i - 1)) + 1
    <3> HIDE DEF Upto
    <3> QED  BY <1>1, <1>6, <2>1, FS_AddElement
  <2>3. Cardinality(Upto(i)) = n
    <3> HIDE DEF Upto
    <3> QED  BY <1>1, <1>6, <1>7, <2>2
  <2> QED  BY <1>9, <2>3
<1> QED  BY <1>8, <1>9

Bytes == Seq({LF, Char})

Feed(text_, i) == i > Len(text_) \/ text_[i] = LF

\* The n-th line of a text, as Lines chooses it.
IsFirst(text_, n, i) == i \in Starts(text_) /\ Cardinality(Starts(text_) \cap 1 .. i) = n

IsLast(text_, i, k) ==
  k \in i - 1 .. Len(text_) /\ Feed(text_, k + 1) /\ \A j \in i .. k : ~Feed(text_, j)

LEMMA StartsAre ==
  ASSUME NEW text_ \in Bytes
  PROVE  /\ Starts(text_) \in SUBSET (1 .. Len(text_)) /\ Len(text_) \in Nat
         /\ IsFiniteSet(Starts(text_)) /\ Cardinality(Starts(text_)) \in Nat
         /\ \A i \in Starts(text_) : i = 1 \/ text_[i - 1] = LF
<1>1. Len(text_) \in Nat
  BY DEF Bytes
<1>2. Starts(text_) \in SUBSET (1 .. Len(text_))
  BY <1>1 DEF Starts
<1>3. \A i \in Starts(text_) : i = 1 \/ text_[i - 1] = LF
  BY <1>1 DEF Starts
<1> QED  BY <1>1, <1>2, <1>3, CountFinite

LEMMA LineExists ==
  ASSUME NEW text_ \in Bytes, NEW n \in 1 .. Cardinality(Starts(text_))
  PROVE  /\ \E i \in Starts(text_) : IsFirst(text_, n, i)
         /\ \A i \in Starts(text_) : \E k \in i - 1 .. Len(text_) : IsLast(text_, i, k)
<1> USE StartsAre
<1>1. \E i \in Starts(text_) : IsFirst(text_, n, i)
  BY NthElement DEF IsFirst
<1>2. ASSUME NEW i \in Starts(text_)
      PROVE  \E k \in i - 1 .. Len(text_) : IsLast(text_, i, k)
  <2> DEFINE Feeds == {j \in i .. Len(text_) + 1 : Feed(text_, j)}
  <2>1. i \in 1 .. Len(text_)
    OBVIOUS
  <2>2. Len(text_) + 1 \in Feeds /\ Feeds \in SUBSET Nat
    BY <2>1 DEF Feed
  <2>3. PICK j \in Feeds : \A l \in Feeds : j <= l
    <3> HIDE DEF Feeds
    <3> QED  BY <2>2, LeastOf
  <2>4. j - 1 \in i - 1 .. Len(text_) /\ Feed(text_, (j - 1) + 1)
    BY <2>1, <2>3
  <2>5. \A l \in i .. j - 1 : ~Feed(text_, l)
    BY <2>1, <2>3
  <2> QED  BY <2>4, <2>5 DEF IsLast
<1> QED  BY <1>1, <1>2

LEMMA LinesAre ==
  ASSUME NEW text_ \in Bytes
  PROVE  /\ DOMAIN Lines(text_) = 1 .. Cardinality(Starts(text_))
         /\ \A n \in 1 .. Cardinality(Starts(text_)) :
              /\ Lines(text_)[n] = [from |-> Lines(text_)[n].from, to |-> Lines(text_)[n].to]
              /\ IsFirst(text_, n, Lines(text_)[n].from)
              /\ IsLast(text_, Lines(text_)[n].from, Lines(text_)[n].to)
<1> DEFINE First_(n) == CHOOSE i \in Starts(text_) : Cardinality(Starts(text_) \cap 1 .. i) = n
           Last_(i)  == CHOOSE k \in i - 1 .. Len(text_) :
                          Feed(text_, k + 1) /\ \A j \in i .. k : ~Feed(text_, j)
<1>1. Lines(text_) = [n \in 1 .. Cardinality(Starts(text_)) |->
                        [from |-> First_(n), to |-> Last_(First_(n))]]
  BY Zenon DEF Lines, Feed
<1>2. ASSUME NEW n \in 1 .. Cardinality(Starts(text_))
      PROVE  IsFirst(text_, n, First_(n)) /\ IsLast(text_, First_(n), Last_(First_(n)))
  <2>1. \E i \in Starts(text_) : Cardinality(Starts(text_) \cap 1 .. i) = n
    BY LineExists DEF IsFirst
  <2>2. IsFirst(text_, n, First_(n))
    BY <2>1 DEF IsFirst
  <2> DEFINE i == First_(n)
  <2>3. i \in Starts(text_)
    BY <2>2 DEF IsFirst
  <2> HIDE DEF i
  <2>4. \E k \in i - 1 .. Len(text_) : Feed(text_, k + 1) /\ \A j \in i .. k : ~Feed(text_, j)
    BY <2>3, LineExists DEF IsLast
  <2>5. IsLast(text_, i, Last_(i))
    BY <2>4 DEF IsLast
  <2> QED  BY <2>2, <2>5 DEF i
<1> HIDE DEF First_, Last_
<1>3. \A n \in 1 .. Cardinality(Starts(text_)) :
        Lines(text_)[n].from = First_(n) /\ Lines(text_)[n].to = Last_(First_(n))
  BY <1>1
<1> QED  BY <1>1, <1>2, <1>3

LEMMA LinesTyped ==
  ASSUME NEW text_ \in Bytes
  PROVE  /\ Lines(text_) \in Seq([from : Nat \ {0}, to : Nat])
         /\ Len(Lines(text_)) = Cardinality(Starts(text_))
         /\ \A n \in 1 .. Len(Lines(text_)) : Lines(text_)[n].to - Lines(text_)[n].from + 1 \in Nat
         /\ \A m, n \in 1 .. Len(Lines(text_)) :
              m <= n => Lines(text_)[m].to <= Lines(text_)[n].to
<1> DEFINE c == Cardinality(Starts(text_))
           l == Lines(text_)
<1>1. /\ DOMAIN l = 1 .. c /\ c \in Nat /\ Len(text_) \in Nat
      /\ \A n \in 1 .. c : /\ l[n] = [from |-> l[n].from, to |-> l[n].to]
                           /\ IsFirst(text_, n, l[n].from)
                           /\ IsLast(text_, l[n].from, l[n].to)
  BY LinesAre, StartsAre
<1>2. l = [n \in 1 .. c |-> l[n]]
  BY DEF Lines
<1>3. \A n \in 1 .. c : /\ l[n].from \in Starts(text_) /\ l[n].from \in 1 .. Len(text_)
                        /\ l[n].to \in l[n].from - 1 .. Len(text_)
  BY <1>1, StartsAre DEF IsFirst, IsLast
<1> HIDE DEF l
<1>4. \A n \in 1 .. c : l[n] \in [from : Nat \ {0}, to : Nat]
  <2> SUFFICES ASSUME NEW n \in 1 .. c  PROVE l[n] \in [from : Nat \ {0}, to : Nat]
    OBVIOUS
  <2>1. l[n].from \in Nat \ {0} /\ l[n].to \in Nat
    BY <1>1, <1>3
  <2>2. l[n] = [from |-> l[n].from, to |-> l[n].to]
    BY <1>1
  <2> QED  BY <2>1, <2>2
<1>5. l \in Seq([from : Nat \ {0}, to : Nat]) /\ Len(l) = c
  <2> HIDE DEF c
  <2>1. l \in [1 .. c -> [from : Nat \ {0}, to : Nat]]
    BY <1>2, <1>4
  <2>2. \A R : \A f \in [1 .. c -> R] : f \in Seq(R) /\ Len(f) = c
    BY <1>1
  <2> QED  BY <2>1, <2>2
<1>6. ASSUME NEW m \in 1 .. c, NEW n \in 1 .. c, m < n
      PROVE  l[m].from < l[n].from
  <2>1. CASE l[n].from <= l[m].from
    <3> DEFINE U == Starts(text_) \cap 1 .. l[m].from
               V == Starts(text_) \cap 1 .. l[n].from
    <3>1. Cardinality(U) = m /\ Cardinality(V) = n
      BY <1>1 DEF IsFirst
    <3>2. V \in SUBSET U
      BY <1>1, <1>3, <2>1
    <3>3. IsFiniteSet(U)
      <4>1. U \in SUBSET (1 .. l[m].from) /\ l[m].from \in Nat
        BY <1>1, <1>3
      <4> HIDE DEF U
      <4> QED  BY <4>1, CountFinite
    <3>4. Cardinality(V) <= Cardinality(U)
      <4> HIDE DEF U, V
      <4> QED  BY <3>2, <3>3, FS_Subset
    <3> HIDE DEF U, V
    <3> QED  BY <1>1, <1>6, <3>1, <3>4
  <2> QED  BY <1>1, <1>3, <2>1
<1>7. ASSUME NEW m \in 1 .. c, NEW n \in 1 .. c, m < n
      PROVE  l[m].to <= l[n].to
  <2> DEFINE j == l[n].from - 1
  <2>1. l[m].from < l[n].from
    BY <1>6, <1>7
  <2>2. /\ l[n].from \in Starts(text_) /\ l[n].from \in Nat /\ l[m].from \in Nat \ {0}
        /\ l[m].to \in Int /\ l[n].to \in Int /\ l[n].to >= j
    BY <1>1, <1>3
  <2>3. text_[j] = LF
    <3>1. l[n].from # 1
      BY <2>1, <2>2
    <3> QED  BY <2>2, <3>1, StartsAre
  <2>4. \A k \in l[m].from .. l[m].to : ~Feed(text_, k)
    BY <1>1 DEF IsLast
  <2>5. j \notin l[m].from .. l[m].to
    BY <2>3, <2>4 DEF Feed
  <2>6. j >= l[m].from /\ j \in Int
    BY <2>1, <2>2
  <2> HIDE DEF j
  <2> QED  BY <2>2, <2>5, <2>6
<1>8. \A n \in 1 .. c : l[n].to - l[n].from + 1 \in Nat
  BY <1>1, <1>3
<1>9. \A m, n \in 1 .. c : m <= n => l[m].to <= l[n].to
  <2>1. \A m, n \in 1 .. c : m = n \/ m < n \/ n < m
    BY <1>1
  <2>2. \A n \in 1 .. c : l[n].to \in Int
    BY <1>1, <1>3
  <2> QED  BY <1>1, <1>7, <2>1, <2>2
<1> QED  BY <1>5, <1>8, <1>9 DEF l

\* Each line feed ends a line, and so does the end of a text without one.
LEMMA LinesCounted ==
  ASSUME NEW text_ \in Bytes
  PROVE  Cardinality(Starts(text_)) = CountTextLines(text_)
<1> DEFINE size  == Len(text_)
           Feeds == {k \in 1 .. size : text_[k] = LF}
           Early == {k \in 1 .. size - 1 : text_[k] = LF}
           Later == {k + 1 : k \in Early}
<1>1. size \in Nat
  BY DEF Bytes
<1>2. CASE size = 0
  <2>1. text_ = << >>
    BY <1>2 DEF Bytes
  <2>2. Starts(text_) = {}
    BY <1>2, StartsAre
  <2> QED  BY <2>1, <2>2, FS_EmptySet DEF CountTextLines
<1>3. CASE size # 0
  <2>1. text_ # << >>
    BY <1>3
  <2>2. Starts(text_) = Later \cup {1} /\ 1 \notin Later
    BY <1>1, <1>3 DEF Starts
  <2>3. /\ Early \in SUBSET (1 .. size) /\ Later \in SUBSET (1 .. size)
        /\ Feeds \in SUBSET (1 .. size)
    BY <1>1
  <2>4. /\ IsFiniteSet(Early) /\ IsFiniteSet(Later) /\ IsFiniteSet(Feeds)
        /\ Cardinality(Early) \in Nat
    <3> HIDE DEF size, Early, Later, Feeds
    <3> QED  BY <1>1, <2>3, CountFinite
  <2>5. Cardinality(Later) = Cardinality(Early)
    <3> DEFINE next == [k \in Early |-> k + 1]
    <3>1. next \in Bijection(Early, Later)
      <4>1. next \in [Early -> Later]
        OBVIOUS
      <4>2. \A j, k \in Early : next[j] = next[k] => j = k
        BY <2>3
      <4>3. \A l \in Later : \E k \in Early : next[k] = l
        OBVIOUS
      <4> HIDE DEF next, Early, Later
      <4> QED  BY <4>1, <4>2, <4>3 DEF Bijection, Injection, Surjection, IsInjective
    <3>2. ExistsBijection(Early, Later)
      <4> HIDE DEF next, Early, Later
      <4> QED  BY <3>1 DEF ExistsBijection
    <3> HIDE DEF Early, Later
    <3> QED  BY <2>4, <3>2, FS_Bijection
  <2>6. Cardinality(Starts(text_)) = Cardinality(Early) + 1
    <3> HIDE DEF Early, Later
    <3> QED  BY <2>2, <2>4, <2>5, FS_AddElement
  <2>7. CASE text_[size] = LF
    <3>1. Feeds = Early \cup {size} /\ size \notin Early
      BY <1>1, <1>3, <2>7
    <3>2. Cardinality(Feeds) = Cardinality(Early) + 1
      <4> HIDE DEF Early, Feeds, size
      <4> QED  BY <2>4, <3>1, FS_AddElement
    <3>3. CountTextLines(text_) = Cardinality(Feeds) + 0
      BY <2>1, <2>7 DEF CountTextLines
    <3> HIDE DEF Early, Feeds, size
    <3> QED  BY <2>4, <2>6, <3>2, <3>3
  <2>8. CASE text_[size] # LF
    <3>1. Feeds = Early
      BY <1>1, <1>3, <2>8
    <3>2. CountTextLines(text_) = Cardinality(Feeds) + 1
      BY <2>1, <2>8 DEF CountTextLines
    <3> HIDE DEF Early, Feeds, size
    <3> QED  BY <2>6, <3>1, <3>2
  <2> QED  BY <2>7, <2>8
<1> QED  BY <1>2, <1>3

-----------------------------------------------------------------------------
\* The inductive invariant of the pages

\* The lines are those of the readable prefix, in order.
LinesRight ==
  /\ file \in Bytes
  /\ lines \in Seq([from : Nat \ {0}, to : Nat])
  /\ Len(lines) = CountTextLines(Readable(file))
  /\ \A n \in 1 .. Len(lines) : lines[n].to - lines[n].from + 1 \in Nat
  /\ \A m, n \in 1 .. Len(lines) : m <= n => lines[m].to <= lines[n].to

\* A line given is whole, or cut because no reply could hold it.
Given(r) ==
  \/ r.bytes = Joined(r.line, r.line)
  \/ r.bytes <= ReplyMax /\ Joined(r.line, r.line) > ReplyMax

\* The next line to ask for is the one after those given, and no line beyond
\* the last was given.
ReadRight ==
  /\ read \in Seq([line : Nat \ {0}, bytes : Nat])
  /\ \A i \in 1 .. Len(read) : read[i].line = start + i - 1 /\ Given(read[i])
  /\ start \in Nat \ {0} /\ offset \in Int
  /\ Larger(offset, 1) = start + Len(read)
  /\ read # << >> => start + Len(read) <= Len(lines) + 1
  /\ body \in 0 .. ReplyMax /\ over \in BOOLEAN
  /\ over => start + Len(read) > Len(lines)

PagingInv == LinesRight /\ ReadRight

LEMMA LineEnds ==
  ASSUME LinesRight, NEW n \in 1 .. Len(lines)
  PROVE  lines[n].from \in Int /\ lines[n].to \in Int
<1>1. lines \in Seq([from : Nat \ {0}, to : Nat])
  BY DEF LinesRight
<1>2. \A R : \A s \in Seq(R) : \A i \in 1 .. Len(s) : s[i] \in R
  OBVIOUS
<1>3. lines[n] \in [from : Nat \ {0}, to : Nat]
  BY <1>1, <1>2, Zenon
<1> QED  BY <1>3

LEMMA FittedIs ==
  ASSUME LinesRight, NEW a \in 1 .. Len(lines), NEW b \in a .. Len(lines)
  PROVE  /\ Fitted(a, b) \in a .. b
         /\ Fitted(a, b) = a \/ Joined(a, Fitted(a, b)) <= ReplyMax
<1> DEFINE Short(c) == c = a \/ Joined(a, c) <= ReplyMax
           Beyond   == {c \in 0 .. b : \E d \in a .. b : Short(d) /\ d = b - c}
           Right(c) == /\ c = a \/ Joined(a, c) <= ReplyMax
                       /\ \A d \in c + 1 .. b : Joined(a, d) > ReplyMax
<1>1. a \in Nat /\ b \in Nat /\ a <= b /\ b <= Len(lines) /\ Len(lines) \in Nat
  BY DEF LinesRight
<1>2. \A d \in a .. b : Joined(a, d) \in Int
  <2>1. \A n \in 1 .. Len(lines) : lines[n].from \in Int /\ lines[n].to \in Int
    BY LineEnds
  <2> QED  BY <1>1, <2>1 DEF Joined
<1>3. b - a \in Beyond /\ Beyond \in SUBSET Nat
  BY <1>1
<1>4. PICK c \in Beyond : \A d \in Beyond : c <= d
  <2> HIDE DEF Beyond
  <2> QED  BY <1>3, LeastOf
<1>5. b - c \in a .. b /\ Short(b - c)
  BY <1>4
<1>6. \A d \in (b - c) + 1 .. b : ~Short(d)
  <2> SUFFICES ASSUME NEW d \in (b - c) + 1 .. b, Short(d)  PROVE FALSE
    OBVIOUS
  <2>1. b - d \in 0 .. b /\ d \in a .. b /\ d = b - (b - d) /\ b - d < c
    BY <1>1, <1>5
  <2>2. b - d \in Beyond
    BY <2>1
  <2>3. c <= b - d /\ c \in Int /\ b - d \in Int
    <3> HIDE DEF Beyond
    <3> QED  BY <1>3, <1>4, <2>2
  <2> QED  BY <2>1, <2>3
<1>7. \A d \in (b - c) + 1 .. b : Joined(a, d) > ReplyMax
  <2> SUFFICES ASSUME NEW d \in (b - c) + 1 .. b  PROVE Joined(a, d) > ReplyMax
    OBVIOUS
  <2>1. d \in a .. b /\ ~(Joined(a, d) <= ReplyMax)
    BY <1>1, <1>5, <1>6
  <2>2. Joined(a, d) \in Int /\ ReplyMax \in Int
    BY <1>2, <2>1, PagingAssumption
  <2> QED  BY <2>1, <2>2
<1>8. \E d \in a .. b : Right(d)
  BY <1>5, <1>7
<1>9. Fitted(a, b) = CHOOSE d \in a .. b : Right(d)
  BY DEF Fitted
<1>10. Fitted(a, b) \in a .. b /\ Right(Fitted(a, b))
  <2> HIDE DEF Right
  <2> QED  BY <1>8, <1>9
<1> QED  BY <1>10

\* What a page adds to the lines given.
LEMMA ReplyIs ==
  ASSUME PagingInv, NEW a \in 1 .. Len(lines), NEW b \in a .. Len(lines),
         b = a \/ Joined(a, b) <= ReplyMax,
         Reply(a, b), UNCHANGED lines
  PROVE  /\ body' \in 0 .. ReplyMax
         /\ read' \in Seq([line : Nat \ {0}, bytes : Nat])
         /\ Len(read') = Len(read) + (b - a + 1)
         /\ \A i \in 1 .. Len(read) : read'[i] = read[i]
         /\ \A i \in 1 .. b - a + 1 :
              /\ read'[Len(read) + i].line = a + i - 1
              /\ Given(read'[Len(read) + i])
<1> DEFINE size == b - a + 1
           Whole(n) == Joined(n, n)
<1>1. /\ a \in Nat \ {0} /\ b \in Nat /\ size \in Nat \ {0} /\ Len(lines) \in Nat
      /\ ReplyMax \in Nat \ {0} /\ b <= Len(lines) /\ a <= b
  <2>1. lines \in Seq([from : Nat \ {0}, to : Nat])
    BY DEF PagingInv, LinesRight
  <2>2. Len(lines) \in Nat
    BY <2>1
  <2> QED  BY <2>2, PagingAssumption
<1>2. \A n \in 1 .. Len(lines) : Whole(n) \in Nat
  BY DEF PagingInv, LinesRight, Joined
<1>3. PICK cut \in IF Whole(a) <= ReplyMax THEN {Whole(a)} ELSE 0 .. ReplyMax :
        /\ read' = read \o [i \in 1 .. size |->
             [line |-> a + i - 1, bytes |-> IF i = 1 THEN cut ELSE Whole(a + i - 1)]]
        /\ body' = Joined(a, b) - Whole(a) + cut
  BY DEF Reply
<1>4. cut \in 0 .. ReplyMax /\ (cut = Whole(a) \/ Whole(a) > ReplyMax)
  BY <1>1, <1>2, <1>3
<1>5. Joined(a, b) \in Int /\ Joined(a, b) >= Whole(a)
  <2>1. \A n \in 1 .. Len(lines) : lines[n].from \in Int /\ lines[n].to \in Int
    BY LineEnds DEF PagingInv
  <2>2. lines[a].to <= lines[b].to
    BY <1>1 DEF PagingInv, LinesRight
  <2>3. /\ a \in 1 .. Len(lines) /\ b \in 1 .. Len(lines)
        /\ lines[a].from \in Int /\ lines[a].to \in Int /\ lines[b].to \in Int
    BY <1>1, <2>1
  <2> QED  BY <2>2, <2>3 DEF Joined
<1>6. body' \in 0 .. ReplyMax
  <2>1. Whole(a) \in Nat /\ cut \in Nat /\ body' = Joined(a, b) - Whole(a) + cut
    BY <1>2, <1>3, <1>4
  <2>2. b = a => Joined(a, b) = Whole(a)
    OBVIOUS
  <2> HIDE DEF Whole
  <2> QED  BY <1>1, <1>4, <1>5, <2>1, <2>2
<1> DEFINE shown == [i \in 1 .. size |->
             [line |-> a + i - 1, bytes |-> IF i = 1 THEN cut ELSE Whole(a + i - 1)]]
<1>7. \A i \in 1 .. size :
        /\ a + i - 1 \in 1 .. Len(lines)
        /\ shown[i].line = a + i - 1
        /\ shown[i].bytes = IF i = 1 THEN cut ELSE Whole(a + i - 1)
        /\ shown[i] = [line |-> a + i - 1, bytes |-> IF i = 1 THEN cut ELSE Whole(a + i - 1)]
  BY <1>1
<1>8. \A i \in 1 .. size : shown[i] \in [line : Nat \ {0}, bytes : Nat] /\ Given(shown[i])
  <2> SUFFICES ASSUME NEW i \in 1 .. size
               PROVE  shown[i] \in [line : Nat \ {0}, bytes : Nat] /\ Given(shown[i])
    OBVIOUS
  <2> DEFINE n == a + i - 1
  <2>1. /\ shown[i].line = n /\ shown[i].bytes = IF i = 1 THEN cut ELSE Whole(n)
        /\ shown[i] = [line |-> n, bytes |-> IF i = 1 THEN cut ELSE Whole(n)]
        /\ n \in 1 .. Len(lines)
    BY <1>7
  <2>2. n \in Nat \ {0} /\ Whole(n) \in Nat /\ (i = 1 => n = a)
    BY <1>1, <1>2, <2>1
  <2> HIDE DEF shown, n, Whole
  <2>3. (IF i = 1 THEN cut ELSE Whole(n)) \in Nat
    BY <1>4, <2>2
  <2>4. shown[i] \in [line : Nat \ {0}, bytes : Nat]
    BY <2>1, <2>2, <2>3
  <2>5. \/ shown[i].bytes = Whole(n)
        \/ shown[i].bytes <= ReplyMax /\ Whole(n) > ReplyMax
    BY <1>4, <2>1, <2>2
  <2> QED  BY <2>1, <2>4, <2>5 DEF Given, Whole
<1>9. shown \in Seq([line : Nat \ {0}, bytes : Nat]) /\ Len(shown) = size
  <2>1. shown \in [1 .. size -> [line : Nat \ {0}, bytes : Nat]]
    BY <1>8
  <2>2. \A R : \A f \in [1 .. size -> R] : f \in Seq(R) /\ Len(f) = size
    BY <1>1
  <2> HIDE DEF shown
  <2> QED  BY <2>1, <2>2
<1>10. read \in Seq([line : Nat \ {0}, bytes : Nat])
  BY DEF PagingInv, ReadRight
<1>11. read' = read \o shown
  BY <1>3
<1> HIDE DEF shown
<1>12. /\ read' \in Seq([line : Nat \ {0}, bytes : Nat])
       /\ Len(read') = Len(read) + size
       /\ \A i \in 1 .. Len(read) : read'[i] = read[i]
       /\ \A i \in 1 .. size : read'[Len(read) + i] = shown[i]
  <2> DEFINE R == [line : Nat \ {0}, bytes : Nat]
  <2>2. read \in Seq(R) /\ shown \in Seq(R)
    BY <1>9, <1>10
  <2> HIDE DEF R
  <2>3. /\ read \o shown \in Seq(R) /\ Len(read \o shown) = Len(read) + Len(shown)
        /\ \A i \in 1 .. Len(read) : (read \o shown)[i] = read[i]
        /\ \A i \in 1 .. Len(shown) : (read \o shown)[Len(read) + i] = shown[i]
    BY <2>2
  <2> HIDE DEF size
  <2> QED  BY <1>9, <1>11, <2>3 DEF R
<1>13. \A i \in 1 .. size : read'[Len(read) + i].line = a + i - 1 /\ Given(read'[Len(read) + i])
  BY <1>7, <1>8, <1>12, Zenon
<1> QED  BY <1>6, <1>12, <1>13

\* The lines shown follow those given before, and the next page begins after
\* them.
LEMMA ReadPageKeeps ==
  ASSUME PagingInv, NEW limit \in Int, ReadPage(limit)
  PROVE  PagingInv'
<1> DEFINE first == Larger(offset, 1)
           end   == Smaller(first + PageSize(limit) - 1, Len(lines))
           last  == Fitted(first, end)
<1>1. /\ ~over /\ UNCHANGED <<file, lines, start>>
      /\ IF first > Len(lines)
           THEN over' = TRUE /\ UNCHANGED <<offset, read, body>>
           ELSE Reply(first, last) /\ offset' = last + 1 /\ over' = over
  BY DEF ReadPage
<1>2. LinesRight'
  BY <1>1 DEF PagingInv, LinesRight
<1>3. /\ read \in Seq([line : Nat \ {0}, bytes : Nat]) /\ start \in Nat \ {0}
      /\ first = start + Len(read) /\ ReadRight /\ over \in BOOLEAN
  BY DEF PagingInv, ReadRight
<1>4. Len(read) \in Nat /\ Len(lines) \in Nat /\ first \in Nat \ {0}
  <2>1. Len(read) \in Nat
    BY <1>3
  <2>2. lines \in Seq([from : Nat \ {0}, to : Nat])
    BY DEF PagingInv, LinesRight
  <2>3. Len(lines) \in Nat
    BY <2>2
  <2> HIDE DEF first
  <2> QED  BY <1>3, <2>1, <2>3
<1> HIDE DEF first
<1>5. CASE first > Len(lines)
  <2>1. over' = TRUE /\ UNCHANGED <<offset, read, body, lines, start>>
    BY <1>1, <1>5
  <2>2. \A r : Given(r)' <=> Given(r')
    BY <2>1 DEF Given, Joined
  <2>3. ReadRight'
    BY <1>3, <1>4, <1>5, <2>1, <2>2 DEF ReadRight, Given, Joined
  <2> QED  BY <1>2, <2>3 DEF PagingInv
<1>6. CASE first <= Len(lines)
  <2>1. Reply(first, last) /\ offset' = last + 1 /\ over' = over
    BY <1>1, <1>4, <1>6
  <2>2. PageSize(limit) \in Nat \ {0}
    BY PagingAssumption DEF PageSize, Smaller
  <2>3. first \in 1 .. Len(lines) /\ end \in first .. Len(lines)
    BY <1>4, <1>6, <2>2 DEF Smaller
  <2> HIDE DEF end
  <2>4. last \in first .. end /\ (last = first \/ Joined(first, last) <= ReplyMax)
    BY <2>3, FittedIs DEF PagingInv
  <2> HIDE DEF last
  <2>5. last \in first .. Len(lines)
    BY <1>4, <2>3, <2>4
  <2>6. /\ body' \in 0 .. ReplyMax
        /\ read' \in Seq([line : Nat \ {0}, bytes : Nat])
        /\ Len(read') = Len(read) + (last - first + 1)
        /\ \A i \in 1 .. Len(read) : read'[i] = read[i]
        /\ \A i \in 1 .. last - first + 1 :
             /\ read'[Len(read) + i].line = first + i - 1
             /\ Given(read'[Len(read) + i])
    BY <1>1, <2>1, <2>3, <2>4, <2>5, ReplyIs
  <2>7. /\ start' = start /\ lines' = lines /\ last \in Nat /\ last >= first
        /\ start + Len(read') = last + 1
    <3>1. first \in Nat /\ start \in Nat /\ Len(read) \in Nat /\ first = start + Len(read)
      BY <1>3, <1>4
    <3>2. last \in Nat /\ last >= first
      BY <1>4, <2>5
    <3>3. Len(read') = Len(read) + (last - first + 1)
      BY <2>6
    <3>4. start' = start /\ lines' = lines
      BY <1>1
    <3>5. start + Len(read') = last + 1
      BY <3>1, <3>2, <3>3
    <3> QED  BY <3>2, <3>4, <3>5
  <2>8. ASSUME NEW i \in 1 .. Len(read')
        PROVE  read'[i].line = start + i - 1 /\ Given(read'[i])
    <3>1. CASE i \in 1 .. Len(read)
      <4>1. read[i].line = start + i - 1 /\ Given(read[i])
        BY <3>1 DEF PagingInv, ReadRight
      <4> QED  BY <2>6, <3>1, <4>1
    <3>2. CASE i \notin 1 .. Len(read)
      <4> DEFINE j == i - Len(read)
      <4>1. /\ j \in 1 .. last - first + 1 /\ i = Len(read) + j
            /\ first + j - 1 = start + i - 1
        BY <1>3, <1>4, <2>5, <2>6, <3>2
      <4> HIDE DEF j
      <4> QED  BY <2>6, <4>1
    <3> QED  BY <3>1, <3>2
  <2>9. Larger(offset', 1) = start + Len(read') /\ offset' \in Int
    BY <1>4, <2>1, <2>7 DEF Larger
  <2>10. \A i \in 1 .. Len(read') : Given(read'[i]) => Given(read[i])'
    BY <2>7 DEF Given, Joined
  <2>11. start + Len(read') <= Len(lines) + 1 /\ over' = FALSE
    BY <1>1, <1>3, <1>4, <2>1, <2>5, <2>7
  <2>12. ReadRight'
    BY <1>3, <2>6, <2>7, <2>8, <2>9, <2>10, <2>11 DEF ReadRight
  <2> QED  BY <1>2, <2>12 DEF PagingInv
<1> QED  BY <1>4, <1>5, <1>6

LEMMA PagingInitHolds ==
  ASSUME PagingInit
  PROVE  PagingInv
<1> DEFINE text_ == Readable(file)
<1>1. file \in Bytes
  <2>1. PICK n \in 0 .. MaxText : file \in [1 .. n -> {LF, Char}]
    BY DEF PagingInit
  <2>2. n \in Nat
    BY <2>1, PagingAssumption
  <2> QED  BY <2>1, <2>2 DEF Bytes
<1>2. text_ \in Bytes
  <2>1. Smaller(Len(file), ReadMax) \in 0 .. Len(file)
    BY <1>1, PagingAssumption DEF Bytes, Smaller
  <2> QED  BY <1>1, <2>1 DEF Readable, Bytes
<1> HIDE DEF text_
<1>3. LinesRight
  <2>1. lines = Lines(text_)
    BY DEF PagingInit, text_
  <2>2. Len(lines) = CountTextLines(text_)
    BY <1>2, <2>1, LinesTyped, LinesCounted
  <2> QED  BY <1>1, <1>2, <2>1, <2>2, LinesTyped DEF LinesRight, text_
<1>4. ReadRight
  <2>1. << >> \in Seq([line : Nat \ {0}, bytes : Nat]) /\ Len(<< >>) = 0
    OBVIOUS
  <2>2. offset \in Int
    BY PagingAssumption DEF PagingInit
  <2>3. Larger(offset, 1) \in Nat \ {0}
    BY <2>2 DEF Larger
  <2>4. read = << >> /\ body = 0 /\ over = FALSE /\ start = Larger(offset, 1)
    BY DEF PagingInit
  <2>5. Len(read) = 0 /\ read \in Seq([line : Nat \ {0}, bytes : Nat])
    BY <2>1, <2>4
  <2>6. \A i \in 1 .. Len(read) : read[i].line = start + i - 1 /\ Given(read[i])
    BY <2>5
  <2>7. start \in Nat \ {0} /\ Larger(offset, 1) = start + Len(read)
    BY <2>3, <2>4, <2>5
  <2>8. body \in 0 .. ReplyMax
    <3>1. body = 0 /\ ReplyMax \in Nat
      BY <2>4, PagingAssumption
    <3> QED  BY <3>1
  <2>9. over \in BOOLEAN
    BY <2>4
  <2> QED  BY <2>2, <2>4, <2>5, <2>6, <2>7, <2>8, <2>9 DEF ReadRight
<1> QED  BY <1>3, <1>4 DEF PagingInv

LEMMA PagingNextKeeps ==
  ASSUME PagingInv, [PagingNext]_pagingVars
  PROVE  PagingInv'
<1>1. CASE UNCHANGED pagingVars
  BY <1>1 DEF pagingVars, PagingInv, LinesRight, ReadRight, Given, Joined
<1>2. CASE PagingNext
  <2>1. PICK limit \in Limits : ReadPage(limit)
    BY <1>2 DEF PagingNext
  <2>2. limit \in Int
    BY PagingAssumption
  <2> QED  BY <2>1, <2>2, ReadPageKeeps
<1> QED  BY <1>1, <1>2

LEMMA PagingTyped ==
  ASSUME PagingInv
  PROVE  PagingTypeOK
<1>1. body \in Nat /\ start \in Int /\ offset \in Int
  BY PagingAssumption DEF PagingInv, ReadRight
<1> QED  BY <1>1 DEF PagingInv, LinesRight, ReadRight, Bytes, PagingTypeOK

THEOREM PagingCorrect == PagingSpec => []PagingInv
<1>1. PagingInit => PagingInv
  BY PagingInitHolds
<1>2. PagingInv /\ [PagingNext]_pagingVars => PagingInv'
  BY PagingNextKeeps
<1> QED  BY <1>1, <1>2, PTL DEF PagingSpec

\* A model that goes on where the last reply of read_file ended is given every
\* line of a text of any length once, in order and whole when it fits a reply,
\* and is told of the end after as many lines as the roster announced.
THEOREM PagesAreTiled == PagingSpec => []PagesTile
<1>1. PagingInv => PagesTile
  <2> SUFFICES ASSUME PagingInv  PROVE PagesTile
    OBVIOUS
  <2>1. \A i \in 1 .. Len(read) :
          /\ read[i].line = start + i - 1
          /\ LET whole == Joined(read[i].line, read[i].line) IN
             \/ read[i].bytes = whole
             \/ read[i].bytes <= ReplyMax /\ whole > ReplyMax
    BY DEF PagingInv, ReadRight, Given
  <2>2. body <= ReplyMax
    BY PagingAssumption DEF PagingInv, ReadRight
  <2>3. ASSUME over
        PROVE  start + Len(read) = Larger(start, CountTextLines(Readable(file)) + 1)
    <3> DEFINE n == Len(read)
               c == Len(lines)
    <3>1. n \in Nat /\ c \in Nat /\ start \in Nat
      <4>1. read \in Seq([line : Nat \ {0}, bytes : Nat]) /\ start \in Nat
        BY DEF PagingInv, ReadRight
      <4>2. lines \in Seq([from : Nat \ {0}, to : Nat])
        BY DEF PagingInv, LinesRight
      <4>3. n \in Nat
        BY <4>1
      <4>4. c \in Nat
        BY <4>2
      <4> QED  BY <4>1, <4>3, <4>4
    <3>2. start + n > c /\ (read # << >> => start + n <= c + 1) /\ (read = << >> => n = 0)
      BY <2>3 DEF PagingInv, ReadRight
    <3>3. CountTextLines(Readable(file)) = c
      BY DEF PagingInv, LinesRight
    <3>4. n = 0 \/ start + n = c + 1
      <4> HIDE DEF c
      <4> QED  BY <3>1, <3>2
    <3>5. \A x, y, z \in Nat :
            x + y > z /\ (y = 0 \/ x + y = z + 1) => x + y = IF x < z + 1 THEN z + 1 ELSE x
      OBVIOUS
    <3>6. start + n = IF start < c + 1 THEN c + 1 ELSE start
      <4> HIDE DEF c, n
      <4> QED  BY <3>1, <3>2, <3>4, <3>5
    <3> HIDE DEF c
    <3> QED  BY <3>3, <3>6 DEF Larger
  <2> QED  BY <2>1, <2>2, <2>3 DEF PagesTile
<1> QED  BY <1>1, PagingCorrect, PTL

-----------------------------------------------------------------------------
\* The parts side by side

\* When every form is renamed with its file, a picture that is marked is there.
PicturesThere == digest \in Seq(Files \X {"", "jpg"})

FormsRun == FormsTyped /\ FormsInv /\ MarksInv /\ PicturesThere

RunInv ==
  /\ TypeOK /\ CallsLeft /\ TitleSaved
  /\ FormsIdle \/ FormsRun
  /\ PagingInv /\ ConvInv

LEMMA PictureThere ==
  ASSUME FormsTyped, FormsInv, NEW n \in All, Product(n) # {}
  PROVE  Picture(n) \in Files \X {"", "jpg"}
<1>1. CASE n \in Names /\ entries[n] # NoFile
  <2>1. entries[n] \in Files
    BY <1>1 DEF FormsTyped
  <2> QED  BY <1>1, <2>1 DEF Picture
<1>2. CASE ~(n \in Names /\ entries[n] # NoFile)
  <2>1. n \in Forms /\ derived[n] # NoFile
    BY <1>2 DEF Product
  <2>2. store[n] = derived[n] /\ derived[n] \in Files \cup {NoFile}
    BY <2>1, LookupTyped DEF FormsInv, FormsKept
  <2>3. store[n] \in Files
    BY <2>1, <2>2
  <2> QED  BY <1>2, <2>3 DEF Picture
<1> QED  BY <1>1, <1>2

LEMMA FormsRunNext ==
  ASSUME ~RenameErrors, FormsRun, [FormsNext]_formsVars
  PROVE  FormsRun'
<1>1. FormsTyped' /\ MarksInv' /\ FormsInv'
  BY FormsTypeNext, FormsInvNext DEF FormsRun, FormsInv
<1>2. digest' = digest \/ \E n \in All : Product(n) # {} /\ digest' = Append(digest, Picture(n))
  BY DEF FormsNext, formsVars, Convert, Rename, MarkImage
<1>3. PicturesThere'
  <2> DEFINE Pictures == Files \X {"", "jpg"}
  <2>1. digest \in Seq(Pictures)
    BY DEF FormsRun, PicturesThere
  <2>2. ASSUME NEW n \in All, Product(n) # {}  PROVE Picture(n) \in Pictures
    BY <2>2, PictureThere DEF FormsRun
  <2> HIDE DEF Pictures
  <2>3. digest' \in Seq(Pictures)
    BY <1>2, <2>1, <2>2
  <2> QED  BY <2>3 DEF PicturesThere, Pictures
<1> QED  BY <1>1, <1>3 DEF FormsRun

\* Nothing is there to be converted, renamed or marked.
LEMMA FormsIdleStays ==
  ASSUME FormsIdle, [FormsNext]_formsVars
  PROVE  FormsIdle'
<1>1. /\ waiting = {} /\ \A n \in Names : entries[n] = NoFile
      /\ \A n \in Forms : derived[n] = NoFile
  BY DEF FormsIdle
<1>2. \A n \in All : Product(n) = {}
  BY <1>1 DEF Product
<1>3. ~FormsNext
  BY <1>1, <1>2 DEF FormsNext, Convert, Rename, MarkImage
<1> QED  BY <1>3 DEF formsVars, FormsIdle

LEMMA FormsIdleTyped ==
  ASSUME FormsIdle
  PROVE  FormsTypeOK
<1>1. /\ waiting = {} /\ marked = {} /\ digest = << >>
      /\ entries = [n \in Names |-> NoFile] /\ kind = [f \in Files |-> "other"]
      /\ forms = [f \in Files |-> {}] /\ store = [n \in Forms |-> NoFile] /\ derived = store
  BY DEF FormsIdle
<1>2. "other" \in Kinds /\ << >> \in Seq(Files \X {"", "jpg"})
  BY DEF Kinds
<1>3. kind \in [Files -> Kinds] /\ forms \in [Files -> SUBSET Forms]
  BY <1>1, <1>2
<1>4. /\ entries \in [Names -> Files \cup {NoFile}]
      /\ store \in [Forms -> Files \cup {NoFile}] /\ derived \in [Forms -> Files \cup {NoFile}]
  BY <1>1
<1> QED  BY <1>1, <1>2, <1>3, <1>4 DEF FormsTypeOK

LEMMA IdleHolds ==
  /\ ChatIdle => TypeOK /\ CallsLeft /\ TitleSaved
  /\ PagingIdle => PagingInv
  /\ ConvIdle => ConvInv
<1>1. ASSUME ChatIdle  PROVE TypeOK /\ CallsLeft /\ TitleSaved
  <2>1. messages \in Seq(Message)
    <3>1. System \in Message /\ User \in Message
      BY DEF System, User, Message
    <3>2. messages = <<System, User>>
      BY <1>1 DEF ChatIdle
    <3> QED  BY <3>1, <3>2
  <2>2. pc = "failed" /\ round = 0 /\ calls = 0 /\ pending = 0
        /\ extra = << >> /\ finished = FALSE /\ {text, title, draft} = {NoTitle}
        /\ title = draft
    BY <1>1 DEF ChatIdle
  <2>3. round \in 0 .. MaxRounds - 1 /\ pending \in 0 .. MaxPerReply
        /\ calls \in 0 .. MaxToolCalls + MaxPerReply - 1
    BY <2>2, BudgetAssumption
  <2>4. extra \in Seq({Image})
    BY <2>2
  <2>5. finished \in BOOLEAN
    BY <2>2
  <2> QED  BY <2>1, <2>2, <2>3, <2>4, <2>5 DEF TypeOK, CallsLeft, TitleSaved
<1>2. ASSUME PagingIdle  PROVE PagingInv
  <2>1. /\ file = << >> /\ lines = << >> /\ offset = 1 /\ start = 1
        /\ read = << >> /\ body = 0 /\ over = TRUE
    BY <1>2 DEF PagingIdle
  <2>2. Readable(file) = << >>
    BY <2>1, PagingAssumption DEF Readable, Smaller
  <2>3. CountTextLines(Readable(file)) = 0 /\ Len(lines) = 0
    BY <2>1, <2>2 DEF CountTextLines
  <2>4. file \in Bytes /\ lines \in Seq([from : Nat \ {0}, to : Nat])
    BY <2>1 DEF Bytes
  <2>5. LinesRight
    BY <2>3, <2>4 DEF LinesRight
  <2>6. read \in Seq([line : Nat \ {0}, bytes : Nat]) /\ Len(read) = 0
    BY <2>1
  <2>7. \A i \in 1 .. Len(read) : read[i].line = start + i - 1 /\ Given(read[i])
    BY <2>6
  <2>8. /\ start \in Nat \ {0} /\ offset \in Int /\ Larger(offset, 1) = start + Len(read)
        /\ start + Len(read) > Len(lines)
    BY <2>1, <2>3, <2>6 DEF Larger
  <2>9. body \in 0 .. ReplyMax
    <3>1. body = 0 /\ ReplyMax \in Nat
      BY <2>1, PagingAssumption
    <3> QED  BY <3>1
  <2>10. over \in BOOLEAN /\ read = << >>
    BY <2>1
  <2>11. ReadRight
    BY <2>6, <2>7, <2>8, <2>9, <2>10 DEF ReadRight
  <2> QED  BY <2>5, <2>11 DEF PagingInv
<1>3. ASSUME ConvIdle  PROVE ConvInv
  <2>1. /\ ext = "other" /\ todo = << >> /\ at = 1 /\ late = FALSE /\ without = {}
        /\ raw = << >>
    BY <1>3 DEF ConvIdle
  <2>2. << >> \in Seq(OutputFile) /\ {} \in SUBSET have /\ Len(<< >>) = 0
    OBVIOUS
  <2>3. tried = [f \in FormNames |-> {}] /\ made = [f \in FormNames |-> << >>]
        /\ drawn = [t \in {"pg", "mg"} |-> << >>]
    BY <1>3 DEF ConvIdle
  <2>4. scratch \in [ScratchNames -> OutputFile \cup {NoFileYet}]
    BY <1>3 DEF ConvIdle, ScratchNames
  <2>5. ext \in Classes /\ todo \in Todos
    BY <2>1 DEF Classes, Todos
  <2>6. tried \in [FormNames -> SUBSET have] /\ made \in [FormNames -> Seq(OutputFile)]
        /\ drawn \in [{"pg", "mg"} -> Seq(OutputFile)] /\ raw \in Seq(OutputFile)
    BY <2>1, <2>2, <2>3
  <2>7. late \in BOOLEAN /\ without \in SUBSET FormNames
    BY <2>1
  <2>8. at \in -1 .. 8
    BY <2>1
  <2>9. ConvTyped
    BY <2>4, <2>5, <2>6, <2>7, <2>8 DEF ConvTyped
  <2>10. LadderClimbed
    BY <2>1, <2>3 DEF LadderClimbed, AtWork, GivenUpProperly, FormNames
  <2>11. PicturesFew
    <3>1. \A f \in {"pages", "frames"} : made[f] = << >> /\ 0 <= Limit(f)
      BY <2>3, ConversionAssumption DEF FormNames, Limit
    <3> QED  BY <2>1, <2>2, <3>1 DEF PicturesFew, AtWork
  <2>12. OutputFits
    <3>1. \A f \in FormNames : made[f] = << >>
      BY <2>3
    <3> QED  BY <2>2, <3>1 DEF OutputFits
  <2>13. TextGenuine
    <3>1. made["text"] = << >>
      BY <2>3 DEF FormNames
    <3> QED  BY <2>2, <3>1 DEF TextGenuine
  <2>14. ScratchFresh
    BY <2>1 DEF ScratchFresh, AtWork
  <2> QED  BY <2>9, <2>10, <2>11, <2>12, <2>13, <2>14 DEF ConvInv
<1> QED  BY <1>1, <1>2, <1>3

LEMMA RunStart ==
  ASSUME RunInit
  PROVE  RunInv
<1>1. Init => TypeOK /\ CallsLeft /\ TitleSaved
  BY TypeStart
<1>2. FormsInit => FormsRun
  <2>1. ASSUME FormsInit  PROVE PicturesThere
    <3>1. digest = << >>
      BY <2>1 DEF FormsInit
    <3> QED  BY <3>1 DEF PicturesThere
  <2> QED  BY <2>1, FormsStart DEF FormsRun
<1> QED  BY <1>1, <1>2, IdleHolds, PagingInitHolds, ConvInitHolds, Zenon DEF RunInit, RunInv

LEMMA RunNextKeeps ==
  ASSUME ~RenameErrors, RunInv, [RunNext]_runVars
  PROVE  RunInv'
<1>1. [Next]_vars /\ [FormsNext]_formsVars /\ [PagingNext]_pagingVars /\ [ConvNext]_convVars
  BY Zenon DEF RunNext, runVars, formsVars, pagingVars, convVars, vars
<1>2. (TypeOK /\ CallsLeft /\ TitleSaved)'
  BY <1>1, TypeNext DEF RunInv
<1>3. (FormsIdle \/ FormsRun)'
  BY <1>1, FormsIdleStays, FormsRunNext DEF RunInv
<1>4. PagingInv' /\ ConvInv'
  BY <1>1, PagingNextKeeps, ConvNextKeeps DEF RunInv
<1> QED  BY <1>2, <1>3, <1>4 DEF RunInv

LEMMA ConvTypes ==
  ASSUME ConvTyped
  PROVE  ConvTypeOK
<1>1. todo \in Seq(FormNames)
  <2>1. \A f \in FormNames : <<f>> \in Seq(FormNames)
    OBVIOUS
  <2>2. <<"text", "pages">> \in Seq(FormNames) /\ << >> \in Seq(FormNames)
    BY DEF FormNames
  <2> QED  BY <2>1, <2>2 DEF ConvTyped, Todos, FormNames
<1>2. \A f \in DOMAIN scratch : scratch[f] \in OutputFile \cup {NoFileYet}
  BY DEF ConvTyped
<1>3. \A t \in DOMAIN drawn : drawn[t] \in Seq(OutputFile)
  BY DEF ConvTyped
<1> QED  BY <1>1, <1>2, <1>3 DEF ConvTyped, ConvTypeOK

\* The four parts of an analyze run keep to their types, side by side and for
\* any files, texts, tools and budgets.  A form that could not be renamed may
\* be marked when it is no longer there; without such errors every picture of
\* the digest is a file's.
THEOREM RunTypeCorrect ==
  ASSUME ~RenameErrors
  PROVE  RunSpec => []TypesOK
<1>1. RunInit => RunInv
  BY RunStart
<1>2. RunInv /\ [RunNext]_runVars => RunInv'
  BY RunNextKeeps
<1>3. RunInv => TypesOK
  <2>1. FormsRun => FormsTypeOK
    BY DEF FormsRun, FormsTyped, PicturesThere, FormsTypeOK
  <2> QED  BY <2>1, FormsIdleTyped, PagingTyped, ConvTypes DEF RunInv, ConvInv, TypesOK
<1> QED  BY <1>1, <1>2, <1>3, PTL DEF RunSpec

=============================================================================
