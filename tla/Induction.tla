------------------------------ MODULE Induction ------------------------------
(***************************************************************************)
(* Induction over numbers and finite sets, and recursion over numbers, in  *)
(* a form that needs no operator as a parameter: the statement that is     *)
(* proved is a set, and the step of the recursion a function.              *)
(***************************************************************************)
EXTENDS FiniteSets, Integers, FiniteSetTheorems, WellFoundedInduction, TLAPS

\* A nonempty set of numbers has a least element.
LEMMA LeastOf ==
  ASSUME NEW S \in SUBSET Nat, S # {}
  PROVE  \E x \in S : \A y \in S : x <= y
<1> DEFINE Below == {0 .. x : x \in S}
           Order == StrictSubsetOrdering(Nat)
<1>1. Below \subseteq FiniteSubsetsOf(Nat) /\ Below # {}
  <2>1. \A x \in S : x \in Int /\ 0 .. x \subseteq Nat
    OBVIOUS
  <2>2. \A x \in S : IsFiniteSet(0 .. x)
    BY <2>1, FS_Interval
  <2> QED  BY <2>1, <2>2 DEF FiniteSubsetsOf
<1>2. \E T \in Below : \A U \in Below : <<U, T>> \notin Order
  <2> HIDE DEF Below
  <2> QED  BY <1>1, FS_StrictSubsetOrderingWellFounded, WFMin
<1>3. PICK x \in S : \A y \in S : <<0 .. y, 0 .. x>> \notin Order
  BY <1>2
<1>4. ASSUME NEW y \in S, y < x  PROVE FALSE
  <2>1. 0 .. y \in SUBSET Nat /\ 0 .. x \in SUBSET Nat /\ 0 .. y \subseteq 0 .. x
    BY <1>4
  <2>2. x \in 0 .. x /\ x \notin 0 .. y
    BY <1>4
  <2> QED  BY <1>3, <2>1, <2>2 DEF StrictSubsetOrdering
<1> QED  BY <1>3, <1>4

\* Induction: True is the set of the numbers that the statement is true of.
LEMMA NatInduct ==
  ASSUME NEW True, 0 \in True, \A n \in Nat : n \in True => n + 1 \in True
  PROVE  \A n \in Nat : n \in True
<1> SUFFICES ASSUME Nat \ True # {}  PROVE FALSE
  OBVIOUS
<1>1. PICK x \in Nat \ True : \A y \in Nat \ True : x <= y
  BY LeastOf
<1>2. x - 1 \in Nat /\ x - 1 \in True
  BY <1>1
<1> QED  BY <1>1, <1>2

\* Induction up to a bound.
LEMMA UptoInduct ==
  ASSUME NEW N \in Nat, NEW True, 0 \in True,
         \A n \in 1 .. N : n - 1 \in True => n \in True
  PROVE  \A n \in 0 .. N : n \in True
<1> DEFINE T == True \cup {n \in Nat : n > N}
<1>1. 0 \in T /\ \A n \in Nat : n \in T => n + 1 \in T
  <2>1. ASSUME NEW n \in Nat, n \in True, n + 1 <= N  PROVE n + 1 \in True
    <3>1. n + 1 \in 1 .. N /\ (n + 1) - 1 = n
      BY <2>1
    <3> QED  BY <2>1, <3>1
  <2> QED  BY <2>1
<1>2. \A n \in Nat : n \in T
  <2> HIDE DEF T
  <2> QED  BY <1>1, NatInduct
<1> QED  BY <1>2

\* g is what a loop over 1 .. N has after each of its turns, each with a step
\* of its own.
IsLoop(g, N, base, step) == g[0] = base /\ \A i \in 1 .. N : g[i] = step[i][g[i - 1]]

LEMMA Recursion ==
  ASSUME NEW X, NEW N \in Nat, NEW base \in X, NEW step \in [1 .. N -> [X -> X]]
  PROVE  \E g \in [0 .. N -> X] : IsLoop(g, N, base, step)
<1> USE DEF IsLoop
<1> DEFINE Runs(n, g) == IsLoop(g, n, base, step)
           True == {n \in 0 .. N : \E g \in [0 .. n -> X] : Runs(n, g)}
<1>1. 0 \in True
  <2>1. [i \in 0 .. 0 |-> base] \in [0 .. 0 -> X] /\ Runs(0, [i \in 0 .. 0 |-> base])
    OBVIOUS
  <2>2. \E g \in [0 .. 0 -> X] : Runs(0, g)
    <3> HIDE DEF Runs
    <3> QED  BY <2>1
  <2> QED  BY <2>2
<1>2. ASSUME NEW n \in 1 .. N, n - 1 \in True  PROVE n \in True
  <2>1. PICK g \in [0 .. n - 1 -> X] : Runs(n - 1, g)
    BY <1>2
  <2>2. step[n] \in [X -> X] /\ g[n - 1] \in X
    OBVIOUS
  <2>3. step[n][g[n - 1]] \in X
    BY <2>2
  <2> DEFINE h == [i \in 0 .. n |-> IF i = n THEN step[n][g[n - 1]] ELSE g[i]]
  <2>4. h \in [0 .. n -> X]
    BY <2>3
  <2>5. h[0] = base
    BY <2>1
  <2>6. \A i \in 1 .. n - 1 : h[i] = g[i] /\ h[i - 1] = g[i - 1]
    OBVIOUS
  <2>7. h[n] = step[n][h[n - 1]]
    OBVIOUS
  <2>8. Runs(n, h)
    <3>1. ASSUME NEW i \in 1 .. n  PROVE h[i] = step[i][h[i - 1]]
      <4>1. i = n \/ i \in 1 .. n - 1
        OBVIOUS
      <4> HIDE DEF h
      <4> QED  BY <2>1, <2>6, <2>7, <4>1
    <3> HIDE DEF h
    <3> QED  BY <2>5, <3>1
  <2>9. \E f \in [0 .. n -> X] : Runs(n, f)
    <3> HIDE DEF h, Runs
    <3> QED  BY <2>4, <2>8
  <2> QED  BY <2>9
<1>3. \A n \in 0 .. N : n \in True
  <2> HIDE DEF True
  <2> QED  BY <1>1, <1>2, UptoInduct
<1> QED  BY <1>3

=============================================================================
