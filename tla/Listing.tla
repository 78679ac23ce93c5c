------------------------------- MODULE Listing -------------------------------
(***************************************************************************)
(* Paging through the keys of the bucket (s3.go, detail.go): the bundle    *)
(* page asks for the objects of a bundle with "/" as the delimiter, so     *)
(* that everything under .digest/ comes as one common prefix; the index is *)
(* loaded from a plain listing.  Both resume after the last object they    *)
(* were given.                                                             *)
(*                                                                         *)
(* A key is its position in the order of the bucket.  The objects of a     *)
(* bundle do not change once its meta can be read.                         *)
(***************************************************************************)
EXTENDS FiniteSets, Integers

CONSTANTS
  Keys,      \* positions of the keys and of the common prefix
  Meta,      \* the position of .meta.json
  Digest,    \* the position of the common prefix .digest/
  PageSize   \* listPageSize

ASSUME KeysAssumption == Keys \subseteq Nat \ {0} /\ IsFiniteSet(Keys)
ASSUME PageAssumption == PageSize \in Nat /\ PageSize >= 2

VARIABLES
  bundle,   \* the bundle page is listing, not the loader of the index
  objects,  \* the keys of the objects that are not under .digest/
  digests,  \* there are objects under .digest/
  marker,   \* where the next call resumes; 0 at the start
  listed,   \* the keys that were listed
  entries,  \* the number of entries that were listed
  listing   \* "paging", "done" or "failed"

listVars == <<bundle, objects, digests, marker, listed, entries, listing>>

\* The bundle page leaves its own record out.
Shown(keys) == IF bundle THEN keys \ {Meta} ELSE keys

\* What the bucket has to list behind the marker.
Rest == {k \in objects \cup (IF digests THEN {Digest} ELSE {}) : k > marker}

\* ListObjectsV2: the first PageSize keys and prefixes, or all of them.
IsPage(page) ==
  /\ page \subseteq Rest
  /\ \A k \in page, l \in Rest \ page : k < l
  /\ page = Rest \/ Cardinality(page) = PageSize

ListInit ==
  /\ bundle \in BOOLEAN
  /\ objects \in SUBSET (Keys \ {Digest})
  /\ digests \in BOOLEAN /\ (digests => bundle)
  /\ marker = 0
  /\ listed = {} /\ entries = 0
  /\ listing = "paging"

\* Seeded fault: a page without an entry to show ends the listing.
ListPageShown ==
  /\ listing = "paging"
  /\ \E page \in SUBSET Rest :
       /\ IsPage(page)
       /\ LET found == page \cap objects IN
          /\ listed' = listed \cup Shown(found)
          /\ entries' = entries + Cardinality(Shown(found))
          /\ \/ /\ page = Rest \/ Shown(found) = {}
                /\ listing' = "done" /\ marker' = marker
             \/ /\ page # Rest /\ Shown(found) # {}
                /\ marker' \in found /\ \A k \in found : k <= marker'
                /\ listing' = listing
  /\ UNCHANGED <<bundle, objects, digests>>

\* One call of List or ListObjectsV2 and the loop around it.
ListPage ==
  /\ listing = "paging"
  /\ \E page \in SUBSET Rest :
       /\ IsPage(page)
       /\ LET found == page \cap objects IN
          /\ listed' = listed \cup Shown(found)
          /\ entries' = entries + Cardinality(Shown(found))
          /\ \/ /\ page = Rest \/ found = {}
                /\ listing' = "done" /\ marker' = marker
             \/ /\ page # Rest /\ found # {}
                /\ marker' \in found /\ \A k \in found : k <= marker'
                /\ listing' = listing
  /\ UNCHANGED <<bundle, objects, digests>>

ListFails ==
  /\ listing = "paging" /\ listing' = "failed"
  /\ UNCHANGED <<bundle, objects, digests, marker, listed, entries>>

ListNext == ListPage \/ ListFails

ListSpec == ListInit /\ [][ListNext]_listVars

-----------------------------------------------------------------------------
\* Properties

ListTypeOK ==
  /\ {bundle, digests} \subseteq BOOLEAN
  /\ objects \subseteq Keys \ {Digest}
  /\ marker \in Keys \cup {0}
  /\ listed \subseteq objects
  /\ entries \in Nat
  /\ listing \in {"paging", "done", "failed"}

\* A listing that ends well has every key, and none of them twice, wherever
\* the pages break and the common prefix stands.
ListedOnce ==
  listing = "done" => listed = Shown(objects) /\ entries = Cardinality(listed)

=============================================================================
