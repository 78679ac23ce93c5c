---------------------------- MODULE Pages_proofs ----------------------------
(***************************************************************************)
(* Proofs about what is behind the pages: the listing of a bundle, logging *)
(* in, the queue of the upload page, and titles and names.  (Those about   *)
(* the browse page are in Calendar_proofs.)                                *)
(***************************************************************************)
EXTENDS Listing, Sessions, UploadQueue, Titles, FiniteSetTheorems, SequenceTheorems, Induction

-----------------------------------------------------------------------------
\* The listing of a bundle (Listing): any finite set of keys, any places of the
\* common prefix and of the meta, and any page size of two or more.

\* What has been listed is what there is up to the marker, counted once.
Progress ==
  /\ entries = Cardinality(listed)
  /\ listing = "paging" => listed = {k \in Shown(objects) : k <= marker}
  /\ listing = "done" => listed = Shown(objects)

LInv == ListTypeOK /\ Progress

LEMMA FiniteObjects ==
  ASSUME NEW S \in SUBSET Keys
  PROVE  IsFiniteSet(S)
  BY KeysAssumption, FS_Subset

\* A page that is not the last one has an object to resume from: the common
\* prefix alone does not fill it.
LEMMA PageAdvances ==
  ASSUME ListTypeOK, NEW page \in SUBSET Rest, IsPage(page), page # Rest
  PROVE  page \cap objects # {}
<1>1. SUFFICES ASSUME page \cap objects = {}  PROVE FALSE
  OBVIOUS
<1>2. page \subseteq {Digest}
  BY <1>1 DEF Rest
<1>3. Cardinality(page) <= 1
  <2>1. IsFiniteSet({Digest}) /\ Cardinality({Digest}) = 1
    BY FS_Singleton
  <2> QED  BY <1>2, <2>1, FS_Subset
<1>4. Cardinality(page) = PageSize
  BY DEF IsPage
<1> QED  BY <1>3, <1>4, PageAssumption

\* The entries of a page are new.
LEMMA CountAdds ==
  ASSUME NEW S \in SUBSET Keys, NEW T \in SUBSET Keys, S \cap T = {}
  PROVE  Cardinality(S \cup T) = Cardinality(S) + Cardinality(T)
<1>1. IsFiniteSet(S) /\ IsFiniteSet(T)
  BY FiniteObjects
<1>2. Cardinality(S \cap T) = 0
  BY FS_EmptySet
<1>3. Cardinality(S) \in Nat /\ Cardinality(T) \in Nat
  BY <1>1, FS_CardinalityType
<1>4. Cardinality(S \cup T) = Cardinality(S) + Cardinality(T) - Cardinality(S \cap T)
  BY <1>1, FS_Union
<1> QED  BY <1>2, <1>3, <1>4

LEMMA ListInitHolds == ListInit => LInv
<1> SUFFICES ASSUME ListInit PROVE LInv
  OBVIOUS
<1>1. ListTypeOK
  BY KeysAssumption DEF ListInit, ListTypeOK
<1>2. {k \in Shown(objects) : k <= marker} = {}
  <2>1. Shown(objects) \subseteq Nat \ {0} /\ marker = 0
    BY KeysAssumption DEF ListInit, Shown
  <2>2. \A k \in Nat \ {0} : ~(k <= 0)
    OBVIOUS
  <2> QED  BY <2>1, <2>2
<1>3. Cardinality({}) = 0
  BY FS_EmptySet
<1> QED  BY <1>1, <1>2, <1>3 DEF LInv, Progress, ListInit

LEMMA ListPageHolds == LInv /\ ListPage => LInv'
<1> SUFFICES ASSUME LInv, ListPage PROVE LInv'
  OBVIOUS
<1>1. PICK page \in SUBSET Rest :
        /\ IsPage(page)
        /\ listed' = listed \cup Shown(page \cap objects)
        /\ entries' = entries + Cardinality(Shown(page \cap objects))
        /\ \/ /\ page = Rest \/ page \cap objects = {}
              /\ listing' = "done" /\ marker' = marker
           \/ /\ page # Rest /\ page \cap objects # {}
              /\ marker' \in page \cap objects
              /\ \A k \in page \cap objects : k <= marker'
              /\ listing' = listing
  BY DEF ListPage
<1> DEFINE found == page \cap objects
<1>2. listing = "paging" /\ bundle' = bundle /\ objects' = objects /\ digests' = digests
  BY DEF ListPage
<1>3. ListTypeOK /\ Progress
  BY DEF LInv
<1>4. Shown(found) \subseteq found /\ found \subseteq objects /\ objects \subseteq Keys
  BY <1>3 DEF Shown, ListTypeOK
<1>5. \A k \in found : k > marker
  BY DEF Rest
<1>6. objects \subseteq Nat /\ marker \in Nat
  BY <1>3, KeysAssumption DEF ListTypeOK
<1>7. listed = {k \in Shown(objects) : k <= marker}
  BY <1>2, <1>3 DEF Progress
<1>8. Cardinality(listed') = entries'
  <2>1. listed \cap Shown(found) = {}
    <3>1. SUFFICES ASSUME NEW k \in listed, k \in Shown(found)  PROVE FALSE
      OBVIOUS
    <3>2. k \in Shown(objects) /\ k <= marker /\ k \in found
      BY <1>4, <1>7, <3>1
    <3>3. k > marker /\ k \in Nat
      BY <1>4, <1>5, <1>6, <3>2
    <3> QED  BY <1>6, <3>2, <3>3
  <2>2. listed \subseteq Keys
    BY <1>3 DEF ListTypeOK
  <2>3. entries = Cardinality(listed)
    BY <1>3 DEF Progress
  <2> QED  BY <1>1, <1>4, <2>1, <2>2, <2>3, CountAdds
<1>9. Shown(objects)' = Shown(objects)
  BY <1>2 DEF Shown
<1>10. \A k \in Shown(objects) : k \in objects /\ (k \in found => k \in Shown(found))
  BY DEF Shown
<1>11. ASSUME page = Rest \/ found = {}, listing' = "done", marker' = marker
       PROVE  Progress'
  <2>1. page = Rest
    BY <1>1, <1>3, <1>11, PageAdvances
  <2>2. \A k \in objects : k > marker => k \in found
    BY <2>1 DEF Rest
  <2>3. listed' = Shown(objects)
    <3>1. \A k \in Shown(objects) : k <= marker \/ k \in Shown(found)
      <4>1. SUFFICES ASSUME NEW k \in Shown(objects)  PROVE k <= marker \/ k \in Shown(found)
        OBVIOUS
      <4>2. k \in objects /\ k \in Nat
        BY <1>6, <1>10
      <4>3. k <= marker \/ k > marker
        BY <1>6, <4>2
      <4> QED  BY <1>10, <2>2, <4>2, <4>3
    <3>2. Shown(found) \subseteq Shown(objects)
      BY <1>4 DEF Shown
    <3> QED  BY <1>1, <1>7, <3>1, <3>2
  <2> QED  BY <1>8, <1>9, <1>11, <2>3 DEF Progress
<1>12. ASSUME page # Rest, marker' \in found, \A k \in found : k <= marker', listing' = listing
       PROVE  Progress'
  <2>1. ASSUME NEW k \in objects, k > marker, k <= marker'  PROVE k \in found
    <3>1. k \in Rest
      BY <2>1 DEF Rest
    <3>2. k \notin page => marker' < k
      BY <1>1, <1>12, <3>1 DEF IsPage
    <3>3. marker' \in Nat /\ k \in Nat
      BY <1>4, <1>6, <1>12
    <3>4. ~(marker' < k)
      BY <2>1, <3>3
    <3> QED  BY <3>2, <3>4
  <2>2. marker' \in Nat /\ marker < marker'
    BY <1>5, <1>6, <1>12
  <2>3. ASSUME NEW k \in Shown(objects)
        PROVE  k <= marker' <=> k <= marker \/ k \in found
    <3>1. k \in objects /\ k \in Nat
      BY <1>6, <1>10, <2>3
    <3>2. k <= marker => k <= marker'
      BY <1>6, <2>2, <3>1
    <3>3. k \in found => k <= marker'
      BY <1>12
    <3>4. k <= marker \/ k > marker
      BY <1>6, <3>1
    <3> QED  BY <2>1, <3>1, <3>2, <3>3, <3>4
  <2>4. listed' = {k \in Shown(objects) : k <= marker'}
    BY <1>1, <1>4, <1>7, <1>10, <2>3 DEF Shown
  <2> QED  BY <1>2, <1>8, <1>9, <1>12, <2>4 DEF Progress
<1>13. Progress'
  BY <1>1, <1>11, <1>12
<1>14. ListTypeOK'
  <2>1. listed' \subseteq objects'
    BY <1>1, <1>2, <1>3, <1>4 DEF ListTypeOK
  <2>2. marker' \in Keys \cup {0}
    BY <1>1, <1>3, <1>4 DEF ListTypeOK
  <2>3. entries' \in Nat
    <3>1. listed' \subseteq Keys
      BY <1>2, <1>4, <2>1
    <3> QED  BY <1>8, <3>1, FiniteObjects, FS_CardinalityType
  <2>4. listing' \in {"paging", "done", "failed"}
    BY <1>1, <1>2
  <2> QED  BY <1>2, <1>3, <2>1, <2>2, <2>3, <2>4 DEF ListTypeOK
<1> QED  BY <1>13, <1>14 DEF LInv

LEMMA ListStepHolds == LInv /\ [ListNext]_listVars => LInv'
<1> SUFFICES ASSUME LInv, [ListNext]_listVars PROVE LInv'
  OBVIOUS
<1>1. CASE ListPage
  BY <1>1, ListPageHolds
<1>2. CASE ListFails
  BY <1>2 DEF ListFails, LInv, ListTypeOK, Progress, Shown
<1>3. CASE UNCHANGED listVars
  BY <1>3 DEF listVars, LInv, ListTypeOK, Progress, Shown
<1> QED  BY <1>1, <1>2, <1>3 DEF ListNext

\* The types of Listing, for the loops of the bundle page and of the loader.
THEOREM ListTypes == ListSpec => []ListTypeOK
<1>1. LInv => ListTypeOK
  BY DEF LInv
<1> QED  BY <1>1, ListInitHolds, ListStepHolds, PTL DEF ListSpec

\* handleBundle and ListKeys: however many objects there are and wherever the
\* pages break, a listing that ends well has every key once.
THEOREM ListedOnceAlways == ListSpec => []ListedOnce
<1>1. LInv => ListedOnce
  BY DEF LInv, Progress, ListedOnce
<1> QED  BY <1>1, ListInitHolds, ListStepHolds, PTL DEF ListSpec

-----------------------------------------------------------------------------
\* Logging in (Sessions): any length of a session and any number of changes of
\* the credentials.

\* A cookie that the browser still has is the one of the login it is in.
CookieOfLogin ==
  cookie # NoCookie =>
    /\ login # NoCookie
    /\ cookie.key = login.key
    /\ cookie.exp = Unix(login.time + SessionTTL)

LoginInPast == login # NoCookie => login.time \in Nat /\ login.key \in Nat

SInv == now \in Nat /\ key \in Nat /\ LoginInPast /\ CookieOfLogin

LEMMA SessionInitHolds == SessionInit => SInv
  BY DEF SessionInit, SInv, LoginInPast, CookieOfLogin

LEMMA SessionStepHolds == SInv /\ [SessionNext]_sessionVars => SInv'
<1> SUFFICES ASSUME SInv, [SessionNext]_sessionVars PROVE SInv'
  OBVIOUS
<1> USE DEF SInv, LoginInPast, CookieOfLogin
<1>1. CASE Tick
  BY <1>1 DEF Tick
<1>2. CASE Restart
  BY <1>2 DEF Restart
<1>3. CASE Forget
  BY <1>3 DEF Forget
<1>4. CASE Visit
  BY <1>4 DEF Visit
<1>5. CASE Answer
  BY <1>5 DEF Answer, Root, RequireAuth, LoginPage
<1>6. CASE LogIn
  <2>1. login' \in [time : Nat, key : Nat] /\ login'.time = now /\ login'.key = key
    BY <1>6 DEF LogIn
  <2>2. login' # NoCookie
    BY <2>1, SessionAssumption
  <2>3. cookie'.key = key /\ cookie'.exp = Unix(now + SessionTTL)
    BY <1>6 DEF LogIn
  <2>4. now' = now /\ key' = key
    BY <1>6 DEF LogIn
  <2> QED  BY <2>1, <2>2, <2>3, <2>4
<1>7. CASE LogOut
  BY <1>7 DEF LogOut
<1>8. CASE UNCHANGED sessionVars
  BY <1>8 DEF sessionVars
<1> QED  BY <1>1, <1>2, <1>3, <1>4, <1>5, <1>6, <1>7, <1>8 DEF SessionNext

LEMMA SessionInvAlways == SessionSpec => []SInv
  BY SessionInitHolds, SessionStepHolds, PTL DEF SessionSpec

\* Seconds that are apart are times that are apart, whichever way they round.
LEMMA UnixOrdered ==
  ASSUME NEW s \in Nat, NEW t \in Nat, Unix(s) < Unix(t)
  PROVE  s < t
  BY DEF Unix

\* Only the answer to a request for a page shows one, and it looks at the cookie.
LEMMA ShownByAuth ==
  ASSUME SessionNext, shown' = "page", shown # "page"
  PROVE  SessionCookieValid
  BY DEF SessionNext, Answer, Tick, Restart, Forget, Visit, Root, RequireAuth,
         LoginPage, LogIn, LogOut

LEMMA ShownStep ==
  ASSUME SInv, SessionNext, shown' = "page", shown # "page"
  PROVE  login # NoCookie /\ login.key = key /\ now - login.time < SessionTTL
<1>1. SessionCookieValid
  BY ShownByAuth
<1>2. login # NoCookie /\ login.time \in Nat
  BY <1>1 DEF SessionCookieValid, SInv, LoginInPast, CookieOfLogin
<1>3. login.key = key
  BY <1>1 DEF SessionCookieValid, SInv, CookieOfLogin
<1>4. Unix(now) < Unix(login.time + SessionTTL)
  BY <1>1 DEF SessionCookieValid, SInv, CookieOfLogin
<1>5. now < login.time + SessionTTL
  <2>1. now \in Nat /\ login.time + SessionTTL \in Nat
    BY <1>2, SessionAssumption DEF SInv
  <2> QED  BY <1>4, <2>1, UnixOrdered
<1>6. now - login.time < SessionTTL
  BY <1>2, <1>5, SessionAssumption DEF SInv
<1> QED  BY <1>2, <1>3, <1>6

\* A page is only given to a browser that logged in with the credentials of
\* today, less than a session ago, and has not logged out since, whatever the
\* clocks, the restarts and the cookies that were kept (requireAuth).
THEOREM PagesNeedLogin == SessionSpec => PagesAfterLogin
<1> DEFINE Step == shown' = "page" /\ shown # "page" =>
                     /\ login # NoCookie /\ login.key = key
                     /\ now - login.time < SessionTTL
<1>1. SInv /\ [SessionNext]_sessionVars => [Step]_sessionVars
  BY ShownStep
<1> QED  BY <1>1, SessionInvAlways, PTL DEF SessionSpec, PagesAfterLogin

-----------------------------------------------------------------------------
\* The queue of the upload page (UploadQueue): any files.

\* Only the file whose answer the page waits for has a request that it could
\* still answer, and an answer that all is well speaks of a file that landed.
OneInFlight ==
  \A f \in Picks :
    /\ f # sending => atServer[f] \in {"none", "lost"}
    /\ atServer[f] = "ok" => f \in landed

\* Every file that the page took is in one place.
Accounted ==
  /\ fitting = waiting \cup staged \cup failed \cup ({sending} \ {NoPick})
  /\ waiting \cap (staged \cup failed) = {}
  /\ staged \cap failed = {}
  /\ sending \notin waiting \cup staged \cup failed
  /\ ~staging => waiting = {} /\ sending = NoPick
  /\ staged \subseteq landed

QInv == QueueTypeOK /\ OneInFlight /\ Accounted

LEMMA QueueInitHolds == QueueInit => QInv
  BY PickAssumption DEF QueueInit, QInv, QueueTypeOK, OneInFlight, Accounted

\* One lemma for each action.

LEMMA OthersWorkKeeps == QInv /\ OthersWork => QInv'
  BY DEF OthersWork, QInv, QueueTypeOK, OneInFlight, Accounted

LEMMA LearnLockKeeps == QInv /\ LearnLock => QInv'
  BY DEF LearnLock, QInv, QueueTypeOK, OneInFlight, Accounted

LEMMA ArriveKeeps == ASSUME NEW f \in Picks, QInv, Arrive(f) PROVE QInv'
<1>1. QueueTypeOK'
  BY DEF Arrive, QInv, QueueTypeOK
<1>2. OneInFlight'
  BY DEF Arrive, QInv, QueueTypeOK, OneInFlight
<1>3. Accounted'
  BY DEF Arrive, QInv, Accounted
<1> QED  BY <1>1, <1>2, <1>3 DEF QInv

LEMMA LandKeeps == ASSUME NEW f \in Picks, QInv, Land(f) PROVE QInv'
<1>1. QueueTypeOK'
  BY DEF Land, QInv, QueueTypeOK
<1>2. OneInFlight'
  BY DEF Land, QInv, QueueTypeOK, OneInFlight
<1>3. Accounted'
  BY DEF Land, QInv, Accounted
<1> QED  BY <1>1, <1>2, <1>3 DEF QInv

LEMMA LandLostKeeps == ASSUME NEW f \in Picks, QInv, LandLost(f) PROVE QInv'
<1>1. landed \subseteq landed'
  BY DEF LandLost
<1>2. QueueTypeOK'
  BY DEF LandLost, QInv, QueueTypeOK
<1>3. OneInFlight'
  BY <1>1 DEF LandLost, QInv, QueueTypeOK, OneInFlight
<1>4. Accounted'
  BY <1>1 DEF LandLost, QInv, Accounted
<1> QED  BY <1>2, <1>3, <1>4 DEF QInv

LEMMA PickKeeps == QInv /\ Pick => QInv'
<1> SUFFICES ASSUME QInv, Pick PROVE QInv'
  OBVIOUS
<1>1. sending = NoPick
  BY DEF QInv, Accounted, Pick, IsBusy
<1>2. QueueTypeOK'
  BY DEF Pick, QInv, QueueTypeOK
<1>3. OneInFlight'
  BY <1>1, PickAssumption DEF Pick, QInv, OneInFlight
<1>4. Accounted'
  BY <1>1, PickAssumption DEF Pick, QInv, Accounted
<1> QED  BY <1>2, <1>3, <1>4 DEF QInv

LEMMA SendNextKeeps == QInv /\ SendNext => QInv'
<1> SUFFICES ASSUME QInv, SendNext PROVE QInv'
  OBVIOUS
<1>1. ASSUME NEW f \in waiting, sending' = f, waiting' = waiting \ {f},
             atServer' = [atServer EXCEPT ![f] = "sent"], staging' = TRUE
      PROVE  QInv'
  <2>1. f \in Picks
    BY DEF QInv, QueueTypeOK
  <2>2. QueueTypeOK'
    BY <1>1, <2>1 DEF SendNext, QInv, QueueTypeOK
  <2>3. OneInFlight'
    BY <1>1, <2>1, PickAssumption DEF SendNext, QInv, QueueTypeOK, OneInFlight
  <2>4. Accounted'
    BY <1>1, <2>1, PickAssumption DEF SendNext, QInv, Accounted
  <2> QED  BY <2>2, <2>3, <2>4 DEF QInv
<1>2. ASSUME waiting = {}, staging' = FALSE, UNCHANGED <<waiting, sending, atServer>>
      PROVE  QInv'
  BY <1>2 DEF SendNext, QInv, QueueTypeOK, OneInFlight, Accounted
<1> QED  BY <1>1, <1>2 DEF SendNext

LEMMA LoadKeeps == QInv /\ Load => QInv'
<1> SUFFICES ASSUME QInv, Load PROVE QInv'
  OBVIOUS
<1>1. sending \in Picks
  BY DEF Load, QInv, QueueTypeOK
<1>2. QueueTypeOK'
  BY <1>1 DEF Load, QInv, QueueTypeOK
<1>3. OneInFlight'
  BY <1>1, PickAssumption DEF Load, QInv, QueueTypeOK, OneInFlight
<1>4. Accounted'
  <2>1. staged' \subseteq landed'
    BY <1>1 DEF Load, QInv, OneInFlight, Accounted
  <2>2. staged' \cup failed' = staged \cup failed \cup {sending} /\ sending' = NoPick
    BY DEF Load
  <2>3. UNCHANGED <<waiting, fitting, staging>> /\ sending # NoPick
    BY DEF Load
  <2>4. staged' \cap failed' = {}
    BY DEF Load, QInv, Accounted
  <2>5. NoPick \notin waiting \cup staged' \cup failed'
    BY <1>1, <2>2, PickAssumption DEF QInv, QueueTypeOK
  <2> QED  BY <2>1, <2>2, <2>3, <2>4, <2>5 DEF QInv, Accounted
<1> QED  BY <1>2, <1>3, <1>4 DEF QInv

\* The page gives up on a request: the file is reported as failed.
LEMMA GivenUp ==
  ASSUME QInv, sending \in Picks, sending' = NoPick, failed' = failed \cup {sending},
         UNCHANGED <<waiting, fitting, staging, staged, landed>>
  PROVE  Accounted'
<1>1. NoPick \notin waiting \cup staged \cup failed'
  BY PickAssumption DEF QInv, QueueTypeOK
<1> QED  BY <1>1, PickAssumption DEF QInv, Accounted

LEMMA BreakOffKeeps == QInv /\ BreakOff => QInv'
<1> SUFFICES ASSUME QInv, BreakOff PROVE QInv'
  OBVIOUS
<1>1. sending \in Picks
  BY DEF BreakOff, QInv, QueueTypeOK
<1>2. QueueTypeOK'
  BY <1>1 DEF BreakOff, QInv, QueueTypeOK
<1>3. OneInFlight'
  BY <1>1, PickAssumption DEF BreakOff, QInv, QueueTypeOK, OneInFlight
<1>4. Accounted'
  BY <1>1, GivenUp DEF BreakOff
<1> QED  BY <1>2, <1>3, <1>4 DEF QInv

LEMMA LoginNeededKeeps == QInv /\ LoginNeeded => QInv'
<1> SUFFICES ASSUME QInv, LoginNeeded PROVE QInv'
  OBVIOUS
<1>1. sending \in Picks
  BY DEF LoginNeeded, QInv, QueueTypeOK
<1>2. QueueTypeOK'
  BY <1>1 DEF LoginNeeded, QInv, QueueTypeOK
<1>3. OneInFlight'
  BY <1>1, PickAssumption DEF LoginNeeded, QInv, QueueTypeOK, OneInFlight
<1>4. Accounted'
  BY <1>1, GivenUp DEF LoginNeeded
<1> QED  BY <1>2, <1>3, <1>4 DEF QInv

LEMMA QueueStepHolds == QInv /\ [QueueNext]_queueVars => QInv'
<1> SUFFICES ASSUME QInv, [QueueNext]_queueVars PROVE QInv'
  OBVIOUS
<1>1. CASE UNCHANGED queueVars
  BY <1>1 DEF queueVars, QInv, QueueTypeOK, OneInFlight, Accounted
<1>2. CASE QueueNext
  BY <1>2, OthersWorkKeeps, LearnLockKeeps, ArriveKeeps, LandKeeps, LandLostKeeps, PickKeeps,
     SendNextKeeps, LoadKeeps, BreakOffKeeps, LoginNeededKeeps
  DEF QueueNext, ServerStep, PageStep
<1> QED  BY <1>1, <1>2

LEMMA QueueInvAlways == QueueSpec => []QInv
  BY QueueInitHolds, QueueStepHolds, PTL DEF QueueSpec

\* When the page says that it is done, every file that it took is counted as
\* staged or named as failed, none as both, and what is counted has landed,
\* for any number of files and any failures (uploadFiles, uploadOne).
THEOREM ReportTrue == QueueSpec => []QueueReport
<1>1. QInv => QueueReport
  BY DEF QInv, Accounted, QueueReport
<1> QED  BY <1>1, QueueInvAlways, PTL

-----------------------------------------------------------------------------
\* Titles and names (Titles): any texts of the characters of the model, and any
\* limits.

Texts == Seq(TitleChars \cup NameChars)

\* The greatest and the least of a set of positions.
LEMMA EndsOf ==
  ASSUME NEW N \in Nat, NEW S \in SUBSET (0 .. N), S # {}
  PROVE  /\ Min(S) \in S /\ \A i \in S : Min(S) <= i
         /\ Max(S) \in S /\ \A i \in S : Max(S) >= i
<1>1. \E x \in S : \A y \in S : x <= y
  <2>1. S \in SUBSET Nat
    OBVIOUS
  <2> QED  BY <2>1, LeastOf
<1>2. \E x \in S : \A y \in S : x >= y
  <2> DEFINE Back == {N - x : x \in S}
  <2>1. Back \in SUBSET Nat /\ Back # {}
    <3>1. \A x \in S : N - x \in Nat
      OBVIOUS
    <3> QED  BY <3>1
  <2>2. PICK b \in Back : \A c \in Back : b <= c
    <3> HIDE DEF Back
    <3> QED  BY <2>1, LeastOf
  <2>3. PICK x \in S : b = N - x
    OBVIOUS
  <2>4. \A y \in S : N - x <= N - y
    BY <2>2, <2>3
  <2>5. \A y \in S : x >= y
    BY <2>4
  <2> QED  BY <2>5
<1>3. Min(S) \in S /\ \A i \in S : Min(S) <= i
  BY <1>1 DEF Min
<1>4. Max(S) \in S /\ \A i \in S : Max(S) >= i
  BY <1>2 DEF Max
<1> QED  BY <1>3, <1>4

\* The positions of a text that hold none of these characters.
Kept(s, chars) == {i \in 1 .. Len(s) : s[i] \notin chars}

LEMMA KeptEnds ==
  ASSUME NEW s \in Texts, NEW chars, Kept(s, chars) # {}
  PROVE  /\ Min(Kept(s, chars)) \in Kept(s, chars)
         /\ Max(Kept(s, chars)) \in Kept(s, chars)
         /\ \A i \in Kept(s, chars) : Min(Kept(s, chars)) <= i /\ i <= Max(Kept(s, chars))
<1> DEFINE K == Kept(s, chars)
<1>1. Len(s) \in Nat /\ K \in SUBSET (0 .. Len(s)) /\ K # {}
  BY DEF Kept, Texts
<1>2. Min(K) \in K /\ Max(K) \in K /\ \A i \in K : Min(K) <= i /\ Max(K) >= i
  <2> HIDE DEF K
  <2> QED  BY <1>1, EndsOf
<1> QED  BY <1>1, <1>2

LEMMA TrimIs ==
  ASSUME NEW s \in Texts, NEW chars
  PROVE  Trim(s, chars) = IF Kept(s, chars) = {} THEN << >>
                          ELSE SubSeq(s, Min(Kept(s, chars)), Max(Kept(s, chars)))
<1> DEFINE K == Kept(s, chars)
           I == {i \in 1 .. Len(s) : s[i] \notin chars}
           first == IF I # {} THEN Min(I) ELSE 0
           last  == IF I # {} THEN Max(I) ELSE 0
<1>1. Trim(s, chars) = IF first = 0 THEN << >> ELSE SubSeq(s, first, last)
  BY Zenon DEF Trim, SelectInSeq, SelectLastInSeq
<1>2. I = K
  BY DEF Kept
<1>3. K # {} => first # 0
  <2>1. K # {} => Min(K) \in 1 .. Len(s)
    BY KeptEnds DEF Kept
  <2> HIDE DEF K, I
  <2> QED  BY <1>2, <2>1
<1> HIDE DEF K, I
<1> QED  BY <1>1, <1>2, <1>3 DEF K

LEMMA TrimRightIs ==
  ASSUME NEW s \in Texts, NEW chars
  PROVE  TrimRight(s, chars) = IF Kept(s, chars) = {} THEN << >>
                               ELSE SubSeq(s, 1, Max(Kept(s, chars)))
<1> DEFINE K == Kept(s, chars)
           I == {i \in 1 .. Len(s) : s[i] \notin chars}
           last  == IF I # {} THEN Max(I) ELSE 0
<1>1. TrimRight(s, chars) = SubSeq(s, 1, last)
  BY Zenon DEF TrimRight, SelectLastInSeq
<1>2. I = K
  BY DEF Kept
<1>3. SubSeq(s, 1, 0) = << >>
  BY DEF Texts
<1> HIDE DEF K, I
<1> QED  BY <1>1, <1>2, <1>3 DEF K

\* What trimming leaves: a part of the text, with none of the characters at the
\* ends.
LEMMA TrimParts ==
  ASSUME NEW s \in Texts, NEW chars, Trim(s, chars) # << >>
  PROVE  \E a, b \in 1 .. Len(s) :
           /\ a <= b /\ Trim(s, chars) = SubSeq(s, a, b)
           /\ s[a] \notin chars /\ s[b] \notin chars
<1> DEFINE K == Kept(s, chars)
<1>1. K # {} /\ Trim(s, chars) = SubSeq(s, Min(K), Max(K))
  BY TrimIs
<1>2. Min(K) \in K /\ Max(K) \in K /\ Min(K) <= Max(K)
  BY <1>1, KeptEnds
<1>3. \A i \in K : i \in 1 .. Len(s) /\ s[i] \notin chars
  BY DEF Kept
<1> HIDE DEF K
<1> QED  BY <1>1, <1>2, <1>3

LEMMA TrimTyped ==
  ASSUME NEW s \in Texts, NEW chars
  PROVE  Trim(s, chars) \in Texts
<1>1. CASE Trim(s, chars) = << >>
  BY <1>1 DEF Texts
<1>2. CASE Trim(s, chars) # << >>
  <2>1. PICK a, b \in 1 .. Len(s) : a <= b /\ Trim(s, chars) = SubSeq(s, a, b)
    BY <1>2, TrimParts
  <2> QED  BY <2>1 DEF Texts
<1> QED  BY <1>1, <1>2

\* A text without these characters at its ends is left as it is.
LEMMA TrimSame ==
  ASSUME NEW s \in Texts, NEW chars, s # << >>, s[1] \notin chars, s[Len(s)] \notin chars
  PROVE  Trim(s, chars) = s /\ TrimRight(s, chars) = s
<1> DEFINE K == Kept(s, chars)
<1>1. Len(s) \in Nat \ {0}
  BY DEF Texts
<1>2. 1 \in K /\ Len(s) \in K /\ \A i \in K : i \in 1 .. Len(s)
  BY <1>1 DEF Kept
<1>3. Min(K) \in K /\ Max(K) \in K /\ Min(K) <= 1 /\ Len(s) <= Max(K)
  BY <1>2, KeptEnds
<1>4. Min(K) = 1 /\ Max(K) = Len(s)
  <2> HIDE DEF K
  <2> QED  BY <1>1, <1>2, <1>3
<1>5. SubSeq(s, 1, Len(s)) = s
  BY DEF Texts
<1> QED  BY <1>2, <1>4, <1>5, TrimIs, TrimRightIs

-----------------------------------------------------------------------------
\* The title of a bundle

\* A title that was sanitised: letters and dots with single dashes between them,
\* not too long, and neither a dash nor a dot at an end.
Clean(t) ==
  /\ t \in Seq({"a", ".", "-"}) /\ t # << >> /\ Len(t) <= MaxRunes
  /\ t[1] \notin {"-", "."} /\ t[Len(t)] \notin {"-", "."}
  /\ \A i \in 1 .. Len(t) - 1 : t[i] # "-" \/ t[i + 1] # "-"

\* What a turn of the loop makes of what it has.
Put(t, c) ==
  IF c \in {"a", "."} THEN Append(t, c)
  ELSE IF t # << >> /\ Last(t) # "-" THEN Append(t, "-")
  ELSE t

\* What the loop may have: no two dashes in a row.
Loops == {t \in Seq({"a", ".", "-"}) : \A i \in 1 .. Len(t) - 1 : t[i] # "-" \/ t[i + 1] # "-"}

LEMMA PutLoops ==
  ASSUME NEW t \in Loops, NEW c
  PROVE  Put(t, c) \in Loops
<1>1. ASSUME NEW d \in {"a", ".", "-"}, d = "-" => t = << >> \/ t[Len(t)] # "-"
      PROVE  Append(t, d) \in Loops
  <2> DEFINE u == Append(t, d)
  <2>1. t \in Seq({"a", ".", "-"}) /\ Len(t) \in Nat
    BY DEF Loops
  <2>2. /\ u \in Seq({"a", ".", "-"}) /\ Len(u) = Len(t) + 1 /\ u[Len(t) + 1] = d
        /\ \A i \in 1 .. Len(t) : u[i] = t[i]
    BY <2>1
  <2>3. ASSUME NEW i \in 1 .. Len(u) - 1  PROVE u[i] # "-" \/ u[i + 1] # "-"
    <3> HIDE DEF u
    <3>1. i = Len(t) \/ i \in 1 .. Len(t) - 1
      BY <2>1, <2>2
    <3>2. CASE i = Len(t)
      BY <1>1, <2>1, <2>2, <3>2
    <3>3. CASE i \in 1 .. Len(t) - 1
      <4>1. t[i] # "-" \/ t[i + 1] # "-"
        BY <3>3 DEF Loops
      <4> QED  BY <2>1, <2>2, <3>3, <4>1
    <3> QED  BY <3>1, <3>2, <3>3
  <2> HIDE DEF u
  <2>4. u \in Loops
    BY <2>2, <2>3 DEF Loops
  <2> QED  BY <2>4 DEF u
<1>2. CASE c \in {"a", "."}
  BY <1>1, <1>2 DEF Put
<1>3. CASE c \notin {"a", "."}
  BY <1>1, <1>3 DEF Put, Last
<1> QED  BY <1>2, <1>3

\* The turns of the loop.
LEMMA FoldedBy ==
  ASSUME NEW s \in Texts
  PROVE  \E g \in [0 .. Len(s) -> Loops] :
           /\ g[0] = << >> /\ Folded(s) = g[Len(s)]
           /\ \A i \in 1 .. Len(s) : g[i] = Put(g[i - 1], s[i])
<1> DEFINE Turns(f) == [i \in 0 .. Len(s) |-> IF i = 0 THEN << >> ELSE Put(f[i - 1], s[i])]
           upTo == CHOOSE f : f = Turns(f)
           step == [i \in 1 .. Len(s) |-> [t \in Loops |-> Put(t, s[i])]]
<1>1. Len(s) \in Nat /\ << >> \in Loops
  BY DEF Texts, Loops
<1>2. step \in [1 .. Len(s) -> [Loops -> Loops]]
  BY PutLoops
<1>3. PICK g \in [0 .. Len(s) -> Loops] :
        g[0] = << >> /\ \A i \in 1 .. Len(s) : g[i] = step[i][g[i - 1]]
  <2> HIDE DEF step
  <2>1. \E g \in [0 .. Len(s) -> Loops] : IsLoop(g, Len(s), << >>, step)
    BY <1>1, <1>2, Recursion
  <2> QED  BY <2>1 DEF IsLoop
<1>4. \A i \in 1 .. Len(s) : g[i] = Put(g[i - 1], s[i])
  <2>1. \A i \in 1 .. Len(s) : i - 1 \in 0 .. Len(s)
    BY <1>1
  <2>2. \A i \in 1 .. Len(s) : g[i - 1] \in Loops
    BY <2>1
  <2>3. \A i \in 1 .. Len(s), t \in Loops : step[i][t] = Put(t, s[i])
    OBVIOUS
  <2> HIDE DEF step
  <2> QED  BY <1>3, <2>2, <2>3
<1>5. g = Turns(g)
  <2>1. \A i \in 0 .. Len(s) : i = 0 \/ i \in 1 .. Len(s)
    BY <1>1
  <2> QED  BY <1>3, <1>4, <2>1
<1>6. upTo = Turns(upTo)
  BY <1>5, Zenon
<1>7. Folded(s) = upTo[Len(s)]
  BY Zenon DEF Folded, Put
<1>8. \A i \in 0 .. Len(s) : upTo[i] = g[i]
  <2> DEFINE True == {i \in 0 .. Len(s) : upTo[i] = g[i]}
  <2> HIDE DEF upTo
  <2>1. 0 \in True
    BY <1>1, <1>3, <1>6
  <2>2. ASSUME NEW i \in 1 .. Len(s), i - 1 \in True  PROVE i \in True
    BY <1>1, <1>4, <1>6, <2>2
  <2>3. \A i \in 0 .. Len(s) : i \in True
    <3> HIDE DEF True
    <3> QED  BY <1>1, <2>1, <2>2, UptoInduct
  <2> QED  BY <2>3
<1>9. Folded(s) = g[Len(s)]
  <2> HIDE DEF upTo
  <2> QED  BY <1>1, <1>7, <1>8
<1> QED  BY <1>3, <1>4, <1>9

LEMMA FoldedLoops ==
  ASSUME NEW s \in Texts
  PROVE  Folded(s) \in Loops
<1>1. Len(s) \in Nat
  BY DEF Texts
<1> QED  BY <1>1, FoldedBy

\* The loop leaves a sanitised title as it is.
LEMMA FoldedSame ==
  ASSUME NEW t, Clean(t)
  PROVE  t \in Texts /\ Folded(t) = t
<1>1. t \in Texts /\ Len(t) \in Nat \ {0}
  <2>1. t \in Seq({"a", ".", "-"}) /\ t # << >>
    BY DEF Clean
  <2>2. {"a", ".", "-"} \subseteq TitleChars \cup NameChars
    BY DEF TitleChars
  <2>3. \A i \in 1 .. Len(t) : t[i] \in TitleChars \cup NameChars
    BY <2>1, <2>2
  <2> QED  BY <2>1, <2>3 DEF Texts
<1>2. PICK g \in [0 .. Len(t) -> Loops] :
        /\ g[0] = << >> /\ Folded(t) = g[Len(t)]
        /\ \A i \in 1 .. Len(t) : g[i] = Put(g[i - 1], t[i])
  BY <1>1, FoldedBy
<1> DEFINE True == {i \in 0 .. Len(t) : g[i] = SubSeq(t, 1, i)}
<1>3. 0 \in True
  <2>1. SubSeq(t, 1, 0) = << >> /\ 0 \in 0 .. Len(t)
    BY <1>1
  <2> QED  BY <1>2, <2>1
<1>4. ASSUME NEW i \in 1 .. Len(t), i - 1 \in True  PROVE i \in True
  <2> DEFINE u == SubSeq(t, 1, i - 1)
  <2>1. g[i] = Put(u, t[i])
    BY <1>2, <1>4
  <2>2. u \in Texts /\ Len(u) = i - 1 /\ \A j \in 1 .. i - 1 : u[j] = t[j]
    BY <1>1 DEF Texts
  <2>3. SubSeq(t, 1, i) = Append(u, t[i])
    BY <1>1 DEF Texts
  <2>4. t[i] \in {"a", ".", "-"}
    BY DEF Clean
  <2>5. t[i] = "-" => u # << >> /\ Last(u) # "-"
    <3>1. t[i] = "-" => i - 1 \in 1 .. Len(t) - 1 /\ (i - 1) + 1 = i
      BY <1>1 DEF Clean
    <3>2. t[i] = "-" => t[i - 1] # "-"
      BY <3>1 DEF Clean
    <3> HIDE DEF u
    <3> QED  BY <2>2, <3>1, <3>2 DEF Last, Texts
  <2>6. Put(u, t[i]) = Append(u, t[i])
    <3> HIDE DEF u
    <3> QED  BY <2>4, <2>5 DEF Put
  <2> QED  BY <2>1, <2>3, <2>6
<1>5. Len(t) \in True
  <2> HIDE DEF True
  <2>1. \A i \in 0 .. Len(t) : i \in True
    BY <1>1, <1>3, <1>4, UptoInduct
  <2> QED  BY <1>1, <2>1
<1>6. SubSeq(t, 1, Len(t)) = t
  BY <1>1 DEF Texts
<1> QED  BY <1>1, <1>2, <1>5, <1>6

\* What sanitizePushTitle accepts becomes a sanitised title.
LEMMA PushTitleClean ==
  ASSUME NEW s \in Texts, PushTitle(s) # << >>
  PROVE  Clean(PushTitle(s))
<1> DEFINE loop == Folded(Trim(s, {" "}))
           out  == Trim(loop, {"-", "."})
           cut  == SubSeq(out, 1, MaxRunes)
           Ends == {"-", "."}
<1>1. PushTitle(s) = IF Len(out) > MaxRunes THEN TrimRight(cut, Ends) ELSE out
  BY DEF PushTitle
<1>2. loop \in Loops /\ loop \in Texts
  <2>1. loop \in Loops
    BY TrimTyped, FoldedLoops
  <2>2. \A t \in Loops : t \in Texts
    <3> SUFFICES ASSUME NEW t \in Loops  PROVE t \in Texts
      OBVIOUS
    <3>1. t \in Seq({"a", ".", "-"})
      BY DEF Loops
    <3>2. {"a", ".", "-"} \subseteq TitleChars \cup NameChars
      BY DEF TitleChars
    <3>3. \A i \in 1 .. Len(t) : t[i] \in TitleChars \cup NameChars
      BY <3>1, <3>2
    <3> QED  BY <3>1, <3>3 DEF Texts
  <2> QED  BY <2>1, <2>2
<1>3. out # << >>
  <2>1. MaxRunes \in Nat
    BY RunesAssumption
  <2> HIDE DEF loop
  <2> QED  BY <1>1, <2>1
<1>4. PICK a, b \in 1 .. Len(loop) :
        /\ a <= b /\ out = SubSeq(loop, a, b)
        /\ loop[a] \notin Ends /\ loop[b] \notin Ends
  <2> HIDE DEF loop
  <2> QED  BY <1>2, <1>3, TrimParts
<1> HIDE DEF loop
<1> HIDE DEF out
<1>5. out \in Texts /\ Len(out) = b - a + 1 /\ \A i \in 1 .. Len(out) : out[i] = loop[a + i - 1]
  BY <1>2, <1>4 DEF Texts
<1>6. \A i \in 1 .. Len(loop) : loop[i] \in {"a", ".", "-"}
  BY <1>2 DEF Loops
<1>7. /\ \A i \in 1 .. Len(out) : out[i] \in {"a", ".", "-"}
      /\ \A i \in 1 .. Len(out) - 1 : out[i] # "-" \/ out[i + 1] # "-"
  <2>1. Len(loop) \in Nat
    BY <1>2 DEF Texts
  <2>2. \A i \in 1 .. Len(out) : a + i - 1 \in 1 .. Len(loop)
    BY <1>4, <1>5, <2>1
  <2>3. ASSUME NEW i \in 1 .. Len(out) - 1  PROVE out[i] # "-" \/ out[i + 1] # "-"
    <3>1. i \in 1 .. Len(out) /\ i + 1 \in 1 .. Len(out)
      BY <1>5
    <3>2. a + i - 1 \in 1 .. Len(loop) - 1 /\ a + (i + 1) - 1 = (a + i - 1) + 1
      BY <1>4, <1>5, <2>1
    <3>3. loop[a + i - 1] # "-" \/ loop[(a + i - 1) + 1] # "-"
      BY <1>2, <3>2 DEF Loops
    <3> QED  BY <1>5, <3>1, <3>2, <3>3
  <2> QED  BY <1>5, <1>6, <2>2, <2>3
<1>8. Len(out) \in Nat \ {0} /\ out[1] \notin Ends /\ out[Len(out)] \notin Ends
  BY <1>4, <1>5
<1>9. CASE Len(out) <= MaxRunes
  <2>1. MaxRunes \in Nat
    BY RunesAssumption
  <2>2. PushTitle(s) = out
    BY <1>1, <1>8, <1>9, <2>1
  <2>3. out \in Seq({"a", ".", "-"})
    BY <1>5, <1>7 DEF Texts
  <2> QED  BY <1>3, <1>7, <1>8, <1>9, <2>2, <2>3 DEF Clean
<1>10. CASE Len(out) > MaxRunes
  <2>1. MaxRunes \in Nat \ {0}
    BY RunesAssumption
  <2>2. /\ cut \in Texts /\ Len(cut) = MaxRunes
        /\ \A i \in 1 .. MaxRunes : cut[i] = out[i]
    BY <1>5, <1>10, <2>1 DEF Texts
  <2> HIDE DEF cut
  <2> DEFINE K == Kept(cut, Ends)
             n == Max(K)
  <2>3. 1 \in K
    BY <1>8, <2>1, <2>2 DEF Kept
  <2>4. n \in K /\ TrimRight(cut, Ends) = SubSeq(cut, 1, n)
    BY <2>2, <2>3, KeptEnds, TrimRightIs
  <2>5. n \in 1 .. MaxRunes /\ cut[n] \notin Ends
    BY <2>2, <2>4 DEF Kept
  <2> DEFINE t == SubSeq(cut, 1, n)
  <2> HIDE DEF n
  <2>6. t \in Texts /\ Len(t) = n /\ \A i \in 1 .. n : t[i] = out[i]
    BY <2>1, <2>2, <2>5 DEF Texts
  <2> HIDE DEF t
  <2>7. t[1] \notin Ends /\ t[n] \notin Ends
    BY <1>8, <2>1, <2>2, <2>5, <2>6
  <2>8. \A i \in 1 .. n : i \in 1 .. Len(out)
    BY <1>8, <1>10, <2>1, <2>5
  <2>9. \A i \in 1 .. n - 1 : t[i] # "-" \/ t[i + 1] # "-"
    <3>1. \A i \in 1 .. n - 1 : i \in 1 .. Len(out) - 1 /\ i \in 1 .. n /\ i + 1 \in 1 .. n
      BY <1>8, <1>10, <2>1, <2>5
    <3> QED  BY <1>7, <2>6, <3>1
  <2>10. t \in Seq({"a", ".", "-"})
    BY <1>7, <2>6, <2>8 DEF Texts
  <2>11. t # << >> /\ Len(t) <= MaxRunes
    BY <2>1, <2>5, <2>6
  <2>12. PushTitle(s) = t
    BY <1>1, <1>10, <2>4 DEF t, cut
  <2> QED  BY <2>5, <2>6, <2>7, <2>9, <2>10, <2>11, <2>12 DEF Clean
<1>11. Len(out) <= MaxRunes \/ Len(out) > MaxRunes
  BY <1>8, RunesAssumption
<1> QED  BY <1>9, <1>10, <1>11

\* A sanitised title is sanitised to itself.
LEMMA PushTitleSame ==
  ASSUME NEW t, Clean(t)
  PROVE  PushTitle(t) = t
<1>1. t \in Texts /\ Folded(t) = t
  BY FoldedSame
<1>2. t # << >> /\ Len(t) \in Nat \ {0}
  BY <1>1 DEF Clean, Texts
<1>3. t[1] \in {"a", ".", "-"} /\ t[Len(t)] \in {"a", ".", "-"}
  BY <1>2 DEF Clean
<1>4. Trim(t, {" "}) = t
  BY <1>1, <1>2, <1>3, TrimSame
<1>5. Trim(t, {"-", "."}) = t
  BY <1>1, <1>2, TrimSame DEF Clean
<1>6. ~(Len(t) > MaxRunes)
  BY <1>2, RunesAssumption DEF Clean
<1> QED  BY <1>1, <1>4, <1>5, <1>6 DEF PushTitle

-----------------------------------------------------------------------------
\* The name of a staged file

\* A name that a file can be staged under: no hidden one, and no separators.
CleanName(n) ==
  /\ n \in Texts /\ n # << >> /\ n[1] # "."
  /\ \A i \in 1 .. Len(n) : n[i] \notin {"/", ":", "\\"}

LEMMA SlashedIs ==
  ASSUME NEW s \in Texts
  PROVE  /\ Slashed(s) \in Texts /\ Len(Slashed(s)) = Len(s)
         /\ \A i \in 1 .. Len(s) : /\ Slashed(s)[i] # "\\"
                                   /\ s[i] # "\\" => Slashed(s)[i] = s[i]
<1>1. s \in Seq(TitleChars \cup NameChars) /\ DOMAIN s = 1 .. Len(s) /\ Len(s) \in Nat
  BY DEF Texts
<1>2. \A i \in 1 .. Len(s) : (IF s[i] = "\\" THEN "/" ELSE s[i]) \in TitleChars \cup NameChars
  <2>1. "/" \in NameChars
    BY DEF NameChars
  <2> QED  BY <1>1, <2>1
<1>3. Slashed(s) \in Seq(TitleChars \cup NameChars) /\ DOMAIN Slashed(s) = 1 .. Len(s)
  BY <1>1, <1>2 DEF Slashed
<1>4. Len(Slashed(s)) = Len(s)
  BY <1>1, <1>3
<1>5. \A i \in 1 .. Len(s) : Slashed(s)[i] = IF s[i] = "\\" THEN "/" ELSE s[i]
  BY <1>1 DEF Slashed
<1> QED  BY <1>3, <1>4, <1>5 DEF Texts

\* path.Base gives a dot, a slash, or what comes after the last slash of a path
\* that does not end in one.
LEMMA BaseIs ==
  ASSUME NEW s \in Texts
  PROVE  \/ Base(s) \in {<<".">>, <<"/">>}
         \/ \E a, b \in 1 .. Len(s) :
              /\ a <= b /\ Base(s) = SubSeq(s, a, b)
              /\ \A i \in a .. b : s[i] # "/"
              /\ (\A i \in 1 .. Len(s) : s[i] # "/") => a = 1 /\ b = Len(s)
<1> DEFINE path == TrimRight(s, {"/"})
           K == Kept(s, {"/"})
           I == {i \in 1 .. Len(path) : path[i] = "/"}
           k == IF I # {} THEN Max(I) ELSE 0
<1>1. Base(s) = IF s = << >> THEN <<".">> ELSE IF path = << >> THEN <<"/">>
                ELSE SubSeq(path, k + 1, Len(path))
  BY Zenon DEF Base, SelectLastInSeq
<1>2. SUFFICES ASSUME s # << >>, path # << >>
      PROVE \E a, b \in 1 .. Len(s) :
              /\ a <= b /\ Base(s) = SubSeq(s, a, b)
              /\ \A i \in a .. b : s[i] # "/"
              /\ (\A i \in 1 .. Len(s) : s[i] # "/") => a = 1 /\ b = Len(s)
  <2> HIDE DEF path, k
  <2> QED  BY <1>1
<1> DEFINE b == Max(K)
           a == k + 1
<1>3. K # {} /\ path = SubSeq(s, 1, b)
  BY <1>2, TrimRightIs
<1>4. b \in K /\ \A i \in K : i <= b
  BY <1>3, KeptEnds
<1>5. b \in 1 .. Len(s) /\ s[b] # "/" /\ Len(s) \in Nat
  BY <1>4 DEF Kept, Texts
<1>6. (\A i \in 1 .. Len(s) : s[i] # "/") => b = Len(s)
  <2>1. (\A i \in 1 .. Len(s) : s[i] # "/") => Len(s) \in K
    BY <1>5 DEF Kept
  <2> HIDE DEF K, b
  <2> QED  BY <1>4, <1>5, <2>1
<1> HIDE DEF b
<1>7. path \in Texts /\ Len(path) = b /\ \A i \in 1 .. b : path[i] = s[i]
  BY <1>3, <1>5 DEF Texts
<1> HIDE DEF path
<1>8. k \in 0 .. b - 1 /\ \A i \in k + 1 .. b : path[i] # "/"
  <2>1. CASE I = {}
    <3>1. \A i \in 1 .. b : path[i] # "/"
      BY <1>7, <2>1
    <3> QED  BY <1>5, <2>1, <3>1
  <2>2. CASE I # {}
    <3>1. b \in Nat /\ I \in SUBSET (0 .. b)
      BY <1>5, <1>7
    <3>2. Max(I) \in I /\ \A i \in I : Max(I) >= i
      <4> HIDE DEF I
      <4> QED  BY <2>2, <3>1, EndsOf
    <3>3. k = Max(I)
      BY <2>2
    <3>4. k \in 1 .. b /\ path[k] = "/"
      BY <1>7, <3>2, <3>3
    <3>5. k # b
      BY <1>5, <1>7, <3>4
    <3>6. ASSUME NEW i \in k + 1 .. b, path[i] = "/"  PROVE FALSE
      <4>1. i \in I
        BY <1>7, <3>4, <3>6
      <4>2. k >= i
        BY <3>2, <3>3, <4>1
      <4> HIDE DEF k
      <4> QED  BY <3>1, <3>4, <3>6, <4>2
    <3> HIDE DEF k
    <3> QED  BY <3>1, <3>4, <3>5, <3>6
  <2> QED  BY <2>1, <2>2
<1>9. (\A i \in 1 .. Len(s) : s[i] # "/") => k = 0
  <2>1. (\A i \in 1 .. Len(s) : s[i] # "/") => I = {}
    BY <1>5, <1>7
  <2> HIDE DEF I
  <2> QED  BY <2>1
<1> HIDE DEF k
<1>10. a \in 1 .. Len(s) /\ a <= b
  BY <1>5, <1>8
<1>11. SubSeq(path, a, b) = SubSeq(s, a, b)
  <2>1. \A i \in a .. b : i \in 1 .. b
    BY <1>5, <1>8
  <2>2. \A i \in a .. b : path[i] = s[i]
    BY <1>7, <2>1
  <2> QED  BY <1>5, <1>7, <1>8, <2>2 DEF Texts
<1>12. Base(s) = SubSeq(s, a, b)
  BY <1>1, <1>2, <1>7, <1>11
<1>13. \A i \in a .. b : s[i] # "/"
  BY <1>5, <1>7, <1>8
<1> HIDE DEF a
<1> QED  BY <1>5, <1>6, <1>9, <1>10, <1>12, <1>13 DEF a

\* What sanitizeWorkspaceName accepts.
LEMMA WorkspaceNameClean ==
  ASSUME NEW s \in Texts, WorkspaceName(s) # << >>
  PROVE  CleanName(WorkspaceName(s))
<1> DEFINE path == Slashed(Trim(s, {" "}))
           base == Base(path)
<1>1. path \in Texts /\ \A i \in 1 .. Len(path) : path[i] # "\\"
  BY TrimTyped, SlashedIs
<1>2. /\ WorkspaceName(s) = base /\ Head(base) # "."
      /\ Range(base) \cap {"/", ":"} = {}
  BY DEF WorkspaceName
<1> HIDE DEF path
<1>3. CASE base \in {<<".">>, <<"/">>}
  <2>1. base # <<".">>
    BY <1>2
  <2>2. base # <<"/">>
    <3>1. "/" \in Range(<<"/">>)
      BY DEF Range
    <3> QED  BY <1>2, <3>1
  <2> QED  BY <1>3, <2>1, <2>2
<1>4. ASSUME NEW a \in 1 .. Len(path), NEW b \in 1 .. Len(path), a <= b, base = SubSeq(path, a, b)
      PROVE  CleanName(base)
  <2>1. /\ base \in Texts /\ Len(base) = b - a + 1
        /\ \A i \in 1 .. Len(base) : base[i] = path[a + i - 1]
    BY <1>1, <1>4 DEF Texts
  <2> HIDE DEF base
  <2>2. Len(base) \in Nat \ {0} /\ DOMAIN base = 1 .. Len(base) /\ Head(base) = base[1]
    BY <1>4, <2>1 DEF Texts
  <2>3. \A i \in 1 .. Len(base) : a + i - 1 \in 1 .. Len(path)
    <3>1. Len(path) \in Nat
      BY <1>1 DEF Texts
    <3> QED  BY <1>4, <2>1, <3>1
  <2>4. \A i \in 1 .. Len(base) : base[i] # "\\"
    BY <1>1, <2>1, <2>3
  <2>5. \A i \in 1 .. Len(base) : base[i] \in Range(base)
    BY <2>2 DEF Range
  <2>6. \A i \in 1 .. Len(base) : base[i] \notin {"/", ":", "\\"}
    BY <1>2, <2>4, <2>5
  <2>7. base # << >>
    BY <2>2
  <2> QED  BY <1>2, <2>1, <2>2, <2>6, <2>7 DEF CleanName
<1>5. CleanName(base)
  <2> HIDE DEF base
  <2>1. CASE base \in {<<".">>, <<"/">>}
    BY <1>2, <1>3, <2>1 DEF base
  <2>2. CASE \E a, b \in 1 .. Len(path) : a <= b /\ base = SubSeq(path, a, b)
    BY <1>4, <2>2
  <2>3. \/ base \in {<<".">>, <<"/">>}
        \/ \E a, b \in 1 .. Len(path) : a <= b /\ base = SubSeq(path, a, b)
    BY <1>1, BaseIs DEF base
  <2> QED  BY <2>1, <2>2, <2>3
<1> QED  BY <1>2, <1>5

Blanks == {" "}

\* Such a name without white space at its ends is sanitised to itself.
LEMMA WorkspaceNameSame ==
  ASSUME NEW n, CleanName(n), Head(n) \notin Blanks, Last(n) \notin Blanks
  PROVE  WorkspaceName(n) = n
<1>1. n \in Texts /\ n # << >>
  BY DEF CleanName
<1>2. Len(n) \in Nat \ {0} /\ SubSeq(n, 1, Len(n)) = n
  BY <1>1 DEF Texts
<1>3. n = [i \in DOMAIN n |-> n[i]] /\ DOMAIN n = 1 .. Len(n) /\ Head(n) = n[1]
  BY <1>1 DEF Texts
<1>4. \A i \in 1 .. Len(n) : n[i] \notin {"/", ":", "\\"}
  BY DEF CleanName
<1>5. Trim(n, Blanks) = n
  BY <1>1, <1>3, TrimSame DEF Last
<1>6. Slashed(n) = n
  <2>1. \A i \in DOMAIN n : n[i] = IF n[i] = "\\" THEN "/" ELSE n[i]
    BY <1>3, <1>4
  <2> QED  BY <1>3, <2>1 DEF Slashed
<1>7. Base(n) = n
  <2> DEFINE I == {i \in 1 .. Len(n) : n[i] = "/"}
  <2>1. n[1] \notin {"/"} /\ n[Len(n)] \notin {"/"}
    BY <1>2, <1>4
  <2>2. TrimRight(n, {"/"}) = n
    BY <1>1, <2>1, TrimSame
  <2>3. I = {}
    BY <1>4
  <2>4. Base(n) = SubSeq(n, (IF I # {} THEN Max(I) ELSE 0) + 1, Len(n))
    BY <1>1, <2>2, Zenon DEF Base, SelectLastInSeq
  <2> HIDE DEF I
  <2>5. (IF I # {} THEN Max(I) ELSE 0) + 1 = 1
    BY <2>3
  <2> QED  BY <1>2, <2>4, <2>5
<1>8. Range(n) \cap {"/", ":"} = {}
  BY <1>3, <1>4 DEF Range
<1>9. n[1] # "."
  BY DEF CleanName
<1>10. Base(Slashed(Trim(n, {" "}))) = n
  BY <1>5, <1>6, <1>7, Zenon DEF Blanks
<1> QED  BY <1>3, <1>8, <1>9, <1>10, Zenon DEF WorkspaceName

-----------------------------------------------------------------------------
\* The ways of a text

TitleTypes == typed \in Texts /\ draft \in Texts /\ chosen \in BOOLEAN

\* A title that was chosen is a sanitised one, and so is that of a bundle.
TitlesClean ==
  /\ chosen => Clean(draft)
  /\ title # << >> => Clean(title) /\ (chosen => title = draft)

NamesClean ==
  /\ name # << >> => CleanName(name)
  /\ deleted # << >> => name # << >> /\ deleted = <<WorkspaceName(name)>>

TitleInv == TitleTypes /\ TitlesClean /\ NamesClean

LEMMA TitleInitHolds == TitleInit => TitleInv
<1> SUFFICES ASSUME TitleInit  PROVE TitleInv
  OBVIOUS
<1>1. BoundedSeq(TitleChars, MaxTyped) \cup BoundedSeq(NameChars, MaxTyped) \subseteq Texts
  <2>1. MaxTyped \in Nat
    BY RunesAssumption
  <2>2. \A S \in SUBSET (TitleChars \cup NameChars) : \A m \in 0 .. MaxTyped : [1 .. m -> S] \subseteq Texts
    BY <2>1 DEF Texts
  <2> QED  BY <2>2 DEF BoundedSeq, SeqOf
<1>2. << >> \in Texts
  BY DEF Texts
<1> QED  BY <1>1, <1>2 DEF TitleInit, TitleInv, TitleTypes, TitlesClean, NamesClean

LEMMA TitleStepHolds == TitleInv /\ [TitleNext]_titleVars => TitleInv'
<1> SUFFICES ASSUME TitleInv, [TitleNext]_titleVars  PROVE TitleInv'
  OBVIOUS
<1> USE DEF TitleInv, TitleTypes, TitlesClean, NamesClean
<1>1. CASE SaveTitle
  BY <1>1, TrimTyped DEF SaveTitle
<1>2. CASE ChooseTitle
  <2>1. Clean(draft') /\ draft' = PushTitle(typed)
    BY <1>2, PushTitleClean DEF ChooseTitle
  <2>2. draft' \in Texts
    BY <2>1, FoldedSame
  <2> QED  BY <1>2, <2>1, <2>2 DEF ChooseTitle
<1>3. CASE PushWithTitle
  <2>1. Clean(title')
    BY <1>3, PushTitleClean DEF PushWithTitle
  <2>2. chosen => title' = draft
    BY <1>3, PushTitleSame DEF PushWithTitle
  <2> QED  BY <1>3, <2>1, <2>2 DEF PushWithTitle
<1>4. CASE StageName
  BY <1>4, WorkspaceNameClean DEF StageName
<1>5. CASE DeleteName
  BY <1>5 DEF DeleteName
<1>6. CASE UNCHANGED titleVars
  BY <1>6 DEF titleVars
<1> QED  BY <1>1, <1>2, <1>3, <1>4, <1>5, <1>6 DEF TitleNext

LEMMA TitleHolds == TitleInv => TextsStable
<1> SUFFICES ASSUME TitleInv  PROVE TextsStable
  OBVIOUS
<1>1. TitleStable
  <2>1. ASSUME Clean(title)
        PROVE  /\ Len(title) <= MaxRunes
               /\ {Head(title), Last(title)} \cap {"-", "."} = {}
               /\ \A i \in 1 .. Len(title) - 1 : title[i] # "-" \/ title[i + 1] # "-"
    <3>1. Head(title) = title[1]
      BY <2>1 DEF Clean
    <3> QED  BY <2>1, <3>1 DEF Clean, Last
  <2> QED  BY <2>1 DEF TitleInv, TitlesClean, TitleStable
<1>2. NameKept
  <2>1. ASSUME CleanName(name), ~(" " \in {Head(name), Last(name)})  PROVE WorkspaceName(name) = name
    <3>1. Head(name) \notin Blanks /\ Last(name) \notin Blanks
      BY <2>1, Zenon DEF Blanks
    <3> QED  BY <2>1, <3>1, WorkspaceNameSame, Zenon
  <2> QED  BY <2>1, Zenon DEF TitleInv, NamesClean, NameKept
<1> QED  BY <1>1, <1>2 DEF TextsStable

\* For texts of any length, any limit of the title and every order of the
\* requests: a title that the analyze run chose goes into the bundle as it is,
\* the title of a bundle is a sanitised one, and the page finds the file again
\* that it staged (push.go:41, upload.go:123).
THEOREM TextsAreStable == TitleSpec => []TextsStable
<1>1. TitleSpec => []TitleInv
  BY TitleInitHolds, TitleStepHolds, PTL DEF TitleSpec
<1> QED  BY <1>1, TitleHolds, PTL

=============================================================================
