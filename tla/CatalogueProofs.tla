-------------------------- MODULE CatalogueProofs --------------------------
(***************************************************************************)
(* The plan's cap, and that a completed import has imported, for any feed, *)
(* cap, requests under way, edits and faults.                              *)
(***************************************************************************)
EXTENDS Catalogue, ListLemmas

(* Nothing is published twice, so that a place in the feed is an id.       *)
FeedIsSet == \A m, n \in 1..Len(feed) : feed[m] = feed[n] => m = n

(* An item that has an id of its own is listed under it, and nothing else. *)
Named(l) == l.id \in Guided \/ l.item \in Guided => l.id = l.item

RowsAreNamed ==
  ~deleted => \A id \in Guided : status[id] # "NONE" => of[id] = id

Rows == {id \in Ids : status[id] # "NONE"}

(* Everything an invocation has listed and not dealt with is still to be   *)
(* done, has failed, or has its row, when nothing has been deleted.        *)
OnTrack(i, rows, intact) ==
  /\ \A l \in i.listed : Named(l)
  /\ ToSet(i.todo) \subseteq i.listed
  /\ i.at \in {"create", "enrich"} => i.todo # << >>
  /\ i.at \in {"find", "create", "enrich"} => i.job = "RUNNING"
  /\ i.job = "COMPLETED" => i.todo = << >> /\ ~i.failed
  /\ intact =>
       /\ i.at = "enrich" => Head(i.todo).id \in rows
       /\ ~i.failed => \A l \in i.listed \ ToSet(i.todo) : l.id \in rows

ImportInv ==
  /\ FeedIsSet
  /\ RowsAreNamed
  /\ \A w \in Workers : OnTrack(work[w], Rows, ~deleted)

(* What is public, and what an approval under way has counted already.     *)
Busy(w)  == At(w, "approve") /\ work[w].queue # << >>
Active   == {id \in Ids : status[id] = "ACTIVE"}
Reserved == Active \cup {id \in Ids : \E w \in Workers : Busy(w) /\ id \in ToSet(work[w].queue)}

Fits == ~raced => Cardinality(Reserved) <= Cap

CatalogueInv == TypeOK /\ ImportInv /\ Fits

-----------------------------------------------------------------------------

(* There are finitely many ids.                                            *)
LEMMA IdsAreFinite ==
  /\ IsFiniteSet(Ids) /\ IsFiniteSet(Items) /\ Cardinality(Items) \in Nat
  /\ \A S \in SUBSET Ids : IsFiniteSet(S) /\ Cardinality(S) \in Nat
  <1>1. IsFiniteSet(Items) /\ IsFiniteSet(Guided) /\ Cardinality(Items) \in Nat
    BY CatalogueAssumption, FS_Subset, FS_CardinalityType
  <1>2. IsFiniteSet(1..Cardinality(Items))
    BY <1>1, FS_Interval
  <1>3. IsFiniteSet(Ids)
    BY <1>1, <1>2, FS_Union DEF Ids
  <1> QED
    BY <1>1, <1>3, FS_Subset, FS_CardinalityType

(* What a feed lists: under an id each, its own if it has one.             *)
LEMMA Listing ==
  ASSUME feed \in Seq(Items), FeedIsSet
  PROVE  /\ listResources \in Seq(Listed)
         /\ ToSet(listResources) \subseteq Listed
         /\ \A l \in ToSet(listResources) : Named(l)
  <1>1. Len(feed) \in Nat /\ DOMAIN feed = 1..Len(feed) /\ feed \in [1..Len(feed) -> Items]
    OBVIOUS
  <1>2. Len(feed) <= Cardinality(Items)
    <2>1. feed \in Injection(1..Len(feed), Items)
      BY <1>1 DEF FeedIsSet, Injection, IsInjective
    <2>2. Cardinality(1..Len(feed)) <= Cardinality(Items)
      BY <2>1, IdsAreFinite, FS_Injection
    <2> QED
      BY <1>1, <2>2, FS_Interval
  <1>3. ASSUME NEW n \in 1..Len(feed)
        PROVE  /\ [id |-> externalIdFor(n), item |-> feed[n]] \in Listed
               /\ Named([id |-> externalIdFor(n), item |-> feed[n]])
    <2>1. feed[n] \in Items /\ n \in 1..Cardinality(Items) /\ n \notin Guided
      BY <1>1, <1>2, IdsAreFinite, CatalogueAssumption
    <2> QED
      BY <2>1 DEF externalIdFor, Listed, Ids, Named
  <1>4. listResources \in [1..Len(feed) -> Listed]
    BY <1>1, <1>3 DEF listResources
  <1>5. listResources \in Seq(Listed) /\ DOMAIN listResources = 1..Len(feed)
    BY <1>1, <1>4
  <1> QED
    BY <1>1, <1>3, <1>5 DEF ToSet, listResources

(* What an approval is given to do fits beside what is public.             *)
LEMMA CappedFits ==
  ASSUME NEW ids \in Seq(Ids), Cardinality(Active) <= Cap
  PROVE  /\ Capped(ids) \in Seq(Ids)
         /\ Cardinality(Active \cup ToSet(Capped(ids))) <= Cap
  <1> DEFINE room == IF ActiveCount < Cap THEN Cap - ActiveCount ELSE 0
             n    == IF room <= Len(ids) THEN room ELSE Len(ids)
  <1>1. ActiveCount = Cardinality(Active) /\ Cardinality(Active) \in Nat /\ IsFiniteSet(Active)
    BY IdsAreFinite DEF ActiveCount, Active
  <1>2. n \in 0..Len(ids) /\ n <= Cap - Cardinality(Active)
    BY <1>1, CatalogueAssumption
  <1>3. Capped(ids) = SubSeq(ids, 1, n)
    BY DEF Capped
  <1> HIDE DEF n
  <1>4. Capped(ids) \in Seq(Ids) /\ Len(Capped(ids)) = n
    BY <1>2, <1>3, Beginning
  <1>5. IsFiniteSet(ToSet(Capped(ids))) /\ Cardinality(ToSet(Capped(ids))) <= n
    BY <1>4, ToSetIsFinite
  <1>6. /\ Cardinality(ToSet(Capped(ids))) \in Nat
        /\ Cardinality(Active \cap ToSet(Capped(ids))) \in Nat
    BY <1>1, <1>5, FS_CardinalityType, FS_Intersection
  <1>7. Cardinality(Active \cup ToSet(Capped(ids)))
          = Cardinality(Active) + Cardinality(ToSet(Capped(ids)))
            - Cardinality(Active \cap ToSet(Capped(ids)))
    BY <1>1, <1>5, FS_Union
  <1> QED
    BY <1>1, <1>2, <1>4, <1>5, <1>6, <1>7, CatalogueAssumption

-----------------------------------------------------------------------------

(* The initial state.                                                      *)
LEMMA InitHolds == Init => CatalogueInv
  <1> SUFFICES ASSUME Init PROVE CatalogueInv
    OBVIOUS
  <1>1. Idle \in Invocation /\ OnTrack(Idle, Rows, ~deleted) /\ Idle.at = "idle"
    BY DEF Idle, Invocation, JobStatuses, OnTrack, ToSet
  <1>2. TypeOK
    <2>1. feed \in Seq(Items) /\ work \in [Workers -> Invocation]
      BY <1>1, EmptySeq DEF Init
    <2> QED
      BY <2>1 DEF Init, TypeOK, NoSource
  <1>3. ImportInv
    <2>1. FeedIsSet
      BY DEF Init, FeedIsSet
    <2>2. RowsAreNamed
      BY DEF Init, RowsAreNamed, Ids
    <2>3. \A w \in Workers : work[w] = Idle
      BY DEF Init
    <2> QED
      BY <1>1, <2>1, <2>2, <2>3 DEF ImportInv
  <1>4. Reserved = {}
    BY <1>1 DEF Init, Reserved, Active, Busy, At
  <1> QED
    BY <1>2, <1>3, <1>4, FS_EmptySet, CatalogueAssumption DEF CatalogueInv, Fits

(* Every step keeps the types.                                             *)
LEMMA TypeStep == TypeOK /\ ImportInv /\ Fits /\ [Next]_vars => TypeOK'
  <1> SUFFICES ASSUME TypeOK, ImportInv, Fits, [Next]_vars PROVE TypeOK'
    OBVIOUS
  <1> USE DEF TypeOK
  <1>1. ASSUME NEW w \in Workers, NEW i \in Invocation, Do(w, i)
        PROVE  work' \in [Workers -> Invocation]
    BY <1>1 DEF Do
  <1>2. Idle \in Invocation
    BY DEF Idle, Invocation, JobStatuses
  <1>3. ASSUME NEW w \in Workers, NEW auto \in BOOLEAN, NEW track \in BOOLEAN,
               Begin(w, auto, track)
        PROVE  work' \in [Workers -> Invocation]
    <2>1. [Idle EXCEPT !.at = "find", !.todo = listResources, !.listed = ToSet(listResources),
                       !.auto = auto, !.track = track, !.job = "RUNNING"] \in Invocation
      BY <1>2, Listing DEF Invocation, JobStatuses, ImportInv
    <2> QED
      BY <1>1, <1>3, <2>1 DEF Begin
  <1>4. ASSUME NEW i \in Items, Publish(i) PROVE TypeOK'
    <2>1. feed' \in Seq(Items)
      BY <1>4 DEF Publish
    <2> QED
      BY <1>4, <2>1 DEF Publish
  <1>5. CASE StartSync
    <2>1. Cron \in Workers /\ source.approve \in BOOLEAN
      BY DEF Workers
    <2>2. Begin(Cron, source.approve, FALSE)
      BY <1>5 DEF StartSync
    <2>3. work' \in [Workers -> Invocation]
      BY <1>3, <2>1, <2>2
    <2> QED
      BY <1>5, <2>3 DEF StartSync
  <1>6. ASSUME NEW w \in Requests, StartImport(w) PROVE TypeOK'
    <2>1. PICK auto \in BOOLEAN, track \in BOOLEAN : Begin(w, auto, track)
      BY <1>6 DEF StartImport
    <2>2. work' \in [Workers -> Invocation]
      BY <1>3, <2>1 DEF Workers
    <2> QED
      BY <1>6, <2>2 DEF StartImport
  <1>7. ASSUME NEW ids \in Seq(Ids) PROVE Capped(ids) \in Seq(Ids)
    <2> DEFINE room == IF ActiveCount < Cap THEN Cap - ActiveCount ELSE 0
               n    == IF room <= Len(ids) THEN room ELSE Len(ids)
    <2>1. ActiveCount \in Nat
      BY IdsAreFinite DEF ActiveCount
    <2>2. n \in 0..Len(ids)
      BY <2>1, CatalogueAssumption
    <2> QED
      BY <2>2, Beginning DEF Capped
  <1>8. ASSUME NEW S \in SUBSET Ids PROVE SetToSeq(S) \in Seq(Ids)
    <2>1. SetToSeq(S) \in Seq(S)
      BY IdsAreFinite, SetIsListed
    <2> QED
      BY <2>1
  <1>9. ASSUME NEW w \in Requests, StartApproval(w) PROVE TypeOK'
    <2>1. PICK ids \in SUBSET Ids :
            Do(w, [Idle EXCEPT !.at = "approve", !.queue = Capped(SetToSeq(ids))])
      BY <1>9 DEF StartApproval
    <2>2. [Idle EXCEPT !.at = "approve", !.queue = Capped(SetToSeq(ids))] \in Invocation
      BY <1>2, <1>7, <1>8 DEF Invocation
    <2>3. work' \in [Workers -> Invocation]
      BY <1>1, <2>1, <2>2 DEF Workers
    <2>4. started' \in Nat /\ raced' \in BOOLEAN
      BY <1>9 DEF StartApproval, UnderWay
    <2> QED
      BY <1>9, <2>3, <2>4 DEF StartApproval
  <1>10. ASSUME NEW w \in Workers, Step(w) \/ ItemFails(w) \/ Die(w) PROVE TypeOK'
    <2>1. work[w] \in Invocation /\ (At(w, "create") \/ At(w, "enrich") => work[w].todo # << >>)
      BY DEF ImportInv, OnTrack, At
    <2>2. work[w].todo # << >> =>
            Head(work[w].todo) \in Listed /\ Tail(work[w].todo) \in Seq(Listed)
      BY <2>1, HeadAndTail DEF Invocation
    <2>3. work[w].todo # << >> => Skipped(w) \in Invocation
      BY <2>1, <2>2 DEF Skipped, Invocation
    <2>4. work[w].queue # << >> =>
            Head(work[w].queue) \in Ids /\ Tail(work[w].queue) \in Seq(Ids)
      BY <2>1, HeadAndTail DEF Invocation
    <2>5. work[w].created \in SUBSET Ids
      BY <2>1 DEF Invocation
    <2>6. CASE Find(w)
      <3>1. [work[w] EXCEPT !.todo = Tail(@)] \in Invocation
        BY <2>1, <2>2, <2>6 DEF Find, Invocation
      <3>2. [work[w] EXCEPT !.at = "create"] \in Invocation
        BY <2>1 DEF Invocation
      <3> QED
        BY <1>1, <2>6, <3>1, <3>2 DEF Find
    <2>7. CASE Create(w)
      <3>1. [work[w] EXCEPT !.at = "enrich"] \in Invocation
        BY <2>1 DEF Invocation
      <3>2. work' \in [Workers -> Invocation]
        BY <1>1, <2>1, <2>3, <2>7, <3>1 DEF Create
      <3>3. status' \in [Ids -> {"NONE", "HELD", "ACTIVE"}] /\ of' \in [Ids -> Items \cup {NoItem}]
        BY <2>1, <2>2, <2>7 DEF Create, Listed
      <3> QED
        BY <2>7, <3>2, <3>3 DEF Create
    <2>8. CASE Enrich(w)
      <3>1. [work[w] EXCEPT !.at = "find", !.todo = Tail(@),
                            !.created = @ \cup {Head(work[w].todo).id}] \in Invocation
        BY <2>1, <2>2, <2>8 DEF Enrich, Invocation, Listed
      <3> QED
        BY <1>1, <2>8, <3>1 DEF Enrich
    <2>9. CASE Complete(w)
      <3>1. SetToSeq(work[w].created) \in Seq(Ids) /\ JobStatus(w) \in JobStatuses
        BY <1>8, <2>5 DEF JobStatus, JobStatuses
      <3>2. \A at \in {"track", "analyse", "count"} :
              [work[w] EXCEPT !.job = JobStatus(w), !.at = at,
                              !.queue = SetToSeq(work[w].created)] \in Invocation
        BY <2>1, <3>1 DEF Invocation
      <3>3. work' \in [Workers -> Invocation]
        BY <1>1, <2>9, <3>2 DEF Complete
      <3> QED
        BY <2>9, <3>3 DEF Complete
    <2>10. CASE Analyse(w)
      <3>1. SetToSeq(work[w].created) \in Seq(Ids) /\ work[w].auto \in BOOLEAN
        BY <1>8, <2>1, <2>5 DEF Invocation
      <3>2. \A at \in {"track", "approve"} :
              [work[w] EXCEPT !.at = at, !.queue = SetToSeq(work[w].created)] \in Invocation
        BY <2>1, <3>1 DEF Invocation
      <3>3. work[w].queue # << >> => [work[w] EXCEPT !.queue = Tail(@)] \in Invocation
        BY <2>1, <2>4 DEF Invocation
      <3>4. work' \in [Workers -> Invocation]
        BY <1>1, <2>10, <3>2, <3>3 DEF Analyse
      <3>5. status' \in [Ids -> {"NONE", "HELD", "ACTIVE"}] /\ raced' \in BOOLEAN
        BY <2>4, <2>10, <3>1 DEF Analyse
      <3> QED
        BY <2>10, <3>4, <3>5 DEF Analyse
    <2>11. CASE Count(w)
      <3>1. [work[w] EXCEPT !.at = "approve", !.queue = Capped(@)] \in Invocation
        BY <1>7, <2>1 DEF Invocation
      <3>2. work' \in [Workers -> Invocation] /\ raced' \in BOOLEAN
        BY <1>1, <2>11, <3>1 DEF Count, UnderWay
      <3> QED
        BY <2>11, <3>2 DEF Count
    <2>12. CASE Approve(w)
      <3>1. [work[w] EXCEPT !.at = "track", !.queue = << >>] \in Invocation
        BY <2>1, EmptySeq DEF Invocation
      <3>2. work[w].queue # << >> => [work[w] EXCEPT !.queue = Tail(@)] \in Invocation
        BY <2>1, <2>4 DEF Invocation
      <3>3. work' \in [Workers -> Invocation]
        BY <1>1, <1>2, <2>12, <3>1, <3>2 DEF Approve
      <3>4. status' \in [Ids -> {"NONE", "HELD", "ACTIVE"}]
        BY <2>4, <2>12 DEF Approve
      <3> QED
        BY <2>12, <3>3, <3>4 DEF Approve
    <2>13. CASE Track(w)
      <3>1. source' \in [tracked : BOOLEAN, sync : BOOLEAN, approve : BOOLEAN]
        BY <2>1, <2>13 DEF Track, Invocation
      <3> QED
        BY <1>1, <1>2, <2>13, <3>1 DEF Track
    <2>14. CASE ItemFails(w)
      <3>1. [Skipped(w) EXCEPT !.created = @ \cup {Head(work[w].todo).id}] \in Invocation
        BY <2>2, <2>3, <2>14 DEF ItemFails, Invocation, Listed
      <3>2. work' \in [Workers -> Invocation] /\ faults' \in Nat
        BY <1>1, <2>3, <2>14, <3>1 DEF ItemFails, Fault
      <3> QED
        BY <2>14, <3>2 DEF ItemFails
    <2>15. CASE Die(w)
      BY <1>1, <1>2, <2>15 DEF Die, Fault
    <2> QED
      BY <1>10, <2>6, <2>7, <2>8, <2>9, <2>10, <2>11, <2>12, <2>13, <2>14, <2>15 DEF Step
  <1>11. ASSUME NEW id \in Ids, Withdraw(id) \/ DeleteResource(id) PROVE TypeOK'
    <2>1. edits' \in Nat
      BY <1>11 DEF Withdraw, DeleteResource, Edit
    <2>2. /\ status' \in [Ids -> {"NONE", "HELD", "ACTIVE"}]
          /\ of' \in [Ids -> Items \cup {NoItem}]
      BY <1>11 DEF Withdraw, DeleteResource
    <2> QED
      BY <1>11, <2>1, <2>2 DEF Withdraw, DeleteResource
  <1>12. CASE ToggleSource
    <2>1. edits' \in Nat
      BY <1>12 DEF ToggleSource, Edit
    <2>2. /\ [source EXCEPT !.sync = ~@] \in [tracked : BOOLEAN, sync : BOOLEAN, approve : BOOLEAN]
          /\ [source EXCEPT !.approve = ~@] \in [tracked : BOOLEAN, sync : BOOLEAN, approve : BOOLEAN]
          /\ NoSource \in [tracked : BOOLEAN, sync : BOOLEAN, approve : BOOLEAN]
      BY DEF NoSource
    <2>3. source' \in [tracked : BOOLEAN, sync : BOOLEAN, approve : BOOLEAN]
      BY <1>12, <2>2 DEF ToggleSource
    <2> QED
      BY <1>12, <2>1, <2>3 DEF ToggleSource
  <1>13. CASE UNCHANGED vars
    BY <1>13 DEF vars
  <1> QED
    BY <1>4, <1>5, <1>6, <1>9, <1>10, <1>11, <1>12, <1>13 DEF Next

-----------------------------------------------------------------------------

(* What is on track stays so while rows are only added.                    *)
LEMMA MoreRows ==
  ASSUME NEW i \in Invocation, NEW rows, NEW more, NEW intact \in BOOLEAN, NEW still \in BOOLEAN,
         OnTrack(i, rows, intact), still => intact /\ rows \subseteq more
  PROVE  OnTrack(i, more, still)
  BY DEF OnTrack

(* An item that is dealt with leaves its invocation on track: it has its   *)
(* row, or has failed.                                                     *)
LEMMA OneDone ==
  ASSUME NEW i \in Invocation, NEW rows, NEW intact \in BOOLEAN, OnTrack(i, rows, intact),
         i.todo # << >>, i.at \in {"find", "create", "enrich"},
         NEW failed \in BOOLEAN, i.failed => failed,
         intact /\ ~failed => Head(i.todo).id \in rows,
         NEW j, j \in Invocation, j.at = "find", j.todo = Tail(i.todo), j.listed = i.listed,
         j.failed = failed, j.job = i.job
  PROVE  OnTrack(j, rows, intact)
  <1>1. /\ ToSet(i.todo) = {Head(i.todo)} \cup ToSet(j.todo) /\ i.job = "RUNNING"
    BY HeadAndTail DEF OnTrack, Invocation
  <1>2. ASSUME intact, ~failed, NEW l \in j.listed \ ToSet(j.todo) PROVE l.id \in rows
    <2>1. CASE l = Head(i.todo)
      BY <1>2, <2>1
    <2>2. CASE l # Head(i.todo)
      BY <1>1, <1>2, <2>2 DEF OnTrack
    <2> QED
      BY <2>1, <2>2
  <1> QED
    BY <1>1, <1>2 DEF OnTrack

(* Every step keeps what imports have listed, failed and filed together.   *)
LEMMA ImportStep == TypeOK /\ TypeOK' /\ ImportInv /\ [Next]_vars => ImportInv'
  <1> SUFFICES ASSUME TypeOK, TypeOK', ImportInv, [Next]_vars PROVE ImportInv'
    OBVIOUS
  <1> USE DEF ImportInv
  <1> DEFINE Same == UNCHANGED <<feed, status, of, deleted>>
  <1>1. /\ deleted \in BOOLEAN /\ deleted' \in BOOLEAN
        /\ \A w \in Workers : work[w] \in Invocation /\ work'[w] \in Invocation
    BY DEF TypeOK
  <1>2. ASSUME ~deleted' => ~deleted /\ Rows \subseteq Rows', NEW v \in Workers, work'[v] = work[v]
        PROVE  OnTrack(work'[v], Rows', ~deleted')
    BY <1>1, <1>2, MoreRows
  <1>3. ASSUME ~deleted' => ~deleted /\ Rows \subseteq Rows',
               NEW w \in Workers, NEW j, Do(w, j), OnTrack(j, Rows', ~deleted')
        PROVE  \A v \in Workers : OnTrack(work'[v], Rows', ~deleted')
    <2> SUFFICES ASSUME NEW v \in Workers PROVE OnTrack(work'[v], Rows', ~deleted')
      OBVIOUS
    <2>1. work'[w] = j /\ (v # w => work'[v] = work[v])
      BY <1>3 DEF Do, TypeOK
    <2> QED
      BY <1>2, <1>3, <2>1
  <1>4. ASSUME Same PROVE FeedIsSet' /\ RowsAreNamed' /\ Rows' = Rows /\ deleted' = deleted
    BY <1>4 DEF FeedIsSet, RowsAreNamed, Rows
  <1>5. ASSUME Same, NEW w \in Workers, NEW j, Do(w, j), OnTrack(j, Rows, ~deleted)
        PROVE  ImportInv'
    BY <1>3, <1>4, <1>5
  <1>6. OnTrack(Idle, Rows, ~deleted) /\ OnTrack(Idle, Rows', ~deleted')
    BY DEF Idle, OnTrack, ToSet
  <1>7. ASSUME NEW w \in Workers, NEW auto, NEW track, Begin(w, auto, track), Same
        PROVE  ImportInv'
    <2> DEFINE j == [Idle EXCEPT !.at = "find", !.todo = listResources,
                                 !.listed = ToSet(listResources),
                                 !.auto = auto, !.track = track, !.job = "RUNNING"]
    <2>1. \A l \in ToSet(listResources) : Named(l)
      BY Listing DEF TypeOK
    <2>2. OnTrack(j, Rows, ~deleted)
      BY <2>1 DEF OnTrack, Idle
    <2> QED
      BY <1>5, <1>7, <2>2 DEF Begin
  <1>8. ASSUME NEW i \in Items, Publish(i) PROVE ImportInv'
    <2>1. feed \in Seq(Items) /\ i \notin ToSet(feed) /\ feed' = <<i>> \o feed
      BY <1>8 DEF Publish, TypeOK
    <2>2. /\ Len(feed) \in Nat /\ Len(feed') = Len(feed) + 1 /\ feed'[1] = i
          /\ \A n \in 2..(Len(feed) + 1) : feed'[n] = feed[n - 1]
      BY <2>1
    <2>3. \A n \in 2..(Len(feed) + 1) : n - 1 \in 1..Len(feed) /\ feed'[n] # i
      BY <2>1, <2>2 DEF ToSet
    <2>4. FeedIsSet'
      <3>1. ASSUME NEW m \in 1..(Len(feed) + 1), NEW n \in 1..(Len(feed) + 1), feed'[m] = feed'[n]
            PROVE  m = n
        <4>1. CASE m = 1 \/ n = 1
          BY <2>2, <2>3, <3>1, <4>1
        <4>2. CASE m # 1 /\ n # 1
          <5>1. /\ feed[m - 1] = feed[n - 1]
                /\ m - 1 \in 1..Len(feed) /\ n - 1 \in 1..Len(feed)
            BY <2>2, <2>3, <3>1, <4>2
          <5> QED
            BY <2>2, <5>1 DEF FeedIsSet
        <4> QED
          BY <4>1, <4>2
      <3> QED
        BY <2>2, <3>1 DEF FeedIsSet
    <2>5. RowsAreNamed' /\ Rows' = Rows /\ deleted' = deleted /\ work' = work
      BY <1>8 DEF Publish, RowsAreNamed, Rows
    <2> QED
      BY <2>4, <2>5
  <1>9. CASE StartSync
    <2>1. Cron \in Workers /\ Begin(Cron, source.approve, FALSE) /\ Same
      BY <1>9 DEF StartSync, Workers
    <2> QED
      BY <1>7, <2>1
  <1>10. ASSUME NEW w \in Requests, StartImport(w) PROVE ImportInv'
    <2>1. PICK auto \in BOOLEAN, track \in BOOLEAN : Begin(w, auto, track)
      BY <1>10 DEF StartImport
    <2>2. w \in Workers /\ Same
      BY <1>10 DEF StartImport, Workers
    <2> QED
      BY <1>7, <2>1, <2>2
  <1>11. ASSUME NEW w \in Requests, StartApproval(w) PROVE ImportInv'
    <2>1. PICK ids \in SUBSET Ids :
            Do(w, [Idle EXCEPT !.at = "approve", !.queue = Capped(SetToSeq(ids))])
      BY <1>11 DEF StartApproval
    <2>2. OnTrack([Idle EXCEPT !.at = "approve", !.queue = Capped(SetToSeq(ids))], Rows, ~deleted)
      BY DEF OnTrack, Idle, ToSet
    <2>3. w \in Workers /\ Same
      BY <1>11 DEF StartApproval, Workers
    <2> QED
      BY <1>5, <2>1, <2>2, <2>3
  <1>12. ASSUME NEW w \in Workers, Step(w) \/ ItemFails(w) \/ Die(w) PROVE ImportInv'
    <2>1. work[w] \in Invocation /\ OnTrack(work[w], Rows, ~deleted)
      BY <1>1
    <2>2. work[w].todo # << >> => Head(work[w].todo) \in Listed /\ Head(work[w].todo) \in work[w].listed
                                  /\ Tail(work[w].todo) \in Seq(Listed)
      BY <2>1, HeadAndTail DEF Invocation, OnTrack
    <2>3. ASSUME NEW j, Do(w, j) PROVE j \in Invocation /\ work'[w] = j
      BY <1>1, <2>3 DEF Do, TypeOK
    <2>4. ASSUME Do(w, Skipped(w)), work[w].todo # << >>, work[w].at \in {"find", "create", "enrich"}
          PROVE  OnTrack(Skipped(w), Rows, ~deleted)
      <3>1. /\ Skipped(w) \in Invocation /\ Skipped(w).at = "find"
            /\ Skipped(w).todo = Tail(work[w].todo) /\ Skipped(w).listed = work[w].listed
            /\ Skipped(w).failed = TRUE /\ Skipped(w).job = work[w].job
        BY <2>1, <2>3, <2>4 DEF Skipped, Invocation
      <3> QED
        BY <1>1, <2>1, <2>4, <3>1, OneDone
    <2>5. CASE Find(w)
      <3>1. CASE status[Head(work[w].todo).id] # "NONE"
        <4> DEFINE j == [work[w] EXCEPT !.todo = Tail(@)]
        <4>1. Do(w, j) /\ Same /\ work[w].todo # << >> /\ work[w].at = "find"
          BY <2>5, <3>1 DEF Find, At
        <4>2. /\ j \in Invocation /\ j.at = "find" /\ j.todo = Tail(work[w].todo)
              /\ j.listed = work[w].listed /\ j.failed = work[w].failed /\ j.job = work[w].job
              /\ work[w].failed \in BOOLEAN
          BY <2>1, <2>3, <4>1 DEF Invocation
        <4>3. Head(work[w].todo).id \in Rows
          BY <2>2, <3>1, <4>1 DEF Rows, Listed
        <4> HIDE DEF j
        <4>4. OnTrack(j, Rows, ~deleted)
          BY <1>1, <2>1, <4>1, <4>2, <4>3, OneDone
        <4> QED
          BY <1>5, <4>1, <4>4
      <3>2. CASE status[Head(work[w].todo).id] = "NONE"
        <4>1. Do(w, [work[w] EXCEPT !.at = "create"]) /\ Same /\ work[w].todo # << >> /\ work[w].at = "find"
          BY <2>5, <3>2 DEF Find, At
        <4>2. OnTrack([work[w] EXCEPT !.at = "create"], Rows, ~deleted)
          BY <2>1, <4>1 DEF OnTrack, Invocation
        <4> QED
          BY <1>5, <4>1, <4>2
      <3> QED
        BY <3>1, <3>2
    <2>6. CASE Create(w)
      <3>1. work[w].at = "create" /\ work[w].todo # << >>
        BY <2>1, <2>6 DEF Create, At, OnTrack
      <3> DEFINE next == Head(work[w].todo)
      <3>2. CASE status[next.id] = "NONE"
        <4>1. /\ status' = [status EXCEPT ![next.id] = "HELD"]
              /\ of' = [of EXCEPT ![next.id] = next.item]
              /\ Do(w, [work[w] EXCEPT !.at = "enrich"])
              /\ feed' = feed /\ deleted' = deleted
          BY <2>6, <3>2 DEF Create
        <4>2. next.id \in Ids /\ Named(next)
          BY <2>1, <2>2, <3>1 DEF OnTrack, Listed
        <4>3. Rows \subseteq Rows' /\ next.id \in Rows'
          BY <4>1, <4>2 DEF Rows, TypeOK
        <4>4. FeedIsSet' /\ RowsAreNamed'
          <5>1. FeedIsSet'
            BY <4>1 DEF FeedIsSet
          <5>2. Guided \subseteq Ids
            BY DEF Ids
          <5>3. ASSUME ~deleted, NEW id \in Guided, status'[id] # "NONE" PROVE of'[id] = id
            <6>1. CASE id = next.id
              BY <4>1, <4>2, <6>1 DEF Named, TypeOK
            <6>2. CASE id # next.id
              <7>1. status'[id] = status[id] /\ of'[id] = of[id]
                BY <4>1, <4>2, <5>2, <6>2 DEF TypeOK
              <7> QED
                BY <5>3, <7>1 DEF RowsAreNamed
            <6> QED
              BY <6>1, <6>2
          <5> QED
            BY <4>1, <5>1, <5>3 DEF RowsAreNamed
        <4>5. OnTrack(work[w], Rows', ~deleted')
          BY <1>1, <2>1, <4>1, <4>3, MoreRows
        <4>6. OnTrack([work[w] EXCEPT !.at = "enrich"], Rows', ~deleted')
          BY <2>1, <3>1, <4>3, <4>5 DEF OnTrack, Invocation
        <4>7. \A v \in Workers : OnTrack(work'[v], Rows', ~deleted')
          BY <1>3, <4>1, <4>3, <4>6
        <4> QED
          BY <4>4, <4>7
      <3>3. CASE status[next.id] # "NONE"
        <4>1. Do(w, Skipped(w)) /\ Same
          BY <2>6, <3>3 DEF Create
        <4> QED
          BY <1>5, <2>4, <3>1, <4>1
      <3> QED
        BY <3>2, <3>3
    <2>7. CASE Enrich(w)
      <3> DEFINE j == [work[w] EXCEPT !.at = "find", !.todo = Tail(@),
                                      !.created = @ \cup {Head(work[w].todo).id}]
      <3>1. Do(w, j) /\ Same /\ work[w].at = "enrich" /\ work[w].todo # << >>
        BY <2>1, <2>7 DEF Enrich, At, OnTrack
      <3>2. /\ j \in Invocation /\ j.at = "find" /\ j.todo = Tail(work[w].todo)
            /\ j.listed = work[w].listed /\ j.failed = work[w].failed /\ j.job = work[w].job
            /\ work[w].failed \in BOOLEAN
        BY <2>1, <2>3, <3>1 DEF Invocation
      <3>3. ~deleted => Head(work[w].todo).id \in Rows
        BY <2>1, <3>1 DEF OnTrack
      <3> HIDE DEF j
      <3>4. OnTrack(j, Rows, ~deleted)
        BY <1>1, <2>1, <3>1, <3>2, <3>3, OneDone
      <3> QED
        BY <1>5, <3>1, <3>4
    <2>8. CASE ItemFails(w)
      <3>1. /\ Same /\ work[w].at \in {"find", "create", "enrich"} /\ work[w].todo # << >>
        BY <2>8 DEF ItemFails
      <3>2. CASE Do(w, Skipped(w))
        BY <1>5, <2>4, <3>1, <3>2
      <3>3. ASSUME Do(w, [Skipped(w) EXCEPT !.created = @ \cup {Head(work[w].todo).id}])
            PROVE  ImportInv'
        <4> DEFINE j == [Skipped(w) EXCEPT !.created = @ \cup {Head(work[w].todo).id}]
        <4>1. /\ j \in Invocation /\ j.at = "find" /\ j.todo = Tail(work[w].todo)
              /\ j.listed = work[w].listed /\ j.failed = TRUE /\ j.job = work[w].job
          BY <2>1, <2>3, <3>3 DEF Skipped, Invocation
        <4> HIDE DEF j
        <4>2. OnTrack(j, Rows, ~deleted)
          BY <1>1, <2>1, <3>1, <4>1, OneDone
        <4>3. Do(w, j)
          BY <3>3 DEF j
        <4> QED
          BY <1>5, <3>1, <4>2, <4>3
      <3> QED
        BY <2>8, <3>2, <3>3 DEF ItemFails
    <2>9. CASE Complete(w)
      <3> DEFINE to == IF work[w].created = {} \/ (w # Cron /\ ~work[w].auto) THEN "track"
                       ELSE IF w = Cron THEN "analyse" ELSE "count"
                 j  == [work[w] EXCEPT !.job = JobStatus(w), !.at = to,
                                       !.queue = SetToSeq(work[w].created)]
      <3>1. Do(w, j) /\ Same /\ work[w].todo = << >>
        BY <2>9 DEF Complete
      <3>2. /\ j.at \in {"track", "analyse", "count"} /\ j.todo = << >> /\ j.listed = work[w].listed
            /\ j.failed = work[w].failed /\ (j.job = "COMPLETED" => ~work[w].failed)
        <4>1. to \in {"track", "analyse", "count"}
          OBVIOUS
        <4>2. JobStatus(w) = "COMPLETED" => ~work[w].failed
          BY DEF JobStatus
        <4> HIDE DEF to
        <4> QED
          BY <2>1, <3>1, <4>1, <4>2 DEF Invocation
      <3> HIDE DEF j, to
      <3>3. OnTrack(j, Rows, ~deleted)
        BY <2>1, <3>1, <3>2 DEF OnTrack
      <3> QED
        BY <1>5, <3>1, <3>3
    <2>10. CASE Analyse(w)
      <3>1. /\ Rows' = Rows /\ UNCHANGED <<feed, of, deleted>>
        <4>1. \A id \in Ids : (status[id] # "NONE") <=> (status'[id] # "NONE")
          BY <2>10 DEF Analyse, TypeOK
        <4> QED
          BY <2>10, <4>1 DEF Analyse, Rows
      <3>2. FeedIsSet' /\ RowsAreNamed'
        <4>1. \A id \in Guided : id \in Rows <=> status[id] # "NONE"
          BY DEF Rows, Ids
        <4>2. \A id \in Guided : id \in Rows' <=> status'[id] # "NONE"
          BY DEF Rows, Ids
        <4> QED
          BY <3>1, <4>1, <4>2 DEF FeedIsSet, RowsAreNamed
      <3>3. ASSUME NEW at \in {"analyse", "approve", "track"}, NEW queue
            PROVE  OnTrack([work[w] EXCEPT !.at = at, !.queue = queue], Rows, ~deleted)
        BY <2>1, <2>10 DEF OnTrack, Invocation, Analyse, At
      <3>4. \E at \in {"analyse", "approve", "track"} : \E queue \in Seq(Ids) :
              work'[w] = [work[w] EXCEPT !.at = at, !.queue = queue]
        <4>1. CASE work[w].queue = << >>
          <5> DEFINE at == IF work[w].auto THEN "approve" ELSE "track"
          <5> DEFINE j == [work[w] EXCEPT !.at = at, !.queue = SetToSeq(work[w].created)]
          <5>1. Do(w, j)
            BY <2>10, <4>1 DEF Analyse
          <5>2. at \in {"analyse", "approve", "track"}
            OBVIOUS
          <5>3. SetToSeq(work[w].created) \in Seq(work[w].created) /\ work[w].created \in SUBSET Ids
            BY <2>1, IdsAreFinite, SetIsListed DEF Invocation
          <5>4. work'[w] = j
            BY <2>3, <5>1
          <5>5. SetToSeq(work[w].created) \in Seq(Ids)
            BY <5>3
          <5> HIDE DEF at
          <5>6. WITNESS at \in {"analyse", "approve", "track"}, SetToSeq(work[w].created) \in Seq(Ids)
          <5> QED
            BY <5>4
        <4>2. CASE work[w].queue # << >>
          <5>1. Do(w, [work[w] EXCEPT !.queue = Tail(@)]) /\ work[w].at = "analyse"
            BY <2>10, <4>2 DEF Analyse, At
          <5>2. [work[w] EXCEPT !.queue = Tail(@)]
                  = [work[w] EXCEPT !.at = "analyse", !.queue = Tail(work[w].queue)]
            BY <2>1, <5>1 DEF Invocation
          <5>3. Tail(work[w].queue) \in Seq(Ids)
            BY <2>1, <4>2, HeadAndTail DEF Invocation
          <5> QED
            BY <2>3, <5>1, <5>2, <5>3
        <4> QED
          BY <4>1, <4>2
      <3>5. Do(w, work'[w])
        BY <1>1, <2>10 DEF Analyse, Do, TypeOK
      <3>6. OnTrack(work'[w], Rows', ~deleted')
        BY <3>1, <3>3, <3>4
      <3> QED
        BY <3>1, <3>2, <3>5, <3>6, <1>3
    <2>11. CASE Count(w)
      <3>1. Do(w, [work[w] EXCEPT !.at = "approve", !.queue = Capped(@)]) /\ Same
        BY <2>11 DEF Count
      <3>2. OnTrack([work[w] EXCEPT !.at = "approve", !.queue = Capped(@)], Rows, ~deleted)
        BY <2>1 DEF OnTrack, Invocation
      <3> QED
        BY <1>5, <3>1, <3>2
    <2>12. CASE Approve(w)
      <3>1. /\ Rows' = Rows /\ UNCHANGED <<feed, of, deleted>>
        <4>1. \A id \in Ids : (status[id] # "NONE") <=> (status'[id] # "NONE")
          BY <2>12 DEF Approve, TypeOK
        <4> QED
          BY <2>12, <4>1 DEF Approve, Rows
      <3>2. FeedIsSet' /\ RowsAreNamed'
        <4>1. \A id \in Guided : id \in Rows <=> status[id] # "NONE"
          BY DEF Rows, Ids
        <4>2. \A id \in Guided : id \in Rows' <=> status'[id] # "NONE"
          BY DEF Rows, Ids
        <4> QED
          BY <3>1, <4>1, <4>2 DEF FeedIsSet, RowsAreNamed
      <3>3. OnTrack([work[w] EXCEPT !.at = "track", !.queue = << >>], Rows', ~deleted')
        BY <2>1, <3>1 DEF OnTrack, Invocation
      <3>4. OnTrack([work[w] EXCEPT !.queue = Tail(@)], Rows', ~deleted')
        BY <2>1, <3>1 DEF OnTrack, Invocation
      <3>5. \/ Do(w, [work[w] EXCEPT !.at = "track", !.queue = << >>])
            \/ Do(w, [work[w] EXCEPT !.queue = Tail(@)])
            \/ Do(w, Idle)
        BY <2>12 DEF Approve
      <3>6. \A v \in Workers : OnTrack(work'[v], Rows', ~deleted')
        BY <1>3, <1>6, <3>1, <3>3, <3>4, <3>5
      <3> QED
        BY <3>2, <3>6
    <2>13. CASE Track(w) \/ Die(w)
      <3>1. Do(w, Idle) /\ Same
        BY <2>13 DEF Track, Die
      <3> QED
        BY <1>5, <1>6, <3>1
    <2> QED
      BY <1>12, <2>5, <2>6, <2>7, <2>8, <2>9, <2>10, <2>11, <2>12, <2>13 DEF Step
  <1>13. ASSUME NEW id \in Ids, Withdraw(id) PROVE ImportInv'
    <2>1. Rows' = Rows /\ UNCHANGED <<feed, of, deleted, work>>
      BY <1>13 DEF Withdraw, Rows, TypeOK
    <2>2. FeedIsSet' /\ RowsAreNamed'
      <3>1. \A g \in Guided : g \in Rows <=> status[g] # "NONE"
        BY DEF Rows, Ids
      <3>2. \A g \in Guided : g \in Rows' <=> status'[g] # "NONE"
        BY DEF Rows, Ids
      <3> QED
        BY <2>1, <3>1, <3>2 DEF FeedIsSet, RowsAreNamed
    <2> QED
      BY <2>1, <2>2
  <1>14. ASSUME NEW id \in Ids, DeleteResource(id) PROVE ImportInv'
    <2>1. deleted' = TRUE /\ UNCHANGED <<feed, work>>
      BY <1>14 DEF DeleteResource
    <2> QED
      BY <1>2, <2>1 DEF FeedIsSet, RowsAreNamed
  <1>15. CASE ToggleSource \/ UNCHANGED vars
    <2>1. Same /\ work' = work
      BY <1>15 DEF ToggleSource, vars
    <2> QED
      BY <1>4, <2>1
  <1> QED
    BY <1>8, <1>9, <1>10, <1>11, <1>12, <1>13, <1>14, <1>15 DEF Next

-----------------------------------------------------------------------------

(* What is reserved is a finite number of ids.                             *)
LEMMA ReservedIsFinite ==
  /\ \A S \in SUBSET Reserved : IsFiniteSet(S) /\ Cardinality(S) <= Cardinality(Reserved)
  /\ Cardinality(Reserved) \in Nat
  <1>1. Reserved \in SUBSET Ids
    BY DEF Reserved, Active
  <1> QED
    BY <1>1, IdsAreFinite, FS_Subset

(* An approval that counts while no other is under way fits, whatever it   *)
(* has been asked for.                                                     *)
LEMMA CountedFits ==
  ASSUME TypeOK, TypeOK', Fits, ~raced, NEW w \in Workers, ~UnderWay(w), NEW ids \in Seq(Ids),
         NEW j, Do(w, j), j.queue = Capped(ids), status' = status
  PROVE  Cardinality(Reserved') <= Cap
  <1>1. Cardinality(Active) <= Cap
    BY ReservedIsFinite, IdsAreFinite, CatalogueAssumption DEF Reserved, Active, Fits
  <1>2. /\ Capped(ids) \in Seq(Ids)
        /\ Cardinality(Active \cup ToSet(Capped(ids))) <= Cap
    BY <1>1, CappedFits
  <1>3. work'[w] = j /\ \A v \in Workers \ {w} : work'[v] = work[v]
    BY DEF Do, TypeOK
  <1>4. \A v \in Workers \ {w} : ~(At(v, "approve") /\ work[v].queue # << >>)
    BY DEF UnderWay
  <1>5. ASSUME NEW id \in Reserved' PROVE id \in Active \cup ToSet(Capped(ids))
    <2>1. CASE id \in Active'
      BY <2>1 DEF Active
    <2>2. CASE id \notin Active'
      <3>1. PICK v \in Workers : Busy(v)' /\ id \in ToSet(work'[v].queue)
        BY <1>5, <2>2 DEF Reserved
      <3>2. v = w
        BY <1>3, <1>4, <3>1 DEF Busy, At
      <3> QED
        BY <1>3, <3>1, <3>2
    <2> QED
      BY <2>1, <2>2
  <1>6. Active \cup ToSet(Capped(ids)) \in SUBSET Ids
    <2>1. ToSet(Capped(ids)) \subseteq Ids
      BY <1>2, ToSetIsFinite
    <2> QED
      BY <2>1 DEF Active
  <1>7. /\ IsFiniteSet(Active \cup ToSet(Capped(ids)))
        /\ Cardinality(Active \cup ToSet(Capped(ids))) \in Nat
    BY <1>6, IdsAreFinite
  <1>8. Reserved' \subseteq Active \cup ToSet(Capped(ids))
    BY <1>5
  <1>9. /\ Cardinality(Reserved') \in Nat
        /\ Cardinality(Reserved') <= Cardinality(Active \cup ToSet(Capped(ids)))
    BY <1>7, <1>8, FS_Subset, FS_CardinalityType
  <1> QED
    BY <1>2, <1>7, <1>9, CatalogueAssumption

(* Every step keeps what is public and what is being approved within the   *)
(* cap, or makes a note that something was not counted.                    *)
LEMMA FitsStep == TypeOK /\ TypeOK' /\ ImportInv /\ Fits /\ [Next]_vars => Fits'
  <1> SUFFICES ASSUME TypeOK, TypeOK', ImportInv, Fits, [Next]_vars PROVE Fits'
    OBVIOUS
  <1>1. ASSUME Reserved' \subseteq Reserved, raced => raced' PROVE Fits'
    <2>1. Cardinality(Reserved') \in Nat /\ Cardinality(Reserved') <= Cardinality(Reserved)
      BY <1>1, ReservedIsFinite, FS_CardinalityType
    <2> QED
      BY <1>1, <2>1, ReservedIsFinite, CatalogueAssumption DEF Fits
  <1>2. ASSUME NEW w \in Workers, NEW j, Do(w, j), Active' \subseteq Reserved,
               j.at = "approve" /\ j.queue # << >> =>
                 Busy(w) /\ ToSet(j.queue) \subseteq ToSet(work[w].queue)
        PROVE  Reserved' \subseteq Reserved
    <2>1. work'[w] = j /\ \A v \in Workers \ {w} : work'[v] = work[v]
      BY <1>2 DEF Do, TypeOK
    <2>2. ASSUME NEW id \in Ids, NEW v \in Workers, Busy(v)', id \in ToSet(work'[v].queue)
          PROVE  Busy(v) /\ id \in ToSet(work[v].queue)
      BY <1>2, <2>1, <2>2 DEF Busy, At
    <2> QED
      BY <1>2, <2>2 DEF Reserved
  <1>3. Active \subseteq Reserved
    BY DEF Reserved
  <1>4. ASSUME work' = work, Active' \subseteq Active PROVE Reserved' \subseteq Reserved
    BY <1>4 DEF Reserved, Busy, At
  <1>5. ASSUME status' = status PROVE Active' = Active
    BY <1>5 DEF Active
  <1>6. ASSUME NEW w \in Workers, NEW j, Do(w, j), j.at # "approve", Active' \subseteq Active,
               raced => raced'
        PROVE  Fits'
    BY <1>1, <1>2, <1>3, <1>6
  <1>7. ASSUME NEW w \in Workers, NEW auto, NEW track, Begin(w, auto, track),
               status' = status, raced' = raced
        PROVE  Fits'
    <2> DEFINE j == [Idle EXCEPT !.at = "find", !.todo = listResources,
                                 !.listed = ToSet(listResources),
                                 !.auto = auto, !.track = track, !.job = "RUNNING"]
    <2>1. Do(w, j)
      BY <1>7 DEF Begin
    <2>2. j.at # "approve"
      BY DEF Idle
    <2> QED
      BY <1>5, <1>6, <1>7, <2>1, <2>2
  <1>8. ASSUME NEW i \in Items, Publish(i) PROVE Fits'
    BY <1>1, <1>4, <1>5, <1>8 DEF Publish
  <1>9. CASE StartSync
    <2>1. Cron \in Workers /\ Begin(Cron, source.approve, FALSE) /\ status' = status /\ raced' = raced
      BY <1>9 DEF StartSync, Workers
    <2> QED
      BY <1>7, <2>1
  <1>10. ASSUME NEW w \in Requests, StartImport(w) PROVE Fits'
    <2>1. PICK auto \in BOOLEAN, track \in BOOLEAN : Begin(w, auto, track)
      BY <1>10 DEF StartImport
    <2>2. w \in Workers /\ status' = status /\ raced' = raced
      BY <1>10 DEF StartImport, Workers
    <2> QED
      BY <1>7, <2>1, <2>2
  <1>11. ASSUME NEW w \in Requests, StartApproval(w) PROVE Fits'
    <2>1. PICK ids \in SUBSET Ids :
            Do(w, [Idle EXCEPT !.at = "approve", !.queue = Capped(SetToSeq(ids))])
      BY <1>11 DEF StartApproval
    <2>2. /\ w \in Workers /\ status' = status
          /\ ~raced' => ~raced /\ ~UnderWay(w)
      BY <1>11 DEF StartApproval, Workers
    <2>3. SetToSeq(ids) \in Seq(Ids)
      <3>1. SetToSeq(ids) \in Seq(ids)
        BY IdsAreFinite, SetIsListed
      <3> QED
        BY <3>1
    <2> DEFINE j == [Idle EXCEPT !.at = "approve", !.queue = Capped(SetToSeq(ids))]
    <2>4. j.queue = Capped(SetToSeq(ids)) /\ Do(w, j)
      BY <2>1 DEF Idle
    <2> HIDE DEF j
    <2> QED
      BY <2>2, <2>3, <2>4, CountedFits DEF Fits
  <1>12. ASSUME NEW w \in Workers, Step(w) \/ ItemFails(w) \/ Die(w) PROVE Fits'
    <2>1. work[w] \in Invocation /\ w \in Workers
      BY DEF TypeOK
    <2>2. ASSUME NEW at \in {"find", "create", "enrich", "analyse", "count", "track"}
          PROVE  [work[w] EXCEPT !.at = at].at # "approve"
      BY <2>1 DEF Invocation
    <2>3. Skipped(w).at # "approve"
      BY <2>1 DEF Skipped, Invocation
    <2>4. CASE Find(w)
      <3>1. \/ Do(w, [work[w] EXCEPT !.todo = Tail(@)])
            \/ Do(w, [work[w] EXCEPT !.at = "create"])
        BY <2>4 DEF Find
      <3>2. /\ [work[w] EXCEPT !.todo = Tail(@)].at # "approve"
            /\ [work[w] EXCEPT !.at = "create"].at # "approve"
        BY <2>1, <2>4 DEF Find, At, Invocation
      <3>3. Active' \subseteq Active /\ raced' = raced
        BY <1>5, <2>4 DEF Find
      <3> QED
        BY <1>6, <3>1, <3>2, <3>3
    <2>5. CASE Create(w)
      <3>1. Do(w, [work[w] EXCEPT !.at = "enrich"]) \/ Do(w, Skipped(w))
        BY <2>5 DEF Create
      <3>2. Active' \subseteq Active /\ raced' = raced
        BY <1>5, <2>5 DEF Create, Active, TypeOK
      <3> QED
        BY <1>6, <2>2, <2>3, <3>1, <3>2
    <2>6. CASE Enrich(w)
      <3> DEFINE j == [work[w] EXCEPT !.at = "find", !.todo = Tail(@),
                                      !.created = @ \cup {Head(work[w].todo).id}]
      <3>1. Do(w, j) /\ j.at # "approve"
        BY <2>1, <2>6 DEF Enrich, Invocation
      <3>2. Active' \subseteq Active /\ raced' = raced
        BY <1>5, <2>6 DEF Enrich
      <3> HIDE DEF j
      <3> QED
        BY <1>6, <3>1, <3>2
    <2>7. CASE ItemFails(w)
      <3>1. \/ Do(w, Skipped(w))
            \/ Do(w, [Skipped(w) EXCEPT !.created = @ \cup {Head(work[w].todo).id}])
        BY <2>7 DEF ItemFails
      <3>2. [Skipped(w) EXCEPT !.created = @ \cup {Head(work[w].todo).id}].at # "approve"
        BY <2>1 DEF Skipped, Invocation
      <3>3. Active' \subseteq Active /\ raced' = raced
        BY <1>5, <2>7 DEF ItemFails
      <3> QED
        BY <1>6, <2>3, <3>1, <3>2, <3>3
    <2>8. CASE Complete(w)
      <3> DEFINE to == IF work[w].created = {} \/ (w # Cron /\ ~work[w].auto) THEN "track"
                       ELSE IF w = Cron THEN "analyse" ELSE "count"
                 j  == [work[w] EXCEPT !.job = JobStatus(w), !.at = to,
                                       !.queue = SetToSeq(work[w].created)]
      <3>1. Do(w, j)
        BY <2>8 DEF Complete
      <3>2. to # "approve"
        OBVIOUS
      <3> HIDE DEF to
      <3>3. j.at = to
        BY <2>1 DEF Invocation
      <3>4. Active' \subseteq Active /\ raced' = raced
        BY <1>5, <2>8 DEF Complete
      <3> HIDE DEF j
      <3> QED
        BY <1>6, <3>1, <3>2, <3>3, <3>4
    <2>9. CASE Analyse(w)
      <3>1. Active' \subseteq Active
        BY <1>5, <2>9 DEF Analyse, Active, TypeOK
      <3>2. work[w].auto \in BOOLEAN
        BY <2>1 DEF Invocation
      <3>3. CASE work[w].queue = << >> /\ work[w].auto
        BY <2>9, <3>3 DEF Analyse, Fits
      <3>4. CASE work[w].queue = << >> /\ ~work[w].auto
        <4> DEFINE j == [work[w] EXCEPT !.at = "track", !.queue = SetToSeq(work[w].created)]
        <4>1. Do(w, j) /\ raced' = (raced \/ work[w].auto)
          BY <2>9, <3>4 DEF Analyse
        <4>2. j.at # "approve"
          BY <2>1 DEF Invocation
        <4> HIDE DEF j
        <4> QED
          BY <1>6, <3>1, <4>1, <4>2
      <3>5. CASE work[w].queue # << >>
        <4> DEFINE j == [work[w] EXCEPT !.queue = Tail(@)]
        <4>1. Do(w, j) /\ raced' = raced
          BY <2>9, <3>5 DEF Analyse
        <4>2. j.at # "approve"
          BY <2>1, <2>9 DEF Invocation, Analyse, At
        <4> HIDE DEF j
        <4> QED
          BY <1>6, <3>1, <4>1, <4>2
      <3> QED
        BY <3>2, <3>3, <3>4, <3>5
    <2>10. CASE Count(w)
      <3> DEFINE j == [work[w] EXCEPT !.at = "approve", !.queue = Capped(@)]
      <3>1. /\ Do(w, j) /\ status' = status
            /\ ~raced' => ~raced /\ ~UnderWay(w)
        BY <2>10 DEF Count
      <3>2. j.queue = Capped(work[w].queue) /\ work[w].queue \in Seq(Ids)
        BY <2>1 DEF Invocation
      <3> HIDE DEF j
      <3> QED
        BY <3>1, <3>2, CountedFits DEF Fits
    <2>11. CASE Approve(w)
      <3> DEFINE ids  == work[w].queue
                 last == [work[w] EXCEPT !.at = "track", !.queue = << >>]
                 next == [work[w] EXCEPT !.queue = Tail(@)]
      <3>1. last.at # "approve" /\ Idle.at # "approve" /\ raced' = raced
        BY <2>1, <2>11 DEF Invocation, Idle, Approve
      <3>2. CASE ids = << >>
        <4>1. Do(w, last) /\ status' = status
          BY <2>11, <3>2 DEF Approve
        <4> QED
          BY <1>5, <1>6, <3>1, <4>1
      <3>3. CASE ids # << >>
        <4>1. /\ ids \in Seq(Ids) /\ Head(ids) \in ToSet(ids) /\ Head(ids) \in Ids
              /\ ToSet(Tail(ids)) \subseteq ToSet(ids)
          BY <2>1, <3>3, HeadAndTail DEF Invocation
        <4>2. Busy(w) /\ Head(ids) \in Reserved
          BY <2>11, <3>3, <4>1 DEF Approve, Busy, Reserved
        <4>3. Active' \subseteq Active \cup {Head(ids)}
          BY <2>11, <3>3, <4>1 DEF Approve, Active, TypeOK
        <4>4. Active' \subseteq Reserved
          BY <1>3, <4>2, <4>3
        <4>5. Do(w, next) \/ Do(w, last) \/ Do(w, Idle)
          BY <2>11, <3>3 DEF Approve
        <4>6. next.queue = Tail(ids)
          BY <2>1 DEF Invocation
        <4>7. Reserved' \subseteq Reserved
          <5>1. CASE Do(w, next)
            <6> HIDE DEF next
            <6> QED
              BY <1>2, <4>1, <4>2, <4>4, <4>6, <5>1
          <5>2. CASE Do(w, last)
            <6> HIDE DEF last
            <6> QED
              BY <1>2, <3>1, <4>4, <5>2
          <5>3. CASE Do(w, Idle)
            BY <1>2, <3>1, <4>4, <5>3
          <5> QED
            BY <4>5, <5>1, <5>2, <5>3
        <4> QED
          BY <1>1, <3>1, <4>7
      <3> QED
        BY <3>2, <3>3
    <2>12. CASE Track(w) \/ Die(w)
      <3>1. Do(w, Idle) /\ status' = status /\ raced' = raced /\ Idle.at # "approve"
        BY <2>12 DEF Track, Die, Idle
      <3> QED
        BY <1>5, <1>6, <3>1
    <2> QED
      BY <1>12, <2>4, <2>5, <2>6, <2>7, <2>8, <2>9, <2>10, <2>11, <2>12 DEF Step
  <1>13. ASSUME NEW id \in Ids, Withdraw(id) \/ DeleteResource(id) PROVE Fits'
    <2>1. work' = work /\ raced' = raced
      BY <1>13 DEF Withdraw, DeleteResource
    <2>2. Active' \subseteq Active
      BY <1>13 DEF Withdraw, DeleteResource, Active, TypeOK
    <2> QED
      BY <1>1, <1>4, <2>1, <2>2
  <1>14. CASE ToggleSource \/ UNCHANGED vars
    <2>1. work' = work /\ raced' = raced /\ status' = status
      BY <1>14 DEF ToggleSource, vars
    <2> QED
      BY <1>1, <1>4, <1>5, <2>1
  <1> QED
    BY <1>8, <1>9, <1>10, <1>11, <1>12, <1>13, <1>14 DEF Next

-----------------------------------------------------------------------------

(* The inductive invariant: the types; what imports have listed, failed    *)
(* and filed fits together; what is public and being approved fits the cap *)
(* as long as every approval was counted.                                  *)
THEOREM CatalogueInvariance == Spec => []CatalogueInv
  <1>1. CatalogueInv /\ [Next]_vars => CatalogueInv'
    BY TypeStep, ImportStep, FitsStep DEF CatalogueInv
  <1> QED
    BY InitHolds, <1>1, PTL DEF Spec

(* The plan's cap holds as long as every approval was counted and none     *)
(* counted while another was under way (resources/page.tsx:48), for any    *)
(* cap, feed, number of requests, edits and faults.                        *)
THEOREM CapIsKept == Spec => []CapHolds
  <1>1. CatalogueInv => CapHolds
    <2> SUFFICES ASSUME CatalogueInv, ~raced PROVE ~(ActiveCount > Cap)
      BY DEF CapHolds
    <2>1. ActiveCount = Cardinality(Active) /\ Active \subseteq Reserved
      BY DEF ActiveCount, Active, Reserved
    <2>2. Cardinality(Active) \in Nat /\ Cardinality(Active) <= Cap
      BY <2>1, ReservedIsFinite, FS_CardinalityType, CatalogueAssumption DEF CatalogueInv, Fits
    <2> QED
      BY <2>1, <2>2, CatalogueAssumption
  <1> QED
    BY CatalogueInvariance, <1>1, PTL

(* A job that reads COMPLETED has left what it listed in the catalogue,    *)
(* however imports, syncs and faults have overlapped: "just skips items    *)
(* already imported" (import-service.ts:248).                              *)
THEOREM CompletedIsImported == Spec => []CompletedMeansImported
  <1>1. CatalogueInv => CompletedMeansImported
    <2> SUFFICES ASSUME CatalogueInv, ~deleted, NEW w \in Workers, work[w].job = "COMPLETED",
                        NEW l \in work[w].listed, l.item \in Guided
                 PROVE  of[l.id] = l.item
      BY DEF CompletedMeansImported
    <2>1. work[w] \in Invocation /\ OnTrack(work[w], Rows, ~deleted) /\ RowsAreNamed
      BY DEF CatalogueInv, ImportInv, TypeOK
    <2>2. l.id = l.item /\ l.id \in Rows
      BY <2>1 DEF OnTrack, Named, ToSet
    <2> QED
      BY <2>1, <2>2 DEF RowsAreNamed, Rows
  <1> QED
    BY CatalogueInvariance, <1>1, PTL

=============================================================================
