----------------------------- MODULE Catalogue -----------------------------
(***************************************************************************)
(* How resources come into an organization's catalogue and become public:  *)
(* manual imports of a channel or feed, the hourly sync of a tracked       *)
(* source, and approvals up to the plan's cap. One source is considered;   *)
(* what the resources say is ResourceRow's subject.                        *)
(***************************************************************************)
EXTENDS Naturals, Sequences, FiniteSets, SequencesExt

CONSTANTS
  Items,      \* what the channel or feed may publish
  Guided,     \* those with an id of their own: a video id, a guid or a link
  Requests,   \* server actions that may be under way at a time
  Cron,       \* the sync's invocation
  Cap,        \* plan.maxIndexedResources
  MaxTasks,   \* bound: manual imports and approvals started
  MaxEdits,   \* bound: changes by staff
  MaxFaults   \* bound: calls that throw, invocations that are killed

(* A guid is not taken for a place in the feed. *)
ASSUME CatalogueAssumption ==
  /\ IsFiniteSet(Items) /\ Guided \subseteq Items
  /\ Guided \cap (1..Cardinality(Items)) = {}
  /\ Cap \in Nat /\ MaxTasks \in Nat /\ MaxEdits \in Nat /\ MaxFaults \in Nat
  /\ Cron \notin Requests

Workers  == Requests \cup {Cron}
Ids      == Guided \cup 1..Cardinality(Items)
NoItem   == "none"
NoSource == [tracked |-> FALSE, sync |-> FALSE, approve |-> FALSE]

VARIABLES
  feed,      \* the items published, newest first
  status,    \* per external id: "NONE" without a row, "ACTIVE", or "HELD", which is
             \* DRAFT, REVIEW_REQUIRED and ARCHIVED: no step here tells them apart
  of,        \* per external id: the item the row was made from
  source,    \* the ContentSource: is it tracked, autoSyncEnabled, autoApprove?
  work,      \* what each invocation is doing
  started, edits, faults,
  deleted,   \* history: staff have deleted a resource
  raced      \* history: an approval was not counted, or counted while another was under way

vars == <<feed, status, of, source, work, started, edits, faults, raced, deleted>>

Idle == [at |-> "idle", todo |-> <<>>, listed |-> {}, created |-> {}, failed |-> FALSE,
         auto |-> FALSE, track |-> FALSE, queue |-> <<>>, job |-> "NONE"]

JobStatuses == {"NONE", "RUNNING", "COMPLETED", "PARTIAL", "FAILED"}

Listed     == [id : Ids, item : Items]
Invocation == [at : {"idle", "find", "create", "enrich", "count", "analyse", "approve", "track"},
               todo : Seq(Listed), listed : SUBSET Listed, created : SUBSET Ids,
               failed : BOOLEAN, auto : BOOLEAN, track : BOOLEAN, queue : Seq(Ids),
               job : JobStatuses]

TypeOK ==
  /\ feed \in Seq(Items)
  /\ status \in [Ids -> {"NONE", "HELD", "ACTIVE"}]
  /\ of \in [Ids -> Items \cup {NoItem}]
  /\ source \in [tracked : BOOLEAN, sync : BOOLEAN, approve : BOOLEAN]
  /\ work \in [Workers -> Invocation]
  /\ started \in Nat /\ edits \in Nat /\ faults \in Nat
  /\ deleted \in BOOLEAN /\ raced \in BOOLEAN

Init ==
  /\ feed = <<>>
  /\ status = [id \in Ids |-> "NONE"]
  /\ of = [id \in Ids |-> NoItem]
  /\ source = NoSource
  /\ work = [w \in Workers |-> Idle]
  /\ started = 0 /\ edits = 0 /\ faults = 0
  /\ raced = FALSE /\ deleted = FALSE

-----------------------------------------------------------------------------
(* The platform *)

Publish(i) ==
  /\ i \notin ToSet(feed)
  /\ feed' = <<i>> \o feed
  /\ UNCHANGED <<status, of, source, work, started, edits, faults, raced, deleted>>

(* An entry with neither guid nor link goes by its place in the feed. *)
externalIdFor(n) == IF feed[n] \in Guided THEN feed[n] ELSE n

listResources == [n \in DOMAIN feed |-> [id |-> externalIdFor(n), item |-> feed[n]]]

-----------------------------------------------------------------------------
(* Importing *)

Fault == faults < MaxFaults /\ faults' = faults + 1

Do(w, change) == work' = [work EXCEPT ![w] = change]

At(w, at) == work[w].at = at

(* The import job's row is created RUNNING; a source that cannot be listed *)
(* leaves nothing behind.                                                  *)
Begin(w, auto, track) ==
  /\ At(w, "idle")
  /\ Do(w, [Idle EXCEPT !.at = "find", !.todo = listResources, !.listed = ToSet(listResources),
                        !.auto = auto, !.track = track, !.job = "RUNNING"])

StartImport(w) ==
  /\ w \in Requests /\ started < MaxTasks
  /\ started' = started + 1
  /\ \E auto, track \in BOOLEAN : Begin(w, auto, track)
  /\ UNCHANGED <<feed, status, of, source, edits, faults, raced, deleted>>

(* Slip: takes the sources that are approved by themselves. *)
StartSyncApproving ==
  /\ source.tracked /\ source.approve
  /\ Begin(Cron, source.approve, FALSE)
  /\ UNCHANGED <<feed, status, of, source, started, edits, faults, raced, deleted>>

(* listDueForAutoSync *)
StartSync ==
  /\ source.tracked /\ source.sync
  /\ Begin(Cron, source.approve, FALSE)
  /\ UNCHANGED <<feed, status, of, source, started, edits, faults, raced, deleted>>

(* The next item: findResourceBySource. *)
Find(w) ==
  /\ At(w, "find") /\ work[w].todo # <<>>
  /\ Do(w, IF status[Head(work[w].todo).id] # "NONE"
           THEN [work[w] EXCEPT !.todo = Tail(@)]
           ELSE [work[w] EXCEPT !.at = "create"])
  /\ UNCHANGED <<feed, status, of, source, started, edits, faults, raced, deleted>>

Skipped(w) == [work[w] EXCEPT !.at = "find", !.todo = Tail(@), !.failed = TRUE]

(* createResource; the unique index throws when the row has come meanwhile. *)
Create(w) ==
  /\ At(w, "create")
  /\ LET next == Head(work[w].todo) IN
     IF status[next.id] = "NONE"
     THEN /\ status' = [status EXCEPT ![next.id] = "HELD"]
          /\ of' = [of EXCEPT ![next.id] = next.item]
          /\ Do(w, [work[w] EXCEPT !.at = "enrich"])
     ELSE Do(w, Skipped(w)) /\ UNCHANGED <<status, of>>
  /\ UNCHANGED <<feed, source, started, edits, faults, raced, deleted>>

(* Its source documents, links and transcript, and the job's item. *)
Enrich(w) ==
  /\ At(w, "enrich")
  /\ Do(w, [work[w] EXCEPT !.at = "find", !.todo = Tail(@), !.created = @ \cup {Head(work[w].todo).id}])
  /\ UNCHANGED <<feed, status, of, source, started, edits, faults, raced, deleted>>

(* Any call for an item throws: it is counted as failed, though its row    *)
(* may be there, and may be among the created when the call was the last.  *)
ItemFails(w) ==
  /\ work[w].at \in {"find", "create", "enrich"} /\ work[w].todo # <<>>
  /\ Fault
  /\ \/ Do(w, Skipped(w))
     \/ /\ At(w, "enrich")
        /\ Do(w, [Skipped(w) EXCEPT !.created = @ \cup {Head(work[w].todo).id}])
  /\ UNCHANGED <<feed, status, of, source, started, edits, raced, deleted>>

(* Slip: forgets the failures once something has been imported. *)
JobStatusLenient(w) == IF work[w].failed /\ work[w].created = {} THEN "FAILED" ELSE "COMPLETED"

(* What is listed and did not fail was created or existed. *)
JobStatus(w) ==
  IF ~work[w].failed THEN "COMPLETED"
  ELSE IF work[w].created = {} THEN "FAILED" ELSE "PARTIAL"

Complete(w) ==
  /\ At(w, "find") /\ work[w].todo = <<>>
  /\ Do(w, [work[w] EXCEPT !.job = JobStatus(w),
                           !.at = IF work[w].created = {} \/ (w # Cron /\ ~work[w].auto) THEN "track"
                                  ELSE IF w = Cron THEN "analyse" ELSE "count",
                           !.queue = SetToSeq(work[w].created)])
  /\ UNCHANGED <<feed, status, of, source, started, edits, faults, raced, deleted>>

(* The sync has its new resources analysed, one failing without notice,    *)
(* and with autoApprove as it was when it began, approved.                 *)
Analyse(w) ==
  /\ At(w, "analyse")
  /\ IF work[w].queue = <<>>
     THEN /\ Do(w, [work[w] EXCEPT !.at = IF work[w].auto THEN "approve" ELSE "track",
                                   !.queue = SetToSeq(work[w].created)])
          /\ raced' = (raced \/ work[w].auto)
          /\ UNCHANGED status
     ELSE LET id == Head(work[w].queue) IN
          /\ status' \in {status, IF status[id] = "NONE" THEN status
                                  ELSE [status EXCEPT ![id] = "HELD"]}
          /\ Do(w, [work[w] EXCEPT !.queue = Tail(@)])
          /\ UNCHANGED raced
  /\ UNCHANGED <<feed, of, source, started, edits, faults, deleted>>

(* trackContentSource, with autoSyncEnabled; a source already tracked      *)
(* stays as it is.                                                         *)
Track(w) ==
  /\ At(w, "track")
  /\ source' = IF work[w].track /\ ~source.tracked
               THEN [tracked |-> TRUE, sync |-> TRUE, approve |-> work[w].auto] ELSE source
  /\ Do(w, Idle)
  /\ UNCHANGED <<feed, status, of, started, edits, faults, raced, deleted>>

(* The invocation is killed or throws where nothing catches; the import    *)
(* job keeps its status.                                                   *)
Die(w) ==
  /\ ~At(w, "idle")
  /\ Fault
  /\ Do(w, Idle)
  /\ UNCHANGED <<feed, status, of, source, started, edits, raced, deleted>>

-----------------------------------------------------------------------------
(* Approving *)

ActiveCount == Cardinality({id \in Ids : status[id] = "ACTIVE"})

UnderWay(w) == \E v \in Workers \ {w} : At(v, "approve") /\ work[v].queue # <<>>

(* Slip: asks only whether there is room, not how much.                    *)
CappedOne(ids) == IF ActiveCount < Cap THEN ids ELSE <<>>

(* capToRemainingResourceSlots *)
Capped(ids) ==
  LET room == IF ActiveCount < Cap THEN Cap - ActiveCount ELSE 0 IN
  SubSeq(ids, 1, IF room <= Len(ids) THEN room ELSE Len(ids))

(* A manual import's own resources are approved as far as there is room.   *)
Count(w) ==
  /\ At(w, "count")
  /\ Do(w, [work[w] EXCEPT !.at = "approve", !.queue = Capped(@)])
  /\ raced' = (raced \/ UnderWay(w))
  /\ UNCHANGED <<feed, status, of, source, started, edits, faults, deleted>>

(* A bulk APPROVE job, or the button of one resource (a batch of one):     *)
(* refused when there is no room at all.                                   *)
StartApproval(w) ==
  /\ w \in Requests /\ At(w, "idle") /\ started < MaxTasks
  /\ started' = started + 1
  /\ \E ids \in (SUBSET {id \in Ids : status[id] # "NONE"}) \ {{}} :
       /\ Capped(SetToSeq(ids)) # <<>>
       /\ Do(w, [Idle EXCEPT !.at = "approve", !.queue = Capped(SetToSeq(ids))])
  /\ raced' = (raced \/ UnderWay(w))
  /\ UNCHANGED <<feed, status, of, source, edits, faults, deleted>>

(* approveResource, whatever has become of the row. *)
Approve(w) ==
  /\ At(w, "approve")
  /\ LET ids  == work[w].queue
         last == [work[w] EXCEPT !.at = "track", !.queue = <<>>] IN
     IF ids = <<>> THEN Do(w, last) /\ UNCHANGED status
     ELSE /\ status' = IF status[Head(ids)] = "NONE" THEN status
                       ELSE [status EXCEPT ![Head(ids)] = "ACTIVE"]
          /\ Do(w, IF Len(ids) > 1 THEN [work[w] EXCEPT !.queue = Tail(@)]
                   ELSE IF work[w].job = "NONE" THEN Idle ELSE last)
  /\ UNCHANGED <<feed, of, source, started, edits, faults, raced, deleted>>

-----------------------------------------------------------------------------
(* Staff *)

Edit == edits < MaxEdits /\ edits' = edits + 1

(* Rejected (ARCHIVED) or analysed again (REVIEW_REQUIRED). *)
Withdraw(id) ==
  /\ Edit
  /\ status[id] = "ACTIVE"
  /\ status' = [status EXCEPT ![id] = "HELD"]
  /\ UNCHANGED <<feed, of, source, work, started, faults, raced, deleted>>

DeleteResource(id) ==
  /\ Edit
  /\ status[id] # "NONE"
  /\ status' = [status EXCEPT ![id] = "NONE"]
  /\ of' = [of EXCEPT ![id] = NoItem]
  /\ deleted' = TRUE
  /\ UNCHANGED <<feed, source, work, started, faults, raced>>

ToggleSource ==
  /\ Edit
  /\ source.tracked
  /\ source' \in {[source EXCEPT !.sync = ~@], [source EXCEPT !.approve = ~@], NoSource}
  /\ UNCHANGED <<feed, status, of, work, started, faults, raced, deleted>>

-----------------------------------------------------------------------------

Step(w) == Find(w) \/ Create(w) \/ Enrich(w) \/ Complete(w) \/ Analyse(w) \/ Count(w)
           \/ Approve(w) \/ Track(w)

Next ==
  \/ \E i \in Items : Publish(i)
  \/ StartSync
  \/ \E w \in Requests : StartImport(w) \/ StartApproval(w)
  \/ \E w \in Workers : Step(w) \/ ItemFails(w) \/ Die(w)
  \/ \E id \in Ids : Withdraw(id) \/ DeleteResource(id)
  \/ ToggleSource

(* Invocations go on, and the cron comes again every hour. *)
Fairness == WF_vars(StartSync) /\ \A w \in Workers : WF_vars(Step(w))

Spec == Init /\ [][Next]_vars /\ Fairness

-----------------------------------------------------------------------------

(* The plan's cap holds, as long as nothing is approved without counting   *)
(* (an auto-approving sync) and no approval counts while another one is    *)
(* still being carried out: "decide upfront how many of the given ids fit  *)
(* ... rather than checking per-item" (resources/page.tsx:48).             *)
CapHolds == ActiveCount > Cap => raced

(* A job that reads COMPLETED has left every item it listed in the         *)
(* catalogue, if the item has an id of its own, unless staff have deleted  *)
(* something since: "just skips items already imported"                    *)
(* (import-service.ts:248).                                                *)
CompletedMeansImported ==
  \A w \in Workers : work[w].job = "COMPLETED" =>
    \A l \in work[w].listed : l.item \in Guided => of[l.id] = l.item \/ deleted

(* The same of every item. It is false: a new entry without an id of its   *)
(* own takes the place, and the id, of an older one.                       *)
SkipsOnlyImported ==
  \A w \in Workers : work[w].job = "COMPLETED" =>
    \A l \in work[w].listed : of[l.id] = l.item \/ deleted

Syncing == source.tracked /\ source.sync

(* While its source is synced, what the platform publishes with an id of   *)
(* its own comes into the catalogue, in spite of calls that throw,         *)
(* invocations that are killed halfway and imports that overlap            *)
(* (content-sync.ts:13).                                                   *)
EventuallyImported ==
  \A i \in Guided : i \in ToSet(feed) ~> (status[i] # "NONE" \/ ~Syncing)

=============================================================================
