------------------------------ MODULE BulkJob ------------------------------
(***************************************************************************)
(* One bulk job of the Resources page, from the click that enqueues it to  *)
(* its last write: the chain of serverless invocations ("chunks") that run *)
(* runBulkJob, the worker pool inside each one, the progress writes the    *)
(* pool fires without awaiting them, the hand-off to the next chunk, the   *)
(* platform that kills an invocation at maxDuration, and the readers that  *)
(* reap a job whose row has not been written for a while.                  *)
(*                                                                         *)
(* Time is counted in whole ticks of an age; two moments of the same tick  *)
(* may be anything from no time to a tick apart. An operator introduced    *)
(* as a "slip" is no part of the specification: it is a mistake the code   *)
(* might have made, which some property below has to notice.               *)
(***************************************************************************)
EXTENDS Integers, FiniteSets

CONSTANTS
  N,               \* job.totalCount: resourceIds is the array 1..N
  Concurrency,     \* billingService.bulkConcurrency: workers in a chunk's pool
  Types,           \* the job types the clicks may enqueue
  MaxLinkFailures, \* bound: failing links INCLUDE_LINKS meets in one chunk
  Readers,         \* page loads and polls that look at the job
  StaleAfter,      \* STALE_ACTIVE_JOB_THRESHOLD_MS
  ChunkBudget,     \* CHUNK_TIME_BUDGET_MS
  MaxDuration,     \* maxDuration of the route the invocation runs in
  MaxJobAge,       \* MAX_JOB_AGE_MS
  MaxChunks        \* bound: invocations of the chain

JobTypes == {"ANALYZE", "APPROVE", "REJECT", "DELETE",
             "FIND_LINKS", "INCLUDE_LINKS"}

ASSUME SizesAssumption ==
  /\ N \in Nat \ {0} /\ Concurrency \in Nat \ {0} /\ MaxChunks \in Nat \ {0}
  /\ MaxLinkFailures \in Nat /\ Types \subseteq JobTypes
ASSUME TimesAssumption ==
  /\ StaleAfter \in Nat \ {0} /\ ChunkBudget \in Nat \ {0}
  /\ MaxDuration \in Nat /\ MaxJobAge \in Nat
  /\ ChunkBudget < MaxDuration

Items  == 1..N
Chunks == 1..MaxChunks

(* The four counters recordProgress writes together. *)
Progress == [ids : SUBSET Items, processed : Nat, success : Nat, failure : Nat]
NoProgress == [ids |-> {}, processed |-> 0, success |-> 0, failure |-> 0]

VARIABLES
  \* The row
  type,        \* BulkJob.type
  status,      \* BulkJob.status
  progress,    \* processedResourceIds, processedCount, successCount, failureCount
  rowAge,      \* time since updatedAt, up to StaleAfter
  jobAge,      \* time since createdAt, up to MaxJobAge + 1
  audits,      \* audit events recorded for the job
  \* The invocations
  chunks,      \* how many have been requested so far
  pc,          \* where each one stands in runBulkJob
  chunkAge,    \* time since each one was requested, up to MaxDuration
  todo,        \* its remainingIds no worker has claimed
  busy,        \* the items its workers are processing
  tally,       \* its local counters and cumulativeDoneIds
  began,       \* its age when it started the pool
  flushedAt,   \* its age at lastFlush
  flying,      \* its un-awaited recordProgress calls not yet applied
  \* The readers, and a history of the work
  reaping,     \* the readers that found the job stale and will now fail it
  worked       \* the items whose function has settled in some invocation

rowVars    == <<status, progress, rowAge>>
memoryVars == <<todo, busy, tally, began, flushedAt>>
vars == <<type, rowVars, jobAge, audits, chunks, pc, chunkAge, memoryVars,
          flying, reaping, worked>>

Active == {"PENDING", "RUNNING"}

(* "none": never requested; "ended": returned; "dead": killed. *)
Gone    == {"none", "ended", "dead"}
Running == {"scheduled", "marked", "loaded", "working", "flushing", "finalizing"}
PCs     == Gone \cup Running \cup {"handingOff", "awaiting", "auditing", "failing"}

TypeOK ==
  /\ type \in JobTypes
  /\ status \in {"PENDING", "RUNNING", "COMPLETED", "FAILED"}
  /\ progress \in Progress
  /\ rowAge \in 0..StaleAfter
  /\ jobAge \in 0..(MaxJobAge + 1)
  /\ audits \in Nat
  /\ chunks \in Chunks
  /\ pc \in [Chunks -> PCs]
  /\ chunkAge \in [Chunks -> 0..MaxDuration]
  /\ todo \in [Chunks -> SUBSET Items]
  /\ busy \in [Chunks -> SUBSET Items]
  /\ tally \in [Chunks -> Progress]
  /\ began \in [Chunks -> 0..MaxDuration]
  /\ flushedAt \in [Chunks -> 0..MaxDuration]
  /\ flying \in [Chunks -> SUBSET Progress]
  /\ reaping \in SUBSET Readers
  /\ worked \in SUBSET Items

(* createBulkJob, and after(() => runBulkJob(...)) in the same request. *)
Init ==
  /\ type \in Types
  /\ status = "PENDING"
  /\ progress = NoProgress
  /\ rowAge = 0
  /\ jobAge = 0
  /\ audits = 0
  /\ chunks = 1
  /\ pc = [c \in Chunks |-> IF c = 1 THEN "scheduled" ELSE "none"]
  /\ chunkAge = [c \in Chunks |-> 0]
  /\ todo = [c \in Chunks |-> {}]
  /\ busy = [c \in Chunks |-> {}]
  /\ tally = [c \in Chunks |-> NoProgress]
  /\ began = [c \in Chunks |-> 0]
  /\ flushedAt = [c \in Chunks |-> 0]
  /\ flying = [c \in Chunks |-> {}]
  /\ reaping = {}
  /\ worked = {}

-----------------------------------------------------------------------------
(* Helpers *)

(* Every update of the row also sets updatedAt (@updatedAt). *)
WriteRow(s, p) ==
  /\ status' = s
  /\ progress' = p
  /\ rowAge' = 0

(* The chunk moves on with its local variables as they are. *)
GoTo(c, where) ==
  /\ pc' = [pc EXCEPT ![c] = where]
  /\ UNCHANGED memoryVars

(* The chunk moves to a place where its local variables no longer matter. *)
Leave(c, where) ==
  /\ pc' = [pc EXCEPT ![c] = where]
  /\ todo' = [todo EXCEPT ![c] = {}]
  /\ busy' = [busy EXCEPT ![c] = {}]
  /\ tally' = [tally EXCEPT ![c] = NoProgress]
  /\ began' = [began EXCEPT ![c] = 0]
  /\ flushedAt' = [flushedAt EXCEPT ![c] = 0]

(* Slip: reaps RUNNING jobs only. *)
StaleRunningOnly == status = "RUNNING" /\ rowAge >= StaleAfter

Stale == status \in Active /\ rowAge >= StaleAfter

(* Slip: no limit on the age of a job. *)
NeverTooOld == FALSE

TooOld == jobAge > MaxJobAge

(* Slip: only the ids are carried over from the earlier chunks. *)
ResumedIds == [NoProgress EXCEPT !.ids = progress.ids]

(* The counters a chunk starts from. *)
Resumed == progress

Remaining(c) == Items \ tally[c].ids

(* Slip: off by one. *)
AllButOneDone(c) == Cardinality(tally[c].ids) >= N - 1

AllDone(c) == Cardinality(tally[c].ids) >= N

DeadlinePassed(c) == chunkAge[c] >= began[c] + ChunkBudget

(* One more processed item in the local counters. *)
Count(t, i, ok) ==
  [ids |-> t.ids \cup {i},
   processed |-> t.processed + 1,
   success |-> t.success + (IF ok THEN 1 ELSE 0),
   failure |-> t.failure + (IF ok THEN 0 ELSE 1)]

(* The next k items, in the order of the array. *)
FirstOf(S, k) == {i \in S : Cardinality({j \in S : j < i}) < k}

-----------------------------------------------------------------------------
(* runBulkJob, one action per awaited call. A write whose reply is lost    *)
(* has landed all the same, and its chunk continues in the catch block.    *)

(* markRunning, its updateMany: whatever the status was. *)
MarkRunning(c) ==
  /\ pc[c] = "scheduled"
  /\ WriteRow("RUNNING", progress)
  /\ \E next \in {"marked", "failing"} : GoTo(c, next)
  /\ UNCHANGED <<type, jobAge, audits, chunks, chunkAge, flying, reaping, worked>>

(* markRunning, its getBulkJob (which reaps like any other read), then the *)
(* test of the job's age. The status that was read is not looked at again. *)
Load(c) ==
  /\ pc[c] = "marked"
  /\ IF Stale THEN WriteRow("FAILED", progress) ELSE UNCHANGED rowVars
  /\ IF TooOld
     THEN Leave(c, "failing")
     ELSE /\ pc' = [pc EXCEPT ![c] = "loaded"]
          /\ tally' = [tally EXCEPT ![c] = Resumed]
          /\ UNCHANGED <<todo, busy, began, flushedAt>>
  /\ UNCHANGED <<type, jobAge, audits, chunks, chunkAge, flying, reaping, worked>>

(* REJECT and DELETE: one batch write, then straight to finalizeBulkJob. *)
RunBatch(c) ==
  /\ pc[c] = "loaded"
  /\ type \in {"REJECT", "DELETE"}
  /\ worked' = Items
  /\ tally' = [tally EXCEPT ![c].success = N, ![c].failure = 0]
  /\ \E next \in {"finalizing", "failing"} : pc' = [pc EXCEPT ![c] = next]
  /\ UNCHANGED <<type, rowVars, jobAge, audits, chunks, chunkAge, todo, busy,
                 began, flushedAt, flying, reaping>>

(* The organization is known; the deadline is set from now, and each       *)
(* worker of the pool claims an item of what is not listed as processed.   *)
StartPool(c) ==
  LET claimed == FirstOf(Remaining(c), Concurrency) IN
  /\ pc[c] = "loaded"
  /\ type \notin {"REJECT", "DELETE"}
  /\ pc' = [pc EXCEPT ![c] = "working"]
  /\ todo' = [todo EXCEPT ![c] = Remaining(c) \ claimed]
  /\ busy' = [busy EXCEPT ![c] = claimed]
  /\ began' = [began EXCEPT ![c] = chunkAge[c]]
  /\ flushedAt' = [flushedAt EXCEPT ![c] = chunkAge[c]]
  /\ UNCHANGED <<type, rowVars, jobAge, audits, chunks, chunkAge, tally, flying,
                 reaping, worked>>

(* onItemDone: counts the item and, when the last flush is long enough ago *)
(* (always in a later tick, perhaps in the same one) or everything has     *)
(* been processed, fires a flush that nothing awaits. The worker goes      *)
(* straight on to the next item, unless the deadline has passed.           *)
FinishItem(c, i, ok) ==
  LET counted == Count(tally[c], i, ok)
      claimed == IF DeadlinePassed(c) THEN {} ELSE FirstOf(todo[c], 1)
  IN
  /\ pc[c] = "working"
  /\ i \in busy[c]
  /\ tally' = [tally EXCEPT ![c] = counted]
  /\ worked' = worked \cup {i}
  /\ todo' = [todo EXCEPT ![c] = @ \ claimed]
  /\ busy' = [busy EXCEPT ![c] = (@ \ {i}) \cup claimed]
  /\ \/ /\ flying' = [flying EXCEPT ![c] = @ \cup {counted}]
        /\ flushedAt' = [flushedAt EXCEPT ![c] = chunkAge[c]]
     \/ /\ flushedAt[c] = chunkAge[c] /\ counted.processed # N
        /\ UNCHANGED <<flying, flushedAt>>
  /\ UNCHANGED <<type, rowVars, jobAge, audits, chunks, pc, chunkAge, began,
                 reaping>>

(* includeDiscoveredLinksForResources goes through the links of every item *)
(* and returns how many of them failed; the other types have no links.     *)
FailedLinks == IF type = "INCLUDE_LINKS" THEN 0..MaxLinkFailures ELSE {0}

(* Promise.all: every worker has returned. INCLUDE_LINKS now adds the      *)
(* links that failed to the failures of the resources it processed.        *)
JoinPool(c) ==
  /\ pc[c] = "working"
  /\ busy[c] = {}
  /\ pc' = [pc EXCEPT ![c] = "flushing"]
  /\ \E failed \in FailedLinks :
       tally' = [tally EXCEPT ![c].failure = @ + failed]
  /\ UNCHANGED <<type, rowVars, jobAge, audits, chunks, chunkAge, todo, busy,
                 began, flushedAt, flying, reaping, worked>>

(* The awaited flush, and the decision between hand-off and completion. *)
FinalFlush(c) ==
  /\ pc[c] = "flushing"
  /\ WriteRow(status, tally[c])
  /\ \/ Leave(c, "failing")
     \/ /\ ~AllDone(c)
        /\ Leave(c, "handingOff")
     \/ /\ AllDone(c)
        /\ GoTo(c, "finalizing")
  /\ UNCHANGED <<type, jobAge, audits, chunks, chunkAge, flying, reaping, worked>>

(* An un-awaited flush reaches the row, whatever has reached it meanwhile. *)
LandFlush(c, p) ==
  /\ p \in flying[c]
  /\ WriteRow(status, p)
  /\ flying' = [flying EXCEPT ![c] = @ \ {p}]
  /\ UNCHANGED <<type, jobAge, audits, chunks, pc, chunkAge, memoryVars,
                 reaping, worked>>

(* It may also fail, with nobody waiting for it. *)
LoseFlush(c, p) ==
  /\ p \in flying[c]
  /\ flying' = [flying EXCEPT ![c] = @ \ {p}]
  /\ UNCHANGED <<type, rowVars, jobAge, audits, chunks, pc, chunkAge,
                 memoryVars, reaping, worked>>

(* triggerNextChunk: the continue route schedules the next invocation and  *)
(* the caller awaits its answer.                                           *)
HandOff(c) ==
  /\ pc[c] = "handingOff"
  /\ c = chunks /\ chunks < MaxChunks
  /\ chunks' = chunks + 1
  /\ pc' = [pc EXCEPT ![c] = "awaiting", ![c + 1] = "scheduled"]
  /\ UNCHANGED <<type, rowVars, jobAge, audits, chunkAge, memoryVars, flying,
                 reaping, worked>>

(* Slip: no return after triggerNextChunk. *)
HandOffFallsThrough(c) ==
  /\ pc[c] \in {"awaiting", "handingOff"}
  /\ GoTo(c, "finalizing")
  /\ UNCHANGED <<type, rowVars, jobAge, audits, chunks, chunkAge, flying,
                 reaping, worked>>

(* The answer arrives, or an error status does, which fetch() does not     *)
(* throw and nothing looks at: the invocation just returns.                *)
HandOffAnswered(c) ==
  /\ pc[c] \in {"awaiting", "handingOff"}
  /\ GoTo(c, "ended")
  /\ UNCHANGED <<type, rowVars, jobAge, audits, chunks, chunkAge, flying,
                 reaping, worked>>

(* fetch() throws: the request was never delivered (or there is no         *)
(* CRON_SECRET to send it with), or it was and only its answer got lost.   *)
HandOffThrows(c) ==
  /\ pc[c] \in {"awaiting", "handingOff"}
  /\ GoTo(c, "failing")
  /\ UNCHANGED <<type, rowVars, jobAge, audits, chunks, chunkAge, flying,
                 reaping, worked>>

(* finalizeBulkJob: completeBulkJob, whatever the status has become. *)
CompleteBulkJob(c) ==
  /\ pc[c] = "finalizing"
  /\ WriteRow("COMPLETED",
              [ids |-> progress.ids,
               processed |-> tally[c].success + tally[c].failure,
               success |-> tally[c].success,
               failure |-> tally[c].failure])
  /\ \E next \in {"auditing", "failing"} : Leave(c, next)
  /\ UNCHANGED <<type, jobAge, audits, chunks, chunkAge, flying, reaping, worked>>

(* The audit event, whose failure is swallowed. *)
RecordAudit(c) ==
  /\ pc[c] = "auditing"
  /\ audits' \in {audits, audits + 1}
  /\ GoTo(c, "ended")
  /\ UNCHANGED <<type, rowVars, jobAge, chunks, chunkAge, flying, reaping, worked>>

(* An awaited database call throws without having been applied. *)
DatabaseError(c) ==
  /\ pc[c] \in {"scheduled", "marked", "loaded", "flushing", "finalizing"}
  /\ Leave(c, "failing")
  /\ UNCHANGED <<type, rowVars, jobAge, audits, chunks, chunkAge, flying,
                 reaping, worked>>

(* failBulkJob, from the catch block or for a job that is too old. When it *)
(* throws itself the invocation is over (see Die).                         *)
FailBulkJob(c) ==
  /\ pc[c] = "failing"
  /\ WriteRow("FAILED", progress)
  /\ Leave(c, "ended")
  /\ UNCHANGED <<type, jobAge, audits, chunks, chunkAge, flying, reaping, worked>>

(* The invocation crashes, or is never started. *)
Die(c) ==
  /\ pc[c] \notin Gone
  /\ Leave(c, "dead")
  /\ UNCHANGED <<type, rowVars, jobAge, audits, chunks, chunkAge, flying,
                 reaping, worked>>

-----------------------------------------------------------------------------
(* reapIfStale, a read and then an unconditional write. *)
FindStale(r) ==
  /\ r \notin reaping
  /\ Stale
  /\ reaping' = reaping \cup {r}
  /\ UNCHANGED <<type, rowVars, jobAge, audits, chunks, pc, chunkAge,
                 memoryVars, flying, worked>>

Reap(r) ==
  /\ r \in reaping
  /\ reaping' = reaping \ {r}
  /\ WriteRow("FAILED", progress)
  /\ UNCHANGED <<type, jobAge, audits, chunks, pc, chunkAge, memoryVars,
                 flying, worked>>

(* Time passes, and the platform kills what has reached maxDuration. *)
Older(age, cap) == IF age < cap THEN age + 1 ELSE age

Killed == {c \in Chunks : pc[c] \notin Gone /\ chunkAge[c] + 1 >= MaxDuration}

Tick ==
  /\ rowAge' = Older(rowAge, StaleAfter)
  /\ jobAge' = Older(jobAge, MaxJobAge + 1)
  /\ chunkAge' = [c \in Chunks |-> IF pc[c] \in Gone THEN 0
                                   ELSE Older(chunkAge[c], MaxDuration)]
  /\ pc' = [c \in Chunks |-> IF c \in Killed THEN "dead" ELSE pc[c]]
  /\ todo' = [c \in Chunks |-> IF c \in Killed THEN {} ELSE todo[c]]
  /\ busy' = [c \in Chunks |-> IF c \in Killed THEN {} ELSE busy[c]]
  /\ tally' = [c \in Chunks |-> IF c \in Killed THEN NoProgress ELSE tally[c]]
  /\ began' = [c \in Chunks |-> IF c \in Killed THEN 0 ELSE began[c]]
  /\ flushedAt' = [c \in Chunks |-> IF c \in Killed THEN 0 ELSE flushedAt[c]]
  /\ UNCHANGED <<type, status, progress, audits, chunks, flying, reaping, worked>>

-----------------------------------------------------------------------------
ChunkStep(c) ==
  \/ MarkRunning(c) \/ Load(c) \/ RunBatch(c) \/ StartPool(c)
  \/ \E i \in Items, ok \in BOOLEAN : FinishItem(c, i, ok)
  \/ JoinPool(c) \/ FinalFlush(c)
  \/ \E p \in flying[c] : LandFlush(c, p) \/ LoseFlush(c, p)
  \/ HandOff(c) \/ HandOffAnswered(c) \/ HandOffThrows(c)
  \/ CompleteBulkJob(c) \/ RecordAudit(c)
  \/ DatabaseError(c) \/ FailBulkJob(c) \/ Die(c)

Next ==
  \/ \E c \in Chunks : ChunkStep(c)
  \/ \E r \in Readers : FindStale(r) \/ Reap(r)
  \/ Tick

Spec == Init /\ [][Next]_vars

(* Somebody keeps looking at the job, and time does not stop. Nothing is   *)
(* assumed of the invocations: each may stop anywhere.                     *)
FairSpec ==
  /\ Spec
  /\ WF_vars(Tick)
  /\ \A r \in Readers : WF_vars(FindStale(r)) /\ WF_vars(Reap(r))

-----------------------------------------------------------------------------
(* Properties *)

(* COMPLETED is only ever shown for a job every item of which has been     *)
(* worked, whatever was lost, reordered, killed or reaped on the way       *)
(* (runBulkJob's `cumulativeDoneIds.length < job.resourceIds.length`).     *)
CompletedMeansWorked == status = "COMPLETED" => worked = Items

(* At most one invocation of the chain is past its request and before its  *)
(* hand-off or last write: the job is never run twice at the same time.    *)
OneInvocationRuns ==
  \A c, d \in Chunks : pc[c] \in Running /\ pc[d] \in Running => c = d

(* The job completes at most once: one audit event, however many           *)
(* invocations and failures there were (finalizeBulkJob).                  *)
AuditedAtMostOnce == audits <= 1

(* MAX_JOB_AGE_MS stops a chain that hands itself on for ever: a chunk     *)
(* started within the allowed age hands on a whole ChunkBudget later.      *)
ChainBounded == chunks <= (MaxJobAge \div ChunkBudget) + 2

(* completeBulkJob's counters account for every resource once, across all  *)
(* chunks, hand-offs and lost writes, unless failed links are added to the *)
(* failures (INCLUDE_LINKS). Only a flush nobody awaited can change what   *)
(* was completed, and it counts once each resource it lists.               *)
LateFlush == \E c \in Chunks : progress' \in flying[c]

CountsWhenCompleted ==
  type # "INCLUDE_LINKS" /\ status' = "COMPLETED" =>
    \/ <<status', progress'>> = <<status, progress>>
    \/ progress'.processed = N
    \/ LateFlush /\ progress'.processed = Cardinality(progress'.ids)

CompletedCountsAll == [][CountsWhenCompleted]_vars

(* What reapIfStale's comment says: the row of a running job only goes     *)
(* stale when the worker running it has died, not while a pool that has    *)
(* been running since an earlier tick is processing an item.               *)
StaleMeansDead ==
  status = "RUNNING" /\ Stale =>
    \A c \in Chunks : busy[c] = {} \/ chunkAge[c] = began[c]

(* A COMPLETED job never runs again: no delayed invocation marks it        *)
(* RUNNING over its result (markRunning tests no status).                  *)
NeverRunsAgain ==
  [][status = "COMPLETED" => status' \in {"COMPLETED", "FAILED"}]_vars

(* No job looks active for ever: while somebody keeps looking at it, it is *)
(* COMPLETED or FAILED at last and stays so (reapIfStale).                 *)
EventuallySettles == <>[](status \notin Active)

(* The row keeps, through every step of the code, what it promises its     *)
(* readers (module JobContract).                                           *)
Contract == INSTANCE JobContract
ImplementsContract == Contract!Spec

-----------------------------------------------------------------------------
(* The inductive invariant *)

(* Only the newest invocation can be anywhere but at the end of a hand-off. *)
Chain ==
  /\ \A c \in Chunks : c > chunks => pc[c] = "none"
  /\ \A c \in Chunks : c < chunks => pc[c] \in {"awaiting", "failing", "ended", "dead"}

(* No list of processed items, on the row, in an invocation or on its way, *)
(* names an item that has not been worked.                                 *)
Ledger ==
  /\ progress.ids \subseteq worked
  /\ \A c \in Chunks : tally[c].ids \subseteq worked
  /\ \A c \in Chunks : \A p \in flying[c] : p.ids \subseteq worked

(* What is known once an invocation decides to complete, and ever after. *)
Verdict ==
  /\ \A c \in Chunks : pc[c] = "finalizing" => worked = Items
  /\ status = "COMPLETED" =>
       /\ worked = Items
       /\ pc[chunks] \in {"auditing", "failing", "ended", "dead"}

(* The audit event is the newest invocation's last act. *)
AuditIsLast ==
  /\ audits <= 1
  /\ pc[chunks] \notin {"ended", "dead"} => audits = 0

IInv == TypeOK /\ Chain /\ Ledger /\ Verdict /\ AuditIsLast
=============================================================================
