--------------------------- MODULE BulkJobProofs ---------------------------
(***************************************************************************)
(* Machine-checked proofs about BulkJob, for every number of resources,    *)
(* workers, invocations and readers and every choice of the time limits.   *)
(***************************************************************************)
EXTENDS BulkJob, ListLemmas

(* A list of processed ids that is as long as the job is the whole job:    *)
(* what runBulkJob's length test relies on.                                *)
LEMMA FullList ==
  ASSUME NEW ids \in SUBSET Items, Cardinality(ids) >= N
  PROVE  ids = Items
<1>1. IsFiniteSet(Items) /\ Cardinality(Items) = N
  BY FS_Interval, SizesAssumption DEF Items
<1>2. IsFiniteSet(ids) /\ Cardinality(ids) <= N
  BY <1>1, FS_Subset
<1>3. Cardinality(ids) = Cardinality(Items)
  BY <1>1, <1>2, FS_CardinalityType, SizesAssumption
<1> QED
  BY <1>1, <1>3, FS_Subset

(* The local variables of an invocation that is over are of their types.   *)
LEMMA NoProgressType == NoProgress \in Progress
BY DEF NoProgress, Progress

(* The two ways an invocation moves on keep the types of what they touch.  *)
LEMMA GoToType ==
  ASSUME TypeOK, NEW c \in Chunks, NEW where \in PCs, GoTo(c, where)
  PROVE  /\ pc' \in [Chunks -> PCs]
         /\ todo' \in [Chunks -> SUBSET Items]
         /\ busy' \in [Chunks -> SUBSET Items]
         /\ tally' \in [Chunks -> Progress]
         /\ began' \in [Chunks -> 0..MaxDuration]
         /\ flushedAt' \in [Chunks -> 0..MaxDuration]
BY DEF TypeOK, GoTo, memoryVars

LEMMA LeaveType ==
  ASSUME TypeOK, NEW c \in Chunks, NEW where \in PCs, Leave(c, where)
  PROVE  /\ pc' \in [Chunks -> PCs]
         /\ todo' \in [Chunks -> SUBSET Items]
         /\ busy' \in [Chunks -> SUBSET Items]
         /\ tally' \in [Chunks -> Progress]
         /\ began' \in [Chunks -> 0..MaxDuration]
         /\ flushedAt' \in [Chunks -> 0..MaxDuration]
BY NoProgressType, TimesAssumption DEF TypeOK, Leave

(* Every variable keeps its type through every step of the code.           *)
LEMMA TypeStep == TypeOK /\ [Next]_vars => TypeOK'
<1> SUFFICES ASSUME TypeOK, [Next]_vars PROVE TypeOK'
  OBVIOUS
<1> USE SizesAssumption, TimesAssumption
<1>1. ASSUME NEW c \in Chunks, MarkRunning(c) PROVE TypeOK'
  <2>1. PICK next \in {"marked", "failing"} : GoTo(c, next)
    BY <1>1 DEF MarkRunning
  <2>2. next \in PCs
    BY DEF PCs, Running
  <2> QED
    BY <1>1, <2>1, <2>2, GoToType DEF TypeOK, MarkRunning, WriteRow
<1>2. ASSUME NEW c \in Chunks, Load(c) PROVE TypeOK'
  <2>1. /\ status' \in {"PENDING", "RUNNING", "COMPLETED", "FAILED"}
        /\ progress' \in Progress
        /\ rowAge' \in 0..StaleAfter
    BY <1>2 DEF TypeOK, Load, WriteRow, rowVars
  <2>2. CASE TooOld
    <3>1. Leave(c, "failing") /\ "failing" \in PCs
      BY <1>2, <2>2 DEF Load, PCs
    <3> QED
      BY <1>2, <2>1, <3>1, LeaveType DEF TypeOK, Load
  <2>3. CASE ~(TooOld)
    <3>1. "loaded" \in PCs
      BY DEF PCs, Running
    <3> QED
      BY <1>2, <2>1, <2>3, <3>1 DEF TypeOK, Load, Resumed
  <2> QED
    BY <2>2, <2>3
<1>3. ASSUME NEW c \in Chunks, RunBatch(c) PROVE TypeOK'
  <2>1. PICK next \in {"finalizing", "failing"} : pc' = [pc EXCEPT ![c] = next]
    BY <1>3 DEF RunBatch
  <2>2. next \in PCs
    BY DEF PCs, Running
  <2>3. tally' \in [Chunks -> Progress]
    BY <1>3 DEF TypeOK, RunBatch, Progress
  <2> QED
    BY <1>3, <2>1, <2>2, <2>3 DEF TypeOK, RunBatch, rowVars
<1>4. ASSUME NEW c \in Chunks, StartPool(c) PROVE TypeOK'
  <2>1. "working" \in PCs
    BY DEF PCs, Running
  <2> QED
    BY <1>4, <2>1 DEF TypeOK, StartPool, FirstOf, Remaining, rowVars
<1>5. ASSUME NEW c \in Chunks, NEW i \in Items, NEW ok \in BOOLEAN,
             FinishItem(c, i, ok)
      PROVE  TypeOK'
  <2>1. Count(tally[c], i, ok) \in Progress
    BY DEF TypeOK, Progress, Count
  <2>2. tally' \in [Chunks -> Progress]
    BY <1>5, <2>1 DEF TypeOK, FinishItem
  <2>3. flying' \in [Chunks -> SUBSET Progress]
    <3>1. \/ flying' = [flying EXCEPT ![c] = @ \cup {Count(tally[c], i, ok)}]
          \/ UNCHANGED flying
      BY <1>5 DEF FinishItem
    <3> QED
      BY <2>1, <3>1 DEF TypeOK
  <2>4. flushedAt' \in [Chunks -> 0..MaxDuration]
    BY <1>5 DEF TypeOK, FinishItem
  <2>5. /\ todo' \in [Chunks -> SUBSET Items]
        /\ busy' \in [Chunks -> SUBSET Items]
    BY <1>5 DEF TypeOK, FinishItem, FirstOf
  <2> QED
    BY <1>5, <2>2, <2>3, <2>4, <2>5 DEF TypeOK, FinishItem, rowVars
<1>6. ASSUME NEW c \in Chunks, JoinPool(c) PROVE TypeOK'
  <2>1. "flushing" \in PCs
    BY DEF PCs, Running
  <2>2. tally' \in [Chunks -> Progress]
    <3>1. PICK failed \in FailedLinks : tally' = [tally EXCEPT ![c].failure = @ + failed]
      BY <1>6 DEF JoinPool
    <3>2. failed \in Nat
      BY DEF FailedLinks
    <3>3. [tally[c] EXCEPT !.failure = @ + failed] \in Progress
      BY <3>2 DEF TypeOK, Progress
    <3> QED
      BY <3>1, <3>3 DEF TypeOK
  <2> QED
    BY <1>6, <2>1, <2>2 DEF TypeOK, JoinPool, FailedLinks, rowVars
<1>7. ASSUME NEW c \in Chunks, FinalFlush(c) PROVE TypeOK'
  <2>1. {"failing", "handingOff", "finalizing"} \subseteq PCs
    BY DEF PCs, Running
  <2>2. \/ \E where \in PCs : Leave(c, where)
        \/ \E where \in PCs : GoTo(c, where)
    BY <1>7, <2>1 DEF FinalFlush
  <2>3. /\ pc' \in [Chunks -> PCs]
        /\ todo' \in [Chunks -> SUBSET Items]
        /\ busy' \in [Chunks -> SUBSET Items]
        /\ tally' \in [Chunks -> Progress]
        /\ began' \in [Chunks -> 0..MaxDuration]
        /\ flushedAt' \in [Chunks -> 0..MaxDuration]
    BY <2>2, LeaveType, GoToType
  <2> QED
    BY <1>7, <2>3 DEF TypeOK, FinalFlush, WriteRow
<1>8. ASSUME NEW c \in Chunks, NEW p \in flying[c], LandFlush(c, p) PROVE TypeOK'
  BY <1>8 DEF TypeOK, LandFlush, WriteRow, memoryVars
<1>9. ASSUME NEW c \in Chunks, NEW p \in flying[c], LoseFlush(c, p) PROVE TypeOK'
  BY <1>9 DEF TypeOK, LoseFlush, memoryVars, rowVars
<1>10. ASSUME NEW c \in Chunks, HandOff(c) PROVE TypeOK'
  <2>1. {"awaiting", "scheduled"} \subseteq PCs
    BY DEF PCs, Running
  <2>2. chunks' \in Chunks
    BY <1>10 DEF HandOff, TypeOK, Chunks
  <2>3. pc' \in [Chunks -> PCs]
    BY <1>10, <2>1 DEF HandOff, TypeOK
  <2> QED
    BY <1>10, <2>2, <2>3 DEF TypeOK, HandOff, memoryVars, rowVars
<1>11. ASSUME NEW c \in Chunks, HandOffAnswered(c) PROVE TypeOK'
  <2>1. "ended" \in PCs
    BY DEF PCs, Gone
  <2> QED
    BY <1>11, <2>1, GoToType DEF TypeOK, HandOffAnswered, rowVars
<1>12. ASSUME NEW c \in Chunks, HandOffThrows(c) PROVE TypeOK'
  <2>1. "failing" \in PCs
    BY DEF PCs
  <2> QED
    BY <1>12, <2>1, GoToType DEF TypeOK, HandOffThrows, rowVars
<1>13. ASSUME NEW c \in Chunks, CompleteBulkJob(c) PROVE TypeOK'
  <2>1. PICK next \in {"auditing", "failing"} : Leave(c, next)
    BY <1>13 DEF CompleteBulkJob
  <2>2. next \in PCs
    BY DEF PCs
  <2>3. progress' \in Progress
    <3>1. progress \in Progress /\ tally[c] \in Progress
      BY DEF TypeOK
    <3> QED
      BY <1>13, <3>1 DEF CompleteBulkJob, WriteRow, Progress
  <2> QED
    BY <1>13, <2>1, <2>2, <2>3, LeaveType DEF TypeOK, CompleteBulkJob, WriteRow
<1>14. ASSUME NEW c \in Chunks, RecordAudit(c) PROVE TypeOK'
  <2>1. "ended" \in PCs
    BY DEF PCs, Gone
  <2> QED
    BY <1>14, <2>1, GoToType DEF TypeOK, RecordAudit, rowVars
<1>15. ASSUME NEW c \in Chunks, DatabaseError(c) PROVE TypeOK'
  <2>1. "failing" \in PCs
    BY DEF PCs
  <2> QED
    BY <1>15, <2>1, LeaveType DEF TypeOK, DatabaseError, rowVars
<1>16. ASSUME NEW c \in Chunks, FailBulkJob(c) PROVE TypeOK'
  <2>1. "ended" \in PCs
    BY DEF PCs, Gone
  <2> QED
    BY <1>16, <2>1, LeaveType DEF TypeOK, FailBulkJob, WriteRow
<1>17. ASSUME NEW c \in Chunks, Die(c) PROVE TypeOK'
  <2>1. "dead" \in PCs
    BY DEF PCs, Gone
  <2> QED
    BY <1>17, <2>1, LeaveType DEF TypeOK, Die, rowVars
<1>18. ASSUME NEW r \in Readers, FindStale(r) \/ Reap(r) PROVE TypeOK'
  BY <1>18 DEF TypeOK, FindStale, Reap, WriteRow, memoryVars, rowVars
<1>19. ASSUME Tick PROVE TypeOK'
  <2>1. "dead" \in PCs
    BY DEF PCs, Gone
  <2> QED
    BY <1>19, <2>1, NoProgressType DEF TypeOK, Tick, Older
<1>20. CASE UNCHANGED vars
  BY <1>20 DEF TypeOK, vars, rowVars, memoryVars
<1> QED
  BY <1>1, <1>2, <1>3, <1>4, <1>5, <1>6, <1>7, <1>8, <1>9, <1>10, <1>11, <1>12,
     <1>13, <1>14, <1>15, <1>16, <1>17, <1>18, <1>19, <1>20 DEF Next, ChunkStep

-----------------------------------------------------------------------------
(* The chain of invocations: only the newest one is ever at work, and      *)
(* handing off is the only way to a newer one (triggerNextChunk).          *)
LEMMA ChainStep == TypeOK /\ Chain /\ [Next]_vars => Chain'
<1> SUFFICES ASSUME TypeOK, Chain, [Next]_vars PROVE Chain'
  OBVIOUS
<1>1. chunks \in Nat /\ Chunks \subseteq Nat
  BY SizesAssumption DEF TypeOK, Chunks
<1>2. ASSUME NEW c \in Chunks, HandOff(c) PROVE Chain'
  <2>1. /\ c = chunks /\ chunks' = chunks + 1
        /\ \A d \in Chunks : d > chunks' => pc'[d] = pc[d]
        /\ \A d \in Chunks : d < chunks => pc'[d] = pc[d]
        /\ pc'[c] = "awaiting"
    BY <1>1, <1>2 DEF HandOff, TypeOK
  <2> QED
    BY <1>1, <2>1 DEF Chain
<1>3. ASSUME NEW c \in Chunks, ChunkStep(c), ~HandOff(c) PROVE Chain'
  <2>1. chunks' = chunks
    BY <1>3 DEF ChunkStep, MarkRunning, Load, RunBatch, StartPool, FinishItem,
       JoinPool, FailedLinks, FinalFlush, LandFlush, LoseFlush, HandOffAnswered,
       HandOffThrows, CompleteBulkJob, RecordAudit, DatabaseError, FailBulkJob, Die
  <2>2. \A d \in Chunks \ {c} : pc'[d] = pc[d]
    BY <1>3 DEF TypeOK, ChunkStep, MarkRunning, Load, RunBatch, StartPool,
       FinishItem, JoinPool, FailedLinks, FinalFlush, LandFlush, LoseFlush, HandOffAnswered,
       HandOffThrows, CompleteBulkJob, RecordAudit, DatabaseError, FailBulkJob,
       Die, GoTo, Leave
  <2>3. pc[c] = "none" => pc'[c] = "none"
    BY <1>3 DEF ChunkStep, MarkRunning, Load, RunBatch, StartPool,
       FinishItem, JoinPool, FailedLinks, FinalFlush, LandFlush, LoseFlush, HandOffAnswered,
       HandOffThrows, CompleteBulkJob, RecordAudit, DatabaseError, FailBulkJob,
       Die, Gone
  <2>4. pc[c] \in {"awaiting", "failing", "ended", "dead"}
          => pc'[c] \in {"awaiting", "failing", "ended", "dead"}
    BY <1>3 DEF TypeOK, ChunkStep, MarkRunning, Load, RunBatch, StartPool,
       FinishItem, JoinPool, FailedLinks, FinalFlush, LandFlush, LoseFlush, HandOffAnswered,
       HandOffThrows, CompleteBulkJob, RecordAudit, DatabaseError, FailBulkJob,
       Die, GoTo, Leave
  <2> QED
    BY <2>1, <2>2, <2>3, <2>4 DEF Chain
<1>4. CASE Tick
  BY <1>4 DEF Tick, Chain, TypeOK, Killed, Gone
<1>5. ASSUME NEW r \in Readers, FindStale(r) \/ Reap(r) PROVE Chain'
  BY <1>5 DEF FindStale, Reap, Chain
<1>6. CASE UNCHANGED vars
  BY <1>6 DEF Chain, vars
<1> QED
  BY <1>2, <1>3, <1>4, <1>5, <1>6 DEF Next

(* Only the newest invocation is past its request and before its end.      *)
LEMMA NewestRuns ==
  ASSUME TypeOK, Chain, NEW c \in Chunks,
         pc[c] \in Running \cup {"handingOff", "auditing"}
  PROVE  c = chunks
<1>1. c \in Nat /\ chunks \in Nat
  BY SizesAssumption DEF TypeOK, Chunks
<1>2. ~(c > chunks)
  BY DEF Chain, Running
<1>3. ~(c < chunks)
  BY DEF Chain, Running
<1> QED
  BY <1>1, <1>2, <1>3

(* Nothing is ever listed as processed that was not worked (onItemDone).   *)
LEMMA LedgerStep == TypeOK /\ Ledger /\ [Next]_vars => Ledger'
<1> SUFFICES ASSUME TypeOK, Ledger, [Next]_vars PROVE Ledger'
  OBVIOUS
<1>1. NoProgress.ids = {}
  BY DEF NoProgress
<1>2. ASSUME NEW c \in Chunks, NEW i \in Items, NEW ok \in BOOLEAN,
             FinishItem(c, i, ok)
      PROVE  Ledger'
  <2>1. Count(tally[c], i, ok).ids = tally[c].ids \cup {i}
    BY DEF Count
  <2>2. worked' = worked \cup {i} /\ progress' = progress
    BY <1>2 DEF FinishItem, rowVars
  <2>3. \A d \in Chunks : tally'[d].ids \subseteq worked'
    BY <1>2, <2>1, <2>2 DEF FinishItem, Ledger, TypeOK
  <2>4. \A d \in Chunks : \A p \in flying'[d] : p.ids \subseteq worked'
    <3>1. \A d \in Chunks :
            flying'[d] \subseteq flying[d] \cup (IF d = c THEN {Count(tally[c], i, ok)} ELSE {})
      BY <1>2 DEF FinishItem, TypeOK
    <3> QED
      BY <2>1, <2>2, <3>1 DEF Ledger
  <2> QED
    BY <2>2, <2>3, <2>4 DEF Ledger
<1>3. ASSUME NEW c \in Chunks, RunBatch(c) PROVE Ledger'
  <2>1. worked' = Items /\ progress' = progress /\ flying' = flying
    BY <1>3 DEF RunBatch, rowVars
  <2>2. \A d \in Chunks : tally'[d].ids = tally[d].ids
    BY <1>3 DEF RunBatch, TypeOK, Progress
  <2>3. worked \subseteq Items
    BY DEF TypeOK
  <2> QED
    BY <2>1, <2>2, <2>3 DEF Ledger
<1>4. ASSUME NEW c \in Chunks, Load(c) PROVE Ledger'
  <2>1. worked' = worked /\ progress' = progress /\ flying' = flying
    BY <1>4 DEF Load, WriteRow, rowVars
  <2>2. \A d \in Chunks : tally'[d] \in {tally[d], progress, NoProgress}
    BY <1>4 DEF Load, Leave, TypeOK, Resumed
  <2> QED
    BY <1>1, <2>1, <2>2 DEF Ledger
<1>5. ASSUME NEW c \in Chunks, FinalFlush(c) PROVE Ledger'
  <2>1. worked' = worked /\ progress' = tally[c] /\ flying' = flying
    BY <1>5 DEF FinalFlush, WriteRow
  <2>2. \A d \in Chunks : tally'[d] \in {tally[d], NoProgress}
    BY <1>5 DEF FinalFlush, Leave, GoTo, memoryVars, TypeOK
  <2> QED
    BY <1>1, <2>1, <2>2 DEF Ledger
<1>6. ASSUME NEW c \in Chunks, NEW p \in flying[c], LandFlush(c, p) \/ LoseFlush(c, p)
      PROVE  Ledger'
  <2>1. worked' = worked /\ progress' \in {progress, p} /\ tally' = tally
    BY <1>6 DEF LandFlush, LoseFlush, WriteRow, memoryVars, rowVars
  <2>2. \A d \in Chunks : flying'[d] \subseteq flying[d]
    BY <1>6 DEF LandFlush, LoseFlush, TypeOK
  <2> QED
    BY <2>1, <2>2 DEF Ledger
<1>7. ASSUME NEW c \in Chunks, CompleteBulkJob(c) PROVE Ledger'
  <2>1. worked' = worked /\ progress'.ids = progress.ids /\ flying' = flying
    BY <1>7 DEF CompleteBulkJob, WriteRow
  <2>2. \A d \in Chunks : tally'[d] \in {tally[d], NoProgress}
    BY <1>7 DEF CompleteBulkJob, Leave, TypeOK
  <2> QED
    BY <1>1, <2>1, <2>2 DEF Ledger
<1>8. ASSUME NEW c \in Chunks, JoinPool(c) PROVE Ledger'
  <2>1. worked' = worked /\ progress' = progress /\ flying' = flying
    BY <1>8 DEF JoinPool, FailedLinks, rowVars
  <2>2. \A d \in Chunks : tally'[d].ids = tally[d].ids
    BY <1>8 DEF JoinPool, FailedLinks, TypeOK, Progress
  <2> QED
    BY <2>1, <2>2 DEF Ledger
<1>9. ASSUME NEW c \in Chunks,
             \/ MarkRunning(c) \/ StartPool(c) \/ HandOff(c) \/ HandOffAnswered(c)
             \/ HandOffThrows(c) \/ RecordAudit(c) \/ DatabaseError(c)
             \/ FailBulkJob(c) \/ Die(c)
      PROVE  Ledger'
  <2>1. worked' = worked /\ progress' = progress /\ flying' = flying
    BY <1>9 DEF MarkRunning, StartPool, HandOff, HandOffAnswered, HandOffThrows,
       RecordAudit, DatabaseError, FailBulkJob, Die, WriteRow, rowVars
  <2>2. \A d \in Chunks : tally'[d] \in {tally[d], NoProgress}
    BY <1>9 DEF MarkRunning, StartPool, HandOff, HandOffAnswered, HandOffThrows,
       RecordAudit, DatabaseError, FailBulkJob, Die, GoTo, Leave, memoryVars, TypeOK
  <2> QED
    BY <1>1, <2>1, <2>2 DEF Ledger
<1>10. ASSUME NEW r \in Readers, FindStale(r) \/ Reap(r) PROVE Ledger'
  BY <1>10 DEF FindStale, Reap, WriteRow, memoryVars, rowVars, Ledger
<1>11. CASE Tick
  <2>1. worked' = worked /\ progress' = progress /\ flying' = flying
    BY <1>11 DEF Tick
  <2>2. \A d \in Chunks : tally'[d] \in {tally[d], NoProgress}
    BY <1>11 DEF Tick
  <2> QED
    BY <1>1, <2>1, <2>2 DEF Ledger
<1>12. CASE UNCHANGED vars
  BY <1>12 DEF Ledger, vars, rowVars, memoryVars
<1> QED
  BY <1>2, <1>3, <1>4, <1>5, <1>6, <1>7, <1>8, <1>9, <1>10, <1>11, <1>12
  DEF Next, ChunkStep

(* What is known once an invocation has decided to complete stays known:   *)
(* the length test of runBulkJob and the chain of hand-offs see to it.     *)
LEMMA VerdictStep ==
  TypeOK /\ Chain /\ Ledger /\ Verdict /\ [Next]_vars => Verdict'
<1> SUFFICES ASSUME TypeOK, Chain, Ledger, Verdict, [Next]_vars PROVE Verdict'
  OBVIOUS
<1> DEFINE Over == {"auditing", "failing", "ended", "dead"}
<1>1. worked \subseteq Items /\ chunks \in Chunks
  BY DEF TypeOK
<1>2. ASSUME NEW c \in Chunks, RunBatch(c) PROVE Verdict'
  <2>1. c = chunks
    BY <1>2, NewestRuns DEF RunBatch, Running
  <2>2. status # "COMPLETED"
    BY <1>2, <2>1 DEF RunBatch, Verdict
  <2> QED
    BY <1>2, <2>2 DEF RunBatch, Verdict, rowVars
<1>3. ASSUME NEW c \in Chunks, NEW i \in Items, NEW ok \in BOOLEAN,
             FinishItem(c, i, ok)
      PROVE  Verdict'
  BY <1>1, <1>3 DEF FinishItem, Verdict, rowVars
<1>4. ASSUME NEW c \in Chunks, FinalFlush(c) PROVE Verdict'
  <2>1. c = chunks
    BY <1>4, NewestRuns DEF FinalFlush, Running
  <2>2. status # "COMPLETED" /\ status' = status
    BY <1>4, <2>1 DEF FinalFlush, Verdict, WriteRow
  <2>3. worked' = worked /\ \A d \in Chunks \ {c} : pc'[d] = pc[d]
    BY <1>4 DEF FinalFlush, GoTo, Leave, TypeOK
  <2>4. pc'[c] = "finalizing" => tally[c].ids = Items
    <3>1. pc'[c] = "finalizing" => Cardinality(tally[c].ids) >= N
      BY <1>4 DEF FinalFlush, Leave, AllDone, TypeOK
    <3>2. tally[c].ids \in SUBSET Items
      BY DEF TypeOK, Progress
    <3> QED
      BY <3>1, <3>2, FullList
  <2> QED
    BY <1>1, <2>2, <2>3, <2>4 DEF Verdict, Ledger
<1>5. ASSUME NEW c \in Chunks, CompleteBulkJob(c) PROVE Verdict'
  <2>1. c = chunks /\ worked = Items
    BY <1>5, NewestRuns DEF CompleteBulkJob, Running, Verdict
  <2>2. pc'[c] \in Over /\ \A d \in Chunks \ {c} : pc'[d] = pc[d]
    BY <1>5 DEF CompleteBulkJob, Leave, TypeOK
  <2> QED
    BY <1>5, <2>1, <2>2 DEF CompleteBulkJob, Verdict
<1>6. ASSUME NEW c \in Chunks, MarkRunning(c) PROVE Verdict'
  <2>1. status' = "RUNNING" /\ worked' = worked
    BY <1>6 DEF MarkRunning, WriteRow
  <2>2. \A d \in Chunks : pc'[d] = "finalizing" => pc[d] = "finalizing"
    BY <1>6 DEF MarkRunning, GoTo, TypeOK
  <2> QED
    BY <2>1, <2>2 DEF Verdict
<1>7. ASSUME NEW c \in Chunks, HandOff(c) PROVE Verdict'
  <2>1. status # "COMPLETED" /\ status' = status /\ worked' = worked
    BY <1>7 DEF HandOff, Verdict, rowVars
  <2>2. \A d \in Chunks : pc'[d] = "finalizing" => pc[d] = "finalizing"
    BY <1>7 DEF HandOff, TypeOK
  <2> QED
    BY <2>1, <2>2 DEF Verdict
<1>8. ASSUME NEW c \in Chunks, Load(c) PROVE Verdict'
  <2>1. c = chunks
    BY <1>8, NewestRuns DEF Load, Running
  <2>2. status # "COMPLETED" /\ status' \in {status, "FAILED"} /\ worked' = worked
    BY <1>8, <2>1 DEF Load, Verdict, WriteRow, rowVars
  <2>3. \A d \in Chunks : pc'[d] = "finalizing" => pc[d] = "finalizing"
    BY <1>8 DEF Load, Leave, TypeOK
  <2> QED
    BY <2>2, <2>3 DEF Verdict
<1>9. ASSUME NEW c \in Chunks,
             \/ StartPool(c) \/ JoinPool(c) \/ HandOffAnswered(c)
             \/ HandOffThrows(c) \/ RecordAudit(c) \/ DatabaseError(c)
             \/ FailBulkJob(c) \/ Die(c)
      PROVE  Verdict'
  <2>1. status' \in {status, "FAILED"} /\ worked' = worked /\ chunks' = chunks
    BY <1>9 DEF StartPool, JoinPool, FailedLinks, HandOffAnswered, HandOffThrows,
       RecordAudit, DatabaseError, FailBulkJob, Die, WriteRow, rowVars
  <2>2. \A d \in Chunks : pc'[d] = "finalizing" => pc[d] = "finalizing"
    BY <1>9 DEF StartPool, JoinPool, FailedLinks, HandOffAnswered, HandOffThrows,
       RecordAudit, DatabaseError, FailBulkJob, Die, GoTo, Leave, TypeOK
  <2>3. pc[chunks] \in Over => pc'[chunks] \in Over
    BY <1>9 DEF StartPool, JoinPool, FailedLinks, HandOffAnswered, HandOffThrows,
       RecordAudit, DatabaseError, FailBulkJob, Die, GoTo, Leave, TypeOK
  <2> QED
    BY <2>1, <2>2, <2>3 DEF Verdict
<1>10. ASSUME NEW c \in Chunks, NEW p \in flying[c], LandFlush(c, p) \/ LoseFlush(c, p)
       PROVE  Verdict'
  BY <1>10 DEF LandFlush, LoseFlush, WriteRow, rowVars, memoryVars, Verdict
<1>11. ASSUME NEW r \in Readers, FindStale(r) \/ Reap(r) PROVE Verdict'
  BY <1>11 DEF FindStale, Reap, WriteRow, rowVars, memoryVars, Verdict
<1>12. CASE Tick
  <2>1. \A d \in Chunks : pc'[d] \in {pc[d], "dead"}
    BY <1>12 DEF Tick
  <2> QED
    BY <1>1, <1>12, <2>1 DEF Tick, Verdict
<1>13. CASE UNCHANGED vars
  BY <1>13 DEF vars, rowVars, Verdict
<1> QED
  BY <1>2, <1>3, <1>4, <1>5, <1>6, <1>7, <1>8, <1>9, <1>10, <1>11, <1>12, <1>13
  DEF Next, ChunkStep

(* The audit event stays the last act of the newest invocation.            *)
LEMMA AuditStep == TypeOK /\ Chain /\ AuditIsLast /\ [Next]_vars => AuditIsLast'
<1> SUFFICES ASSUME TypeOK, Chain, AuditIsLast, [Next]_vars PROVE AuditIsLast'
  OBVIOUS
<1>1. chunks \in Chunks /\ audits \in Nat
  BY DEF TypeOK
<1>2. ASSUME NEW c \in Chunks, RecordAudit(c) PROVE AuditIsLast'
  <2>1. c = chunks
    BY <1>2, NewestRuns DEF RecordAudit
  <2>2. audits = 0
    BY <1>2, <2>1 DEF RecordAudit, AuditIsLast
  <2> QED
    BY <1>2, <2>1, <2>2 DEF RecordAudit, GoTo, AuditIsLast, TypeOK
<1>3. ASSUME NEW c \in Chunks, HandOff(c) PROVE AuditIsLast'
  BY <1>3 DEF HandOff, AuditIsLast
<1>4. ASSUME NEW c \in Chunks, ChunkStep(c), ~RecordAudit(c), ~HandOff(c)
      PROVE  AuditIsLast'
  <2>1. audits' = audits /\ chunks' = chunks
    BY <1>4 DEF ChunkStep, MarkRunning, Load, RunBatch, StartPool, FinishItem,
       JoinPool, FailedLinks, FinalFlush, LandFlush, LoseFlush, HandOffAnswered,
       HandOffThrows, CompleteBulkJob, DatabaseError, FailBulkJob, Die
  <2>2. pc[chunks] \in {"ended", "dead"} => pc'[chunks] \in {"ended", "dead"}
    BY <1>1, <1>4 DEF TypeOK, ChunkStep, MarkRunning, Load, RunBatch, StartPool,
       FinishItem, JoinPool, FailedLinks, FinalFlush, LandFlush, LoseFlush, HandOffAnswered,
       HandOffThrows, CompleteBulkJob, DatabaseError, FailBulkJob, Die, GoTo,
       Leave, Gone
  <2> QED
    BY <2>1, <2>2 DEF AuditIsLast
<1>5. CASE Tick
  <2>1. audits' = audits /\ chunks' = chunks /\ pc'[chunks] \in {pc[chunks], "dead"}
    BY <1>1, <1>5 DEF Tick
  <2> QED
    BY <2>1 DEF AuditIsLast
<1>6. ASSUME NEW r \in Readers, FindStale(r) \/ Reap(r) PROVE AuditIsLast'
  BY <1>6 DEF FindStale, Reap, AuditIsLast
<1>7. CASE UNCHANGED vars
  BY <1>7 DEF vars, AuditIsLast
<1> QED
  BY <1>2, <1>3, <1>4, <1>5, <1>6, <1>7 DEF Next

-----------------------------------------------------------------------------
(* The inductive invariant holds when the job has just been enqueued.      *)
LEMMA InitIInv == Init => IInv
<1> SUFFICES ASSUME Init PROVE IInv
  OBVIOUS
<1>1. 1 \in Chunks /\ \A c \in Chunks : c >= 1
  BY SizesAssumption DEF Chunks
<1>2. NoProgress \in Progress /\ NoProgress.ids = {}
  BY NoProgressType DEF NoProgress
<1>3. TypeOK
  BY <1>1, <1>2, SizesAssumption, TimesAssumption
  DEF Init, TypeOK, PCs, Running, Gone
<1>4. Chain /\ Ledger /\ Verdict /\ AuditIsLast
  BY <1>1, <1>2, SizesAssumption
  DEF Init, Chain, Ledger, Verdict, AuditIsLast, Chunks
<1> QED
  BY <1>3, <1>4 DEF IInv

(* Every variable of the job, of its invocations and of its readers has    *)
(* its type in every reachable state.                                      *)
THEOREM TypeCorrect == Spec => []TypeOK
<1>1. Init => TypeOK
  BY InitIInv DEF IInv
<1> QED
  BY <1>1, TypeStep, PTL DEF Spec

(* The inductive invariant holds in every reachable state. *)
THEOREM Invariance == Spec => []IInv
<1>1. IInv /\ [Next]_vars => IInv'
  BY TypeStep, ChainStep, LedgerStep, VerdictStep, AuditStep DEF IInv
<1> QED
  BY <1>1, InitIInv, PTL DEF Spec

(* A job shown as COMPLETED has had every one of its items worked: no      *)
(* lost, late or reordered progress write, no crash, no hand-off and no    *)
(* reaper can make completeBulkJob run early.                              *)
THEOREM CompletedIsComplete == Spec => []CompletedMeansWorked
<1>1. IInv => CompletedMeansWorked
  BY DEF IInv, Verdict, CompletedMeansWorked
<1> QED
  BY <1>1, Invariance, PTL

(* However the invocations hand off, fail and die, no two of them ever run *)
(* the same job at the same time.                                          *)
THEOREM NeverRunTwice == Spec => []OneInvocationRuns
<1>1. IInv => OneInvocationRuns
  BY NewestRuns DEF IInv, OneInvocationRuns
<1> QED
  BY <1>1, Invariance, PTL

(* One job is audited at most once. *)
THEOREM AuditOnce == Spec => []AuditedAtMostOnce
<1>1. IInv => AuditedAtMostOnce
  BY DEF IInv, AuditIsLast, AuditedAtMostOnce
<1> QED
  BY <1>1, Invariance, PTL

-----------------------------------------------------------------------------
(* Every step of the code is a step of the contract on (status, worked),   *)
(* or leaves both alone.                                                   *)
LEMMA ContractStep == IInv /\ [Next]_vars => [Contract!Next]_(Contract!contractVars)
<1> SUFFICES ASSUME IInv, [Next]_vars
             PROVE  Contract!Next \/ UNCHANGED <<status, worked>>
  BY DEF Contract!contractVars
<1> USE DEF Contract!Next
<1>1. ASSUME NEW c \in Chunks, MarkRunning(c) PROVE Contract!Run
  <2>1. c = chunks
    BY <1>1, NewestRuns DEF MarkRunning, Running, IInv
  <2> QED
    BY <1>1, <2>1 DEF MarkRunning, WriteRow, IInv, Verdict, Contract!Run
<1>2. ASSUME NEW c \in Chunks, Load(c) PROVE Contract!Fail \/ UNCHANGED <<status, worked>>
  BY <1>2 DEF Load, WriteRow, rowVars, Contract!Fail
<1>3. ASSUME NEW c \in Chunks, RunBatch(c) PROVE Contract!Work
  <2>1. c = chunks
    BY <1>3, NewestRuns DEF RunBatch, Running, IInv
  <2>2. status # "COMPLETED" /\ worked \subseteq Items
    BY <1>3, <2>1 DEF RunBatch, IInv, Verdict, TypeOK
  <2>3. worked' = worked \cup Items /\ UNCHANGED status
    BY <1>3, <2>2 DEF RunBatch, rowVars
  <2> QED
    BY <2>2, <2>3 DEF Contract!Work
<1>4. ASSUME NEW c \in Chunks, NEW i \in Items, NEW ok \in BOOLEAN,
             FinishItem(c, i, ok)
      PROVE  Contract!Work
  <2>1. c = chunks
    BY <1>4, NewestRuns DEF FinishItem, Running, IInv
  <2>2. status # "COMPLETED"
    BY <1>4, <2>1 DEF FinishItem, IInv, Verdict
  <2>3. worked' = worked \cup {i} /\ {i} \subseteq Items /\ UNCHANGED status
    BY <1>4 DEF FinishItem, rowVars
  <2> QED
    BY <2>2, <2>3 DEF Contract!Work
<1>5. ASSUME NEW c \in Chunks, CompleteBulkJob(c) PROVE Contract!Complete
  BY <1>5 DEF CompleteBulkJob, WriteRow, IInv, Verdict, Contract!Complete
<1>6. ASSUME NEW c \in Chunks, FailBulkJob(c) PROVE Contract!Fail
  BY <1>6 DEF FailBulkJob, WriteRow, Contract!Fail
<1>7. ASSUME NEW c \in Chunks,
             \/ StartPool(c) \/ JoinPool(c) \/ FinalFlush(c) \/ HandOff(c)
             \/ HandOffAnswered(c) \/ HandOffThrows(c) \/ RecordAudit(c)
             \/ DatabaseError(c) \/ Die(c)
      PROVE  UNCHANGED <<status, worked>>
  BY <1>7 DEF StartPool, JoinPool, FailedLinks, FinalFlush, HandOff, HandOffAnswered,
     HandOffThrows, RecordAudit, DatabaseError, Die, WriteRow, rowVars
<1>8. ASSUME NEW c \in Chunks, NEW p \in flying[c], LandFlush(c, p) \/ LoseFlush(c, p)
      PROVE  UNCHANGED <<status, worked>>
  BY <1>8 DEF LandFlush, LoseFlush, WriteRow, rowVars
<1>9. ASSUME NEW r \in Readers, FindStale(r) \/ Reap(r)
      PROVE  Contract!Fail \/ UNCHANGED <<status, worked>>
  BY <1>9 DEF FindStale, Reap, WriteRow, rowVars, Contract!Fail
<1>10. CASE Tick
  BY <1>10 DEF Tick
<1>11. CASE UNCHANGED vars
  BY <1>11 DEF vars, rowVars
<1> QED
  BY <1>1, <1>2, <1>3, <1>4, <1>5, <1>6, <1>7, <1>8, <1>9, <1>10, <1>11
  DEF Next, ChunkStep

(* The whole engine implements the contract its readers rely on. *)
THEOREM Refinement == Spec => ImplementsContract
<1>1. Init => Contract!Init
  BY DEF Init, Contract!Init
<1> QED
  BY <1>1, ContractStep, Invariance, PTL DEF Spec, ImplementsContract, Contract!Spec

(* No invocation, however delayed, marks a COMPLETED job RUNNING again. *)
THEOREM CompletedStaysDown == Spec => NeverRunsAgain
<1>1. IInv /\ [Next]_vars =>
        [status = "COMPLETED" => status' \in {"COMPLETED", "FAILED"}]_vars
  BY ContractStep DEF Contract!Next, Contract!Run, Contract!Work,
     Contract!Complete, Contract!Fail, Contract!contractVars
<1> QED
  BY <1>1, Invariance, PTL DEF Spec, NeverRunsAgain
-----------------------------------------------------------------------------
(* How far a chain can go, and what its counters come to.                  *)

(* The least time a chain takes to come to its k-th invocation.            *)
Span(k) == (k - 1) * ChunkBudget

(* The pool of an invocation has claimed, queued or counted every item,    *)
(* and stops short of them only at its deadline.                           *)
PoolOf(c) ==
  /\ pc[c] = "working" =>
       /\ Items \subseteq tally[c].ids \cup todo[c] \cup busy[c]
       /\ busy[c] = {} => todo[c] = {} \/ DeadlinePassed(c)
  /\ pc[c] = "flushing" => Items \subseteq tally[c].ids \/ DeadlinePassed(c)
  /\ pc[c] = "handingOff" => chunkAge[c] >= ChunkBudget

PoolStops == \A c \in Chunks : PoolOf(c)

(* An invocation that is past Load was requested within the allowed age,   *)
(* and each before it took its whole budget.                               *)
Paced ==
  /\ chunks = 1 \/ Span(chunks - 1) <= MaxJobAge
  /\ pc[chunks] \in {"loaded", "working", "flushing", "handingOff"} => Span(chunks) <= MaxJobAge
  /\ pc[chunks] \in Running \cup {"handingOff"} =>
       TooOld \/ jobAge >= Span(chunks) + chunkAge[chunks]
  /\ \A c \in Chunks : pc[c] = "none" => chunkAge[c] = 0

PaceInv == IInv /\ PoolStops /\ Paced

(* Each item is counted once, as a success or as a failure.                *)
Counted(p) == p.processed = Cardinality(p.ids) /\ p.success + p.failure = p.processed

(* Where an invocation has nothing more to say of the counters.            *)
Over == {"auditing", "failing", "ended", "dead"}

(* An invocation counts every item once; no item is counted that is still  *)
(* to be claimed or being processed.                                       *)
TallyOf(c) ==
  /\ pc[c] \in {"loaded", "working", "flushing"} => Counted(tally[c])
  /\ pc[c] = "finalizing" => tally[c].success + tally[c].failure = N
  /\ pc[c] = "working" =>
       /\ tally[c].ids \cap (todo[c] \cup busy[c]) = {}
       /\ todo[c] \cap busy[c] = {}

(* What is on its way was counted rightly, however late it lands.          *)
FlightOf(c) == \A p \in flying[c] : Counted(p)

(* The row's counters are right while an invocation may start from them.   *)
RowCounted == pc[chunks] \notin Over => Counted(progress)

CountInv ==
  IInv /\ (type # "INCLUDE_LINKS" =>
             RowCounted /\ \A c \in Chunks : TallyOf(c) /\ FlightOf(c))

-----------------------------------------------------------------------------

(* A step of one invocation leaves the others where they are, but for the  *)
(* one it requests.                                                        *)
LEMMA OthersStay ==
  ASSUME TypeOK, NEW c \in Chunks, ChunkStep(c)
  PROVE  /\ chunkAge' = chunkAge /\ jobAge' = jobAge /\ type' = type
         /\ \A d \in Chunks \ {c} :
              /\ todo'[d] = todo[d] /\ busy'[d] = busy[d] /\ tally'[d] = tally[d]
              /\ began'[d] = began[d] /\ flying'[d] = flying[d]
              /\ pc'[d] = pc[d] \/ (HandOff(c) /\ d = c + 1 /\ pc'[d] = "scheduled")
<1>1. /\ chunkAge' = chunkAge /\ jobAge' = jobAge /\ type' = type
  BY DEF ChunkStep, MarkRunning, Load, RunBatch, StartPool, FinishItem, JoinPool, FinalFlush,
     LandFlush, LoseFlush, HandOff, HandOffAnswered, HandOffThrows, CompleteBulkJob,
     RecordAudit, DatabaseError, FailBulkJob, Die
<1> SUFFICES ASSUME NEW d \in Chunks \ {c}
             PROVE  /\ todo'[d] = todo[d] /\ busy'[d] = busy[d] /\ tally'[d] = tally[d]
                    /\ began'[d] = began[d] /\ flying'[d] = flying[d]
                    /\ pc'[d] = pc[d] \/ (HandOff(c) /\ d = c + 1 /\ pc'[d] = "scheduled")
  BY <1>1
<1>2. CASE MarkRunning(c) \/ Load(c) \/ RunBatch(c) \/ StartPool(c)
  BY <1>2 DEF TypeOK, MarkRunning, Load, RunBatch, StartPool, GoTo, Leave, memoryVars
<1>3. ASSUME NEW i \in Items, NEW ok \in BOOLEAN, FinishItem(c, i, ok)
      PROVE  /\ todo'[d] = todo[d] /\ busy'[d] = busy[d] /\ tally'[d] = tally[d]
             /\ began'[d] = began[d] /\ flying'[d] = flying[d] /\ pc'[d] = pc[d]
  BY <1>3 DEF TypeOK, FinishItem
<1>4. CASE JoinPool(c) \/ FinalFlush(c)
  BY <1>4 DEF TypeOK, JoinPool, FinalFlush, GoTo, Leave, memoryVars
<1>5. ASSUME NEW p \in flying[c], LandFlush(c, p) \/ LoseFlush(c, p)
      PROVE  /\ todo'[d] = todo[d] /\ busy'[d] = busy[d] /\ tally'[d] = tally[d]
             /\ began'[d] = began[d] /\ flying'[d] = flying[d] /\ pc'[d] = pc[d]
  BY <1>5 DEF TypeOK, LandFlush, LoseFlush, memoryVars
<1>6. CASE HandOff(c)
  BY <1>6 DEF TypeOK, HandOff, memoryVars
<1>7. CASE \/ HandOffAnswered(c) \/ HandOffThrows(c) \/ CompleteBulkJob(c) \/ RecordAudit(c)
           \/ DatabaseError(c) \/ FailBulkJob(c) \/ Die(c)
  BY <1>7 DEF TypeOK, HandOffAnswered, HandOffThrows, CompleteBulkJob, RecordAudit,
     DatabaseError, FailBulkJob, Die, GoTo, Leave, memoryVars
<1> QED
  BY <1>2, <1>3, <1>4, <1>5, <1>6, <1>7 DEF ChunkStep

(* While there is an item to claim, a worker claims one.                   *)
LEMMA SomeClaimed ==
  ASSUME NEW S \in SUBSET Items, S # {}, NEW k \in Nat \ {0}
  PROVE  FirstOf(S, k) # {}
<1>1. S \in SUBSET Nat
  BY SizesAssumption DEF Items
<1>2. PICK n \in S : \A m \in S : n <= m
  BY <1>1, Least
<1>3. {j \in S : j < n} = {}
  <2>1. \A j \in S : j \in Nat /\ n \in Nat /\ n <= j
    BY <1>1, <1>2
  <2>2. \A j \in S : ~(j < n)
    BY <2>1
  <2> QED
    BY <2>2, Zenon
<1>4. Cardinality({j \in S : j < n}) < k
  BY <1>3, FS_EmptySet
<1> QED
  BY <1>4 DEF FirstOf

(* An invocation stops short of its items only at its deadline.            *)
LEMMA PoolStep == TypeOK /\ PoolStops /\ [Next]_vars => PoolStops'
<1> SUFFICES ASSUME TypeOK, PoolStops, [Next]_vars, NEW d \in Chunks PROVE PoolOf(d)'
  BY DEF PoolStops
<1>1. /\ chunkAge[d] \in Nat /\ began[d] \in Nat /\ ChunkBudget \in Nat /\ PoolOf(d)
      /\ tally[d].ids \in SUBSET Items /\ todo[d] \in SUBSET Items /\ busy[d] \in SUBSET Items
  BY TimesAssumption DEF TypeOK, PoolStops, Progress
<1>2. ASSUME UNCHANGED <<chunkAge, todo, busy, tally, began>>,
             pc'[d] = pc[d] \/ pc'[d] \notin {"working", "flushing", "handingOff"}
      PROVE  PoolOf(d)'
  BY <1>1, <1>2 DEF PoolOf, DeadlinePassed
<1>3. ASSUME pc'[d] \notin {"working", "flushing", "handingOff"} PROVE PoolOf(d)'
  BY <1>3 DEF PoolOf
<1>4. ASSUME NEW c \in Chunks \ {d}, ChunkStep(c) PROVE PoolOf(d)'
  BY <1>1, <1>4, OthersStay DEF PoolOf, DeadlinePassed
<1>5. CASE StartPool(d)
  <2>1. /\ pc'[d] = "working" /\ tally'[d] = tally[d]
        /\ todo'[d] = Remaining(d) \ FirstOf(Remaining(d), Concurrency)
        /\ busy'[d] = FirstOf(Remaining(d), Concurrency)
    BY <1>5 DEF StartPool, TypeOK
  <2>2. Remaining(d) \in SUBSET Items /\ FirstOf(Remaining(d), Concurrency) \subseteq Remaining(d)
    BY DEF Remaining, FirstOf
  <2>3. Remaining(d) # {} => FirstOf(Remaining(d), Concurrency) # {}
    BY <2>2, SomeClaimed, SizesAssumption
  <2> QED
    BY <2>1, <2>2, <2>3 DEF PoolOf, Remaining
<1>6. ASSUME NEW i \in Items, NEW ok \in BOOLEAN, FinishItem(d, i, ok) PROVE PoolOf(d)'
  <2> DEFINE claimed == IF DeadlinePassed(d) THEN {} ELSE FirstOf(todo[d], 1)
  <2>1. /\ pc[d] = "working" /\ pc'[d] = "working" /\ i \in busy[d]
        /\ tally'[d].ids = tally[d].ids \cup {i}
        /\ todo'[d] = todo[d] \ claimed /\ busy'[d] = (busy[d] \ {i}) \cup claimed
        /\ began' = began /\ chunkAge' = chunkAge
    BY <1>6 DEF FinishItem, TypeOK, Count
  <2>2. claimed \subseteq todo[d] /\ (claimed = {} => todo[d] = {} \/ DeadlinePassed(d))
    <3>1. todo[d] # {} => FirstOf(todo[d], 1) # {}
      BY <1>1, SomeClaimed
    <3>2. FirstOf(todo[d], 1) \subseteq todo[d]
      BY DEF FirstOf
    <3> QED
      BY <3>1, <3>2
  <2> HIDE DEF claimed
  <2>3. Items \subseteq tally'[d].ids \cup todo'[d] \cup busy'[d]
    BY <1>1, <2>1, <2>2 DEF PoolOf
  <2>4. busy'[d] = {} => todo'[d] = {} \/ DeadlinePassed(d)'
    BY <2>1, <2>2 DEF DeadlinePassed
  <2> QED
    BY <2>1, <2>3, <2>4 DEF PoolOf
<1>7. CASE JoinPool(d)
  <2>1. /\ pc[d] = "working" /\ pc'[d] = "flushing" /\ busy[d] = {}
        /\ began' = began /\ chunkAge' = chunkAge
    BY <1>7 DEF JoinPool, TypeOK
  <2>2. tally'[d].ids = tally[d].ids
    BY <1>7 DEF JoinPool, FailedLinks, TypeOK, Progress
  <2> QED
    BY <1>1, <2>1, <2>2 DEF PoolOf, DeadlinePassed
<1>8. CASE FinalFlush(d)
  <2>1. /\ pc[d] = "flushing" /\ chunkAge' = chunkAge
        /\ pc'[d] = "handingOff" => ~AllDone(d)
        /\ pc'[d] \in {"failing", "handingOff", "finalizing"}
    BY <1>8 DEF FinalFlush, GoTo, Leave, TypeOK
  <2>2. ASSUME ~AllDone(d) PROVE ~(Items \subseteq tally[d].ids)
    <3>1. Cardinality(Items) = N
      BY FS_Interval, SizesAssumption DEF Items
    <3>2. tally[d].ids # Items
      BY <2>2, <3>1, SizesAssumption DEF AllDone
    <3> QED
      BY <1>1, <3>2
  <2> QED
    BY <1>1, <2>1, <2>2 DEF PoolOf, DeadlinePassed
<1>9. ASSUME NEW p \in flying[d], LandFlush(d, p) \/ LoseFlush(d, p) PROVE PoolOf(d)'
  BY <1>2, <1>9 DEF LandFlush, LoseFlush, memoryVars
<1>10. CASE MarkRunning(d) \/ RunBatch(d) \/ HandOff(d) \/ Load(d)
  <2>1. pc'[d] \notin {"working", "flushing", "handingOff"}
    BY <1>10, SizesAssumption DEF MarkRunning, RunBatch, HandOff, Load, GoTo, Leave, TypeOK, Chunks
  <2> QED
    BY <1>3, <2>1
<1>11. CASE \/ HandOffAnswered(d) \/ HandOffThrows(d) \/ CompleteBulkJob(d) \/ RecordAudit(d)
            \/ DatabaseError(d) \/ FailBulkJob(d) \/ Die(d)
  <2>1. pc'[d] \notin {"working", "flushing", "handingOff"}
    BY <1>11 DEF HandOffAnswered, HandOffThrows, CompleteBulkJob, RecordAudit,
       DatabaseError, FailBulkJob, Die, GoTo, Leave, TypeOK
  <2> QED
    BY <1>3, <2>1
<1>12. CASE Tick
  <2>1. CASE d \in Killed
    BY <1>3, <1>12, <2>1 DEF Tick
  <2>2. CASE d \notin Killed /\ pc[d] \notin Gone
    <3>1. /\ pc'[d] = pc[d] /\ tally'[d] = tally[d] /\ todo'[d] = todo[d] /\ busy'[d] = busy[d]
          /\ began'[d] = began[d] /\ chunkAge'[d] >= chunkAge[d] /\ chunkAge'[d] \in Nat
      BY <1>1, <1>12, <2>2, TimesAssumption DEF Tick, Older
    <3> QED
      BY <1>1, <3>1 DEF PoolOf, DeadlinePassed
  <2>3. CASE pc[d] \in Gone
    BY <1>3, <1>12, <2>3 DEF Tick, Gone
  <2> QED
    BY <2>1, <2>2, <2>3
<1>13. ASSUME NEW r \in Readers, FindStale(r) \/ Reap(r) PROVE PoolOf(d)'
  BY <1>2, <1>13 DEF FindStale, Reap, memoryVars
<1>14. CASE UNCHANGED vars
  BY <1>2, <1>14 DEF vars, memoryVars
<1>15. ASSUME ChunkStep(d) PROVE PoolOf(d)'
  BY <1>5, <1>6, <1>7, <1>8, <1>9, <1>10, <1>11, <1>15 DEF ChunkStep
<1> QED
  BY <1>4, <1>12, <1>13, <1>14, <1>15 DEF Next

(* The least times grow by a budget at a time.                             *)
LEMMA SpanGrows ==
  /\ Span(1) = 0
  /\ \A k \in Nat \ {0} : Span(k) \in Nat /\ Span(k + 1) = Span(k) + ChunkBudget
<1>1. ChunkBudget \in Nat
  BY TimesAssumption
<1>2. ASSUME NEW k \in Nat \ {0} PROVE Span(k) \in Nat /\ Span(k + 1) = Span(k) + ChunkBudget
  <2>1. k - 1 \in Nat
    OBVIOUS
  <2>2. (k - 1) * ChunkBudget \in Nat
    BY <1>1, <2>1
  <2>3. (k + 1) - 1 = (k - 1) + 1
    OBVIOUS
  <2>4. ((k - 1) + 1) * ChunkBudget = (k - 1) * ChunkBudget + ChunkBudget
    BY <1>1, <2>1
  <2> QED
    BY <2>2, <2>3, <2>4 DEF Span
<1> QED
  BY <1>1, <1>2 DEF Span

(* Each invocation of a chain takes its budget before there is a newer     *)
(* one, and none that is requested too late gets to its pool.              *)
LEMMA PacedStep ==
  TypeOK /\ Chain /\ PoolStops /\ Paced /\ [Next]_vars => Paced'
<1> SUFFICES ASSUME TypeOK, Chain, PoolStops, Paced, [Next]_vars PROVE Paced'
  OBVIOUS
<1> DEFINE Timed == pc[chunks] \in Running \cup {"handingOff"} =>
                      TooOld \/ jobAge >= Span(chunks) + chunkAge[chunks]
           InTime == pc[chunks] \in {"loaded", "working", "flushing", "handingOff"}
                       => Span(chunks) <= MaxJobAge
           First  == chunks = 1 \/ Span(chunks - 1) <= MaxJobAge
           Fresh  == \A c \in Chunks : pc[c] = "none" => chunkAge[c] = 0
<1>1. /\ chunks \in Chunks /\ chunks \in Nat \ {0} /\ jobAge \in Nat /\ chunkAge[chunks] \in Nat
      /\ MaxJobAge \in Nat /\ ChunkBudget \in Nat
  BY SizesAssumption, TimesAssumption DEF TypeOK, Chunks
<1>2. Span(chunks) \in Nat /\ Span(chunks + 1) = Span(chunks) + ChunkBudget
  BY <1>1, SpanGrows
<1>3. ASSUME chunks' = chunks, jobAge' = jobAge, chunkAge' = chunkAge,
             \A c \in Chunks : pc'[c] = "none" => pc[c] = "none",
             pc'[chunks] \in {"loaded", "working", "flushing", "handingOff"} =>
               pc[chunks] \in {"loaded", "working", "flushing", "handingOff"},
             pc'[chunks] \in Running \cup {"handingOff"} => pc[chunks] \in Running \cup {"handingOff"}
      PROVE  Paced'
  BY <1>3 DEF Paced, Span, TooOld
<1>4. ASSUME NEW c \in Chunks, Load(c) PROVE Paced'
  <2>1. c = chunks /\ pc[c] = "marked" /\ UNCHANGED <<chunks, jobAge, chunkAge>>
    BY <1>4, NewestRuns DEF Load, Running
  <2>2. \A e \in Chunks : pc'[e] = "none" => pc[e] = "none"
    BY <1>4 DEF Load, Leave, TypeOK
  <2>3. pc'[c] = "loaded" => ~TooOld
    BY <1>4 DEF Load, Leave, TypeOK
  <2>4. pc'[c] \in {"loaded", "failing"}
    BY <1>4 DEF Load, Leave, TypeOK
  <2>5. pc'[c] = "loaded" => Span(chunks) <= MaxJobAge /\ jobAge >= Span(chunks) + chunkAge[chunks]
    BY <1>1, <1>2, <2>1, <2>3 DEF Paced, TooOld, Running
  <2> QED
    BY <1>1, <2>1, <2>2, <2>4, <2>5 DEF Paced, Span, TooOld, Running
<1>5. ASSUME NEW c \in Chunks, HandOff(c) PROVE Paced'
  <2>1. /\ c = chunks /\ pc[c] = "handingOff" /\ chunks' = chunks + 1 /\ chunks + 1 \in Chunks
        /\ UNCHANGED <<jobAge, chunkAge>>
    BY <1>1, <1>5, SizesAssumption DEF HandOff, Chunks
  <2>2. /\ chunkAge[chunks] >= ChunkBudget /\ chunkAge[chunks + 1] = 0
        /\ TooOld \/ jobAge >= Span(chunks) + chunkAge[chunks]
        /\ Span(chunks) <= MaxJobAge
    <3>1. pc[chunks + 1] = "none"
      BY <1>1, <2>1 DEF Chain
    <3> QED
      BY <1>1, <2>1, <3>1 DEF PoolStops, PoolOf, Paced
  <2>3. pc'[chunks + 1] = "scheduled" /\ \A e \in Chunks : pc'[e] = "none" => pc[e] = "none"
    BY <1>5, <2>1 DEF HandOff, TypeOK
  <2>4. TooOld \/ jobAge >= Span(chunks + 1) + chunkAge[chunks + 1]
    BY <1>1, <1>2, <2>2
  <2>5. Span(chunks' - 1) = Span(chunks)
    BY <1>1, <2>1
  <2> QED
    BY <1>1, <2>1, <2>2, <2>3, <2>4, <2>5 DEF Paced, Span, TooOld
<1>6. ASSUME NEW c \in Chunks, ChunkStep(c), ~Load(c), ~HandOff(c) PROVE Paced'
  <2>1. chunks' = chunks /\ jobAge' = jobAge /\ chunkAge' = chunkAge
    BY <1>6, OthersStay DEF ChunkStep, MarkRunning, RunBatch, StartPool, FinishItem,
       JoinPool, FinalFlush, LandFlush, LoseFlush, HandOffAnswered,
       HandOffThrows, CompleteBulkJob, RecordAudit, DatabaseError, FailBulkJob, Die
  <2>2. \A e \in Chunks \ {c} : pc'[e] = pc[e]
    BY <1>6, OthersStay
  <2>3. /\ pc'[c] = "none" => pc[c] = "none"
        /\ pc'[c] \in {"loaded", "working", "flushing", "handingOff"} =>
             pc[c] \in {"loaded", "working", "flushing", "handingOff"}
        /\ pc'[c] \in Running \cup {"handingOff"} => pc[c] \in Running \cup {"handingOff"}
    BY <1>6 DEF TypeOK, ChunkStep, MarkRunning, RunBatch, StartPool, FinishItem,
       JoinPool, FinalFlush, LandFlush, LoseFlush, HandOffAnswered,
       HandOffThrows, CompleteBulkJob, RecordAudit, DatabaseError, FailBulkJob, Die,
       GoTo, Leave, Running, Gone
  <2> QED
    BY <1>1, <1>3, <2>1, <2>2, <2>3
<1>7. CASE Tick
  <2>1. chunks' = chunks /\ \A c \in Chunks : pc'[c] \in {pc[c], "dead"}
    BY <1>7 DEF Tick
  <2>2. /\ jobAge <= MaxJobAge => jobAge' = jobAge + 1
        /\ jobAge > MaxJobAge => jobAge' = jobAge
        /\ chunkAge'[chunks] <= chunkAge[chunks] + 1 /\ chunkAge'[chunks] \in Nat
    BY <1>1, <1>7, TimesAssumption DEF Tick, Older, TypeOK
  <2>3. \A c \in Chunks : pc'[c] = "none" => chunkAge'[c] = 0
    BY <1>7 DEF Tick, Gone, Paced
  <2>4. Timed'
    BY <1>1, <1>2, <2>1, <2>2 DEF Paced, Span, TooOld, Running
  <2> QED
    BY <1>1, <2>1, <2>3, <2>4 DEF Paced, Span
<1>8. ASSUME NEW r \in Readers, FindStale(r) \/ Reap(r) PROVE Paced'
  BY <1>3, <1>8 DEF FindStale, Reap
<1>9. CASE UNCHANGED vars
  BY <1>3, <1>9 DEF vars
<1> QED
  BY <1>4, <1>5, <1>6, <1>7, <1>8, <1>9 DEF Next

(* MAX_JOB_AGE_MS bounds a chain, of any number of items and workers: with *)
(* each invocation but the newest taking its ChunkBudget there are at most *)
(* two more of them than budgets in the allowed age.                       *)
THEOREM ChainIsBounded == Spec => []ChainBounded
<1>1. Init => PaceInv
  <2> SUFFICES ASSUME Init PROVE PaceInv
    OBVIOUS
  <2>1. 1 \in Chunks
    BY SizesAssumption DEF Chunks
  <2>2. PoolStops
    BY DEF Init, PoolStops, PoolOf
  <2>3. Paced
    BY <2>1, SpanGrows, TimesAssumption DEF Init, Paced, TooOld, Running
  <2> QED
    BY <2>2, <2>3, InitIInv DEF PaceInv
<1>2. PaceInv /\ [Next]_vars => PaceInv'
  BY TypeStep, ChainStep, LedgerStep, VerdictStep, AuditStep, PoolStep, PacedStep
  DEF IInv, PaceInv
<1>3. PaceInv => ChainBounded
  <2> SUFFICES ASSUME PaceInv PROVE chunks <= (MaxJobAge \div ChunkBudget) + 2
    BY DEF ChainBounded
  <2> DEFINE q == MaxJobAge \div ChunkBudget
  <2>1. chunks \in Nat \ {0} /\ MaxJobAge \in Nat /\ ChunkBudget \in Nat \ {0}
    BY SizesAssumption, TimesAssumption DEF PaceInv, IInv, TypeOK, Chunks
  <2>2. q \in Nat /\ MaxJobAge < q * ChunkBudget + ChunkBudget
    BY <2>1
  <2> HIDE DEF q
  <2>3. chunks = 1 \/ ((chunks - 1) - 1) * ChunkBudget <= MaxJobAge
    BY DEF PaceInv, Paced, Span
  <2>4. SUFFICES ASSUME chunks > q + 2 PROVE FALSE
    BY <2>1, <2>2 DEF q
  <2>5. PICK k \in Nat : (chunks - 1) - 1 = (q + 1) + k
    <3>1. chunks - 2 - (q + 1) \in Nat /\ (chunks - 1) - 1 = (q + 1) + (chunks - 2 - (q + 1))
      BY <2>1, <2>2, <2>4
    <3> QED
      BY <3>1
  <2>6. ((q + 1) + k) * ChunkBudget = q * ChunkBudget + ChunkBudget + k * ChunkBudget
    BY <2>1, <2>2
  <2>7. k * ChunkBudget \in Nat
    BY <2>1
  <2> QED
    BY <2>1, <2>2, <2>3, <2>4, <2>5, <2>6, <2>7
<1> QED
  BY <1>1, <1>2, <1>3, PTL DEF Spec

(* One more item counted.                                                  *)
LEMMA OneMore ==
  ASSUME NEW t \in Progress, Counted(t), NEW i \in Items \ t.ids, NEW ok \in BOOLEAN
  PROVE  Counted(Count(t, i, ok))
<1>1. IsFiniteSet(Items)
  BY FS_Interval, SizesAssumption DEF Items
<1>2. t.ids \in SUBSET Items /\ IsFiniteSet(t.ids)
  BY <1>1, FS_Subset DEF Progress
<1>3. Cardinality(t.ids \cup {i}) = Cardinality(t.ids) + 1
  BY <1>2, FS_AddElement
<1> QED
  BY <1>3 DEF Counted, Count, Progress

(* The counters keep counting every item once.                             *)
LEMMA CountStep ==
  IInv /\ CountInv /\ [Next]_vars => (type # "INCLUDE_LINKS" =>
    RowCounted /\ \A c \in Chunks : TallyOf(c) /\ FlightOf(c))'
<1> SUFFICES ASSUME IInv, CountInv, [Next]_vars, type' # "INCLUDE_LINKS"
             PROVE  RowCounted' /\ \A c \in Chunks : TallyOf(c)' /\ FlightOf(c)'
  OBVIOUS
<1> DEFINE Holds == RowCounted' /\ \A c \in Chunks : TallyOf(c)' /\ FlightOf(c)'
<1>1. type # "INCLUDE_LINKS"
  <2>1. type' = type
    <3>1. ASSUME NEW c \in Chunks, ChunkStep(c) PROVE type' = type
      BY <3>1, OthersStay DEF IInv
    <3> QED
      BY <3>1 DEF Next, FindStale, Reap, Tick, vars
  <2> QED
    BY <2>1
<1>2. /\ TypeOK /\ Chain /\ RowCounted /\ N \in Nat
      /\ chunks \in Chunks /\ \A c \in Chunks : TallyOf(c) /\ FlightOf(c) /\ tally[c] \in Progress
  BY <1>1, SizesAssumption DEF IInv, CountInv, TypeOK
<1>3. ASSUME chunks' = chunks, progress' = progress,
             \A d \in Chunks :
               /\ \/ pc'[d] = pc[d] /\ tally'[d] = tally[d] /\ todo'[d] = todo[d] /\ busy'[d] = busy[d]
                  \/ pc'[d] \notin {"loaded", "working", "flushing", "finalizing"}
               /\ pc[d] \in {"working", "flushing", "failing", "ended", "dead"} =>
                    pc'[d] \in {"working", "flushing", "failing", "ended", "dead"}
               /\ flying'[d] \subseteq flying[d],
             pc[chunks] \in Over => pc'[chunks] \in Over
      PROVE  Holds
  <2>1. ASSUME NEW d \in Chunks PROVE TallyOf(d)'
    BY <1>2, <1>3 DEF TallyOf
  <2>2. ASSUME NEW d \in Chunks PROVE FlightOf(d)'
    BY <1>2, <1>3 DEF FlightOf
  <2>3. RowCounted'
    BY <1>2, <1>3 DEF RowCounted
  <2> QED
    BY <2>1, <2>2, <2>3
<1>4. ASSUME NEW c \in Chunks, ChunkStep(c), ~HandOff(c), chunks' = chunks,
             TallyOf(c)', FlightOf(c)', RowCounted'
      PROVE  Holds
  <2>1. ASSUME NEW d \in Chunks \ {c} PROVE TallyOf(d)' /\ FlightOf(d)'
    BY <1>2, <1>4, OthersStay DEF TallyOf, FlightOf
  <2> QED
    BY <1>4, <2>1
<1>5. ASSUME NEW c \in Chunks, Load(c) PROVE Holds
  <2>1. c = chunks /\ pc[c] = "marked" /\ chunks' = chunks /\ flying' = flying /\ progress' = progress
    BY <1>2, <1>5, NewestRuns DEF Load, Running, WriteRow, rowVars
  <2>2. /\ pc'[c] \in {"loaded", "failing"} /\ (pc'[c] = "loaded" => tally'[c] = progress)
    BY <1>2, <1>5 DEF Load, Leave, TypeOK, Resumed, WriteRow, rowVars
  <2>3. Counted(progress)
    BY <1>2, <2>1 DEF RowCounted, Over
  <2>4. TallyOf(c)' /\ FlightOf(c)'
    BY <1>2, <2>1, <2>2, <2>3 DEF TallyOf, FlightOf
  <2>5. RowCounted'
    BY <2>1, <2>2, <2>3 DEF RowCounted
  <2> QED
    BY <1>4, <1>5, <2>1, <2>4, <2>5 DEF ChunkStep, HandOff
<1>6. ASSUME NEW c \in Chunks, RunBatch(c) PROVE Holds
  <2>1. /\ c = chunks /\ pc[c] = "loaded" /\ chunks' = chunks /\ flying' = flying
        /\ progress' = progress
    BY <1>2, <1>6, NewestRuns DEF RunBatch, Running, rowVars
  <2>2. pc'[c] \in {"finalizing", "failing"} /\ tally'[c].success = N /\ tally'[c].failure = 0
    BY <1>2, <1>6 DEF RunBatch, TypeOK, Progress
  <2>3. Counted(progress)
    BY <1>2, <2>1 DEF RowCounted, Over
  <2>4. TallyOf(c)' /\ FlightOf(c)'
    BY <1>2, <2>1, <2>2, <2>3 DEF TallyOf, FlightOf
  <2>5. RowCounted'
    BY <2>1, <2>3 DEF RowCounted
  <2> QED
    BY <1>4, <1>6, <2>1, <2>4, <2>5 DEF ChunkStep, HandOff
<1>7. ASSUME NEW c \in Chunks, StartPool(c) PROVE Holds
  <2>1. /\ c = chunks /\ pc[c] = "loaded" /\ chunks' = chunks /\ flying' = flying
        /\ progress' = progress
    BY <1>2, <1>7, NewestRuns DEF StartPool, Running, rowVars
  <2>2. /\ pc'[c] = "working" /\ tally'[c] = tally[c]
        /\ todo'[c] = Remaining(c) \ FirstOf(Remaining(c), Concurrency)
        /\ busy'[c] = FirstOf(Remaining(c), Concurrency)
        /\ FirstOf(Remaining(c), Concurrency) \subseteq Remaining(c)
    BY <1>2, <1>7 DEF StartPool, TypeOK, FirstOf
  <2>3. Counted(progress) /\ Counted(tally[c])
    BY <1>2, <2>1 DEF RowCounted, Over, TallyOf
  <2>4. TallyOf(c)' /\ FlightOf(c)'
    BY <1>2, <2>1, <2>2, <2>3 DEF TallyOf, FlightOf, Remaining
  <2>5. RowCounted'
    BY <2>1, <2>3 DEF RowCounted
  <2> QED
    BY <1>4, <1>7, <2>1, <2>4, <2>5 DEF ChunkStep, HandOff
<1>8. ASSUME NEW c \in Chunks, NEW i \in Items, NEW ok \in BOOLEAN, FinishItem(c, i, ok)
      PROVE  Holds
  <2> DEFINE claimed == IF DeadlinePassed(c) THEN {} ELSE FirstOf(todo[c], 1)
             counted == Count(tally[c], i, ok)
  <2>1. /\ c = chunks /\ pc[c] = "working" /\ pc' = pc /\ chunks' = chunks
        /\ progress' = progress /\ i \in busy[c]
    BY <1>2, <1>8, NewestRuns DEF FinishItem, Running, rowVars
  <2>2. /\ tally'[c] = counted /\ todo'[c] = todo[c] \ claimed
        /\ busy'[c] = (busy[c] \ {i}) \cup claimed
        /\ flying'[c] \subseteq flying[c] \cup {counted}
        /\ claimed \subseteq todo[c]
    BY <1>2, <1>8 DEF FinishItem, TypeOK, FirstOf
  <2> HIDE DEF claimed
  <2>3. /\ Counted(progress) /\ Counted(tally[c])
        /\ tally[c].ids \cap (todo[c] \cup busy[c]) = {} /\ todo[c] \cap busy[c] = {}
    BY <1>2, <2>1 DEF RowCounted, Over, TallyOf
  <2>4. Counted(counted) /\ counted.ids = tally[c].ids \cup {i}
    <3>1. i \in Items \ tally[c].ids
      BY <2>1, <2>3
    <3> QED
      BY <1>2, <2>3, <3>1, OneMore DEF Count
  <2> HIDE DEF counted
  <2>5. TallyOf(c)'
    <3>1. i \notin todo[c] /\ i \notin claimed
      BY <2>1, <2>2, <2>3
    <3> QED
      BY <2>1, <2>2, <2>3, <2>4, <3>1 DEF TallyOf
  <2>6. FlightOf(c)'
    BY <1>2, <2>1, <2>2, <2>4 DEF FlightOf
  <2>7. RowCounted'
    BY <2>1, <2>3 DEF RowCounted
  <2> QED
    BY <1>4, <1>8, <2>1, <2>5, <2>6, <2>7 DEF ChunkStep, HandOff
<1>9. ASSUME NEW c \in Chunks, JoinPool(c) PROVE Holds
  <2>1. /\ c = chunks /\ pc[c] = "working" /\ pc'[c] = "flushing" /\ chunks' = chunks
        /\ flying' = flying /\ progress' = progress
    BY <1>2, <1>9, NewestRuns DEF JoinPool, Running, rowVars, TypeOK
  <2>2. /\ tally'[c].ids = tally[c].ids /\ tally'[c].processed = tally[c].processed
        /\ tally'[c].success = tally[c].success /\ tally'[c].failure = tally[c].failure
    BY <1>1, <1>2, <1>9 DEF JoinPool, FailedLinks, TypeOK, Progress
  <2>3. Counted(progress) /\ Counted(tally[c])
    BY <1>2, <2>1 DEF RowCounted, Over, TallyOf
  <2>4. TallyOf(c)' /\ FlightOf(c)'
    BY <1>2, <2>1, <2>2, <2>3 DEF TallyOf, FlightOf, Counted
  <2>5. RowCounted'
    BY <2>1, <2>3 DEF RowCounted
  <2> QED
    BY <1>4, <1>9, <2>1, <2>4, <2>5 DEF ChunkStep, HandOff
<1>10. ASSUME NEW c \in Chunks, FinalFlush(c) PROVE Holds
  <2>1. /\ c = chunks /\ pc[c] = "flushing" /\ chunks' = chunks
        /\ flying' = flying /\ progress' = tally[c]
    BY <1>2, <1>10, NewestRuns DEF FinalFlush, Running, WriteRow
  <2>2. /\ pc'[c] \in {"failing", "handingOff", "finalizing"}
        /\ pc'[c] = "finalizing" => AllDone(c) /\ tally'[c] = tally[c]
    BY <1>2, <1>10 DEF FinalFlush, GoTo, Leave, memoryVars, TypeOK
  <2>3. Counted(tally[c])
    BY <1>2, <2>1 DEF TallyOf
  <2>4. AllDone(c) => Cardinality(tally[c].ids) = N
    <3>1. Cardinality(Items) = N
      BY FS_Interval, SizesAssumption DEF Items
    <3>2. tally[c].ids \in SUBSET Items
      BY <1>2 DEF Progress
    <3> QED
      BY <3>1, <3>2, FullList DEF AllDone
  <2>5. TallyOf(c)' /\ FlightOf(c)'
    <3>1. TallyOf(c)'
      BY <2>1, <2>2, <2>3, <2>4 DEF TallyOf, Counted
    <3>2. FlightOf(c)'
      BY <1>2, <2>1 DEF FlightOf
    <3> QED
      BY <3>1, <3>2
  <2>6. RowCounted'
    BY <2>1, <2>3 DEF RowCounted
  <2> QED
    BY <1>4, <1>10, <2>1, <2>5, <2>6 DEF ChunkStep, HandOff
<1>11. ASSUME NEW c \in Chunks, NEW p \in flying[c], LandFlush(c, p) PROVE Holds
  <2>1. /\ UNCHANGED <<pc, tally, todo, busy, chunks>> /\ progress' = p
        /\ flying'[c] \subseteq flying[c]
    BY <1>2, <1>11 DEF LandFlush, WriteRow, memoryVars, TypeOK
  <2>2. Counted(p)
    BY <1>2, <1>11 DEF FlightOf, RowCounted
  <2>3. TallyOf(c)' /\ FlightOf(c)' /\ RowCounted'
    BY <1>2, <2>1, <2>2 DEF TallyOf, FlightOf, RowCounted
  <2>4. ChunkStep(c) /\ ~HandOff(c)
    BY <1>2, <1>11, <2>1 DEF ChunkStep, HandOff, TypeOK, Chunks
  <2> QED
    BY <1>4, <2>1, <2>3, <2>4
<1>12. ASSUME NEW c \in Chunks, HandOff(c) PROVE Holds
  <2>1. /\ c = chunks /\ pc[c] = "handingOff" /\ chunks' = chunks + 1 /\ chunks \in Nat
        /\ UNCHANGED <<flying, progress, tally, todo, busy>>
    BY <1>2, <1>12, SizesAssumption DEF HandOff, rowVars, memoryVars, Chunks
  <2>2. Counted(progress)
    BY <1>2, <2>1 DEF RowCounted, Over
  <2>3. \A d \in Chunks : pc'[d] \in {pc[d], "awaiting", "scheduled"}
    BY <1>2, <1>12 DEF HandOff, TypeOK
  <2>4. ASSUME NEW d \in Chunks PROVE TallyOf(d)' /\ FlightOf(d)'
    BY <1>2, <2>1, <2>2, <2>3 DEF TallyOf, FlightOf
  <2>5. RowCounted'
    BY <2>1, <2>2 DEF RowCounted
  <2> QED
    BY <2>4, <2>5
<1>13. ASSUME NEW c \in Chunks, CompleteBulkJob(c) PROVE Holds
  <2>1. /\ c = chunks /\ pc[c] = "finalizing" /\ chunks' = chunks /\ flying' = flying
    BY <1>2, <1>13, NewestRuns DEF CompleteBulkJob, Running
  <2>2. pc'[c] \in {"auditing", "failing"}
    BY <1>2, <1>13 DEF CompleteBulkJob, Leave, TypeOK
  <2>3. TallyOf(c)' /\ FlightOf(c)'
    BY <1>2, <2>1, <2>2 DEF TallyOf, FlightOf
  <2>4. RowCounted'
    BY <2>1, <2>2 DEF RowCounted, Over
  <2> QED
    BY <1>4, <1>13, <2>1, <2>3, <2>4 DEF ChunkStep, HandOff
<1>14. ASSUME NEW c \in Chunks,
              \/ MarkRunning(c) \/ HandOffAnswered(c) \/ HandOffThrows(c) \/ RecordAudit(c)
              \/ DatabaseError(c) \/ FailBulkJob(c) \/ Die(c)
       PROVE  Holds
  <2>1. /\ chunks' = chunks /\ progress' = progress /\ flying' = flying
    BY <1>14 DEF MarkRunning, HandOffAnswered, HandOffThrows, RecordAudit, DatabaseError,
       FailBulkJob, Die, WriteRow, rowVars
  <2>2. pc'[c] \notin {"loaded", "working", "flushing", "finalizing"}
    BY <1>2, <1>14 DEF MarkRunning, HandOffAnswered, HandOffThrows, RecordAudit, DatabaseError,
       FailBulkJob, Die, GoTo, Leave, TypeOK
  <2>3. /\ pc[c] \in {"working", "flushing", "failing", "ended", "dead"} =>
             pc'[c] \in {"working", "flushing", "failing", "ended", "dead"}
        /\ pc[c] \in Over => pc'[c] \in Over
    BY <1>2, <1>14 DEF MarkRunning, HandOffAnswered, HandOffThrows, RecordAudit, DatabaseError,
       FailBulkJob, Die, GoTo, Leave, TypeOK, Over
  <2>4. \A d \in Chunks \ {c} :
          pc'[d] = pc[d] /\ tally'[d] = tally[d] /\ todo'[d] = todo[d] /\ busy'[d] = busy[d]
    BY <1>2, <1>14 DEF MarkRunning, HandOffAnswered, HandOffThrows, RecordAudit, DatabaseError,
       FailBulkJob, Die, GoTo, Leave, memoryVars, TypeOK
  <2>5. /\ \A d \in Chunks :
             /\ \/ pc'[d] = pc[d] /\ tally'[d] = tally[d] /\ todo'[d] = todo[d] /\ busy'[d] = busy[d]
                \/ pc'[d] \notin {"loaded", "working", "flushing", "finalizing"}
             /\ pc[d] \in {"working", "flushing", "failing", "ended", "dead"} =>
                  pc'[d] \in {"working", "flushing", "failing", "ended", "dead"}
             /\ flying'[d] \subseteq flying[d]
        /\ pc[chunks] \in Over => pc'[chunks] \in Over
    BY <1>2, <2>1, <2>2, <2>3, <2>4
  <2> QED
    BY <1>3, <2>1, <2>5
<1>15. ASSUME NEW c \in Chunks, NEW p \in flying[c], LoseFlush(c, p) PROVE Holds
  <2>1. UNCHANGED <<chunks, progress, pc, tally, todo, busy>>
    BY <1>15 DEF LoseFlush, memoryVars, rowVars
  <2>2. \A d \in Chunks : flying'[d] \subseteq flying[d]
    BY <1>2, <1>15 DEF LoseFlush, TypeOK
  <2> QED
    BY <1>3, <2>1, <2>2
<1>16. CASE Tick
  <2>1. UNCHANGED <<chunks, progress, flying>>
    BY <1>16 DEF Tick
  <2>2. \A d \in Chunks :
          \/ pc'[d] = pc[d] /\ tally'[d] = tally[d] /\ todo'[d] = todo[d] /\ busy'[d] = busy[d]
          \/ pc'[d] = "dead"
    BY <1>16 DEF Tick
  <2> QED
    BY <1>2, <1>3, <2>1, <2>2 DEF Over
<1>17. ASSUME NEW r \in Readers, FindStale(r) \/ Reap(r) PROVE Holds
  <2>1. /\ UNCHANGED <<chunks, progress, flying, pc, tally, todo, busy>>
    BY <1>17 DEF FindStale, Reap, WriteRow, memoryVars, rowVars
  <2> QED
    BY <1>3, <2>1
<1>18. CASE UNCHANGED vars
  BY <1>3, <1>18 DEF vars, memoryVars, rowVars
<1> QED
  BY <1>5, <1>6, <1>7, <1>8, <1>9, <1>10, <1>11, <1>12, <1>13, <1>14, <1>15, <1>16, <1>17, <1>18
  DEF Next, ChunkStep

(* Completing writes the right total, and what changes it is a late flush. *)
LEMMA CompletionCounts == CountInv /\ [Next]_vars => [CountsWhenCompleted]_vars
<1> SUFFICES ASSUME CountInv, Next, type # "INCLUDE_LINKS", status' = "COMPLETED",
                    <<status', progress'>> # <<status, progress>>
             PROVE  \/ progress'.processed = N
                    \/ LateFlush /\ progress'.processed = Cardinality(progress'.ids)
  BY DEF CountsWhenCompleted
<1>1. /\ TypeOK /\ Chain /\ Verdict /\ \A c \in Chunks : TallyOf(c) /\ FlightOf(c)
  BY DEF CountInv, IInv
<1>2. ASSUME NEW c \in Chunks, CompleteBulkJob(c) PROVE progress'.processed = N
  BY <1>1, <1>2 DEF CompleteBulkJob, WriteRow, TallyOf
<1>3. ASSUME NEW c \in Chunks, NEW p \in flying[c], LandFlush(c, p)
      PROVE  LateFlush /\ progress'.processed = Cardinality(progress'.ids)
  BY <1>1, <1>3 DEF LandFlush, WriteRow, FlightOf, Counted, LateFlush
<1>4. ASSUME NEW c \in Chunks, FinalFlush(c) PROVE FALSE
  <2>1. pc[c] = "flushing" /\ status = "COMPLETED"
    BY <1>4 DEF FinalFlush, WriteRow
  <2>2. c = chunks
    BY <1>1, <2>1, NewestRuns DEF Running
  <2> QED
    BY <1>1, <2>1, <2>2 DEF Verdict
<1>5. ASSUME NEW c \in Chunks,
             \/ MarkRunning(c) \/ Load(c) \/ RunBatch(c) \/ StartPool(c)
             \/ \E i \in Items, ok \in BOOLEAN : FinishItem(c, i, ok)
             \/ JoinPool(c) \/ \E p \in flying[c] : LoseFlush(c, p)
             \/ HandOff(c) \/ HandOffAnswered(c) \/ HandOffThrows(c)
             \/ RecordAudit(c) \/ DatabaseError(c) \/ FailBulkJob(c) \/ Die(c)
      PROVE  FALSE
  BY <1>5 DEF MarkRunning, Load, RunBatch, StartPool, FinishItem, JoinPool, LoseFlush,
     HandOff, HandOffAnswered, HandOffThrows, RecordAudit, DatabaseError, FailBulkJob,
     Die, WriteRow, rowVars
<1>6. ASSUME NEW r \in Readers, FindStale(r) \/ Reap(r) PROVE FALSE
  BY <1>6 DEF FindStale, Reap, WriteRow, rowVars
<1>7. CASE Tick
  BY <1>7 DEF Tick
<1> QED
  BY <1>2, <1>3, <1>4, <1>5, <1>6, <1>7 DEF Next, ChunkStep

(* A completed job's counter accounts for every resource once, across all  *)
(* its invocations, hand-offs, lost writes and late ones, unless failed    *)
(* links are added to the failures (completeBulkJob); only a flush still   *)
(* on its way can change it, to the right count of the items it lists.     *)
THEOREM CompletedIsCounted == Spec => CompletedCountsAll
<1>1. Init => CountInv
  <2> SUFFICES ASSUME Init PROVE CountInv
    OBVIOUS
  <2>1. Counted(NoProgress)
    BY FS_EmptySet DEF Counted, NoProgress
  <2>2. RowCounted /\ \A c \in Chunks : TallyOf(c) /\ FlightOf(c)
    BY <2>1 DEF Init, RowCounted, TallyOf, FlightOf
  <2> QED
    BY <2>2, InitIInv DEF CountInv
<1>2. CountInv /\ [Next]_vars => CountInv'
  <2>1. CountInv => IInv
    BY DEF CountInv
  <2>2. IInv /\ [Next]_vars => IInv'
    BY TypeStep, ChainStep, LedgerStep, VerdictStep, AuditStep DEF IInv
  <2> QED
    BY <2>1, <2>2, CountStep DEF CountInv
<1> QED
  BY <1>1, <1>2, CompletionCounts, PTL DEF Spec, CompletedCountsAll

=============================================================================
