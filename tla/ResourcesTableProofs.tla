------------------------ MODULE ResourcesTableProofs ------------------------
(***************************************************************************)
(* A verdict on the screen is the job's own, for every number of rows,     *)
(* jobs and polls under way, whatever is lost, late or out of order.       *)
(***************************************************************************)
EXTENDS ResourcesTable, ListLemmas

(* What a job is said to be it has been, and still is when things are      *)
(* orderly.                                                                *)
Holds(j, s) ==
  s \in Verdicts => /\ s = "COMPLETED" => j \in finished
                    /\ orderly => status[j] = s

(* The row itself, each answer that is on its way, and what is displayed.  *)
RowsHold  == \A j \in Jobs : status[j] = "COMPLETED" => j \in finished
CallsHold == \A k \in 1..Len(calls) : Holds(calls[k].job, calls[k].answer)
ShownHolds == /\ shown.id # NoJob => Holds(shown.id, shown.status)
              /\ summary.id # NoJob => Holds(summary.id, summary.status)

(* Only jobs that exist are asked about.                                   *)
Known ==
  /\ polling # NoJob => status[polling] # "none"
  /\ reply.stage = "created" => status[reply.job] # "none"
  /\ \A k \in 1..Len(calls) : status[calls[k].job] # "none"

TableInv == TypeOK /\ Known /\ RowsHold /\ CallsHold /\ ShownHolds

-----------------------------------------------------------------------------

(* A call that is taken out leaves the others: none is new.                *)
LEMMA OneGone ==
  ASSUME calls \in Seq(Call), NEW k \in 1..Len(calls), calls' = RemoveAt(calls, k)
  PROVE  \A i \in 1..Len(calls') : \E h \in 1..Len(calls) : calls'[i] = calls[h]
  <1>1. /\ Len(RemoveAt(calls, k)) = Len(calls) - 1
        /\ \A i \in 1..Len(RemoveAt(calls, k)) : \E h \in 1..Len(calls) : RemoveAt(calls, k)[i] = calls[h]
    BY OneLess
  <1> QED
    BY <1>1, Zenon

(* A verdict outlives every step of the server: COMPLETED leaves a trace,  *)
(* and stays put when things are orderly.                                  *)
Lasting ==
  /\ orderly' = orderly
  /\ finished \subseteq finished'
  /\ orderly => \A j \in Jobs : status[j] \in Verdicts => status'[j] = status[j]

(* A verdict that holds of a job goes on holding while the server moves.   *)
LEMMA HoldsOn ==
  ASSUME Lasting, NEW j \in Jobs, NEW s, Holds(j, s)
  PROVE  Holds(j, s)'
  BY DEF Lasting, Holds

(* What is on its way stays true if each call is one there was.            *)
LEMMA CallsHoldOn ==
  ASSUME TableInv, Lasting,
         \A i \in 1..Len(calls') : \E h \in 1..Len(calls) : calls'[i] = calls[h]
  PROVE  CallsHold'
  <1> SUFFICES ASSUME NEW i \in 1..Len(calls')
               PROVE  Holds(calls[i].job, calls[i].answer)'
    BY DEF CallsHold
  <1>1. PICK h \in 1..Len(calls) : calls'[i] = calls[h]
    OBVIOUS
  <1>2. PICK j \in Jobs, s \in {"asked"} \cup Active \cup Verdicts :
          j = calls[h].job /\ s = calls[h].answer
    <2>1. calls[h] \in Call
      BY DEF TableInv, TypeOK
    <2> QED
      BY <2>1 DEF Call
  <1>3. Holds(j, s)
    BY <1>2 DEF TableInv, CallsHold
  <1>4. Holds(j, s)'
    BY <1>3, HoldsOn
  <1>5. calls'[i].job = j /\ calls'[i].answer = s
    BY <1>1, <1>2
  <1> QED
    BY <1>4, <1>5 DEF Holds

(* What is displayed stays true while the display does not change, or the  *)
(* summary is cleared.                                                     *)
LEMMA ShownHoldsOn ==
  ASSUME TableInv, Lasting, shown' = shown, summary' = summary \/ summary' = NoSummary
  PROVE  ShownHolds'
  BY HoldsOn DEF TableInv, TypeOK, ShownHolds, NoSummary, Shown, Holds, Lasting

-----------------------------------------------------------------------------

(* Every step of the table and the server keeps the types; an answer is    *)
(* one of the job's statuses because only existing jobs are asked about.   *)
LEMMA TypeStep == TypeOK /\ Known /\ [Next]_vars => TypeOK'
  <1> SUFFICES ASSUME TypeOK, Known, [Next]_vars PROVE TypeOK'
    OBVIOUS
  <1> USE DEF TypeOK
  <1>1. ASSUME NEW j \in Jobs, JobStep(j) PROVE TypeOK'
    BY <1>1 DEF JobStep, table, Active, Verdicts
  <1>2. ASSUME NEW j \in Jobs, EnqueuedElsewhere(j) PROVE TypeOK'
    BY <1>2 DEF EnqueuedElsewhere, table, Active
  <1>3. ASSUME NEW j \in Jobs, CreateBulkJob(j) PROVE TypeOK'
    BY <1>3 DEF CreateBulkJob, Active
  <1>4. ASSUME NEW rows \in SUBSET Rows, Select(rows) PROVE TypeOK'
    BY <1>4 DEF Select
  <1>5. ASSUME \/ \E row \in Rows : ToggleOne(row)
               \/ ToggleAll \/ SelectAllMatching
        PROVE  TypeOK'
    BY <1>4, <1>5, ListsAssumption DEF ToggleOne, ToggleAll, SelectAllMatching
  <1>6. ASSUME RunBulkAction, confirming' \in BOOLEAN PROVE TypeOK'
    BY <1>6 DEF RunBulkAction, NoSummary, Shown, Verdicts
  <1>7. CASE ClickBulkButton \/ HandleDelete \/ ConfirmDelete \/ CancelDelete
    BY <1>6, <1>7 DEF ClickBulkButton, HandleDelete, ConfirmDelete, CancelDelete
  <1>8. CASE Dismiss
    BY <1>8 DEF Dismiss, NoSummary, Shown, Verdicts
  <1>9. ASSUME NEW newList \in Lists, FollowLink(newList) PROVE TypeOK'
    BY <1>9 DEF FollowLink
  <1>10. ASSUME NEW newList \in Lists, Load(newList) PROVE TypeOK'
    <2>1. /\ shown' \in [id : Jobs \cup {NoJob}, status : Active \cup Verdicts]
          /\ polling' \in Jobs \cup {NoJob}
      BY <1>10 DEF Load, Mount, Shown, NewestActive, Verdicts
    <2>2. calls' \in Seq(Call) /\ Len(calls') <= MaxCalls
      BY <1>10, ListsAssumption DEF Load, Mount
    <2> QED
      BY <1>10, <2>1, <2>2 DEF Load, Mount, NoReply, NoSummary, Shown, Verdicts
  <1>11. CASE EnqueueReturns
    <2>1. reply.job \in Jobs
      BY <1>11 DEF EnqueueReturns
    <2> QED
      BY <1>11, <2>1 DEF EnqueueReturns, NoReply, Shown, Active
  <1>12. CASE EnqueueThrows
    BY <1>12 DEF EnqueueThrows, NoReply
  <1>13. CASE Poll
    BY <1>13, ListsAssumption DEF Poll, table, Call
  <1>14. ASSUME NEW k \in 1..Len(calls), Answer(k) PROVE TypeOK'
    <2>0. calls[k] \in Call /\ status[calls[k].job] # "none"
      BY DEF Known
    <2>1. [calls[k] EXCEPT !.answer = status[calls[k].job]] \in Call
      BY <2>0 DEF Call
    <2>2. calls' \in Seq(Call) /\ Len(calls') = Len(calls)
      BY <1>14, <2>1 DEF Answer
    <2> QED
      BY <1>14, <2>2 DEF Answer, table
  <1>15. ASSUME NEW k \in 1..Len(calls), calls' = RemoveAt(calls, k)
         PROVE  calls' \in Seq(Call) /\ Len(calls') <= MaxCalls
    <2>1. RemoveAt(calls, k) \in Seq(Call) /\ Len(RemoveAt(calls, k)) = Len(calls) - 1
      BY OneLess
    <2> QED
      BY <1>15, <2>1, ListsAssumption
  <1>16. ASSUME NEW k \in 1..Len(calls), Deliver(k) PROVE TypeOK'
    <2>0. calls[k] \in Call
      OBVIOUS
    <2>1. calls[k].answer # "asked" => calls[k].answer \in Active \cup Verdicts
      BY <2>0 DEF Call
    <2> QED
      BY <1>15, <1>16, <2>1 DEF Deliver, Shown
  <1>17. ASSUME NEW k \in 1..Len(calls), LosePoll(k) PROVE TypeOK'
    BY <1>15, <1>17 DEF LosePoll, table
  <1>18. CASE UNCHANGED vars
    BY <1>18 DEF vars, table
  <1> QED
    BY <1>1, <1>2, <1>3, <1>5, <1>7, <1>8, <1>9, <1>10, <1>11, <1>12, <1>13, <1>14,
       <1>16, <1>17, <1>18 DEF Next


-----------------------------------------------------------------------------

(* No step makes the table wait for, or ask about, a job that was never    *)
(* enqueued.                                                               *)
LEMMA KnownStep == TypeOK /\ Known /\ [Next]_vars => Known'
  <1> SUFFICES ASSUME TypeOK, Known, [Next]_vars PROVE Known'
    OBVIOUS
  <1>13. TypeOK'
    BY TypeStep
  <1> DEFINE Lives == \A j \in Jobs : status[j] # "none" => status'[j] # "none"
             CallsLive == \A k \in 1..Len(calls') : status'[calls'[k].job] # "none"
  <1>14. ASSUME Lives, UNCHANGED calls PROVE CallsLive
    <2> SUFFICES ASSUME NEW k \in 1..Len(calls) PROVE status'[calls[k].job] # "none"
      BY <1>14
    <2>1. calls[k] \in Call
      BY DEF TypeOK
    <2> QED
      BY <1>14, <2>1 DEF Known, Call
  <1>15. ASSUME Lives, UNCHANGED <<polling, reply, calls>> PROVE Known'
    <2>1. polling \in Jobs \cup {NoJob} /\ (reply.stage = "created" => reply.job \in Jobs)
      BY DEF TypeOK
    <2> QED
      BY <1>14, <1>15, <2>1 DEF Known
  <1>1. ASSUME NEW j \in Jobs, JobStep(j) PROVE Known'
    <2>1. Lives
      BY <1>1 DEF JobStep, TypeOK
    <2> QED
      BY <1>1, <1>15, <2>1 DEF JobStep, table
  <1>2. ASSUME NEW j \in Jobs, EnqueuedElsewhere(j) PROVE Known'
    <2>1. Lives
      BY <1>2 DEF EnqueuedElsewhere, TypeOK
    <2> QED
      BY <1>2, <1>15, <2>1 DEF EnqueuedElsewhere, table
  <1>3. ASSUME NEW j \in Jobs, CreateBulkJob(j) PROVE Known'
    <2>1. Lives /\ status'[j] # "none"
      BY <1>3 DEF CreateBulkJob, TypeOK
    <2>2. polling \in Jobs \cup {NoJob}
      BY DEF TypeOK
    <2> QED
      BY <1>3, <1>14, <2>1, <2>2 DEF CreateBulkJob, Known
  <1>4. CASE \/ \E row \in Rows : ToggleOne(row)
             \/ ToggleAll \/ SelectAllMatching
             \/ HandleDelete \/ CancelDelete \/ Dismiss
             \/ \E newList \in Lists : FollowLink(newList)
    BY <1>4, <1>15 DEF ToggleOne, ToggleAll, SelectAllMatching, Select, HandleDelete,
       CancelDelete, Dismiss, FollowLink
  <1>5. ASSUME RunBulkAction PROVE Known'
    BY <1>5 DEF RunBulkAction, Known
  <1>6. CASE ClickBulkButton \/ ConfirmDelete
    BY <1>5, <1>6, <1>15 DEF ClickBulkButton, ConfirmDelete
  <1>7. ASSUME NEW newList \in Lists, Load(newList) PROVE Known'
    BY <1>7 DEF Load, Mount, NewestActive, NoReply, NoJob, Active, Known
  <1>8. CASE EnqueueReturns \/ EnqueueThrows
    BY <1>8 DEF EnqueueReturns, EnqueueThrows, NoReply, Known
  <1>9. CASE Poll
    <2>1. calls \in Seq(Call) /\ polling \in Jobs
      BY <1>9 DEF Poll, TypeOK
    <2>2. \A k \in 1..Len(calls') : calls'[k].job = polling \/ \E h \in 1..Len(calls) : calls'[k] = calls[h]
      BY <1>9, <2>1 DEF Poll
    <2> QED
      BY <1>9, <2>2 DEF Poll, Known, table
  <1>10. ASSUME NEW k \in 1..Len(calls), Answer(k) PROVE Known'
    <2>1. \A i \in 1..Len(calls') : i \in 1..Len(calls) /\ calls'[i].job = calls[i].job
      BY <1>10 DEF Answer, TypeOK
    <2> QED
      BY <1>10, <2>1 DEF Answer, table, Known
  <1>11. ASSUME NEW k \in 1..Len(calls), Deliver(k) \/ LosePoll(k) PROVE Known'
    <2>1. \A i \in 1..Len(calls') : \E h \in 1..Len(calls) : calls'[i] = calls[h]
      BY <1>11, OneGone DEF Deliver, LosePoll, TypeOK
    <2> QED
      BY <1>11, <2>1 DEF Deliver, LosePoll, table, Known, NoJob
  <1>12. CASE UNCHANGED vars
    BY <1>12, <1>15 DEF vars, table
  <1> QED
    BY <1>1, <1>2, <1>3, <1>4, <1>6, <1>7, <1>8, <1>9, <1>10, <1>11, <1>12 DEF Next


-----------------------------------------------------------------------------

(* The page as it is first rendered, with no job yet displayed.            *)
LEMMA InitHolds == Init => TableInv
  <1> SUFFICES ASSUME Init PROVE TableInv
    OBVIOUS
  <1>1. TypeOK
    <2>1. calls \in Seq(Call) /\ Len(calls) <= MaxCalls
      BY ListsAssumption DEF Init
    <2> QED
      BY <2>1 DEF Init, TypeOK, NoReply, NoSummary, Shown, Verdicts
  <1>2. Known /\ RowsHold /\ CallsHold /\ ShownHolds
    BY DEF Init, Known, RowsHold, CallsHold, ShownHolds, NoReply, NoSummary, Shown
  <1> QED
    BY <1>1, <1>2 DEF TableInv

(* The server's steps: the row's, whoever set it going.                    *)
LEMMA ServerStep ==
  ASSUME TableInv,
         NEW j \in Jobs, JobStep(j) \/ EnqueuedElsewhere(j) \/ CreateBulkJob(j)
  PROVE  Lasting /\ RowsHold' /\ CallsHold' /\ ShownHolds'
  <1>1. Lasting /\ RowsHold'
    <2>1. status \in [Jobs -> {"none"} \cup Active \cup Verdicts] /\ finished \subseteq Jobs
      BY DEF TableInv, TypeOK
    <2>2. CASE JobStep(j)
      <3>1. PICK s \in {"RUNNING", "COMPLETED", "FAILED"} :
              /\ status' = [status EXCEPT ![j] = s]
              /\ finished' = IF s = "COMPLETED" THEN finished \cup {j} ELSE finished
        BY <2>2 DEF JobStep
      <3> QED
        BY <2>1, <2>2, <3>1 DEF JobStep, Lasting, TableInv, RowsHold, Active, Verdicts
    <2>3. CASE EnqueuedElsewhere(j) \/ CreateBulkJob(j)
      BY <2>1, <2>3 DEF EnqueuedElsewhere, CreateBulkJob, NextId, Lasting, TableInv, RowsHold,
         Verdicts
    <2> QED
      BY <2>2, <2>3
  <1>2. UNCHANGED <<calls, shown, summary>>
    BY DEF JobStep, EnqueuedElsewhere, CreateBulkJob, table
  <1> QED
    BY <1>1, <1>2, CallsHoldOn, ShownHoldsOn

(* A step that leaves the server as it was.                                *)
LEMMA Untouched ==
  ASSUME TableInv, UNCHANGED <<orderly, status, finished>>
  PROVE  Lasting /\ RowsHold'
  BY DEF Lasting, TableInv, RowsHold

(* Every step keeps each verdict true: on the row, on its way and on the   *)
(* screen.                                                                 *)
LEMMA HoldStep == TableInv /\ [Next]_vars => RowsHold' /\ CallsHold' /\ ShownHolds'
  <1> SUFFICES ASSUME TableInv, [Next]_vars PROVE RowsHold' /\ CallsHold' /\ ShownHolds'
    OBVIOUS
  <1>1. ASSUME NEW j \in Jobs, JobStep(j) \/ EnqueuedElsewhere(j) \/ CreateBulkJob(j)
        PROVE  RowsHold' /\ CallsHold' /\ ShownHolds'
    BY <1>1, ServerStep
  <1>2. ASSUME UNCHANGED <<orderly, status, finished, shown, calls>>,
               summary' = summary \/ summary' = NoSummary
        PROVE  RowsHold' /\ CallsHold' /\ ShownHolds'
    BY <1>2, Untouched, CallsHoldOn, ShownHoldsOn
  <1>3. CASE \/ \E row \in Rows : ToggleOne(row)
             \/ ToggleAll \/ SelectAllMatching
             \/ HandleDelete \/ CancelDelete \/ Dismiss
             \/ \E newList \in Lists : FollowLink(newList)
             \/ EnqueueThrows \/ UNCHANGED vars
    BY <1>2, <1>3 DEF ToggleOne, ToggleAll, SelectAllMatching, Select, HandleDelete,
       CancelDelete, Dismiss, FollowLink, EnqueueThrows, vars, table
  <1>4. CASE ClickBulkButton \/ ConfirmDelete
    BY <1>2, <1>4 DEF ClickBulkButton, ConfirmDelete, RunBulkAction
  <1>5. ASSUME NEW newList \in Lists, Load(newList)
        PROVE  RowsHold' /\ CallsHold' /\ ShownHolds'
    <2>1. PICK newest \in Jobs \cup {NoJob} :
            /\ NewestActive(newest)
            /\ shown' = IF newest = NoJob THEN Shown(NoJob, "COMPLETED")
                        ELSE Shown(newest, status[newest])
      BY <1>5 DEF Load, Mount
    <2>2. shown'.id # NoJob => shown'.status \in Active
      BY <2>1 DEF Shown, NewestActive
    <2> QED
      BY <1>5, <2>2, Untouched
      DEF Load, Mount, CallsHold, ShownHolds, NoSummary, Shown, Holds, Active, Verdicts
  <1>6. CASE EnqueueReturns
    <2>1. Lasting /\ RowsHold' /\ CallsHold'
      BY <1>6, Untouched, CallsHoldOn DEF EnqueueReturns
    <2> QED
      BY <1>6, <2>1, HoldsOn
      DEF EnqueueReturns, TableInv, TypeOK, ShownHolds, Shown, Holds, Verdicts, Lasting
  <1>7. CASE Poll
    <2>1. Lasting /\ RowsHold' /\ ShownHolds'
      BY <1>7, Untouched, ShownHoldsOn DEF Poll, table
    <2>2. \A i \in 1..Len(calls') : \/ calls'[i].answer = "asked"
                                    \/ i \in 1..Len(calls) /\ calls'[i] = calls[i]
      BY <1>7 DEF Poll, TableInv, TypeOK
    <2>3. UNCHANGED <<orderly, status, finished>>
      BY <1>7 DEF Poll, table
    <2>4. ASSUME NEW i \in 1..Len(calls')
          PROVE  Holds(calls[i].job, calls[i].answer)'
      <3>1. CASE calls'[i].answer = "asked"
        BY <3>1 DEF Holds, Verdicts
      <3>2. CASE i \in 1..Len(calls) /\ calls'[i] = calls[i]
        <4>1. Holds(calls[i].job, calls[i].answer)
          BY <3>2 DEF TableInv, CallsHold
        <4> QED
          BY <2>3, <3>2, <4>1 DEF Holds
      <3> QED
        BY <2>2, <3>1, <3>2
    <2> QED
      BY <2>1, <2>4 DEF CallsHold
  <1>8. ASSUME NEW k \in 1..Len(calls), Answer(k)
        PROVE  RowsHold' /\ CallsHold' /\ ShownHolds'
    <2>1. Lasting /\ RowsHold' /\ ShownHolds'
      BY <1>8, Untouched, ShownHoldsOn DEF Answer, table
    <2>2. calls[k].job \in Jobs
      <3>1. calls[k] \in Call
        BY DEF TableInv, TypeOK
      <3> QED
        BY <3>1 DEF Call
    <2>3. Holds(calls[k].job, status[calls[k].job])
      BY <2>2 DEF TableInv, RowsHold, Holds
    <2>4. \A i \in 1..Len(calls') :
            \/ i \in 1..Len(calls) /\ calls'[i] = calls[i]
            \/ calls'[i].job = calls[k].job /\ calls'[i].answer = status[calls[k].job]
      BY <1>8 DEF Answer, TableInv, TypeOK, Call
    <2> QED
      BY <1>8, <2>1, <2>3, <2>4 DEF Answer, table, TableInv, CallsHold, Holds
  <1>9. ASSUME NEW k \in 1..Len(calls), Deliver(k)
        PROVE  RowsHold' /\ CallsHold' /\ ShownHolds'
    <2>1. Lasting /\ RowsHold'
      BY <1>9, Untouched DEF Deliver
    <2>2. CallsHold'
      BY <1>9, <2>1, OneGone, CallsHoldOn DEF Deliver, TableInv, TypeOK
    <2>3. Holds(calls[k].job, calls[k].answer)
      BY DEF TableInv, CallsHold
    <2> QED
      BY <1>9, <2>1, <2>2, <2>3
      DEF Deliver, TableInv, ShownHolds, Shown, Holds, Lasting
  <1>10. ASSUME NEW k \in 1..Len(calls), LosePoll(k)
         PROVE  RowsHold' /\ CallsHold' /\ ShownHolds'
    <2>1. Lasting /\ RowsHold' /\ ShownHolds'
      BY <1>10, Untouched, ShownHoldsOn DEF LosePoll, table
    <2> QED
      BY <1>10, <2>1, OneGone, CallsHoldOn DEF LosePoll, TableInv, TypeOK
  <1> QED
    BY <1>1, <1>3, <1>4, <1>5, <1>6, <1>7, <1>8, <1>9, <1>10 DEF Next

(* The inductive invariant.                                                *)
THEOREM TableInvariance == Spec => []TableInv
  <1>1. TableInv /\ [Next]_vars => TableInv'
    BY TypeStep, KnownStep, HoldStep DEF TableInv
  <1> QED
    BY InitHolds, <1>1, PTL DEF Spec

(* A table that says "completed" or "failed" is right                      *)
(* (ResourcesTable.tsx:130), however many jobs, rows and polls there are.  *)
THEOREM VerdictHolds == Spec => []ShownVerdictHolds
  <1>1. TableInv => ShownVerdictHolds
    BY DEF TableInv, ShownHolds, ShownVerdictHolds, Holds
  <1> QED
    BY <1>1, TableInvariance, PTL

=============================================================================
