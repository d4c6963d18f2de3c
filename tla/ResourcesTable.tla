--------------------------- MODULE ResourcesTable ---------------------------
(***************************************************************************)
(* The table of the Resources page in one browser tab: the selection, the  *)
(* bulk buttons, and the poller that follows a job to its end. The server  *)
(* side of a job is reduced to the statuses its row goes through, which is *)
(* what JobContract allows of it and BulkJob does.                         *)
(***************************************************************************)
EXTENDS Naturals, Sequences, FiniteSets, SequencesExt

CONSTANTS
  Rows,      \* resource ids
  Lists,     \* what a render may be given: [page, matching], two sets of rows
  MaxJobs,   \* bound: bulk jobs of the organization, in order of createdAt
  MaxCalls   \* bound: polls outstanding at a time (a slow server)

Jobs     == 1..MaxJobs
NoJob    == 0
Active   == {"PENDING", "RUNNING"}
Verdicts == {"COMPLETED", "FAILED"}

ASSUME ListsAssumption ==
  /\ MaxJobs \in Nat /\ MaxCalls \in Nat
  /\ Lists \subseteq [page : (SUBSET Rows) \ {{}}, matching : SUBSET Rows]
  /\ \A list \in Lists : list.page \subseteq list.matching

VARIABLES
  orderly,    \* frozen: answers keep their order and verdicts stay put
  status,     \* the server: each job's status, "none" before it is created
  finished,   \* history: the jobs that have been COMPLETED
  list,       \* the props resources and allResourceIds
  selected,   \* state: selected
  enqueuing,  \* state: isEnqueuing
  reply,      \* the server action under way: "none", "awaited" or its job
  shown,      \* state: activeJob, its id and status
  polling,    \* the job whose interval is running
  summary,    \* state: summary, the job whose result line is shown
  confirming, \* state: confirmDeleteOpen
  calls       \* fetches of /api/bulk-jobs/[jobId] under way, oldest first

table == <<list, selected, enqueuing, reply, shown, polling, summary, confirming>>
vars  == <<orderly, status, finished, table, calls>>

Call == [job : Jobs, answer : {"asked"} \cup Active \cup Verdicts]

TypeOK ==
  /\ orderly \in BOOLEAN
  /\ status \in [Jobs -> {"none"} \cup Active \cup Verdicts]
  /\ finished \in SUBSET Jobs
  /\ list \in Lists
  /\ selected \in SUBSET Rows
  /\ enqueuing \in BOOLEAN
  /\ reply \in [stage : {"none", "awaited", "created"}, job : Jobs \cup {NoJob}]
  /\ reply.stage = "created" => reply.job \in Jobs
  /\ shown \in [id : Jobs \cup {NoJob}, status : Active \cup Verdicts]
  /\ polling \in Jobs \cup {NoJob}
  /\ summary \in [id : Jobs \cup {NoJob}, status : Verdicts]
  /\ confirming \in BOOLEAN
  /\ calls \in Seq(Call)
  /\ Len(calls) <= MaxCalls

NoReply == [stage |-> "none", job |-> NoJob]

(* activeJob = null is NoJob, whose status is immaterial. *)
Shown(j, s) == [id |-> j, status |-> s]

NoSummary == Shown(NoJob, "COMPLETED")

JobRunning == shown.id # NoJob /\ shown.status \in Active

ButtonsDisabled == enqueuing \/ JobRunning

(* getMostRecentActiveJob. *)
NewestActive(j) ==
  IF \E i \in Jobs : status[i] \in Active
  THEN j # NoJob /\ status[j] \in Active /\ \A i \in Jobs : status[i] \in Active => i <= j
  ELSE j = NoJob

(* A new component: the state is back at its initial values, and nothing   *)
(* the old one was waiting for has any effect any more.                    *)
Mount(newList) ==
  /\ list' = newList
  /\ selected' = {}
  /\ enqueuing' = FALSE
  /\ reply' = NoReply
  /\ \E newest \in Jobs \cup {NoJob} :
       /\ NewestActive(newest)
       /\ shown' = IF newest = NoJob THEN Shown(NoJob, "COMPLETED")
                   ELSE Shown(newest, status[newest])
       /\ polling' = newest
  /\ summary' = NoSummary
  /\ confirming' = FALSE
  /\ calls' = << >>

Init ==
  /\ orderly \in BOOLEAN
  /\ status = [j \in Jobs |-> "none"]
  /\ finished = {}
  /\ list \in Lists
  /\ selected = {}
  /\ enqueuing = FALSE
  /\ reply = NoReply
  /\ shown = Shown(NoJob, "COMPLETED")
  /\ polling = NoJob
  /\ summary = NoSummary
  /\ confirming = FALSE
  /\ calls = << >>

-----------------------------------------------------------------------------
(* The server *)

(* A job is marked, completed or failed. Unless things are orderly a       *)
(* failed job may turn out to be alive, and a reader may fail a completed  *)
(* one; all that is certain is that a COMPLETED row does not turn RUNNING. *)
JobStep(j) ==
  /\ status[j] # "none"
  /\ orderly => status[j] \in Active
  /\ \E s \in {"RUNNING", "COMPLETED", "FAILED"} :
       /\ status[j] = "COMPLETED" => s = "FAILED"
       /\ status' = [status EXCEPT ![j] = s]
       /\ finished' = IF s = "COMPLETED" THEN finished \cup {j} ELSE finished
  /\ UNCHANGED <<orderly, table, calls>>

NextId(j) == status[j] = "none" /\ \A i \in Jobs : i < j => status[i] # "none"

(* Another tab enqueues a job, or a server action does whose tab has been  *)
(* reloaded meanwhile.                                                     *)
EnqueuedElsewhere(j) ==
  /\ NextId(j)
  /\ status' = [status EXCEPT ![j] = "PENDING"]
  /\ UNCHANGED <<orderly, finished, table, calls>>

(* enqueueBulkJob, called from this tab. *)
CreateBulkJob(j) ==
  /\ reply.stage = "awaited"
  /\ NextId(j)
  /\ status' = [status EXCEPT ![j] = "PENDING"]
  /\ reply' = [stage |-> "created", job |-> j]
  /\ UNCHANGED <<orderly, finished, list, selected, enqueuing, shown, polling,
                 summary, confirming, calls>>

-----------------------------------------------------------------------------
(* The user *)

Select(rows) ==
  /\ selected' = rows
  /\ UNCHANGED <<orderly, status, finished, list, enqueuing, reply, shown,
                 polling, summary, confirming, calls>>

ToggleOne(row) ==
  /\ row \in list.page
  /\ Select(IF row \in selected THEN selected \ {row} ELSE selected \cup {row})

ToggleAll == Select(IF list.page \subseteq selected THEN {} ELSE list.page)

(* Offered once the page is selected and the filter matches more. *)
SelectAllMatching ==
  /\ list.page \subseteq selected
  /\ ~(list.matching \subseteq selected)
  /\ Cardinality(list.matching) > Cardinality(list.page)
  /\ ~JobRunning
  /\ Select(list.matching)

(* What every bulk button ends up in. *)
RunBulkAction ==
  /\ selected # {}
  /\ summary' = NoSummary
  /\ enqueuing' = TRUE
  /\ reply' = [stage |-> "awaited", job |-> NoJob]
  /\ UNCHANGED <<orderly, status, finished, list, selected, shown, polling,
                 calls>>

(* The toolbar of a selection: Analyze, Approve, Reject, Find links and    *)
(* Include links do it at once...                                          *)
ClickBulkButton ==
  /\ ~ButtonsDisabled
  /\ RunBulkAction
  /\ UNCHANGED confirming

(* ... and Delete asks first. *)
HandleDelete ==
  /\ ~ButtonsDisabled
  /\ selected # {}
  /\ confirming' = TRUE
  /\ UNCHANGED <<orderly, status, finished, list, selected, enqueuing, reply,
                 shown, polling, summary, calls>>

(* The dialog's Delete looks at what is selected by now.                   *)
ConfirmDelete ==
  /\ confirming
  /\ confirming' = FALSE
  /\ \/ RunBulkAction
     \/ /\ selected = {}
        /\ UNCHANGED <<orderly, status, finished, list, selected, enqueuing,
                       reply, shown, polling, summary, calls>>

(* Cancel, Escape, or a click beside the dialog. *)
CancelDelete ==
  /\ confirming
  /\ confirming' = FALSE
  /\ UNCHANGED <<orderly, status, finished, list, selected, enqueuing, reply,
                 shown, polling, summary, calls>>

Dismiss ==
  /\ summary # NoSummary
  /\ summary' = NoSummary
  /\ UNCHANGED <<orderly, status, finished, list, selected, enqueuing, reply,
                 shown, polling, confirming, calls>>

(* A type tab, Previous or Next: <Link>s of the same page, so React keeps  *)
(* the component, whose props alone are new.                               *)
FollowLink(newList) ==
  /\ list' = newList
  /\ UNCHANGED <<orderly, status, finished, selected, enqueuing, reply, shown,
                 polling, summary, confirming, calls>>

(* The search, status, page size and go-to-page forms load the page anew,  *)
(* as does coming back from another page or from an empty list.            *)
Load(newList) ==
  /\ Mount(newList)
  /\ UNCHANGED <<orderly, status, finished>>

-----------------------------------------------------------------------------
(* The component *)

(* The server action's answer: the new job is shown, and the effect of its *)
(* id starts polling it.                                                   *)
EnqueueReturns ==
  /\ reply.stage = "created"
  /\ reply' = NoReply
  /\ enqueuing' = FALSE
  /\ shown' = Shown(reply.job, "PENDING")
  /\ polling' = reply.job
  /\ UNCHANGED <<orderly, status, finished, list, selected, summary, confirming,
                 calls>>

(* It throws (no slots left in the plan, a lost connection before or after *)
(* the job was created). There is no catch: isEnqueuing stays true.        *)
EnqueueThrows ==
  /\ reply.stage # "none"
  /\ reply' = NoReply
  /\ UNCHANGED <<orderly, status, finished, list, selected, enqueuing, shown,
                 polling, summary, confirming, calls>>

Poll ==
  /\ polling # NoJob
  /\ Len(calls) < MaxCalls
  /\ calls' = Append(calls, [job |-> polling, answer |-> "asked"])
  /\ UNCHANGED <<orderly, status, finished, table>>

(* The route reads the job's row. *)
Answer(k) ==
  /\ calls[k].answer = "asked"
  /\ orderly => \A i \in 1..(k - 1) : calls[i].answer # "asked"
  /\ calls' = [calls EXCEPT ![k].answer = status[calls[k].job]]
  /\ UNCHANGED <<orderly, status, finished, table>>

(* Slip: neither `cancelled` nor `prev.id === jobId` is looked at. *)
DeliverToAnyJob(k) ==
  LET answer == calls[k].answer IN
  /\ answer # "asked"
  /\ orderly => k = 1
  /\ calls' = RemoveAt(calls, k)
  /\ shown' = Shown(shown.id, answer)
  /\ IF answer \in Verdicts
     THEN polling' = NoJob /\ selected' = {}
     ELSE UNCHANGED <<polling, selected>>
  /\ UNCHANGED <<orderly, status, finished, list, enqueuing, reply, summary,
                 confirming>>

(* Slip: clears the interval after its first answer. *)
DeliverOnce(k) ==
  LET answer == calls[k].answer IN
  /\ answer # "asked"
  /\ orderly => k = 1
  /\ calls' = RemoveAt(calls, k)
  /\ IF calls[k].job = shown.id
     THEN shown' = Shown(shown.id, answer) /\ polling' = NoJob
     ELSE UNCHANGED <<shown, polling>>
  /\ UNCHANGED <<orderly, status, finished, list, selected, enqueuing, reply,
                 summary, confirming>>

(* An answer arrives. One for a job no longer shown was cancelled with its *)
(* effect; one with a verdict ends the interval, though not the polls that *)
(* are already on their way.                                               *)
Deliver(k) ==
  LET answer == calls[k].answer IN
  /\ answer # "asked"
  /\ orderly => k = 1
  /\ calls' = RemoveAt(calls, k)
  /\ IF calls[k].job = shown.id
     THEN /\ shown' = Shown(shown.id, answer)
          /\ IF answer \in Verdicts
             THEN /\ polling' = NoJob
                  /\ selected' = {}
                  /\ summary' = Shown(shown.id, answer)
             ELSE UNCHANGED <<polling, selected, summary>>
     ELSE UNCHANGED <<shown, polling, selected, summary>>
  /\ UNCHANGED <<orderly, status, finished, list, enqueuing, reply, confirming>>

(* The poll fails, or its answer is not ok. *)
LosePoll(k) ==
  /\ calls' = RemoveAt(calls, k)
  /\ UNCHANGED <<orderly, status, finished, table>>

-----------------------------------------------------------------------------
Next ==
  \/ \E j \in Jobs : JobStep(j) \/ EnqueuedElsewhere(j) \/ CreateBulkJob(j)
  \/ \E row \in Rows : ToggleOne(row)
  \/ ToggleAll \/ SelectAllMatching
  \/ ClickBulkButton \/ HandleDelete \/ ConfirmDelete \/ CancelDelete
  \/ Dismiss
  \/ \E newList \in Lists : FollowLink(newList) \/ Load(newList)
  \/ EnqueueReturns \/ EnqueueThrows \/ Poll
  \/ \E k \in 1..Len(calls) : Answer(k) \/ Deliver(k) \/ LosePoll(k)

Spec == Init /\ [][Next]_vars

(* The browser keeps polling, and polls that keep being sent are answered  *)
(* again and again, whatever is lost. The user need not do anything.       *)
FairSpec ==
  /\ Spec
  /\ WF_vars(Poll)
  /\ SF_vars(Len(calls) > 0 /\ Answer(1))
  /\ SF_vars(Len(calls) > 0 /\ Deliver(1))

-----------------------------------------------------------------------------
(* Properties *)

(* A table that says "completed" is right: the job it shows has completed, *)
(* whichever job an answer was about and however late it came (the         *)
(* `cancelled` flag and `prev.id === jobId`), and so is a result line that *)
(* still stands when the next job is under way. When things are orderly,   *)
(* so is a table that says "failed".                                       *)
ShownVerdictHolds ==
  \A told \in {shown, summary} :
    told.id # NoJob /\ told.status \in Verdicts =>
      /\ told.status = "COMPLETED" => told.id \in finished
      /\ orderly => status[told.id] = told.status

(* The progress bar of a job that has its verdict goes away in the end,    *)
(* without a reload and whatever polls are lost.                           *)
ProgressBarEnds ==
  \A j \in Jobs :
    (orderly /\ JobRunning /\ shown.id = j /\ status[j] \in Verdicts)
      ~> ~(JobRunning /\ shown.id = j)

(* What the component's comment says: the selection resets whenever the    *)
(* list of resources changes, so a bulk action never has rows the current  *)
(* filter does not list.                                                   *)
SelectionIsListed == selected \subseteq list.matching
=============================================================================
