---------------------------- MODULE JobContract ----------------------------
(***************************************************************************)
(* What one row of the BulkJob table promises to whoever reads it, however *)
(* many invocations, crashes and stale-job reapers had a hand in it:       *)
(*   - items are only ever added to the work done,                         *)
(*   - COMPLETED is written only once every item has been worked,          *)
(*   - a COMPLETED job never runs again.                                   *)
(* FAILED is a weak verdict: the code may write it at any time, over any   *)
(* status, and a job marked FAILED may still be running.                   *)
(***************************************************************************)
CONSTANT Items

VARIABLES status,    \* BulkJob.status
          worked     \* the items whose per-item function has settled

contractVars == <<status, worked>>

Statuses == {"PENDING", "RUNNING", "COMPLETED", "FAILED"}

Init ==
  /\ status = "PENDING"
  /\ worked = {}

(* An invocation marks the job and works on it. *)
Run ==
  /\ status # "COMPLETED"
  /\ status' = "RUNNING"
  /\ UNCHANGED worked

(* One item settles, or a batch write settles all of them at once. *)
Work ==
  /\ status # "COMPLETED"
  /\ \E settled \in SUBSET Items : worked' = worked \cup settled
  /\ UNCHANGED status

Complete ==
  /\ worked = Items
  /\ status' = "COMPLETED"
  /\ UNCHANGED worked

Fail ==
  /\ status' = "FAILED"
  /\ UNCHANGED worked

Next == Run \/ Work \/ Complete \/ Fail

Spec == Init /\ [][Next]_contractVars
=============================================================================
