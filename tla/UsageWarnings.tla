--------------------------- MODULE UsageWarnings ---------------------------
(***************************************************************************)
(* The daily run that mails each organization's owner when 75% and 90% of  *)
(* the month's questions are used. A run reads all organizations at once   *)
(* and goes through them one by one: mail, then record. It may throw at    *)
(* any mail or write, which leaves the rest for the next day. One day's    *)
(* run has ended (maxDuration, 60 s) when the next begins.                 *)
(***************************************************************************)
EXTENDS Naturals

CONSTANTS Organizations,
          Periods         \* months, 1 to a bound

Thresholds == {75, 90}

VARIABLES
  period,    \* the month
  used,      \* percent of each organization's questions used: 0, 75 or 90, or above
  hasOwner,  \* frozen: does each organization have an owner to write to?
  sentAt,    \* usageWarning75SentAt and usageWarning90SentAt, as months; 0: never
  run,       \* the run under way
  mails,     \* history: mails of each threshold, by the month they are about
  owed       \* history: those that no record was made of

usageVars == <<period, used, hasOwner, sentAt, run, mails, owed>>

Idle == [at |-> "no"]

UsageTypeOK ==
  /\ period \in Periods
  /\ used \in [Organizations -> {0} \cup Thresholds]
  /\ hasOwner \in [Organizations -> BOOLEAN]
  /\ sentAt \in [Organizations -> [Thresholds -> {0} \cup Periods]]
  /\ mails \in [Organizations -> [Thresholds -> [Periods -> Nat]]]
  /\ owed \in [Organizations -> [Thresholds -> [Periods -> Nat]]]

None == [o \in Organizations |-> [t \in Thresholds |-> [p \in Periods |-> 0]]]

UsageInit ==
  /\ period = 1
  /\ used = [o \in Organizations |-> 0]
  /\ hasOwner \in [Organizations -> BOOLEAN]
  /\ sentAt = [o \in Organizations |-> [t \in Thresholds |-> 0]]
  /\ run = Idle
  /\ mails = None /\ owed = None

-----------------------------------------------------------------------------

Ask(o) ==
  /\ used[o] < 90
  /\ used' = [used EXCEPT ![o] = IF @ = 0 THEN 75 ELSE 90]
  /\ UNCHANGED <<period, hasOwner, sentAt, run, mails, owed>>

NextMonth ==
  /\ period + 1 \in Periods
  /\ period' = period + 1
  /\ used' = [o \in Organizations |-> 0]
  /\ UNCHANGED <<hasOwner, sentAt, run, mails, owed>>

StartRun ==
  /\ run = Idle
  /\ run' = [at |-> "checking", left |-> Organizations, seen |-> sentAt]
  /\ UNCHANGED <<period, used, hasOwner, sentAt, mails, owed>>

(* What is due to o: the usage as it is now, against the rows as the run   *)
(* read them. What is over 90 the month it passes 75 has its 75 the next   *)
(* time.                                                                   *)
Due(o) == {t \in Thresholds : used[o] >= t /\ run.seen[o][t] < period}

Threshold(o) == IF 90 \in Due(o) THEN 90 ELSE 75

CheckOrganizationUsage(o) ==
  /\ run.at = "checking" /\ o \in run.left
  /\ run' = IF Due(o) # {} /\ hasOwner[o]
            THEN [at |-> "mailing", left |-> run.left \ {o}, seen |-> run.seen,
                  of |-> o, threshold |-> Threshold(o), month |-> period]
            ELSE [run EXCEPT !.left = @ \ {o}]
  /\ UNCHANGED <<period, used, hasOwner, sentAt, mails, owed>>

SendEmail ==
  /\ run.at = "mailing"
  /\ run' = [run EXCEPT !.at = "recording"]
  /\ mails' = [mails EXCEPT ![run.of][run.threshold][run.month] = @ + 1]
  /\ UNCHANGED <<period, used, hasOwner, sentAt, owed>>

Checking == [at |-> "checking", left |-> run.left, seen |-> run.seen]

(* Slip: one column for both thresholds. *)
RecordUsageWarning75Sent ==
  /\ run.at = "recording"
  /\ sentAt' = [sentAt EXCEPT ![run.of][75] = period]
  /\ run' = Checking
  /\ UNCHANGED <<period, used, hasOwner, mails, owed>>

RecordUsageWarningSent ==
  /\ run.at = "recording"
  /\ sentAt' = [sentAt EXCEPT ![run.of][run.threshold] = period]
  /\ run' = Checking
  /\ UNCHANGED <<period, used, hasOwner, mails, owed>>

EndRun ==
  /\ run.at = "checking" /\ run.left = {}
  /\ run' = Idle
  /\ UNCHANGED <<period, used, hasOwner, sentAt, mails, owed>>

(* Nothing is caught: the loop ends with the call that throws. *)
RunThrows ==
  /\ run.at \in {"checking", "mailing"}
  /\ run' = Idle
  /\ UNCHANGED <<period, used, hasOwner, sentAt, mails, owed>>

RecordThrows ==
  /\ run.at = "recording"
  /\ owed = None  \* bound: once
  /\ owed' = [owed EXCEPT ![run.of][run.threshold][run.month] = @ + 1]
  /\ run' = Idle
  /\ UNCHANGED <<period, used, hasOwner, sentAt, mails>>

UsageNext ==
  \/ NextMonth \/ StartRun \/ SendEmail \/ RecordUsageWarningSent
  \/ EndRun \/ RunThrows \/ RecordThrows
  \/ \E o \in Organizations : Ask(o) \/ CheckOrganizationUsage(o)

-----------------------------------------------------------------------------

(* "each org's 75%/90% threshold email fires at most once per billing      *)
(* period regardless of how often this runs" (cron/usage-warnings/route.ts:10), *)
(* and once more for each run that was cut before it recorded one.         *)
EachThresholdOnce ==
  \A o \in Organizations, t \in Thresholds, p \in Periods :
    mails[o][t][p] <= 1 + owed[o][t][p]

=============================================================================
