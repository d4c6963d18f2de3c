------------------------------ MODULE RateLimit ------------------------------
(***************************************************************************)
(* The sliding-window limiter in one server process: a bucket of           *)
(* timestamps per key, each caller naming the limit and the window of its  *)
(* key, and a sweep that any caller may set off, with its own window.      *)
(***************************************************************************)
EXTENDS Naturals, Sequences, Selection

CONSTANTS Keys, Limit, WindowOf,  \* the callers' keys, with their limits and windows
          SweepInterval,
          MaxTime                 \* bound on the clock

VARIABLES
  now, lastSweep,
  buckets,   \* the timestamps kept for each key; <<>>: no bucket
  admitted,  \* history: when each key was let through, while it matters
  forgotten  \* history: of these, those whose timestamps were dropped

rateVars == <<now, lastSweep, buckets, admitted, forgotten>>

Times == 0..MaxTime

RateTypeOK ==
  /\ now \in Times /\ lastSweep \in Times
  /\ buckets \in [Keys -> Seq(Times)]
  /\ admitted \in [Keys -> Seq(Times)]
  /\ forgotten \in [Keys -> Seq(Times)]

RateInit ==
  /\ now = 0 /\ lastSweep = 0
  /\ buckets = [k \in Keys |-> <<>>]
  /\ admitted = [k \in Keys |-> <<>>]
  /\ forgotten = [k \in Keys |-> <<>>]

Within(window, timestamps) == Where(timestamps, {t \in Times : now - t < window})
Beyond(window, timestamps) == Where(timestamps, {t \in Times : now - t >= window})

Tick ==
  /\ now < MaxTime
  /\ now' = now + 1
  /\ admitted' = [k \in Keys |-> Within(WindowOf[k], admitted[k])]
  /\ forgotten' = [k \in Keys |-> Within(WindowOf[k], forgotten[k])]
  /\ UNCHANGED <<lastSweep, buckets>>

(* sweepStaleBuckets, for a caller with this window: the buckets after it. *)
Swept(window) ==
  IF now - lastSweep < SweepInterval THEN buckets
  ELSE [k \in Keys |-> Within(window, buckets[k])]

(* What a sweep drops although its own key's window still counts it. *)
Lost(window) ==
  [k \in Keys |->
     IF now - lastSweep < SweepInterval THEN <<>>
     ELSE Within(WindowOf[k], Beyond(window, buckets[k]))]

Remember(window) ==
  /\ lastSweep' = IF now - lastSweep < SweepInterval THEN lastSweep ELSE now
  /\ forgotten' = [k \in Keys |-> Within(WindowOf[k], forgotten[k]) \o Lost(window)[k]]

(* Slip: refuses only what is beyond the limit already. *)
AdmitsOneMore(k, timestamps) == Len(timestamps) <= Limit[k]

Admits(k, timestamps) == Len(timestamps) < Limit[k]

CheckRateLimit(k) ==
  LET timestamps == Within(WindowOf[k], Swept(WindowOf[k])[k])
  IN /\ Remember(WindowOf[k])
     /\ IF Admits(k, timestamps)
        THEN /\ buckets' = [Swept(WindowOf[k]) EXCEPT ![k] = Append(timestamps, now)]
             /\ admitted' = [admitted EXCEPT ![k] = Append(Within(WindowOf[k], @), now)]
        ELSE /\ buckets' = [Swept(WindowOf[k]) EXCEPT ![k] = timestamps]
             /\ UNCHANGED admitted
     /\ UNCHANGED now

(* The process is replaced: the map is gone. Bound: not while requests that *)
(* were forgotten before still matter.                                     *)
Restart ==
  /\ \A k \in Keys : Within(WindowOf[k], forgotten[k]) = <<>>
  /\ buckets' = [k \in Keys |-> <<>>]
  /\ lastSweep' = now
  /\ forgotten' = [k \in Keys |-> Within(WindowOf[k], buckets[k])]
  /\ UNCHANGED <<now, admitted>>

RateNext == Tick \/ Restart \/ \E k \in Keys : CheckRateLimit(k)

-----------------------------------------------------------------------------

(* In no window is a key let through more often than its limit, and as     *)
(* often again as requests of that window have been forgotten: by a        *)
(* restart, or by a sweep with a shorter window, although it "drops        *)
(* buckets with no timestamps inside any plausible window"                 *)
(* (rate-limit.ts:13).                                                     *)
LimitHolds ==
  \A k \in Keys :
    Len(Within(WindowOf[k], admitted[k]))
      <= Limit[k] + Len(Within(WindowOf[k], forgotten[k]))

=============================================================================
