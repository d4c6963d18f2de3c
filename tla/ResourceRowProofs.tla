------------------------- MODULE ResourceRowProofs -------------------------
(***************************************************************************)
(* What holds of one resource whatever the names, however many flows.      *)
(***************************************************************************)
EXTENDS ResourceRow, TLAPS

(* What a flow holds before it has read anything. *)
LEMMA UnreadType ==
  /\ NoDocument \in Documents /\ NoDocument.line = Nobody
  /\ Unread \in Readings /\ Unread.speaker = Nobody /\ Unread.document.line = Nobody
<1>1. NoDocument \in Documents /\ NoDocument.line = Nobody
  BY DEF NoDocument, Documents, Speakers
<1> QED
  BY <1>1 DEF Unread, Readings, Speakers

(* The initial row, unread by any flow, satisfies the invariant. *)
LEMMA InitIInv == Init => IInv
<1> SUFFICES ASSUME Init PROVE IInv
  OBVIOUS
<1>1. /\ pc \in [Flows -> {"idle", "created", "analysing", "analysed", "listed",
                          "asking", "approving"}]
      /\ seen \in [Flows -> Readings]
      /\ \A f \in Flows : seen[f] = Unread
  BY UnreadType DEF Init
<1>2. spoken \subseteq Names /\ speaker \in spoken \cup {Nobody}
  BY DEF Init, Speakers
<1> QED
  BY <1>1, <1>2, UnreadType DEF Init, IInv, TypeOK, Attested, DocumentNamesSpeakers

(* What withSpeakerLine returns: the document that was read with one line  *)
(* more, or the document of the row.                                       *)
LEMMA LineAdded ==
  ASSUME TypeOK, NEW old \in Documents, NEW name \in Names
  PROVE  /\ WithSpeakerLine(old, name) \in Documents
         /\ WithSpeakerLine(old, name).line \in {name, old.line, document.line}
  BY DEF TypeOK, WithSpeakerLine, Documents, Speakers

(* Every step keeps the invariant. *)
LEMMA StepIInv == IInv /\ [Next]_vars => IInv'
<1> SUFFICES ASSUME IInv, [Next]_vars PROVE IInv'
  OBVIOUS
<1> USE DEF IInv, TypeOK, Attested, DocumentNamesSpeakers
<1>1. ASSUME NEW f \in Flows, StartCategorize(f) PROVE IInv'
  BY <1>1 DEF StartCategorize, Read, Readings, row, Flows
<1>2. ASSUME NEW f \in Flows, ApplyCategorization(f) PROVE IInv'
  BY <1>2 DEF ApplyCategorization, Readings, Documents, Flows
<1>3. ASSUME NEW f \in Flows, DetectAfterwards(f) PROVE IInv'
  BY <1>3, UnreadType DEF DetectAfterwards, Read, Readings, Forget, Afterwards, row
<1>4. ASSUME NEW f \in Flows, CronLists(f) PROVE IInv'
  BY <1>4 DEF CronLists, row, Flows
<1>5. ASSUME NEW f \in Flows, CronAsks(f) PROVE IInv'
  BY <1>5 DEF CronAsks, Read, Readings, row, Flows
<1>6. ASSUME NEW f \in Flows, NEW name \in Speakers, SetDetectedSpeaker(f, name)
      PROVE  IInv'
  <2>1. /\ pc' \in [Flows -> {"idle", "created", "analysing", "analysed", "listed",
                              "asking", "approving"}]
        /\ seen' \in [Flows -> Readings]
        /\ \A g \in Flows : seen'[g] \in {seen[g], Unread}
    BY <1>6, UnreadType DEF SetDetectedSpeaker, Afterwards, Forget
  <2>2. CASE Exists /\ speaker = Nobody /\ name # Nobody
    <3>1. name \in Names /\ seen[f].document \in Documents
      BY <2>2 DEF Speakers, Readings
    <3>2. /\ document' \in Documents
          /\ document'.line \in {name, seen[f].document.line, document.line}
      BY <1>6, <2>2, <3>1, LineAdded DEF SetDetectedSpeaker
    <3> QED
      BY <1>6, <2>1, <2>2, <3>1, <3>2, UnreadType DEF SetDetectedSpeaker, Speakers
  <2>3. CASE ~(Exists /\ speaker = Nobody /\ name # Nobody)
    BY <1>6, <2>1, <2>3, UnreadType DEF SetDetectedSpeaker, Speakers
  <2> QED
    BY <2>2, <2>3
<1>7. ASSUME NEW f \in Flows, Fails(f) PROVE IInv'
  BY <1>7, UnreadType DEF Fails, Afterwards, Forget, row
<1>8. ASSUME SyncDies PROVE IInv'
  BY <1>8, UnreadType DEF SyncDies, Forget, row, Flows
<1>9. ASSUME AutoApprove \/ LeaveForReview PROVE IInv'
  BY <1>9 DEF AutoApprove, LeaveForReview, SetStatus, row, Flows
<1>10. ASSUME NEW name \in Speakers, SetSpeakerName(name) PROVE IInv'
  BY <1>10 DEF SetSpeakerName, Speakers
<1>11. ASSUME ChangeStatus PROVE IInv'
  BY <1>11 DEF ChangeStatus, SetStatus
<1>12. ASSUME UNCHANGED vars PROVE IInv'
  BY <1>12 DEF vars, row
<1> QED
  BY <1>1, <1>2, <1>3, <1>4, <1>5, <1>6, <1>7, <1>8, <1>9, <1>10, <1>11, <1>12
     DEF Next, FlowStep

(* Every reachable state satisfies the inductive invariant. *)
THEOREM Invariance == Spec => []IInv
  BY InitIInv, StepIInv, PTL DEF Spec

(* The search document never names anybody who has not been the speaker of *)
(* the resource, however many detections and edits overlapped.             *)
THEOREM DocumentIsAttested == Spec => []DocumentNamesSpeakers
<1>1. IInv => DocumentNamesSpeakers
  BY DEF IInv, Attested
<1> QED
  BY <1>1, Invariance, PTL

(* No AI flow ever replaces a speaker that is set: the one setSpeakerName  *)
(* or the import gave stays until staff change it.                         *)
THEOREM GivenSpeakerStays == Spec => KeepsGivenSpeaker
<1>1. ASSUME [Next]_vars, speaker # Nobody, owner' # "staff"
      PROVE  speaker' = speaker /\ owner' = owner
  BY <1>1 DEF Next, FlowStep, vars, row, StartCategorize, ApplyCategorization,
       DetectAfterwards, CronLists, CronAsks, SetDetectedSpeaker, Fails, SyncDies,
       AutoApprove, LeaveForReview, SetSpeakerName, ChangeStatus, SetStatus
<1> QED
  BY <1>1, PTL DEF Spec, KeepsGivenSpeaker
=============================================================================
