---------------------------- MODULE ResourceRow ----------------------------
(***************************************************************************)
(* One row of the Resource table and everybody who writes to it: staff on  *)
(* the resource's page, the bulk jobs, AI categorization with the speaker  *)
(* detection at its end, the speakers cron, and the content sync that      *)
(* imported it. Each of the AI flows reads the row, waits for the model,   *)
(* and then updates the columns it owns, whatever happened meanwhile.      *)
(***************************************************************************)

CONSTANTS
  Names,    \* what a speaker may be called
  Nobody,   \* a speakerName of null, in a row or in an answer
  Workers,  \* flows that may look at the resource again and again
  Syncer    \* the content sync that created it, if one did

ASSUME NamesAssumption == Nobody \notin Names /\ Syncer \notin Workers

Flows    == Workers \cup {Syncer}
Speakers == Names \cup {Nobody}

VARIABLES
  status,    \* Resource.status, or "deleted"
  speaker,   \* speakerName
  checked,   \* speakerCheckedAt is set
  document,  \* searchDocument: whether there is one, and its SPEAKER line
  pc,        \* where each flow stands
  seen,      \* the row as the flow last read it
  owner,     \* history: who wrote speakerName, null included
  spoken     \* history: every name speakerName has had

row  == <<status, speaker, checked, document, owner, spoken>>
vars == <<row, pc, seen>>

Documents  == [analysed : BOOLEAN, line : Speakers]
NoDocument == [analysed |-> FALSE, line |-> Nobody]

(* What a flow may have read, and what it starts with. *)
Readings == [speaker : Speakers, checked : BOOLEAN, document : Documents]
Unread   == [speaker |-> Nobody, checked |-> FALSE, document |-> NoDocument]

TypeOK ==
  /\ status \in {"DRAFT", "REVIEW_REQUIRED", "ACTIVE", "ARCHIVED", "deleted"}
  /\ speaker \in Speakers
  /\ checked \in BOOLEAN
  /\ document \in Documents
  /\ pc \in [Flows -> {"idle", "created", "analysing", "analysed", "listed",
                       "asking", "approving"}]
  /\ seen \in [Flows -> Readings]
  /\ owner \in {"import", "staff", "detection"}
  /\ spoken \in SUBSET Names

Exists == status # "deleted"

(* createResource; some providers supply a speaker. A resource a sync      *)
(* created goes through its flow, one imported by hand does not.           *)
Init ==
  /\ status = "DRAFT"
  /\ speaker \in Speakers
  /\ checked = FALSE
  /\ document = NoDocument
  /\ \E first \in {"idle", "created"} :
       pc = [f \in Flows |-> IF f = Syncer THEN first ELSE "idle"]
  /\ seen = [f \in Flows |-> Unread]
  /\ owner = "import"
  /\ spoken = {speaker} \ {Nobody}

-----------------------------------------------------------------------------
(* Helpers *)

(* getResource *)
Read(f) == seen' = [seen EXCEPT ![f] = [speaker |-> speaker, checked |-> checked,
                                        document |-> document]]

(* The flow ends, and what it read no longer matters. *)
Forget(f) == seen' = [seen EXCEPT ![f] = Unread]

(* What follows a flow's categorization, however that went. *)
Afterwards(f) == IF f = Syncer THEN "approving" ELSE "idle"

(* withSpeakerLine: undefined, that is no change, without a document to    *)
(* add the line to or with one that has it already.                        *)
WithSpeakerLine(old, name) ==
  IF old.analysed /\ old.line = Nobody THEN [old EXCEPT !.line = name] ELSE document

SetStatus(s) ==
  /\ Exists
  /\ status' = s
  /\ UNCHANGED <<speaker, checked, document, owner, spoken>>

-----------------------------------------------------------------------------
(* CategorizationService.categorize *)

StartCategorize(f) ==
  /\ Exists
  /\ \/ pc[f] = "idle" /\ f \in Workers
     \/ pc[f] = "created"
  /\ Read(f)
  /\ pc' = [pc EXCEPT ![f] = "analysing"]
  /\ UNCHANGED row

(* applyCategorization, with the document built from the row as it was     *)
(* read: back to review, whatever the status has become.                   *)
ApplyCategorization(f) ==
  /\ pc[f] = "analysing"
  /\ Exists
  /\ document' = [analysed |-> TRUE, line |-> seen[f].speaker]
  /\ status' = "REVIEW_REQUIRED"
  /\ pc' = [pc EXCEPT ![f] = "analysed"]
  /\ UNCHANGED <<speaker, checked, owner, spoken, seen>>

(* Its evidence is written. When the row it read had no speaker and had    *)
(* not been checked, detection follows, which reads the row anew.          *)
DetectAfterwards(f) ==
  /\ pc[f] = "analysed"
  /\ IF /\ seen[f].speaker = Nobody /\ ~seen[f].checked
        /\ Exists /\ speaker = Nobody
     THEN pc' = [pc EXCEPT ![f] = "asking"] /\ Read(f)
     ELSE pc' = [pc EXCEPT ![f] = Afterwards(f)] /\ Forget(f)
  /\ UNCHANGED row

-----------------------------------------------------------------------------
(* SpeakerService *)

(* listResourcesNeedingSpeaker *)
NeedsSpeaker ==
  /\ Exists /\ status # "ARCHIVED"
  /\ speaker = Nobody /\ ~checked

CronLists(f) ==
  /\ pc[f] = "idle" /\ f \in Workers
  /\ NeedsSpeaker
  /\ pc' = [pc EXCEPT ![f] = "listed"]
  /\ UNCHANGED <<row, seen>>

(* Its turn comes: detect looks at the speaker only. *)
CronAsks(f) ==
  /\ pc[f] = "listed"
  /\ IF Exists /\ speaker = Nobody
     THEN pc' = [pc EXCEPT ![f] = "asking"] /\ Read(f)
     ELSE pc' = [pc EXCEPT ![f] = "idle"] /\ UNCHANGED seen
  /\ UNCHANGED row

(* Slip: tests the speaker that was read, not the one in the row. *)
RecordOverwriting(f, name) ==
  /\ pc[f] = "asking"
  /\ pc' = [pc EXCEPT ![f] = Afterwards(f)]
  /\ Forget(f)
  /\ checked' = TRUE
  /\ IF Exists /\ name # Nobody
     THEN /\ speaker' = name
          /\ document' = WithSpeakerLine(seen[f].document, name)
          /\ owner' = "detection"
          /\ spoken' = spoken \cup {name}
     ELSE UNCHANGED <<speaker, document, owner, spoken>>
  /\ UNCHANGED status

(* Slip: writes the document in an update of its own. *)
RecordDocumentAnyway(f, name) ==
  /\ pc[f] = "asking"
  /\ pc' = [pc EXCEPT ![f] = Afterwards(f)]
  /\ Forget(f)
  /\ checked' = (checked \/ speaker = Nobody)
  /\ document' = IF name = Nobody THEN document
                 ELSE WithSpeakerLine(seen[f].document, name)
  /\ IF Exists /\ speaker = Nobody /\ name # Nobody
     THEN /\ speaker' = name
          /\ owner' = "detection"
          /\ spoken' = spoken \cup {name}
     ELSE UNCHANGED <<speaker, owner, spoken>>
  /\ UNCHANGED status

(* Slip: nobody found, nothing written. *)
RecordFoundOnly(f, name) ==
  /\ pc[f] = "asking"
  /\ pc' = [pc EXCEPT ![f] = Afterwards(f)]
  /\ Forget(f)
  /\ IF Exists /\ speaker = Nobody /\ name # Nobody
     THEN /\ checked' = TRUE
          /\ speaker' = name
          /\ document' = WithSpeakerLine(seen[f].document, name)
          /\ owner' = "detection"
          /\ spoken' = spoken \cup {name}
     ELSE UNCHANGED <<checked, speaker, document, owner, spoken>>
  /\ UNCHANGED status

(* setDetectedSpeaker: nothing unless the row still has no speaker. *)
SetDetectedSpeaker(f, name) ==
  /\ pc[f] = "asking"
  /\ pc' = [pc EXCEPT ![f] = Afterwards(f)]
  /\ Forget(f)
  /\ IF Exists /\ speaker = Nobody
     THEN /\ checked' = TRUE
          /\ speaker' = name
          /\ document' = IF name = Nobody THEN document
                         ELSE WithSpeakerLine(seen[f].document, name)
          /\ owner' = IF name = Nobody THEN owner ELSE "detection"
          /\ spoken' = spoken \cup ({name} \ {Nobody})
     ELSE UNCHANGED <<checked, speaker, document, owner, spoken>>
  /\ UNCHANGED status

-----------------------------------------------------------------------------
(* A flow's AI or database call throws, which is logged (and the row may   *)
(* be gone, so that nothing else can come of the flow), or the cron runs   *)
(* out of time. The caller goes on as if it had succeeded.                 *)
Fails(f) ==
  /\ pc[f] \in {"created", "analysing", "analysed", "listed", "asking"}
  /\ pc' = [pc EXCEPT ![f] = Afterwards(f)]
  /\ Forget(f)
  /\ UNCHANGED row

(* The invocation the sync runs in is killed. *)
SyncDies ==
  /\ pc[Syncer] # "idle"
  /\ pc' = [pc EXCEPT ![Syncer] = "idle"]
  /\ Forget(Syncer)
  /\ UNCHANGED row

(* syncContentSource, a source with autoApprove: approves what it created. *)
AutoApprove ==
  /\ pc[Syncer] = "approving"
  /\ pc' = [pc EXCEPT ![Syncer] = "idle"]
  /\ IF Exists THEN SetStatus("ACTIVE") ELSE UNCHANGED row
  /\ UNCHANGED seen

(* Without autoApprove it leaves the rest to the staff. *)
LeaveForReview ==
  /\ pc[Syncer] = "approving"
  /\ pc' = [pc EXCEPT ![Syncer] = "idle"]
  /\ UNCHANGED <<row, seen>>

-----------------------------------------------------------------------------
(* Staff *)

(* setSpeakerAction; clearing it counts as a check. The document stays.    *)
SetSpeakerName(name) ==
  /\ Exists
  /\ speaker' = name
  /\ checked' = TRUE
  /\ owner' = "staff"
  /\ spoken' = spoken \cup ({name} \ {Nobody})
  /\ UNCHANGED <<status, document, pc, seen>>

(* Approve, reject and delete, on the resource's page or in a bulk job.    *)
ChangeStatus ==
  /\ \E s \in {"ACTIVE", "ARCHIVED", "deleted"} : SetStatus(s)
  /\ UNCHANGED <<pc, seen>>

-----------------------------------------------------------------------------
FlowStep(f) ==
  \/ StartCategorize(f) \/ ApplyCategorization(f) \/ DetectAfterwards(f)
  \/ CronLists(f) \/ CronAsks(f) \/ Fails(f)
  \/ \E name \in Speakers : SetDetectedSpeaker(f, name)

Next ==
  \/ \E f \in Flows : FlowStep(f)
  \/ SyncDies \/ AutoApprove \/ LeaveForReview
  \/ \E name \in Speakers : SetSpeakerName(name)
  \/ ChangeStatus

Spec == Init /\ [][Next]_vars

(* The cron comes round every quarter of an hour, no flow lasts for ever,  *)
(* and asking the model again and again gets an answer at last.            *)
FairSpec ==
  /\ Spec
  /\ \A f \in Workers :
       /\ WF_vars(pc[f] # "idle" /\ FlowStep(f))
       /\ SF_vars(CronLists(f)) /\ SF_vars(CronAsks(f))
       /\ SF_vars(\E name \in Speakers : SetDetectedSpeaker(f, name))

-----------------------------------------------------------------------------
(* Properties *)

(* "Never overwrites one a provider or staff member set, even if staff     *)
(* changed it while the AI call was in flight" (setDetectedSpeaker).       *)
KeepsGivenSpeaker ==
  [][speaker # Nobody /\ owner' # "staff" => speaker' = speaker /\ owner' = owner]_vars

(* The search document only ever names somebody who was this resource's    *)
(* speaker at some time: a detection that came too late for the row does   *)
(* not reach the document either.                                          *)
DocumentNamesSpeakers == document.line \in spoken \cup {Nobody}

(* Every resource is asked about in the end (SpeakerService.backfill and   *)
(* its cron): none stays unchecked for ever, failures or not, unless it is *)
(* archived or deleted.                                                    *)
EventuallyChecked == NeedsSpeaker ~> ~NeedsSpeaker

(* What docs/sermon-library-embed.md says of the speaker ("clearing it     *)
(* keeps it clear"): once staff have emptied it, only staff fill it.       *)
ClearedStaysClear ==
  [][speaker = Nobody /\ owner = "staff" /\ owner' # "staff" => speaker' = Nobody]_vars

(* What syncContentSource's comment says of autoApprove: it flips          *)
(* categorized resources to ACTIVE.                                        *)
AutoApprovesAnalysed ==
  [][AutoApprove /\ status' = "ACTIVE" => document.analysed]_vars

-----------------------------------------------------------------------------
(* The inductive invariant: no copy of a name, in the row or in what a     *)
(* flow has read of it, is of somebody who never was the speaker.          *)
Attested ==
  /\ speaker \in spoken \cup {Nobody}
  /\ DocumentNamesSpeakers
  /\ \A f \in Flows : /\ seen[f].speaker \in spoken \cup {Nobody}
                      /\ seen[f].document.line \in spoken \cup {Nobody}

IInv == TypeOK /\ Attested
=============================================================================
