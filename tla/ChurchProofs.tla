---------------------------- MODULE ChurchProofs ----------------------------
(***************************************************************************)
(* The parts of the church, each proved by itself and then of the whole:   *)
(* every step of the church is a step of the part or leaves it alone, so   *)
(* an invariant of the part's initial states and actions holds throughout. *)
(***************************************************************************)
EXTENDS Church, ListLemmas

-----------------------------------------------------------------------------
(* Team: an organization keeps an owner, whatever the people, the calls    *)
(* and the roles asked for, until two calls overlap.                       *)

(* A call about to take the role of an owner away leaves another owner:    *)
(* what assertNotLastOwner found still holds when it writes.               *)
LeavesAnOwner(c) ==
  /\ call[c].at = "writing"
  /\ role[call[c].target] = "OWNER"
  /\ call[c].role # "OWNER"
  => Owners \ {call[c].target} # {}

TeamInv ==
  /\ TeamTypeOK
  /\ overlapped \/ (Owners # {} /\ \A c \in Calls : LeavesAnOwner(c))

(* The founder owns the organization it signs up.                          *)
LEMMA InitHasOwner == ASSUME Founder \in People PROVE TeamInit => TeamInv
  <1> SUFFICES ASSUME TeamInit PROVE TeamInv
    OBVIOUS
  <1>1. TeamTypeOK
    BY DEF TeamInit, TeamTypeOK, TeamCall, NoTeamCall, Roles, Outsider
  <1>2. Founder \in Owners
    BY DEF TeamInit, Owners
  <1>3. \A c \in Calls : LeavesAnOwner(c)
    BY DEF TeamInit, LeavesAnOwner, NoTeamCall
  <1> QED
    BY <1>1, <1>2, <1>3 DEF TeamInv

(* Counting more than one owner means that another one is left without any *)
(* given owner: the arithmetic of team-service.ts:61-66.                   *)
LEMMA AnotherOwner ==
  ASSUME IsFiniteSet(People), Cardinality(Owners) > 1, NEW p \in Owners
  PROVE  Owners \ {p} # {}
  <1>1. IsFiniteSet(Owners)
    BY FS_Subset DEF Owners
  <1>2. IsFiniteSet(Owners \ {p}) /\ Cardinality(Owners \ {p}) = Cardinality(Owners) - 1
    BY <1>1, FS_RemoveElement
  <1>3. Cardinality(Owners) \in Nat
    BY <1>1, FS_CardinalityType
  <1>4. Cardinality(Owners \ {p}) # 0
    BY <1>2, <1>3
  <1> QED
    BY <1>4, FS_EmptySet

(* A step that writes no role and lets one call go on keeps the invariant, *)
(* if the call that went on may write.                                     *)
LEMMA Proceeds ==
  ASSUME TeamInv, NEW c \in Calls, NEW k \in TeamCall,
         call' = [call EXCEPT ![c] = k], UNCHANGED <<role, overlapped>>,
         \/ overlapped
         \/ (k.at = "writing" /\ role[k.target] = "OWNER" /\ k.role # "OWNER")
              => Owners \ {k.target} # {}
  PROVE  TeamInv'
  <1>1. TeamTypeOK'
    BY DEF TeamInv, TeamTypeOK
  <1>2. Owners' = Owners
    BY DEF Owners
  <1>3. ASSUME ~overlapped, NEW d \in Calls PROVE LeavesAnOwner(d)'
    <2>1. CASE d = c
      BY <1>2, <1>3, <2>1 DEF TeamInv, TeamTypeOK, LeavesAnOwner
    <2>2. CASE d # c
      BY <1>2, <1>3, <2>2 DEF TeamInv, TeamTypeOK, LeavesAnOwner
    <2> QED
      BY <2>1, <2>2
  <1> QED
    BY <1>1, <1>2, <1>3 DEF TeamInv

(* The one write of a call keeps the invariant when it does not take the   *)
(* role of the last owner: any other call under way has then overlapped.   *)
LEMMA RoleWritten ==
  ASSUME TeamInv, Founder \in People, NEW c \in Calls, NEW p \in People,
         NEW r \in Roles \cup Outsider, Put(c, p, r),
         \/ overlapped
         \/ (role[p] = "OWNER" /\ r # "OWNER") => Owners \ {p} # {}
  PROVE  TeamInv'
  <1>1. TeamTypeOK'
    <2>1. NoTeamCall \in TeamCall
      BY DEF NoTeamCall, TeamCall, Roles
    <2>2. overlapped' \in BOOLEAN
      BY DEF Put, TeamInv, TeamTypeOK
    <2> QED
      BY <2>1, <2>2 DEF Put, TeamInv, TeamTypeOK
  <1>2. ASSUME ~overlapped' PROVE Owners' # {}
    <2>1. ~overlapped
      BY <1>2 DEF Put
    <2>2. PICK q \in Owners : q # p \/ r = "OWNER" \/ role[p] # "OWNER"
      BY <2>1 DEF TeamInv, Owners
    <2>3. CASE r = "OWNER"
      BY <2>3 DEF Put, TeamInv, TeamTypeOK, Owners
    <2>4. CASE r # "OWNER" /\ role[p] = "OWNER"
      BY <2>1, <2>4 DEF Put, TeamInv, TeamTypeOK, Owners
    <2>5. CASE role[p] # "OWNER"
      BY <2>1, <2>5 DEF Put, TeamInv, TeamTypeOK, Owners
    <2> QED
      BY <2>3, <2>4, <2>5
  <1>3. ASSUME ~overlapped', NEW d \in Calls PROVE LeavesAnOwner(d)'
    <2>1. call'[d].at = "no"
      BY <1>3 DEF Put, UnderWay, TeamInv, TeamTypeOK, NoTeamCall
    <2> QED
      BY <2>1 DEF LeavesAnOwner
  <1> QED
    BY <1>1, <1>2, <1>3 DEF TeamInv

(* Every step of a call keeps it.                                          *)
LEMMA StepKeepsOwner ==
  ASSUME IsFiniteSet(People), Founder \in People, TeamInv, [TeamNext]_teamVars
  PROVE  TeamInv'
  <1> USE DEF TeamInv
  <1> NoTeamCall \in TeamCall
    BY DEF NoTeamCall, TeamCall, Roles
  <1>1. CASE UNCHANGED teamVars
    BY <1>1 DEF teamVars, TeamTypeOK, Owners, LeavesAnOwner
  <1>2. ASSUME NEW c \in Calls, ReadMembership(c) PROVE TeamInv'
    <2> DEFINE k == [call[c] EXCEPT !.at = IF role[call[c].target] = "OWNER"
                                           THEN "counting" ELSE "writing"]
    <2>1. k \in TeamCall
      BY DEF TeamTypeOK, TeamCall
    <2>2. call' = [call EXCEPT ![c] = k] /\ UNCHANGED <<role, overlapped>>
      BY <1>2 DEF ReadMembership, Goto, TeamTypeOK
    <2>3. k.at = "writing" => role[k.target] # "OWNER"
      BY DEF TeamTypeOK, TeamCall
    <2> QED
      BY <2>1, <2>2, <2>3, Proceeds
  <1>3. ASSUME NEW c \in Calls, CountOwners(c) PROVE TeamInv'
    <2>1. CASE Cardinality(Owners) <= 1
      BY <1>3, <2>1, Proceeds DEF CountOwners, Throw, NoTeamCall
    <2>2. CASE ~(Cardinality(Owners) <= 1)
      <3> DEFINE k == [call[c] EXCEPT !.at = "writing"]
      <3>1. k \in TeamCall
        BY DEF TeamTypeOK, TeamCall
      <3>2. call' = [call EXCEPT ![c] = k] /\ UNCHANGED <<role, overlapped>>
        BY <1>3, <2>2 DEF CountOwners, Goto, TeamTypeOK
      <3>3. Cardinality(Owners) > 1
        <4>1. IsFiniteSet(Owners)
          BY FS_Subset DEF Owners
        <4> QED
          BY <2>2, <4>1, FS_CardinalityType
      <3>4. role[k.target] = "OWNER" => Owners \ {k.target} # {}
        BY <3>1, <3>3, AnotherOwner DEF Owners, TeamCall
      <3> QED
        BY <3>1, <3>2, <3>4, Proceeds
    <2> QED
      BY <2>1, <2>2
  <1>4. ASSUME NEW c \in Calls, WriteMembership(c) PROVE TeamInv'
    <2> DEFINE p == call[c].target
               r == IF p \in Members THEN call[c].role ELSE role[p]
    <2>1. p \in People /\ r \in Roles \cup Outsider
      BY DEF TeamTypeOK, TeamCall, Outsider
    <2>2. Put(c, p, r) /\ call[c].at = "writing"
      BY <1>4 DEF WriteMembership
    <2>3. overlapped \/ ((role[p] = "OWNER" /\ r # "OWNER") => Owners \ {p} # {})
      BY <2>2 DEF LeavesAnOwner, Members
    <2> HIDE DEF p, r
    <2> QED
      BY <2>1, <2>2, <2>3, RoleWritten
  <1>5. ASSUME NEW c \in Calls, AssertUnderCap(c) PROVE TeamInv'
    <2>1. CASE Cardinality(Members) >= MaxTeamMembers
      BY <1>5, <2>1, Proceeds DEF AssertUnderCap, Throw, NoTeamCall
    <2>2. CASE ~(Cardinality(Members) >= MaxTeamMembers)
      <3> DEFINE k == [call[c] EXCEPT !.at = "joining"]
      <3>1. k \in TeamCall /\ k.at = "joining"
        BY DEF TeamTypeOK, TeamCall
      <3>2. call' = [call EXCEPT ![c] = k] /\ UNCHANGED <<role, overlapped>>
        BY <1>5, <2>2 DEF AssertUnderCap, Goto, TeamTypeOK
      <3> QED
        BY <3>1, <3>2, Proceeds
    <2> QED
      BY <2>1, <2>2
  <1>6. ASSUME NEW c \in Calls, InviteMember(c) PROVE TeamInv'
    <2> DEFINE p == call[c].target
    <2>0. p \in People /\ call[c].role \in Roles \cup Outsider
      BY DEF TeamTypeOK, TeamCall, Outsider
    <2>1. CASE role[p] = "none"
      <3>1. Put(c, p, call[c].role) /\ role[p] # "OWNER"
        BY <1>6, <2>1 DEF InviteMember
      <3> HIDE DEF p
      <3> QED
        BY <2>0, <3>1, RoleWritten
    <2>2. CASE role[p] # "none"
      BY <1>6, <2>2, Proceeds DEF InviteMember, Throw, NoTeamCall
    <2> QED
      BY <2>1, <2>2
  <1>7. ASSUME NEW c \in Calls, CallThrows(c) PROVE TeamInv'
    BY <1>7, Proceeds DEF CallThrows, Throw, NoTeamCall
  <1>8. ASSUME NEW c \in Calls, NEW p \in People, RemoveMember(c, p) PROVE TeamInv'
    <2> DEFINE k == [at |-> "reading", target |-> p, role |-> "none"]
    <2>1. k \in TeamCall /\ k.at = "reading"
      BY DEF TeamCall
    <2> QED
      BY <1>8, <2>1, Proceeds DEF RemoveMember
  <1>9. ASSUME NEW c \in Calls, NEW p \in People, NEW r \in Roles,
               UpdateMemberRole(c, p, r)
        PROVE  TeamInv'
    <2> DEFINE k == [at |-> IF r = "OWNER" THEN "writing" ELSE "reading",
                     target |-> p, role |-> r]
    <2>1. k \in TeamCall /\ (k.at = "writing" => k.role = "OWNER")
      BY DEF TeamCall
    <2>2. call' = [call EXCEPT ![c] = k] /\ UNCHANGED <<role, overlapped>>
      BY <1>9 DEF UpdateMemberRole
    <2> QED
      BY <2>1, <2>2, Proceeds
  <1>10. ASSUME NEW c \in Calls, NEW p \in People, NEW r \in Roles, Invite(c, p, r)
         PROVE  TeamInv'
    <2> DEFINE k == [at |-> "countingMembers", target |-> p, role |-> r]
    <2>1. k \in TeamCall /\ k.at = "countingMembers"
      BY DEF TeamCall
    <2> QED
      BY <1>10, <2>1, Proceeds DEF Invite
  <1> QED
    BY <1>1, <1>2, <1>3, <1>4, <1>5, <1>6, <1>7, <1>8, <1>9, <1>10 DEF TeamNext

(* "An organization must have at least one owner" (team-service.ts:65), of *)
(* every number of people and of calls, as long as none has written while  *)
(* another was under way.                                                  *)
THEOREM OwnerRemains ==
  ASSUME IsFiniteSet(People), Founder \in People
  PROVE  TeamSpec => []AnOwnerRemains
  <1>1. TeamInit => TeamInv
    BY InitHasOwner
  <1>2. TeamInv /\ [TeamNext]_teamVars => TeamInv'
    BY StepKeepsOwner
  <1>3. TeamInv => AnOwnerRemains
    BY DEF TeamInv, AnOwnerRemains
  <1> QED
    BY <1>1, <1>2, <1>3, PTL DEF TeamSpec

(* Roles, calls and the history keep their types.                          *)
THEOREM TeamTypes ==
  ASSUME IsFiniteSet(People), Founder \in People
  PROVE  TeamSpec => []TeamTypeOK
  <1>1. TeamInit => TeamInv
    BY InitHasOwner
  <1>2. TeamInv /\ [TeamNext]_teamVars => TeamInv'
    BY StepKeepsOwner
  <1>3. TeamInv => TeamTypeOK
    BY DEF TeamInv
  <1> QED
    BY <1>1, <1>2, <1>3, PTL DEF TeamSpec

-----------------------------------------------------------------------------
(* PrayerWall: what reads as a crisis reaches no visitor until somebody    *)
(* has made the stored request public.                                     *)

Function(f) == f = [r \in Requests |-> f[r]]

(* A submission about to be stored as public has been found ordinary.      *)
FoundOrdinary(r) ==
  submission[r].at = "creating" /\ submission[r].public => message[r] = "ordinary"

(* A stored request that is public and a crisis has been asked for.        *)
AskedFor(r) ==
  Exists(r) /\ rows[r].public /\ message[r] = "crisis" => r \in asked

HeldInv ==
  /\ wall \in Wall /\ submission \in [Requests -> Submission]
  /\ Function(rows)
  /\ \A r \in Requests : FoundOrdinary(r) /\ AskedFor(r)
  /\ listed \subseteq Requests
  /\ CrisisHeld

(* Nothing is stored, submitted or listed before the wall is opened.       *)
LEMMA InitHolds == PrayerInit => HeldInv
  <1> SUFFICES ASSUME PrayerInit PROVE HeldInv
    OBVIOUS
  <1>1. wall \in Wall /\ submission \in [Requests -> Submission] /\ Function(rows)
    BY DEF PrayerInit, Function, Wall, Submission, NoSubmission
  <1>2. \A r \in Requests : FoundOrdinary(r)
    BY DEF PrayerInit, FoundOrdinary, NoSubmission
  <1>3. \A r \in Requests : rows[r] = [status |-> "none"]
    BY DEF PrayerInit, NoRow
  <1>4. [status |-> "none"] \notin Row
    BY DEF Row
  <1>5. \A r \in Requests : AskedFor(r)
    BY <1>3, <1>4 DEF AskedFor, Exists
  <1>6. listed \subseteq Requests /\ CrisisHeld
    BY DEF PrayerInit, CrisisHeld
  <1> QED
    BY <1>1, <1>2, <1>5, <1>6 DEF HeldInv

(* A page is rendered from the public rows of that moment, which are held. *)
LEMMA ListsWhatIsHeld ==
  ASSUME HeldInv, wall' \in Wall, UNCHANGED <<message, rows, submission, asked>>,
         listed' \in {listed, PublicRequests}
  PROVE  HeldInv'
  <1>1. \A r \in PublicRequests : r \in Requests /\ (message[r] = "crisis" => r \in asked)
    BY DEF HeldInv, PublicRequests, AskedFor
  <1>2. (listed \subseteq Requests)' /\ CrisisHeld'
    BY <1>1 DEF HeldInv, CrisisHeld
  <1> QED
    BY <1>2 DEF HeldInv, Function, FoundOrdinary, AskedFor, Exists

(* A step of one submission that leaves the rows alone.                    *)
LEMMA SubmissionMoves ==
  ASSUME HeldInv, NEW r \in Requests, NEW k \in Submission,
         submission' = [submission EXCEPT ![r] = k],
         UNCHANGED <<wall, message, rows, listed, asked>>,
         k.at = "creating" /\ k.public => message[r] = "ordinary"
  PROVE  HeldInv'
  <1>1. (submission \in [Requests -> Submission])'
    BY DEF HeldInv
  <1>2. ASSUME NEW q \in Requests PROVE FoundOrdinary(q)'
    BY DEF HeldInv, FoundOrdinary
  <1>3. ASSUME NEW q \in Requests PROVE AskedFor(q)'
    BY DEF HeldInv, AskedFor, Exists
  <1>4. (listed \subseteq Requests)' /\ CrisisHeld' /\ Function(rows)'
    BY DEF HeldInv, CrisisHeld, Function
  <1> QED
    BY <1>1, <1>2, <1>3, <1>4 DEF HeldInv

(* A step that writes one row: it is not public then, or it was, or it is  *)
(* ordinary, or it has been asked for.                                     *)
LEMMA RowWritten ==
  ASSUME HeldInv, NEW r \in Requests, NEW written,
         rows' = [rows EXCEPT ![r] = written],
         UNCHANGED <<wall, message, listed>>, asked \subseteq asked',
         (submission \in [Requests -> Submission])', \A q \in Requests : FoundOrdinary(q)',
         written \in Row /\ written.public /\ message[r] = "crisis"
           => r \in asked' \/ (Exists(r) /\ rows[r].public)
  PROVE  HeldInv'
  <1>1. Function(rows)'
    BY DEF HeldInv, Function
  <1>2. ASSUME NEW q \in Requests PROVE AskedFor(q)'
    <2>1. CASE q = r
      BY <2>1 DEF HeldInv, Function, AskedFor, Exists
    <2>2. CASE q # r
      BY <2>2 DEF HeldInv, Function, AskedFor, Exists
    <2> QED
      BY <2>1, <2>2
  <1>3. (listed \subseteq Requests)' /\ CrisisHeld'
    BY DEF HeldInv, CrisisHeld
  <1> QED
    BY <1>1, <1>2, <1>3 DEF HeldInv

(* An update of a stored request that has nothing to do with submissions.  *)
LEMMA RequestUpdated ==
  ASSUME HeldInv, NEW r \in Requests, NEW written, Exists(r),
         rows' = [rows EXCEPT ![r] = written],
         UNCHANGED <<wall, message, submission, listed>>, asked \subseteq asked',
         written.public => r \in asked' \/ rows[r].public
  PROVE  HeldInv'
  <1>1. (submission \in [Requests -> Submission])' /\ \A q \in Requests : FoundOrdinary(q)'
    BY DEF HeldInv, FoundOrdinary
  <1> QED
    BY <1>1, RowWritten

(* Submitting stores a crisis for the staff's eyes only.                   *)
LEMMA SubmittingHolds ==
  ASSUME HeldInv, NEW r \in Requests, SubmissionStep(r) PROVE HeldInv'
  <1>0. submission[r] \in Submission
    BY DEF HeldInv
  <1>1. CASE Submit(r)
    <2>1. PICK public \in BOOLEAN :
            submission' = [submission EXCEPT ![r] =
              [at |-> IF public THEN "classifying" ELSE "creating", public |-> public,
               to |-> wall.emails, mailed |-> {}]]
      BY <1>1 DEF Submit, Submitting
    <2> DEFINE k == [at |-> IF public THEN "classifying" ELSE "creating", public |-> public,
                     to |-> wall.emails, mailed |-> {}]
    <2>2. k \in Submission /\ ~(k.at = "creating" /\ k.public)
      BY DEF HeldInv, Wall, Submission
    <2> QED
      BY <1>1, <2>1, <2>2, SubmissionMoves DEF Submit
  <1>2. CASE ClassifySafety(r)
    <2>1. PICK throws \in BOOLEAN :
            submission' = [submission EXCEPT ![r] =
              [submission[r] EXCEPT !.at = "creating",
                                    !.public = ~throws /\ message[r] = "ordinary"]]
      BY <1>2 DEF ClassifySafety, Submitting
    <2> DEFINE k == [submission[r] EXCEPT !.at = "creating",
                                          !.public = ~throws /\ message[r] = "ordinary"]
    <2>2. k \in Submission /\ (k.public => message[r] = "ordinary")
      BY <1>0 DEF Submission
    <2> HIDE DEF k
    <2> QED
      BY <1>2, <2>1, <2>2, SubmissionMoves DEF ClassifySafety, k
  <1>3. CASE CreatePrayerRequest(r)
    <2> DEFINE written == [public |-> submission[r].public, forwarded |-> FALSE,
                           marks |-> {}, prayerCount |-> 0, replies |-> 0]
               k == [submission[r] EXCEPT
                       !.at = IF submission[r].to = {} THEN "done" ELSE "mailing"]
    <2>1. k \in Submission /\ k.at # "creating"
      BY <1>0 DEF Submission
    <2>2. submission' = [submission EXCEPT ![r] = k] /\ rows' = [rows EXCEPT ![r] = written]
      BY <1>3 DEF CreatePrayerRequest, Submitting
    <2>3. written.public => message[r] = "ordinary"
      BY <1>3 DEF CreatePrayerRequest, HeldInv, FoundOrdinary
    <2> HIDE DEF written, k
    <2>4. (submission \in [Requests -> Submission])' /\ \A q \in Requests : FoundOrdinary(q)'
      BY <1>3, <2>1, <2>2 DEF HeldInv, FoundOrdinary, CreatePrayerRequest
    <2> QED
      BY <1>3, <2>2, <2>3, <2>4, RowWritten DEF CreatePrayerRequest
  <1>4. CASE SendForward(r)
    <2>1. PICK a \in submission[r].to \ submission[r].mailed :
            submission' = [submission EXCEPT ![r] = [submission[r] EXCEPT !.mailed = @ \cup {a}]]
      BY <1>4, <1>0 DEF SendForward, Submitting, Submission
    <2> DEFINE k == [submission[r] EXCEPT !.mailed = @ \cup {a}]
    <2>2. k \in Submission /\ k.at = "mailing"
      BY <1>0, <1>4 DEF Submission, SendForward
    <2> HIDE DEF k
    <2> QED
      BY <1>4, <2>1, <2>2, SubmissionMoves DEF SendForward, k
  <1>5. CASE MarkForwarded(r)
    <2> DEFINE written == [rows[r] EXCEPT !.forwarded = TRUE]
               k == [submission[r] EXCEPT !.at = "done"]
    <2>1. k \in Submission /\ k.at = "done"
      BY <1>0 DEF Submission
    <2>2. submission' = [submission EXCEPT ![r] = k]
      BY <1>5 DEF MarkForwarded, Submitting
    <2>3. (submission \in [Requests -> Submission])' /\ \A q \in Requests : FoundOrdinary(q)'
      BY <1>5, <2>1, <2>2 DEF HeldInv, FoundOrdinary, MarkForwarded
    <2>4. CASE Exists(r)
      <3>1. rows' = [rows EXCEPT ![r] = written] /\ written.public = rows[r].public
        BY <1>5, <2>4 DEF MarkForwarded, Updated, HeldInv, Function, Exists, Row
      <3> HIDE DEF written, k
      <3> QED
        BY <1>5, <2>3, <2>4, <3>1, RowWritten DEF MarkForwarded
    <2>5. CASE ~Exists(r)
      <3>1. rows' = rows
        BY <1>5, <2>5 DEF MarkForwarded, Updated
      <3> HIDE DEF k
      <3> QED
        BY <1>5, <2>1, <2>2, <3>1, SubmissionMoves DEF MarkForwarded
    <2> QED
      BY <2>4, <2>5
  <1>6. CASE SubmissionEnds(r)
    <2> DEFINE k == IF submission[r].at = "mailing" THEN [submission[r] EXCEPT !.at = "done"]
                    ELSE NoSubmission
    <2>1. k \in Submission /\ k.at # "creating"
      BY <1>0 DEF Submission, NoSubmission
    <2>2. submission' = [submission EXCEPT ![r] = k]
      BY <1>6 DEF SubmissionEnds, Submitting
    <2> HIDE DEF k
    <2> QED
      BY <1>6, <2>1, <2>2, SubmissionMoves DEF SubmissionEnds
  <1> QED
    BY <1>1, <1>2, <1>3, <1>4, <1>5, <1>6 DEF SubmissionStep

(* Whoever makes a stored request public has asked for it; every other     *)
(* edit leaves its visibility alone.                                       *)
LEMMA EditingHolds ==
  ASSUME HeldInv, NEW r \in Requests,
         \/ SetPublicVisibility(r) \/ AuthorMarks(r)
         \/ StaffSetPublicVisibility(r) \/ StaffMarks(r) \/ DeletePrayerRequest(r)
  PROVE  HeldInv'
  <1>0. Exists(r) /\ rows[r] \in Row /\ OnRequest
    BY DEF SetPublicVisibility, AuthorMarks, StaffSetPublicVisibility, StaffMarks,
           DeletePrayerRequest, Exists
  <1>1. CASE SetPublicVisibility(r) \/ StaffSetPublicVisibility(r)
    <2>1. PICK public \in BOOLEAN :
            /\ rows' = [rows EXCEPT ![r] = [rows[r] EXCEPT !.public = public]]
            /\ asked' = IF public THEN asked \cup {r} ELSE asked
      BY <1>0, <1>1 DEF SetPublicVisibility, StaffSetPublicVisibility, Updated, HeldInv, Function
    <2> DEFINE written == [rows[r] EXCEPT !.public = public]
    <2>2. written.public => r \in asked'
      BY <1>0, <2>1 DEF Row
    <2>3. asked \subseteq asked'
      BY <2>1
    <2> HIDE DEF written
    <2> QED
      BY <1>0, <2>1, <2>2, <2>3, RequestUpdated DEF OnRequest, written
  <1>2. CASE AuthorMarks(r) \/ StaffMarks(r)
    <2>1. PICK m \in SUBSET Marks :
            rows' = [rows EXCEPT ![r] = [rows[r] EXCEPT !.marks = m]]
      BY <1>0, <1>2 DEF AuthorMarks, StaffMarks, Updated, HeldInv, Function, Row
    <2> DEFINE written == [rows[r] EXCEPT !.marks = m]
    <2>2. written.public = rows[r].public
      BY <1>0 DEF Row
    <2>3. asked' = asked
      BY <1>2 DEF AuthorMarks, StaffMarks
    <2> HIDE DEF written
    <2> QED
      BY <1>0, <2>1, <2>2, <2>3, RequestUpdated DEF OnRequest, written
  <1>3. CASE DeletePrayerRequest(r)
    <2>1. rows' = [rows EXCEPT ![r] = Deleted] /\ asked' = asked
      BY <1>3 DEF DeletePrayerRequest
    <2>2. Deleted \notin Row
      BY DEF Deleted, Row
    <2>3. (submission \in [Requests -> Submission])' /\ \A q \in Requests : FoundOrdinary(q)'
      BY <1>0 DEF HeldInv, FoundOrdinary, OnRequest
    <2> QED
      BY <1>0, <2>1, <2>2, <2>3, RowWritten DEF OnRequest
  <1> QED
    BY <1>1, <1>2, <1>3

(* A visitor's tab lists public requests only, and praying or replying     *)
(* changes no request's visibility.                                        *)
LEMMA StepHolds == HeldInv /\ [PrayerNext]_prayerVars => HeldInv'
  <1> SUFFICES ASSUME HeldInv, [PrayerNext]_prayerVars PROVE HeldInv'
    OBVIOUS
  <1>1. CASE UNCHANGED prayerVars
    BY <1>1, ListsWhatIsHeld DEF prayerVars, HeldInv
  <1>2. CASE EnablePrayerWall
    <2>1. wall' \in Wall
      BY <1>2 DEF EnablePrayerWall, Wall
    <2> QED
      BY <1>2, <2>1, ListsWhatIsHeld DEF EnablePrayerWall
  <1>3. CASE SignUp \/ LogIn \/ LogOut \/ SubmitTestimony \/ ModerateTestimony
    BY <1>3, ListsWhatIsHeld
    DEF HeldInv, SignUp, LogIn, LogOut, SubmitTestimony, ModerateTestimony
  <1>4. CASE OpenWall \/ PrayReturns \/ PrayThrows
    BY <1>4, ListsWhatIsHeld DEF HeldInv, OpenWall, PrayReturns, PrayThrows
  <1>5. CASE MailReply \/ ReplyThrows
    BY <1>5, ListsWhatIsHeld DEF HeldInv, MailReply, ReplyThrows
  <1>6. CASE RecordReply
    <2>1. Exists(reply.of) /\ UNCHANGED <<wall, message, submission, listed, asked>>
      BY <1>6 DEF RecordReply
    <2>2. CASE reply.of \in Requests
      <3> DEFINE written == [rows[reply.of] EXCEPT !.replies = @ + 1]
      <3>1. rows' = [rows EXCEPT ![reply.of] = written]
        BY <1>6, <2>1, <2>2 DEF RecordReply, Updated, HeldInv, Function
      <3>2. written.public = rows[reply.of].public
        BY <2>1 DEF Exists, Row
      <3> HIDE DEF written
      <3> QED
        BY <2>1, <2>2, <3>1, <3>2, RequestUpdated
    <2>3. CASE reply.of \notin Requests
      <3>1. rows' = rows
        BY <1>6, <2>1, <2>3 DEF RecordReply, Updated, HeldInv, Function
      <3> QED
        BY <2>1, <3>1, ListsWhatIsHeld DEF HeldInv
    <2> QED
      BY <2>2, <2>3
  <1>7. CASE IncrementPrayerCount
    <2>1. UNCHANGED <<wall, message, submission, listed, asked>>
      BY <1>7 DEF IncrementPrayerCount
    <2>2. CASE pray.of \in Requests /\ Exists(pray.of)
      <3> DEFINE written == [rows[pray.of] EXCEPT !.prayerCount = @ + 1]
      <3>1. rows' = [rows EXCEPT ![pray.of] = written]
        BY <1>7, <2>2 DEF IncrementPrayerCount, Updated, HeldInv, Function
      <3>2. written.public = rows[pray.of].public
        BY <2>2 DEF Exists, Row
      <3> HIDE DEF written
      <3> QED
        BY <2>1, <2>2, <3>1, <3>2, RequestUpdated
    <2>3. CASE ~(pray.of \in Requests /\ Exists(pray.of))
      <3>1. rows' = rows
        BY <1>7, <2>3 DEF IncrementPrayerCount, Updated, HeldInv, Function
      <3> QED
        BY <2>1, <3>1, ListsWhatIsHeld DEF HeldInv
    <2> QED
      BY <2>2, <2>3
  <1>8. ASSUME NEW r \in Requests, SubmissionStep(r) PROVE HeldInv'
    BY <1>8, SubmittingHolds
  <1>9. ASSUME NEW r \in Requests, ClickPray(r) \/ StartReply(r) PROVE HeldInv'
    BY <1>9, ListsWhatIsHeld DEF HeldInv, ClickPray, StartReply
  <1>10. ASSUME NEW r \in Requests,
                \/ SetPublicVisibility(r) \/ AuthorMarks(r)
                \/ StaffSetPublicVisibility(r) \/ StaffMarks(r) \/ DeletePrayerRequest(r)
         PROVE  HeldInv'
    BY <1>10, EditingHolds
  <1> QED
    BY <1>1, <1>2, <1>3, <1>4, <1>5, <1>6, <1>7, <1>8, <1>9, <1>10 DEF PrayerNext

(* What reads as a crisis is on no visitor's tab until the member or the   *)
(* staff have made the stored request public (submit/page.tsx:49), however *)
(* submissions, edits, deletions and page loads interleave.                *)
THEOREM CrisisIsHeld == PrayerSpec => []CrisisHeld
  <1>1. PrayerInit => HeldInv
    BY InitHolds
  <1>2. HeldInv /\ [PrayerNext]_prayerVars => HeldInv'
    BY StepHolds
  <1>3. HeldInv => CrisisHeld
    BY DEF HeldInv
  <1> QED
    BY <1>1, <1>2, <1>3, PTL DEF PrayerSpec

-----------------------------------------------------------------------------
(* ... and of the church.                                                  *)

(* Every step is one of the team's actions or leaves the team alone.      *)
LEMMA TeamStep == [Next]_vars => [TeamNext]_teamVars
  BY DEF Next, vars, OnTeam, OnUsage, OnRate, OnList, OnWall, OnSetup, InSetup, OnForms,
     OnDocuments, OnAccounts, OnDesk, OnInsights, OnLog, OnListing,
     OnPanels, OnTypes, teamVars

(* Every step is one of the wall's actions or leaves the wall alone.      *)
LEMMA WallStep == [Next]_vars => [PrayerNext]_prayerVars
  BY DEF Next, vars, OnTeam, OnUsage, OnRate, OnList, OnWall, OnSetup, InSetup, OnForms,
     OnDocuments, OnAccounts, OnDesk, OnInsights, OnLog, OnListing,
     OnPanels, OnTypes, prayerVars

(* "An organization must have at least one owner" (team-service.ts:65), of *)
(* every number of people and of calls, as long as none has written while  *)
(* another was under way.                                                  *)
THEOREM ChurchHasOwner ==
  ASSUME IsFiniteSet(People), Founder \in People
  PROVE  Spec => []AnOwnerRemains
  <1>1. Init => TeamInit
    BY DEF Init
  <1>2. [Next]_vars => [TeamNext]_teamVars
    BY TeamStep
  <1>3. TeamSpec => []AnOwnerRemains
    BY OwnerRemains
  <1> QED
    BY <1>1, <1>2, <1>3, PTL DEF Spec, TeamSpec

(* What reads as a crisis is on no visitor's tab until the member or the   *)
(* staff have made the stored request public (submit/page.tsx:49).         *)
THEOREM ChurchHoldsCrises == Spec => []CrisisHeld
  <1>1. Init => PrayerInit
    BY DEF Init
  <1>2. [Next]_vars => [PrayerNext]_prayerVars
    BY WallStep
  <1>3. PrayerSpec => []CrisisHeld
    BY CrisisIsHeld
  <1> QED
    BY <1>1, <1>2, <1>3, PTL DEF Spec, PrayerSpec

-----------------------------------------------------------------------------
(* Accounts: one reset link is good at a time.                             *)

(* Every step is one of an account's calls or leaves the account alone.   *)
LEMMA AccountsStep == [Next]_vars => [AccountsPart!AccountsNext]_accountVars
  BY DEF Next, vars, OnTeam, OnUsage, OnRate, OnList, OnWall, OnSetup, InSetup, OnForms,
     OnDocuments, OnAccounts, OnDesk, OnInsights, OnLog, OnListing,
     OnPanels, OnTypes, accountVars

Asking(b) == visit[b].at \in {"clearing", "issuing", "mailing"}

VisitRow == [at : {"idle", "creating", "opening", "clearing", "issuing", "mailing", "hashing",
                   "spending"},
             link : 0..MaxLinks, password : Passwords \cup {AccountsPart!NoAccount}]

AccountsRows ==
  /\ linksAsked \in 0..MaxLinks
  /\ resetLinks \subseteq 1..linksAsked
  /\ visit \in [Browsers -> VisitRow]
  /\ password \in Passwords \cup {AccountsPart!NoAccount}
  /\ rivals \in [AccountsPart!Link -> SUBSET AccountsPart!Link]
  /\ \A b \in Browsers : Asking(b) => visit[b].link \in 1..linksAsked

(* Whoever asks for a link while b's request is under way knows of it.     *)
LaterKnow ==
  \A b \in Browsers, m \in 1..linksAsked :
    Asking(b) /\ visit[b].link < m => visit[b].link \in rivals[m]

(* What is stored once b has cleared the links before its own was asked    *)
(* for meanwhile, or was under way when b's was.                           *)
EarlierKnown ==
  \A b \in Browsers, l \in resetLinks :
    visit[b].at = "issuing" /\ l < visit[b].link => l \in rivals[visit[b].link]

AccountsInv == AccountsRows /\ LaterKnow /\ EarlierKnown /\ OneLiveLink

(* Nobody has asked for a link.                                            *)
LEMMA NoLinkYet == Init => AccountsInv
  <1> SUFFICES ASSUME Init PROVE AccountsInv
    OBVIOUS
  <1>1. /\ linksAsked = 0 /\ resetLinks = {}
        /\ visit = [b \in Browsers |-> AccountsPart!Quiet]
        /\ rivals = [l \in AccountsPart!Link |-> {}]
        /\ password \in Passwords \cup {AccountsPart!NoAccount}
    BY DEF Init, AccountsPart!AccountsInit
  <1>2. \A b \in Browsers : ~Asking(b) /\ visit[b].at # "issuing"
    BY <1>1 DEF Asking, AccountsPart!Quiet
  <1>3. AccountsPart!Quiet \in VisitRow
    BY ChurchAssumption DEF AccountsPart!Quiet, VisitRow
  <1> QED
    BY <1>1, <1>2, <1>3, ChurchAssumption
    DEF AccountsInv, AccountsRows, LaterKnow, EarlierKnown, OneLiveLink, AccountsPart!OneLiveLink

(* One browser goes on, nothing is asked for or stored, and it is no       *)
(* further with a request than it was: there is less to know.              *)
LEMMA VisitMoves ==
  ASSUME AccountsInv, NEW b \in Browsers, NEW v \in VisitRow,
         visit' = [visit EXCEPT ![b] = v],
         v.at \notin {"clearing", "issuing", "mailing"}
           \/ (Asking(b) /\ v.link = visit[b].link /\ (v.at = "issuing" => resetLinks' = {})),
         resetLinks' \subseteq resetLinks,
         password' \in Passwords \cup {AccountsPart!NoAccount},
         UNCHANGED <<linksAsked, rivals>>
  PROVE  AccountsInv'
  <1>1. \A c \in Browsers : visit'[c] = IF c = b THEN v ELSE visit[c]
    BY DEF AccountsInv, AccountsRows
  <1>2. \A c \in Browsers : Asking(c)' => Asking(c) /\ visit'[c].link = visit[c].link
    BY <1>1 DEF Asking
  <1>3. visit' \in [Browsers -> VisitRow]
    BY DEF AccountsInv, AccountsRows
  <1>4. AccountsRows'
    BY <1>2, <1>3 DEF AccountsInv, AccountsRows
  <1>5. LaterKnow'
    BY <1>2 DEF AccountsInv, LaterKnow
  <1>6. EarlierKnown'
    BY <1>1, <1>2 DEF AccountsInv, EarlierKnown
  <1>7. OneLiveLink'
    BY DEF AccountsInv, OneLiveLink, AccountsPart!OneLiveLink
  <1> QED
    BY <1>4, <1>5, <1>6, <1>7 DEF AccountsInv

(* Links go, and nothing else changes that matters.                        *)
LEMMA LinksGo ==
  ASSUME AccountsInv, resetLinks' \subseteq resetLinks,
         UNCHANGED <<linksAsked, rivals, visit, password>>
  PROVE  AccountsInv'
  BY DEF AccountsInv, AccountsRows, LaterKnow, EarlierKnown, OneLiveLink,
     AccountsPart!OneLiveLink, Asking

(* A request for a link: it knows of those under way, they of it.          *)
LEMMA LinkAsked ==
  ASSUME AccountsInv, NEW b \in Browsers, AccountsPart!AsksForLink(b)
  PROVE  AccountsInv'
  <1> DEFINE v == [AccountsPart!Quiet EXCEPT !.at = "clearing", !.link = linksAsked']
  <1>1. linksAsked' = linksAsked + 1 /\ linksAsked' \in AccountsPart!Link
    BY ChurchAssumption DEF AccountsInv, AccountsRows, AccountsPart!AsksForLink, AccountsPart!Link
  <1>a. linksAsked' \in 0..MaxLinks
    BY <1>1, ChurchAssumption DEF AccountsPart!Link
  <1>2. v \in VisitRow /\ v.at = "clearing" /\ v.link = linksAsked'
    <2> DEFINE n == linksAsked'
    <2>1. n \in 0..MaxLinks
      BY <1>a
    <2> HIDE DEF n
    <2> QED
      BY <2>1 DEF AccountsPart!Quiet, VisitRow, n
  <1>3. visit' = [visit EXCEPT ![b] = v]
    BY DEF AccountsPart!AsksForLink, AccountsPart!Begins
  <1>4. visit[b].at = "idle"
    BY DEF AccountsPart!AsksForLink, AccountsPart!Begins, AccountsPart!Quiet
  <1>5. UNCHANGED <<resetLinks, password>>
    BY DEF AccountsPart!AsksForLink
  <1>6. \A c \in Browsers : Asking(c) <=> visit[c].link \in AccountsPart!UnderWay /\ Asking(c)
    BY DEF Asking, AccountsPart!UnderWay
  <1>7. AccountsPart!UnderWay \subseteq 1..linksAsked
    BY DEF AccountsPart!UnderWay, AccountsInv, AccountsRows, Asking
  <1>8. /\ rivals'[linksAsked'] = AccountsPart!UnderWay
        /\ \A l \in 1..linksAsked : rivals[l] \subseteq rivals'[l]
        /\ rivals' \in [AccountsPart!Link -> SUBSET AccountsPart!Link]
    <2> DEFINE U == AccountsPart!UnderWay
               n == linksAsked'
               R(l) == IF l = n THEN U ELSE IF l \in U THEN rivals[l] \cup {n} ELSE rivals[l]
    <2>1. rivals' = [l \in AccountsPart!Link |-> R(l)]
      BY DEF AccountsPart!AsksForLink
    <2>2. 1..linksAsked \subseteq AccountsPart!Link /\ n \notin 1..linksAsked
      BY <1>1, ChurchAssumption DEF AccountsPart!Link, AccountsInv, AccountsRows
    <2>3. U \subseteq AccountsPart!Link /\ n \in AccountsPart!Link
      BY <1>1, <1>7, <2>2
    <2>4. rivals \in [AccountsPart!Link -> SUBSET AccountsPart!Link]
      BY DEF AccountsInv, AccountsRows
    <2> HIDE DEF U, n
    <2>5. rivals' \in [AccountsPart!Link -> SUBSET AccountsPart!Link]
      BY <2>1, <2>3, <2>4
    <2>6. rivals'[n] = U
      BY <2>1, <2>3
    <2>7. \A l \in 1..linksAsked : rivals[l] \subseteq rivals'[l]
      BY <2>1, <2>2
    <2> QED
      BY <2>5, <2>6, <2>7 DEF U, n
  <1> HIDE DEF v
  <1>9. \A c \in Browsers : visit'[c] = IF c = b THEN v ELSE visit[c]
    BY <1>3 DEF AccountsInv, AccountsRows
  <1>10. \A c \in Browsers \ {b} : Asking(c)' <=> Asking(c)
    BY <1>9 DEF Asking
  <1>11. AccountsRows'
    <2>1. visit' \in [Browsers -> VisitRow]
      BY <1>2, <1>3 DEF AccountsInv, AccountsRows
    <2>2. \A c \in Browsers : Asking(c)' => visit'[c].link \in 1..linksAsked'
      BY <1>1, <1>2, <1>9, <1>10 DEF AccountsInv, AccountsRows, AccountsPart!Link
    <2> QED
      BY <1>1, <1>5, <1>8, <2>1, <2>2 DEF AccountsInv, AccountsRows, AccountsPart!Link
  <1>12. LaterKnow'
    <2> SUFFICES ASSUME NEW c \in Browsers, NEW m \in 1..linksAsked',
                        Asking(c)', visit'[c].link < m
                 PROVE  visit'[c].link \in rivals'[m]
      BY DEF LaterKnow
    <2>1. c # b
      BY <1>1, <1>2, <1>9 DEF AccountsPart!Link
    <2>2. CASE m = linksAsked'
      BY <1>6, <1>8, <1>9, <1>10, <2>1, <2>2
    <2>3. CASE m \in 1..linksAsked
      BY <1>8, <1>9, <1>10, <2>1, <2>3 DEF AccountsInv, LaterKnow
    <2> QED
      BY <1>1, <2>2, <2>3 DEF AccountsInv, AccountsRows
  <1>13. EarlierKnown'
    BY <1>2, <1>5, <1>8, <1>9, <1>10 DEF AccountsInv, AccountsRows, EarlierKnown, Asking
  <1>14. OneLiveLink'
    BY <1>5, <1>8 DEF AccountsInv, AccountsRows, OneLiveLink, AccountsPart!OneLiveLink
  <1> QED
    BY <1>11, <1>12, <1>13, <1>14 DEF AccountsInv

(* A link is stored beside those that its request or theirs knew of.       *)
LEMMA LinkStored ==
  ASSUME AccountsInv, NEW b \in Browsers, AccountsPart!CreateResetToken(b)
  PROVE  AccountsInv'
  <1> DEFINE k == visit[b].link
             v == [visit[b] EXCEPT !.at = "mailing"]
  <1>1. visit[b] \in VisitRow /\ visit[b].at = "issuing"
    BY DEF AccountsInv, AccountsRows, AccountsPart!CreateResetToken
  <1>2. v \in VisitRow /\ v.at = "mailing" /\ v.link = k
    BY <1>1 DEF VisitRow
  <1>3. visit' = [visit EXCEPT ![b] = v] /\ resetLinks' = resetLinks \cup {k}
    BY DEF AccountsPart!CreateResetToken, AccountsPart!GoesOn
  <1>4. UNCHANGED <<linksAsked, rivals, password>>
    BY DEF AccountsPart!CreateResetToken
  <1>5. Asking(b)
    BY <1>1 DEF Asking
  <1>6. k \in 1..linksAsked
    BY <1>5 DEF AccountsInv, AccountsRows
  <1> HIDE DEF v, k
  <1>7. \A c \in Browsers : visit'[c] = IF c = b THEN v ELSE visit[c]
    BY <1>3 DEF AccountsInv, AccountsRows
  <1>8. \A c \in Browsers : (Asking(c)' <=> Asking(c)) /\ visit'[c].link = visit[c].link
    BY <1>2, <1>5, <1>7 DEF Asking, k
  <1>9. AccountsRows'
    BY <1>2, <1>3, <1>4, <1>6, <1>8 DEF AccountsInv, AccountsRows
  <1>10. LaterKnow'
    BY <1>4, <1>8 DEF AccountsInv, LaterKnow
  <1>11. EarlierKnown'
    <2> SUFFICES ASSUME NEW c \in Browsers, NEW l \in resetLinks',
                        visit'[c].at = "issuing", l < visit'[c].link
                 PROVE  l \in rivals'[visit'[c].link]
      BY DEF EarlierKnown
    <2>1. visit[c].at = "issuing" /\ visit'[c].link = visit[c].link /\ Asking(c)
      BY <1>2, <1>7 DEF Asking
    <2>2. visit[c].link \in 1..linksAsked
      BY <2>1 DEF AccountsInv, AccountsRows
    <2>3. CASE l \in resetLinks
      BY <1>4, <2>1, <2>3 DEF AccountsInv, EarlierKnown
    <2>4. CASE l = k
      BY <1>4, <1>5, <2>1, <2>2, <2>4 DEF AccountsInv, LaterKnow, k
    <2> QED
      BY <1>3, <2>3, <2>4
  <1>12. OneLiveLink'
    <2> SUFFICES ASSUME NEW l \in resetLinks', NEW m \in resetLinks', l < m
                 PROVE  l \in rivals'[m]
      BY DEF OneLiveLink, AccountsPart!OneLiveLink
    <2>1. l \in 1..linksAsked /\ m \in 1..linksAsked
      BY <1>3, <1>6 DEF AccountsInv, AccountsRows
    <2>2. CASE l \in resetLinks /\ m \in resetLinks
      BY <1>4, <2>2 DEF AccountsInv, OneLiveLink, AccountsPart!OneLiveLink
    <2>3. CASE l = k
      BY <1>4, <1>5, <2>1, <2>3 DEF AccountsInv, LaterKnow, k
    <2>4. CASE l \in resetLinks /\ m = k
      BY <1>1, <1>4, <2>4 DEF AccountsInv, EarlierKnown, k
    <2> QED
      BY <1>3, <2>2, <2>3, <2>4
  <1> QED
    BY <1>9, <1>10, <1>11, <1>12 DEF AccountsInv

(* Every call keeps what the links' requests know of each other.           *)
LEMMA AccountsKeep == AccountsInv /\ [AccountsPart!AccountsNext]_accountVars => AccountsInv'
  <1> SUFFICES ASSUME AccountsInv, [AccountsPart!AccountsNext]_accountVars
               PROVE  AccountsInv'
    OBVIOUS
  <1> USE DEF AccountsPart!GoesOn, AccountsPart!Finishes, AccountsPart!Begins
  <1>q. AccountsPart!Quiet \in VisitRow /\ AccountsPart!Quiet.at = "idle"
    BY ChurchAssumption DEF AccountsPart!Quiet, VisitRow
  <1>e. ASSUME NEW a \in {"creating", "opening"}, NEW p \in Passwords \cup {AccountsPart!NoAccount}
        PROVE  /\ [AccountsPart!Quiet EXCEPT !.at = a, !.password = p] \in VisitRow
               /\ [AccountsPart!Quiet EXCEPT !.at = a, !.password = p].at = a
    BY <1>q DEF VisitRow
  <1>v. \A b \in Browsers : visit[b] \in VisitRow
    BY DEF AccountsInv, AccountsRows
  <1>p. password \in Passwords \cup {AccountsPart!NoAccount}
    BY DEF AccountsInv, AccountsRows
  <1>f. ASSUME NEW b \in Browsers, visit' = [visit EXCEPT ![b] = AccountsPart!Quiet],
               resetLinks' \subseteq resetLinks, UNCHANGED <<password, linksAsked, rivals>>
        PROVE  AccountsInv'
    BY <1>f, <1>q, <1>p, VisitMoves
  <1>1. CASE AccountsPart!EnableWall
    BY <1>1, LinksGo DEF AccountsPart!EnableWall
  <1>2. CASE AccountsPart!SessionExpires
    BY <1>2, LinksGo DEF AccountsPart!SessionExpires
  <1>3. CASE AccountsPart!LinkExpires
    <2>1. resetLinks' \subseteq resetLinks
      BY <1>3 DEF AccountsPart!LinkExpires
    <2>2. UNCHANGED <<linksAsked, rivals, visit, password>>
      BY <1>3 DEF AccountsPart!LinkExpires
    <2> QED
      BY <2>1, <2>2, LinksGo
  <1>4. ASSUME NEW b \in Browsers, AccountsPart!StartSignUp(b)
        PROVE  AccountsInv'
    <2>1. PICK p \in Passwords :
            visit' = [visit EXCEPT ![b] = [AccountsPart!Quiet EXCEPT !.at = "creating",
                                                                     !.password = p]]
      BY <1>4 DEF AccountsPart!StartSignUp
    <2>2. /\ [AccountsPart!Quiet EXCEPT !.at = "creating", !.password = p] \in VisitRow
          /\ [AccountsPart!Quiet EXCEPT !.at = "creating", !.password = p].at = "creating"
      BY <1>e
    <2>4. UNCHANGED <<resetLinks, password, linksAsked, rivals>>
      BY <1>4 DEF AccountsPart!StartSignUp
    <2> QED
      BY <1>p, <2>1, <2>2, <2>4, VisitMoves
  <1>5. ASSUME NEW b \in Browsers, AccountsPart!CreateAccount(b)
        PROVE  AccountsInv'
    <2>1. /\ visit' = [visit EXCEPT ![b] = [visit[b] EXCEPT !.at = "opening"]]
          /\ password' = visit[b].password
          /\ UNCHANGED <<resetLinks, linksAsked, rivals>>
      BY <1>5 DEF AccountsPart!CreateAccount
    <2>2. /\ [visit[b] EXCEPT !.at = "opening"] \in VisitRow
          /\ [visit[b] EXCEPT !.at = "opening"].at = "opening"
          /\ password' \in Passwords \cup {AccountsPart!NoAccount}
      BY <1>v, <2>1 DEF VisitRow
    <2> QED
      BY <2>1, <2>2, VisitMoves
  <1>6. ASSUME NEW b \in Browsers, AccountsPart!LogIn(b)
        PROVE  AccountsInv'
    <2> DEFINE v == [AccountsPart!Quiet EXCEPT !.at = "opening", !.password = password]
    <2>1. v \in VisitRow /\ v.at = "opening"
      BY <1>p, <1>e
    <2>2. visit' = [visit EXCEPT ![b] = v] /\ UNCHANGED <<resetLinks, password, linksAsked, rivals>>
      BY <1>6 DEF AccountsPart!LogIn
    <2> HIDE DEF v
    <2> QED
      BY <1>p, <2>1, <2>2, VisitMoves
  <1>7. ASSUME NEW b \in Browsers, AccountsPart!OpenSession(b)
        PROVE  AccountsInv'
    BY <1>f, <1>7 DEF AccountsPart!OpenSession
  <1>8. ASSUME NEW b \in Browsers, AccountsPart!Authorize(b)
        PROVE  AccountsInv'
    BY <1>8, LinksGo DEF AccountsPart!Authorize
  <1>9. ASSUME NEW b \in Browsers, AccountsPart!LogOut(b)
        PROVE  AccountsInv'
    BY <1>9, LinksGo DEF AccountsPart!LogOut
  <1>10. ASSUME NEW b \in Browsers,
                AccountsPart!RequestReset(b) \/ AccountsPart!RequestPasswordReset(b)
         PROVE  AccountsInv'
    BY <1>10, LinkAsked DEF AccountsPart!RequestReset, AccountsPart!RequestPasswordReset
  <1>11. ASSUME NEW b \in Browsers, AccountsPart!DeletePriorTokens(b)
         PROVE  AccountsInv'
    <2> DEFINE v == [visit[b] EXCEPT !.at = "issuing"]
    <2>1. v \in VisitRow /\ v.at = "issuing" /\ v.link = visit[b].link
      BY <1>v DEF VisitRow
    <2>2. visit' = [visit EXCEPT ![b] = v] /\ UNCHANGED <<password, linksAsked, rivals>>
      BY <1>11 DEF AccountsPart!DeletePriorTokens
    <2>3. resetLinks' = {} /\ Asking(b)
      BY <1>11 DEF AccountsPart!DeletePriorTokens, Asking
    <2> HIDE DEF v
    <2> QED
      BY <1>p, <2>1, <2>2, <2>3, VisitMoves
  <1>12. ASSUME NEW b \in Browsers, AccountsPart!CreateResetToken(b)
         PROVE  AccountsInv'
    BY <1>12, LinkStored
  <1>13. ASSUME NEW b \in Browsers, AccountsPart!MailLink(b)
         PROVE  AccountsInv'
    BY <1>f, <1>13 DEF AccountsPart!MailLink
  <1>14. ASSUME NEW b \in Browsers,
                AccountsPart!ResetPassword(b) \/ AccountsPart!ResetUserPassword(b)
         PROVE  AccountsInv'
    <2>1. AccountsPart!Submits(b)
      BY <1>14 DEF AccountsPart!ResetPassword, AccountsPart!ResetUserPassword
    <2>2. PICK l \in resetLinks, p \in Passwords :
            visit' = [visit EXCEPT ![b] = [at |-> "hashing", link |-> l, password |-> p]]
      BY <2>1 DEF AccountsPart!Submits
    <2>3. l \in 0..MaxLinks
      <3>1. l \in 1..linksAsked /\ linksAsked \in 0..MaxLinks
        BY <2>2, Zenon DEF AccountsInv, AccountsRows
      <3>2. MaxLinks \in Nat
        BY ChurchAssumption
      <3> QED
        BY <3>1, <3>2
    <2>4. [at |-> "hashing", link |-> l, password |-> p] \in VisitRow
      BY <2>3 DEF VisitRow
    <2>5. UNCHANGED <<resetLinks, password, linksAsked, rivals>>
      BY <2>1 DEF AccountsPart!Submits
    <2> QED
      BY <1>p, <2>2, <2>4, <2>5, VisitMoves
  <1>15. ASSUME NEW b \in Browsers, AccountsPart!UpdatePassword(b)
         PROVE  AccountsInv'
    <2>1. /\ visit' = [visit EXCEPT ![b] = [visit[b] EXCEPT !.at = "spending"]]
          /\ password' = visit[b].password
          /\ UNCHANGED <<resetLinks, linksAsked, rivals>>
      BY <1>15 DEF AccountsPart!UpdatePassword
    <2>2. /\ [visit[b] EXCEPT !.at = "spending"] \in VisitRow
          /\ [visit[b] EXCEPT !.at = "spending"].at = "spending"
          /\ password' \in Passwords \cup {AccountsPart!NoAccount}
      BY <1>v, <2>1 DEF VisitRow
    <2> QED
      BY <2>1, <2>2, VisitMoves
  <1>16. ASSUME NEW b \in Browsers, AccountsPart!DeleteResetToken(b)
         PROVE  AccountsInv'
    BY <1>f, <1>16 DEF AccountsPart!DeleteResetToken
  <1>17. ASSUME NEW b \in Browsers, AccountsPart!VisitThrows(b)
         PROVE  AccountsInv'
    BY <1>f, <1>17 DEF AccountsPart!VisitThrows
  <1>18. CASE UNCHANGED accountVars
    BY <1>18, LinksGo DEF accountVars
  <1> QED
    BY <1>1, <1>2, <1>3, <1>4, <1>5, <1>6, <1>7, <1>8, <1>9, <1>10, <1>11, <1>12, <1>13, <1>14,
       <1>15, <1>16, <1>17, <1>18 DEF AccountsPart!AccountsNext

(* "At most one valid reset link exists at a time" (user-service.ts:51), of *)
(* every number of browsers and of links: two are only good together when  *)
(* the requests for them were under way together, whatever was broken off. *)
THEOREM OneLinkIsLive == Spec => []OneLiveLink
  <1>1. Init => AccountsInv
    BY NoLinkYet
  <1>2. AccountsInv /\ [Next]_vars => AccountsInv'
    BY AccountsStep, AccountsKeep
  <1>3. AccountsInv => OneLiveLink
    BY DEF AccountsInv
  <1> QED
    BY <1>1, <1>2, <1>3, PTL DEF Spec

-----------------------------------------------------------------------------
(* UsageWarnings: a threshold is mailed once a month.                      *)

(* Every step is one of the daily run's, of the visitors' or of the        *)
(* calendar's, or leaves usage alone.                                      *)
LEMMA UsageStep == [Next]_vars => [UsagePart!UsageNext]_usageVars
  BY DEF Next, vars, OnTeam, OnUsage, OnRate, OnList, OnWall, OnSetup, InSetup, OnForms,
     OnDocuments, OnAccounts, OnDesk, OnInsights, OnLog, OnListing,
     OnPanels, OnTypes, usageVars

Months     == [UsagePart!Thresholds -> {0} \cup Periods]
Passing    == [at : {"checking"}, left : SUBSET Organizations, seen : [Organizations -> Months]]
Warning    == [at : {"mailing", "recording"}, left : SUBSET Organizations,
               seen : [Organizations -> Months], of : Organizations,
               threshold : UsagePart!Thresholds, month : Periods]
Counters   == [Organizations -> [UsagePart!Thresholds -> [Periods -> Nat]]]

UsageRows ==
  /\ period \in Periods
  /\ sentAt \in [Organizations -> Months]
  /\ run \in {UsagePart!Idle} \cup Passing \cup Warning
  /\ mails \in Counters /\ owed \in Counters

(* What a run has still to go through is recorded as the run read it, and  *)
(* it is through with the one it is warning.                               *)
AsRead ==
  run # UsagePart!Idle =>
    /\ \A o \in run.left : sentAt[o] = run.seen[o]
    /\ run.at \in {"mailing", "recording"} =>
         run.of \notin run.left /\ run.month <= period

(* No record is of a month to come.                                        *)
NotAhead == \A o \in Organizations, t \in UsagePart!Thresholds : sentAt[o][t] <= period

(* A mail is only under way about what has no record for its month.        *)
Unrecorded == run.at = "mailing" => sentAt[run.of][run.threshold] < run.month

(* The mail of a run that is about to record it.                           *)
Sent(o, t, p) == run.at = "recording" /\ run.of = o /\ run.threshold = t /\ run.month = p

(* What has no record, and no run about to make one, was only mailed by    *)
(* runs that were cut.                                                     *)
MailsAreKnown ==
  \A o \in Organizations, t \in UsagePart!Thresholds, p \in Periods :
    /\ mails[o][t][p] <= owed[o][t][p] + 1
    /\ sentAt[o][t] < p /\ ~Sent(o, t, p) => mails[o][t][p] <= owed[o][t][p]

UsageInv == UsageRows /\ AsRead /\ NotAhead /\ Unrecorded /\ MailsAreKnown

(* Which of its three shapes a run has, is how far it is.                  *)
LEMMA RunShapes ==
  ASSUME UsageInv
  PROVE  /\ run.at \in {"no", "checking", "mailing", "recording"}
         /\ run.at = "no" <=> run = UsagePart!Idle
         /\ run.at = "checking" => run \in Passing
         /\ run.at \in {"mailing", "recording"} => run \in Warning
  BY DEF UsageInv, UsageRows, UsagePart!Idle, Passing, Warning

(* What a run has still to go through, as long as it has it recorded.      *)
LEMMA NoneMailed ==
  ASSUME NEW o \in Organizations, NEW t \in UsagePart!Thresholds, NEW p \in Periods
  PROVE  UsagePart!None[o][t][p] = 0
  BY DEF UsagePart!None

(* Nothing has been mailed.                                                *)
LEMMA NothingMailed == Init => UsageInv
  <1> SUFFICES ASSUME Init PROVE UsageInv
    OBVIOUS
  <1>1. /\ period = 1 /\ run = UsagePart!Idle
        /\ sentAt = [o \in Organizations |-> [t \in UsagePart!Thresholds |-> 0]]
        /\ mails = UsagePart!None /\ owed = UsagePart!None
    BY DEF Init, UsagePart!UsageInit
  <1>2. UsagePart!None \in Counters
    BY DEF UsagePart!None, Counters
  <1>3. UsageRows
    BY <1>1, <1>2, ChurchAssumption DEF UsageRows, Months
  <1>4. run.at = "no"
    BY <1>1 DEF UsagePart!Idle
  <1>5. MailsAreKnown
    BY <1>1, NoneMailed DEF MailsAreKnown
  <1>6. NotAhead
    BY <1>1 DEF NotAhead
  <1> QED
    BY <1>1, <1>3, <1>4, <1>5, <1>6 DEF UsageInv, AsRead, Unrecorded

(* A step of no mail and no record keeps what is known of the mails, if    *)
(* what was about to be recorded still is.                                 *)
LEMMA NothingWritten ==
  ASSUME UsageInv, UNCHANGED <<sentAt, mails, owed>>,
         run.at = "recording" => UNCHANGED run
  PROVE  MailsAreKnown'
  <1>1. run.at = "recording" =>
          \A o, t, p : Sent(o, t, p)' <=> Sent(o, t, p)
    BY DEF Sent
  <1>2. run.at # "recording" => \A o, t, p : ~Sent(o, t, p)
    BY DEF Sent
  <1> QED
    BY <1>1, <1>2 DEF UsageInv, MailsAreKnown

(* Never, or a month.                                                      *)
LEMMA MonthIsNumber ==
  ASSUME NEW m \in Months, NEW t \in UsagePart!Thresholds
  PROVE  m[t] \in Nat
  <1>1. m[t] = 0 \/ m[t] \in Periods
    BY DEF Months
  <1>2. \A p \in Periods : p \in Nat
    BY ChurchAssumption
  <1>3. CASE m[t] = 0
    BY <1>3
  <1>4. CASE m[t] \in Periods
    BY <1>2, <1>4
  <1> QED
    BY <1>1, <1>3, <1>4

(* Records do not run ahead of a calendar that goes on.                    *)
LEMMA StillNotAhead ==
  ASSUME UsageInv, UNCHANGED sentAt, period' \in Periods, period' >= period
  PROVE  NotAhead'
  <1> SUFFICES ASSUME NEW o \in Organizations, NEW t \in UsagePart!Thresholds
               PROVE  sentAt[o][t] <= period'
    BY DEF NotAhead
  <1>1. sentAt[o] \in Months
    BY DEF UsageInv, UsageRows
  <1>4. sentAt[o][t] \in Nat
    BY <1>1, MonthIsNumber
  <1>3. sentAt[o][t] \in Nat /\ period \in Nat /\ period' \in Nat
    BY <1>4, ChurchAssumption DEF UsageInv, UsageRows
  <1>2. sentAt[o][t] <= period
    BY DEF UsageInv, NotAhead
  <1> QED
    BY <1>2, <1>3

(* The run stops, or has not begun.                                        *)
LEMMA RunStops ==
  ASSUME UsageInv, run' = UsagePart!Idle, UsageRows', NotAhead', MailsAreKnown'
  PROVE  UsageInv'
  <1>1. UsagePart!Idle.at = "no"
    BY DEF UsagePart!Idle
  <1> QED
    BY <1>1 DEF UsageInv, AsRead, Unrecorded

(* Visitors ask and months pass whatever the run is about.                 *)
LEMMA TimePasses ==
  ASSUME UsageInv, period' \in Periods, period' >= period,
         UNCHANGED <<sentAt, run, mails, owed>>
  PROVE  UsageInv'
  <1>1. UsageRows'
    BY DEF UsageInv, UsageRows
  <1>2. AsRead'
    <2>1. period \in Nat /\ period' \in Nat
      BY ChurchAssumption DEF UsageInv, UsageRows
    <2>2. run.at \in {"mailing", "recording"} => run.month \in Nat
      BY RunShapes, ChurchAssumption DEF Warning
    <2> QED
      BY <2>1, <2>2 DEF UsageInv, AsRead
  <1>3. Unrecorded'
    BY DEF UsageInv, Unrecorded
  <1>4. MailsAreKnown'
    BY NothingWritten
  <1>5. NotAhead'
    BY StillNotAhead
  <1> QED
    BY <1>1, <1>2, <1>3, <1>4, <1>5 DEF UsageInv

(* One organization is looked at: it is left out, or warned of what the    *)
(* run read no record of.                                                  *)
LEMMA OneLookedAt ==
  ASSUME UsageInv, NEW o \in Organizations, UsagePart!CheckOrganizationUsage(o)
  PROVE  UsageInv'
  <1> DEFINE left == run.left \ {o}
             on == [run EXCEPT !.left = @ \ {o}]
             warn == [at |-> "mailing", left |-> left, seen |-> run.seen, of |-> o,
                      threshold |-> UsagePart!Threshold(o), month |-> period]
  <1>1. run \in Passing /\ run.at = "checking" /\ o \in run.left /\ run # UsagePart!Idle
    BY RunShapes DEF UsagePart!CheckOrganizationUsage, UsagePart!Idle
  <1>2. UNCHANGED <<period, sentAt, mails, owed>>
    BY DEF UsagePart!CheckOrganizationUsage
  <1>3. MailsAreKnown'
    BY <1>1, <1>2, NothingWritten
  <1>4. \A other \in run.left : sentAt[other] = run.seen[other]
    BY <1>1 DEF UsageInv, AsRead
  <1>7. period \in Periods /\ period \in Nat
    BY ChurchAssumption DEF UsageInv, UsageRows
  <1>8. NotAhead'
    BY <1>2, <1>7, StillNotAhead
  <1>5. CASE UsagePart!Due(o) # {} /\ hasOwner[o]
    <2>1. run' = warn
      BY <1>5 DEF UsagePart!CheckOrganizationUsage
    <2>2. /\ UsagePart!Threshold(o) \in UsagePart!Thresholds
          /\ UsagePart!Threshold(o) \in UsagePart!Due(o)
      BY <1>5 DEF UsagePart!Threshold, UsagePart!Due, UsagePart!Thresholds
    <2>3. warn \in Warning
      BY <1>1, <2>2 DEF Passing, Warning, UsageInv, UsageRows
    <2>4. /\ run'.at = "mailing" /\ run'.left = left /\ run'.seen = run.seen
          /\ run'.of = o /\ run'.threshold = UsagePart!Threshold(o) /\ run'.month = period
      BY <2>1
    <2>5. UsageRows'
      BY <1>2, <2>1, <2>3 DEF UsageInv, UsageRows
    <2>6. AsRead'
      <3>1. period \in Nat
        BY ChurchAssumption DEF UsageInv, UsageRows
      <3> QED
        BY <1>2, <1>4, <2>4, <3>1 DEF AsRead
    <2>7. run.seen[o][UsagePart!Threshold(o)] < period
      BY <2>2 DEF UsagePart!Due
    <2>8. Unrecorded'
      BY <1>1, <1>2, <1>4, <2>4, <2>7 DEF Unrecorded
    <2> QED
      BY <1>3, <1>8, <2>5, <2>6, <2>8 DEF UsageInv
  <1>6. CASE ~(UsagePart!Due(o) # {} /\ hasOwner[o])
    <2>1. run' = on
      BY <1>6 DEF UsagePart!CheckOrganizationUsage
    <2>2. on \in Passing /\ on.at = "checking" /\ on.left = left /\ on.seen = run.seen
      BY <1>1 DEF Passing
    <2> HIDE DEF on
    <2>3. UsageRows'
      BY <1>2, <2>1, <2>2 DEF UsageInv, UsageRows
    <2>4. AsRead' /\ Unrecorded'
      BY <1>2, <1>4, <2>1, <2>2 DEF AsRead, Unrecorded
    <2> QED
      BY <1>3, <1>8, <2>3, <2>4 DEF UsageInv
  <1> QED
    BY <1>5, <1>6

(* One counter goes up, of what is known to be counted.                    *)
LEMMA OneMailMore ==
  ASSUME NEW m \in Counters, NEW o \in Organizations, NEW t \in UsagePart!Thresholds,
         NEW p \in Periods
  PROVE  /\ [m EXCEPT ![o][t][p] = @ + 1] \in Counters
         /\ \A o2 \in Organizations, t2 \in UsagePart!Thresholds, p2 \in Periods :
              [m EXCEPT ![o][t][p] = @ + 1][o2][t2][p2] =
                IF o2 = o /\ t2 = t /\ p2 = p THEN m[o][t][p] + 1 ELSE m[o2][t2][p2]
  BY DEF Counters

(* The mail goes out: the only one of its month without a record.          *)
LEMMA OneMailed ==
  ASSUME UsageInv, UsagePart!SendEmail
  PROVE  UsageInv'
  <1> DEFINE o == run.of
             t == run.threshold
             p == run.month
             now2 == [run EXCEPT !.at = "recording"]
  <1>1. run \in Warning /\ run.at = "mailing"
    BY RunShapes DEF UsagePart!SendEmail
  <1>2. /\ o \in Organizations /\ t \in UsagePart!Thresholds /\ p \in Periods
    BY <1>1 DEF Warning
  <1>3. /\ now2 \in Warning /\ now2.at = "recording" /\ now2.of = o /\ now2.threshold = t
        /\ now2.month = p /\ now2.left = run.left /\ now2.seen = run.seen
    BY <1>1 DEF Warning
  <1>4. run' = now2 /\ UNCHANGED <<period, sentAt, owed>>
    BY DEF UsagePart!SendEmail
  <1>5. mails' = [mails EXCEPT ![o][t][p] = @ + 1]
    BY DEF UsagePart!SendEmail
  <1>6. mails \in Counters /\ owed \in Counters
    BY DEF UsageInv, UsageRows
  <1>7. run # UsagePart!Idle
    BY <1>1 DEF UsagePart!Idle
  <1> HIDE DEF o, t, p, now2
  <1>8. UsageRows'
    BY <1>2, <1>3, <1>4, <1>5, <1>6, OneMailMore DEF UsageInv, UsageRows
  <1>9. AsRead' /\ Unrecorded'
    BY <1>1, <1>3, <1>4, <1>7 DEF UsageInv, AsRead, Unrecorded, o, t, p
  <1>10. MailsAreKnown'
    <2> SUFFICES ASSUME NEW o2 \in Organizations, NEW t2 \in UsagePart!Thresholds,
                        NEW p2 \in Periods
                 PROVE  /\ mails'[o2][t2][p2] <= owed'[o2][t2][p2] + 1
                        /\ sentAt'[o2][t2] < p2 /\ ~Sent(o2, t2, p2)'
                             => mails'[o2][t2][p2] <= owed'[o2][t2][p2]
      BY DEF MailsAreKnown
    <2>1. \A a, b, c : ~Sent(a, b, c)
      BY <1>1 DEF Sent
    <2>2. mails[o2][t2][p2] \in Nat /\ owed[o2][t2][p2] \in Nat
      BY <1>6 DEF Counters
    <2>3. CASE o2 = o /\ t2 = t /\ p2 = p
      <3>1. Sent(o2, t2, p2)'
        BY <1>3, <1>4, <2>3 DEF Sent
      <3>2. sentAt[o2][t2] < p2
        BY <1>1, <2>3 DEF UsageInv, Unrecorded, o, t, p
      <3>3. mails[o2][t2][p2] <= owed[o2][t2][p2]
        BY <2>1, <3>2 DEF UsageInv, MailsAreKnown
      <3>4. mails'[o2][t2][p2] = mails[o2][t2][p2] + 1
        BY <1>2, <1>5, <1>6, <2>3, OneMailMore
      <3> QED
        BY <1>4, <2>2, <3>1, <3>3, <3>4
    <2>4. CASE ~(o2 = o /\ t2 = t /\ p2 = p)
      <3>1. mails'[o2][t2][p2] = mails[o2][t2][p2]
        BY <1>2, <1>5, <1>6, <2>4, OneMailMore
      <3> QED
        BY <1>4, <2>1, <3>1 DEF UsageInv, MailsAreKnown
    <2> QED
      BY <2>3, <2>4
  <1>11. period \in Periods /\ period \in Nat
    BY ChurchAssumption DEF UsageInv, UsageRows
  <1>12. NotAhead'
    BY <1>4, <1>11, StillNotAhead
  <1> QED
    BY <1>8, <1>9, <1>10, <1>12 DEF UsageInv

(* The record of a mail that went out.                                     *)
LEMMA OneRecorded ==
  ASSUME UsageInv, UsagePart!RecordUsageWarningSent
  PROVE  UsageInv'
  <1> DEFINE o == run.of
             t == run.threshold
  <1>1. run \in Warning /\ run.at = "recording" /\ run # UsagePart!Idle
    BY RunShapes DEF UsagePart!RecordUsageWarningSent, UsagePart!Idle
  <1>2. o \in Organizations /\ t \in UsagePart!Thresholds /\ run.month \in Periods
    BY <1>1 DEF Warning
  <1>3. /\ run' = UsagePart!Checking /\ sentAt' = [sentAt EXCEPT ![o][t] = period]
        /\ UNCHANGED <<period, mails, owed>>
    BY DEF UsagePart!RecordUsageWarningSent
  <1>4. UsagePart!Checking \in Passing
    BY <1>1 DEF UsagePart!Checking, Warning, Passing
  <1>5. run'.at = "checking" /\ run'.left = run.left /\ run'.seen = run.seen
    BY <1>3 DEF UsagePart!Checking
  <1>6. /\ o \notin run.left /\ run.month <= period
        /\ \A other \in run.left : sentAt[other] = run.seen[other]
    BY <1>1 DEF UsageInv, AsRead
  <1>7. sentAt \in [Organizations -> Months] /\ period \in Periods
    BY DEF UsageInv, UsageRows
  <1> HIDE DEF o, t
  <1>8. sentAt' \in [Organizations -> Months]
    BY <1>2, <1>3, <1>7 DEF Months
  <1>9. UsageRows'
    BY <1>3, <1>4, <1>8 DEF UsageInv, UsageRows
  <1>10. \A other \in Organizations \ {o} : sentAt'[other] = sentAt[other]
    BY <1>3, <1>7
  <1>11. run.left \subseteq Organizations
    BY <1>1 DEF Warning
  <1>12. AsRead' /\ Unrecorded'
    BY <1>5, <1>6, <1>10, <1>11 DEF AsRead, Unrecorded
  <1>13. MailsAreKnown'
    <2> SUFFICES ASSUME NEW o2 \in Organizations, NEW t2 \in UsagePart!Thresholds,
                        NEW p2 \in Periods
                 PROVE  /\ mails'[o2][t2][p2] <= owed'[o2][t2][p2] + 1
                        /\ sentAt'[o2][t2] < p2 /\ ~Sent(o2, t2, p2)'
                             => mails'[o2][t2][p2] <= owed'[o2][t2][p2]
      BY DEF MailsAreKnown
    <2>1. mails[o2][t2][p2] <= owed[o2][t2][p2] + 1
      BY DEF UsageInv, MailsAreKnown
    <2>2. CASE o2 = o /\ t2 = t
      <3>1. sentAt'[o2][t2] = period
        BY <1>2, <1>3, <1>7, <2>2 DEF Months
      <3>2. CASE p2 = run.month
        <4>1. run.month \in Nat /\ period \in Nat
          BY <1>2, <1>7, ChurchAssumption
        <4> QED
          BY <1>3, <1>6, <2>1, <3>1, <3>2, <4>1
      <3>3. CASE p2 # run.month
        <4>1. ~Sent(o2, t2, p2)
          BY <3>3 DEF Sent
        <4>2. sentAt[o2][t2] < p2 => mails[o2][t2][p2] <= owed[o2][t2][p2]
          BY <4>1 DEF UsageInv, MailsAreKnown
        <4>3. sentAt[o2][t2] <= period
          BY DEF UsageInv, NotAhead
        <4>4. period \in Nat /\ p2 \in Nat
          BY <1>7, ChurchAssumption
        <4>5. sentAt[o2][t2] \in {0} \cup Periods
          BY <1>7 DEF Months
        <4> QED
          BY <1>3, <2>1, <3>1, <4>2, <4>3, <4>4, <4>5, ChurchAssumption
      <3> QED
        BY <3>2, <3>3
    <2>3. CASE ~(o2 = o /\ t2 = t)
      <3>1. sentAt'[o2][t2] = sentAt[o2][t2]
        BY <1>2, <1>3, <1>7, <2>3 DEF Months
      <3>2. ~Sent(o2, t2, p2)
        BY <2>3 DEF Sent, o, t
      <3> QED
        BY <1>3, <2>1, <3>1, <3>2 DEF UsageInv, MailsAreKnown
    <2> QED
      BY <2>2, <2>3
  <1>14. NotAhead'
    <2> SUFFICES ASSUME NEW o2 \in Organizations, NEW t2 \in UsagePart!Thresholds
                 PROVE  sentAt'[o2][t2] <= period'
      BY DEF NotAhead
    <2>1. sentAt'[o2][t2] = IF o2 = o /\ t2 = t THEN period ELSE sentAt[o2][t2]
      BY <1>2, <1>3, <1>7 DEF Months
    <2>2. sentAt[o2][t2] <= period /\ period \in Nat
      BY <1>7, ChurchAssumption DEF UsageInv, NotAhead
    <2> QED
      BY <1>3, <2>1, <2>2
  <1> QED
    BY <1>9, <1>12, <1>13, <1>14 DEF UsageInv

(* A run that is cut before its record owes it.                            *)
LEMMA RecordOwed ==
  ASSUME UsageInv, UsagePart!RecordThrows
  PROVE  UsageInv'
  <1> DEFINE o == run.of
             t == run.threshold
             p == run.month
  <1>1. run \in Warning /\ run.at = "recording"
    BY RunShapes DEF UsagePart!RecordThrows
  <1>2. /\ o \in Organizations /\ t \in UsagePart!Thresholds /\ p \in Periods
    BY <1>1 DEF Warning
  <1>3. /\ run' = UsagePart!Idle /\ owed' = [owed EXCEPT ![o][t][p] = @ + 1]
        /\ UNCHANGED <<period, sentAt, mails>>
    BY DEF UsagePart!RecordThrows
  <1>4. mails \in Counters /\ owed \in Counters
    BY DEF UsageInv, UsageRows
  <1>5. \A o2 \in Organizations, t2 \in UsagePart!Thresholds, p2 \in Periods :
          Sent(o2, t2, p2) <=> o2 = o /\ t2 = t /\ p2 = p
    BY <1>1 DEF Sent
  <1> HIDE DEF o, t, p
  <1>6. owed' \in Counters
    BY <1>2, <1>3, <1>4, OneMailMore
  <1>7. UsageRows'
    BY <1>3, <1>6 DEF UsageInv, UsageRows
  <1>8. MailsAreKnown'
    <2> SUFFICES ASSUME NEW o2 \in Organizations, NEW t2 \in UsagePart!Thresholds,
                        NEW p2 \in Periods
                 PROVE  /\ mails'[o2][t2][p2] <= owed'[o2][t2][p2] + 1
                        /\ sentAt'[o2][t2] < p2 /\ ~Sent(o2, t2, p2)'
                             => mails'[o2][t2][p2] <= owed'[o2][t2][p2]
      BY DEF MailsAreKnown
    <2>1. mails[o2][t2][p2] \in Nat /\ owed[o2][t2][p2] \in Nat
      BY <1>4 DEF Counters
    <2>2. owed'[o2][t2][p2] = IF o2 = o /\ t2 = t /\ p2 = p THEN owed[o][t][p] + 1
                              ELSE owed[o2][t2][p2]
      BY <1>2, <1>3, <1>4, OneMailMore
    <2>3. mails[o2][t2][p2] <= owed[o2][t2][p2] + 1
      BY DEF UsageInv, MailsAreKnown
    <2>4. ~(o2 = o /\ t2 = t /\ p2 = p) /\ sentAt[o2][t2] < p2
            => mails[o2][t2][p2] <= owed[o2][t2][p2]
      BY <1>5 DEF UsageInv, MailsAreKnown
    <2> QED
      BY <1>3, <2>1, <2>2, <2>3, <2>4
  <1>9. period \in Periods /\ period \in Nat
    BY ChurchAssumption DEF UsageInv, UsageRows
  <1>10. NotAhead'
    BY <1>3, <1>9, StillNotAhead
  <1> QED
    BY <1>3, <1>7, <1>8, <1>10, RunStops

(* Every step keeps the counts.                                            *)
LEMMA UsageKeeps == UsageInv /\ [UsagePart!UsageNext]_usageVars => UsageInv'
  <1> SUFFICES ASSUME UsageInv, [UsagePart!UsageNext]_usageVars
               PROVE  UsageInv'
    OBVIOUS
  <1>0. period \in Periods /\ period \in Nat
    BY ChurchAssumption DEF UsageInv, UsageRows
  <1>1. CASE UsagePart!NextMonth
    BY <1>0, <1>1, TimePasses DEF UsagePart!NextMonth
  <1>2. CASE UsagePart!StartRun
    <2> DEFINE start == [at |-> "checking", left |-> Organizations, seen |-> sentAt]
    <2>1. run = UsagePart!Idle /\ run' = start /\ UNCHANGED <<period, sentAt, mails, owed>>
      BY <1>2 DEF UsagePart!StartRun
    <2>2. start \in Passing
      BY DEF UsageInv, UsageRows, Passing
    <2>3. run.at = "no"
      BY <2>1 DEF UsagePart!Idle
    <2>4. MailsAreKnown'
      BY <2>1, <2>3, NothingWritten
    <2>5. UsageRows'
      BY <2>1, <2>2 DEF UsageInv, UsageRows
    <2>6. NotAhead'
      BY <1>0, <2>1, StillNotAhead
    <2>7. run'.at = "checking" /\ run'.left = Organizations /\ run'.seen = sentAt
      BY <2>1
    <2> HIDE DEF start
    <2>8. AsRead' /\ Unrecorded'
      BY <2>1, <2>7 DEF AsRead, Unrecorded
    <2> QED
      BY <2>4, <2>5, <2>6, <2>8 DEF UsageInv
  <1>3. CASE UsagePart!SendEmail
    BY <1>3, OneMailed
  <1>4. CASE UsagePart!RecordUsageWarningSent
    BY <1>4, OneRecorded
  <1>5. CASE UsagePart!EndRun \/ UsagePart!RunThrows
    <2>1. /\ run.at # "recording" /\ run' = UsagePart!Idle
          /\ UNCHANGED <<period, sentAt, mails, owed>>
      BY <1>5 DEF UsagePart!EndRun, UsagePart!RunThrows
    <2>2. MailsAreKnown'
      BY <2>1, NothingWritten
    <2>3. UsageRows'
      BY <2>1 DEF UsageInv, UsageRows
    <2>4. NotAhead'
      BY <1>0, <2>1, StillNotAhead
    <2> QED
      BY <2>1, <2>2, <2>3, <2>4, RunStops
  <1>6. CASE UsagePart!RecordThrows
    BY <1>6, RecordOwed
  <1>7. ASSUME NEW o \in Organizations, UsagePart!Ask(o)
        PROVE  UsageInv'
    BY <1>0, <1>7, TimePasses DEF UsagePart!Ask
  <1>8. ASSUME NEW o \in Organizations, UsagePart!CheckOrganizationUsage(o)
        PROVE  UsageInv'
    BY <1>8, OneLookedAt
  <1>9. CASE UNCHANGED usageVars
    BY <1>0, <1>9, TimePasses DEF usageVars
  <1> QED
    BY <1>1, <1>2, <1>3, <1>4, <1>5, <1>6, <1>7, <1>8, <1>9 DEF UsagePart!UsageNext

(* "Each org's 75%/90% threshold email fires at most once per billing      *)
(* period regardless of how often this runs" (cron/usage-warnings/route.ts:10), *)
(* and once more for each run cut before its record: of every number of    *)
(* organizations and of months, whenever a month ends.                     *)
THEOREM ThresholdsMailOnce == Spec => []EachThresholdOnce
  <1>1. Init => UsageInv
    BY NothingMailed
  <1>2. UsageInv /\ [Next]_vars => UsageInv'
    BY UsageStep, UsageKeeps
  <1>3. UsageInv => EachThresholdOnce
    <2> SUFFICES ASSUME UsageInv, NEW o \in Organizations, NEW t \in UsagePart!Thresholds,
                        NEW p \in Periods
                 PROVE  mails[o][t][p] <= 1 + owed[o][t][p]
      BY DEF EachThresholdOnce, UsagePart!EachThresholdOnce
    <2>1. mails[o][t][p] \in Nat /\ owed[o][t][p] \in Nat
      BY DEF UsageInv, UsageRows, Counters
    <2> QED
      BY <2>1 DEF UsageInv, MailsAreKnown
  <1> QED
    BY <1>1, <1>2, <1>3, PTL DEF Spec

-----------------------------------------------------------------------------
(* SourceDocuments: an analysis reads no link but those staff asked for.   *)

(* Every step is one of the calls on an imported page's documents or       *)
(* leaves them alone.                                                      *)
LEMMA DocumentsStep == [Next]_vars => [DocumentsPart!DocumentsNext]_documentVars
  BY DEF Next, vars, OnTeam, OnUsage, OnRate, OnList, OnWall, OnSetup, InSetup, OnForms,
     OnDocuments, OnAccounts, OnDesk, OnInsights, OnLog, OnListing,
     OnPanels, OnTypes, documentVars

DocumentCall == [at : {"idle", "describing", "searching", "comparing", "rewriting", "writing",
                       "finding", "updating", "adding", "including"},
                 text : DocumentsPart!Texts \cup {DocumentsPart!NoText}, links : SUBSET Links,
                 of : SUBSET Nat]

DocumentRows ==
  /\ reading \in [Calls -> DocumentCall]
  /\ documents \in Seq(DocumentsPart!Document \cup {DocumentsPart!Dismissed})
  /\ transcript \in DocumentsPart!Texts \cup {DocumentsPart!NoText}
  /\ imported \in BOOLEAN /\ searchesCrossed \in BOOLEAN

Found(d)  == d \in 1..Len(documents) /\ documents[d] \in DocumentsPart!Document
IsLink(d) == Found(d) /\ documents[d].kind = "link"

(* Nothing is stored and nobody calls before the import.                   *)
ImportFirst == ~imported => documents = <<>> /\ \A c \in Calls : reading[c].at = "idle"

(* What was approved was asked for, and so is what is about to be.         *)
ApprovedIsChosen ==
  /\ \A d \in 1..Len(documents) : IsLink(d) /\ documents[d].approved => d \in chosen
  /\ \A c \in Calls : reading[c].at = "including" => reading[c].of \subseteq chosen

(* The transcript a call found is still there when it writes.              *)
TranscriptStays ==
  \A c \in Calls, d \in Nat : reading[c].at = "updating" /\ d \in reading[c].of =>
    Found(d) /\ documents[d].kind = "transcript"

Searches(c) == reading[c].at \in {"describing", "searching"}

(* A search that runs alone adds what no document has.                     *)
SearchesApart ==
  searchesCrossed \/
    /\ \A c, e \in Calls : Searches(c) /\ Searches(e) => c = e
    /\ \A c \in Calls, d \in Nat :
         Searches(c) /\ Found(d) => documents[d].url \notin reading[c].links
    /\ \A d, e \in Nat : Found(d) /\ Found(e) /\ d # e /\ documents[d].url = documents[e].url
         => documents[d].url = DocumentsPart!NoUrl

DocumentInv ==
  DocumentRows /\ ImportFirst /\ ApprovedIsChosen /\ TranscriptStays /\ SearchesApart

(* Nothing is stored.                                                      *)
LEMMA NothingImported == Init => DocumentInv
  <1> SUFFICES ASSUME Init PROVE DocumentInv
    OBVIOUS
  <1>1. /\ imported = FALSE /\ transcript = DocumentsPart!NoText /\ documents = << >>
        /\ reading = [c \in Calls |-> DocumentsPart!Idle] /\ searchesCrossed = FALSE
    BY DEF Init, DocumentsPart!DocumentsInit
  <1>2. DocumentsPart!Idle \in DocumentCall /\ DocumentsPart!Idle.at = "idle"
    BY DEF DocumentsPart!Idle, DocumentCall
  <1>3. << >> \in Seq(DocumentsPart!Document \cup {DocumentsPart!Dismissed})
    BY EmptySeq
  <1>4. \A d : ~Found(d)
    BY <1>1 DEF Found
  <1>5. \A c \in Calls : reading[c].at = "idle"
    BY <1>1, <1>2
  <1> QED
    BY <1>1, <1>2, <1>3, <1>4, <1>5
    DEF DocumentInv, DocumentRows, ImportFirst, ApprovedIsChosen, TranscriptStays, SearchesApart,
        Searches, IsLink

(* Where a call goes on to k: only after the import, to include what was   *)
(* asked for, to update what is a transcript, and to search, if no other   *)
(* does, for what is not there, or for less than it did.                   *)
Allowed(c, k) ==
  /\ k \in DocumentCall
  /\ k.at # "idle" => imported'
  /\ k.at = "including" => k.of \subseteq chosen'
  /\ k.at = "updating" => \A d \in k.of : Found(d) /\ documents[d].kind = "transcript"
  /\ k.at \in {"describing", "searching"} =>
       \/ searchesCrossed'
       \/ Searches(c) /\ k.links \subseteq reading[c].links
       \/ /\ \A e \in Calls : ~Searches(e)
          /\ \A d \in Nat : Found(d) => documents[d].url \notin k.links

(* No document is new, no transcript goes, and what is approved now was    *)
(* asked for.                                                              *)
Kept ==
  /\ documents' \in Seq(DocumentsPart!Document \cup {DocumentsPart!Dismissed})
  /\ \A d \in Nat : Found(d)' =>
       /\ Found(d) /\ documents'[d].kind = documents[d].kind /\ documents'[d].url = documents[d].url
       /\ documents'[d].kind = "link" /\ documents'[d].approved =>
            documents[d].approved \/ d \in chosen
  /\ \A d \in Nat : Found(d) /\ documents[d].kind = "transcript" =>
       Found(d)' /\ documents'[d].kind = "transcript"

(* What a step may do to the history and to the row.                       *)
Grown ==
  /\ transcript' \in DocumentsPart!Texts \cup {DocumentsPart!NoText}
  /\ imported' \in BOOLEAN /\ searchesCrossed' \in BOOLEAN
  /\ (imported => imported') /\ (searchesCrossed => searchesCrossed')
  /\ chosen \subseteq chosen'

(* Documents that stay as they are are kept.                               *)
LEMMA SameAreKept == DocumentInv /\ UNCHANGED documents => Kept
  BY DEF DocumentInv, DocumentRows, Kept, Found

(* One call goes on and keeps the documents.                               *)
LEMMA KeptDocuments ==
  ASSUME DocumentInv, NEW c \in Calls, NEW k, Allowed(c, k),
         reading' = [reading EXCEPT ![c] = k], Kept, Grown, ~imported => UNCHANGED documents
  PROVE  DocumentInv'
  <1>1. \A e \in Calls : reading'[e] = IF e = c THEN k ELSE reading[e]
    BY DEF DocumentInv, DocumentRows
  <1>2. DocumentRows'
    BY DEF DocumentInv, DocumentRows, Allowed, Kept, Grown
  <1>3. ImportFirst'
    BY <1>1 DEF DocumentInv, ImportFirst, Allowed, Grown
  <1>4. ApprovedIsChosen'
    <2>1. \A d \in 1..Len(documents') : d \in Nat
      BY LenProperties DEF Kept
    <2>2. ASSUME NEW d \in 1..Len(documents'), IsLink(d)', documents'[d].approved
          PROVE  d \in chosen'
      <3>1. Found(d) /\ documents[d].kind = "link" /\ (documents[d].approved \/ d \in chosen)
        BY <2>1, <2>2 DEF Kept, IsLink
      <3> QED
        BY <3>1 DEF DocumentInv, ApprovedIsChosen, IsLink, Found, Grown
    <2>3. \A e \in Calls : reading'[e].at = "including" => reading'[e].of \subseteq chosen'
      BY <1>1 DEF DocumentInv, ApprovedIsChosen, Allowed, Grown
    <2> QED
      BY <2>2, <2>3 DEF ApprovedIsChosen
  <1>5. TranscriptStays'
    <2> SUFFICES ASSUME NEW e \in Calls, NEW d \in Nat, reading'[e].at = "updating",
                        d \in reading'[e].of
                 PROVE  Found(d)' /\ documents'[d].kind = "transcript"
      BY DEF TranscriptStays
    <2>1. Found(d) /\ documents[d].kind = "transcript"
      BY <1>1 DEF DocumentInv, TranscriptStays, Allowed
    <2> QED
      BY <2>1 DEF Kept
  <1>6. SearchesApart'
    <2> SUFFICES ASSUME ~searchesCrossed' PROVE SearchesApart'
      BY DEF SearchesApart
    <2>1. /\ \A e, f \in Calls : Searches(e) /\ Searches(f) => e = f
          /\ \A e \in Calls, d \in Nat :
               Searches(e) /\ Found(d) => documents[d].url \notin reading[e].links
          /\ \A d, e \in Nat : Found(d) /\ Found(e) /\ d # e /\ documents[d].url = documents[e].url
               => documents[d].url = DocumentsPart!NoUrl
      BY DEF DocumentInv, SearchesApart, Grown
    <2>2. \A e \in Calls \ {c} : Searches(e)' <=> Searches(e)
      BY <1>1 DEF Searches
    <2>3. Searches(c)' => \/ Searches(c) /\ k.links \subseteq reading[c].links
                          \/ /\ \A e \in Calls : ~Searches(e)
                             /\ \A d \in Nat : Found(d) => documents[d].url \notin k.links
      BY <1>1 DEF Searches, Allowed
    <2>4. \A e, f \in Calls : Searches(e)' /\ Searches(f)' => e = f
      BY <2>1, <2>2, <2>3
    <2>5. \A e \in Calls, d \in Nat :
            Searches(e)' /\ Found(d)' => documents'[d].url \notin reading'[e].links
      <3> SUFFICES ASSUME NEW e \in Calls, NEW d \in Nat, Searches(e)', Found(d)'
                   PROVE  documents'[d].url \notin reading'[e].links
        OBVIOUS
      <3>1. Found(d) /\ documents'[d].url = documents[d].url
        BY DEF Kept
      <3> QED
        BY <1>1, <2>1, <2>2, <2>3, <3>1
    <2>6. \A d, e \in Nat :
            Found(d)' /\ Found(e)' /\ d # e /\ documents'[d].url = documents'[e].url
              => documents'[d].url = DocumentsPart!NoUrl
      <3> SUFFICES ASSUME NEW d \in Nat, NEW e \in Nat, Found(d)', Found(e)', d # e,
                          documents'[d].url = documents'[e].url
                   PROVE  documents'[d].url = DocumentsPart!NoUrl
        OBVIOUS
      <3>1. /\ Found(d) /\ documents'[d].url = documents[d].url
            /\ Found(e) /\ documents'[e].url = documents[e].url
        BY DEF Kept
      <3> QED
        BY <2>1, <3>1
    <2> QED
      BY <2>4, <2>5, <2>6 DEF SearchesApart
  <1> QED
    BY <1>2, <1>3, <1>4, <1>5, <1>6 DEF DocumentInv

(* One call goes on and stores a document: no approved link, and of no     *)
(* address, or of one that it was searching for and is done with.          *)
LEMMA DocumentStored ==
  ASSUME DocumentInv, NEW c \in Calls, NEW k \in DocumentCall, NEW x \in DocumentsPart!Document,
         reading' = [reading EXCEPT ![c] = k], documents' = Append(documents, x),
         UNCHANGED <<imported, transcript, chosen, searchesCrossed>>,
         reading[c].at # "idle",
         k.at \notin {"including", "updating"},
         x.kind = "link" => ~x.approved,
         k.at \in {"describing", "searching"} => Searches(c) /\ k.links \subseteq reading[c].links,
         \/ x.url = DocumentsPart!NoUrl
         \/ Searches(c) /\ x.url \in reading[c].links /\ x.url \notin k.links
  PROVE  DocumentInv'
  <1> DEFINE n == Len(documents) + 1
             D == DocumentsPart!Document \cup {DocumentsPart!Dismissed}
  <1>1. \A e \in Calls : reading'[e] = IF e = c THEN k ELSE reading[e]
    BY DEF DocumentInv, DocumentRows
  <1>2. imported
    BY DEF DocumentInv, DocumentRows, ImportFirst
  <1>3. documents \in Seq(D) /\ x \in D
    BY DEF DocumentInv, DocumentRows
  <1> HIDE DEF D
  <1>4. /\ documents' \in Seq(D) /\ Len(documents') = n /\ documents'[n] = x
        /\ \A d \in 1..Len(documents) : documents'[d] = documents[d]
        /\ Len(documents) \in Nat
    BY <1>3, AppendProperties, LenProperties
  <1>5. \A d \in Nat : Found(d)' => (Found(d) /\ documents'[d] = documents[d]) \/ d = n
    BY <1>4 DEF Found
  <1>6. \A d \in Nat : Found(d) => Found(d)' /\ documents'[d] = documents[d]
    BY <1>4 DEF Found
  <1>7. ~Found(n)
    BY <1>4 DEF Found
  <1> HIDE DEF n
  <1>8. DocumentRows'
    BY <1>4 DEF DocumentInv, DocumentRows, D
  <1>9. ImportFirst'
    BY <1>2 DEF ImportFirst
  <1>10. ApprovedIsChosen'
    <2>1. \A d \in 1..Len(documents') : d \in Nat
      BY <1>4
    <2>2. ASSUME NEW d \in 1..Len(documents'), IsLink(d)', documents'[d].approved
          PROVE  d \in chosen'
      <3>1. d # n
        BY <1>4, <2>2 DEF IsLink
      <3>2. Found(d) /\ documents'[d] = documents[d]
        BY <1>5, <2>1, <2>2, <3>1 DEF IsLink
      <3> QED
        BY <2>2, <3>2 DEF DocumentInv, ApprovedIsChosen, IsLink, Found
    <2>3. \A e \in Calls : reading'[e].at = "including" => reading'[e].of \subseteq chosen'
      BY <1>1 DEF DocumentInv, ApprovedIsChosen
    <2> QED
      BY <2>2, <2>3 DEF ApprovedIsChosen
  <1>11. TranscriptStays'
    <2> SUFFICES ASSUME NEW e \in Calls, NEW d \in Nat, reading'[e].at = "updating",
                        d \in reading'[e].of
                 PROVE  Found(d)' /\ documents'[d].kind = "transcript"
      BY DEF TranscriptStays
    <2>1. e # c
      BY <1>1
    <2>2. Found(d) /\ documents[d].kind = "transcript"
      BY <1>1, <2>1 DEF DocumentInv, TranscriptStays
    <2> QED
      BY <1>6, <2>2
  <1>12. SearchesApart'
    <2> SUFFICES ASSUME ~searchesCrossed PROVE SearchesApart'
      BY DEF SearchesApart
    <2>1. /\ \A e, f \in Calls : Searches(e) /\ Searches(f) => e = f
          /\ \A e \in Calls, d \in Nat :
               Searches(e) /\ Found(d) => documents[d].url \notin reading[e].links
          /\ \A d, e \in Nat : Found(d) /\ Found(e) /\ d # e /\ documents[d].url = documents[e].url
               => documents[d].url = DocumentsPart!NoUrl
      BY DEF DocumentInv, SearchesApart
    <2>2. \A e \in Calls : Searches(e)' => Searches(e) /\ reading'[e].links \subseteq reading[e].links
      BY <1>1 DEF Searches
    <2>3. \A e, f \in Calls : Searches(e)' /\ Searches(f)' => e = f
      BY <2>1, <2>2
    <2>4. \A e \in Calls : Searches(e)' => x.url \notin reading'[e].links
      <3> SUFFICES ASSUME NEW e \in Calls, Searches(e)' PROVE x.url \notin reading'[e].links
        OBVIOUS
      <3>1. CASE x.url = DocumentsPart!NoUrl
        <4>1. reading'[e].links \subseteq Links
          BY <1>8 DEF DocumentRows, DocumentCall
        <4> QED
          BY <3>1, <4>1, ChurchAssumption DEF DocumentsPart!NoUrl
      <3>2. CASE Searches(c) /\ x.url \in reading[c].links /\ x.url \notin k.links
        BY <1>1, <2>1, <2>2, <3>2
      <3> QED
        BY <3>1, <3>2
    <2>5. \A e \in Calls, d \in Nat :
            Searches(e)' /\ Found(d)' => documents'[d].url \notin reading'[e].links
      BY <1>4, <1>5, <2>1, <2>2, <2>4
    <2>6. \A d \in Nat : Found(d) /\ documents[d].url = x.url => x.url = DocumentsPart!NoUrl
      BY <2>1
    <2>7. \A d, e \in Nat :
            Found(d)' /\ Found(e)' /\ d # e /\ documents'[d].url = documents'[e].url
              => documents'[d].url = DocumentsPart!NoUrl
      BY <1>4, <1>5, <2>1, <2>6
    <2> QED
      BY <2>3, <2>5, <2>7 DEF SearchesApart
  <1> QED
    BY <1>8, <1>9, <1>10, <1>11, <1>12 DEF DocumentInv

(* A call ends, or goes on where it writes no document: it includes,       *)
(* updates and searches nothing that it did not already.                   *)
LEMMA CallGoesOn ==
  ASSUME DocumentInv, NEW c \in Calls, NEW k \in DocumentCall,
         reading' = [reading EXCEPT ![c] = k],
         k.at # "idle" => imported',
         k.at \notin {"including", "updating", "describing"},
         k.at = "searching" => Searches(c) /\ k.links \subseteq reading[c].links,
         Kept, Grown, ~imported => UNCHANGED documents
  PROVE  DocumentInv'
  <1>1. Allowed(c, k)
    BY DEF Allowed
  <1> QED
    BY <1>1, KeptDocuments

(* What a rewritten document may become.                                   *)
LEMMA OneRewritten ==
  ASSUME DocumentInv, NEW d \in Nat, Found(d),
         NEW y \in DocumentsPart!Document \cup {DocumentsPart!Dismissed},
         documents' = [documents EXCEPT ![d] = y],
         \/ /\ y \in DocumentsPart!Document /\ y.kind = documents[d].kind
            /\ y.url = documents[d].url
            /\ y.kind = "link" /\ y.approved => documents[d].approved \/ d \in chosen
         \/ y = DocumentsPart!Dismissed /\ documents[d].kind # "transcript"
  PROVE  Kept
  <1> DEFINE D == DocumentsPart!Document \cup {DocumentsPart!Dismissed}
  <1>1. documents \in Seq(D) /\ d \in 1..Len(documents) /\ y \in D
    BY DEF DocumentInv, DocumentRows, Found
  <1>2. DocumentsPart!Dismissed \notin DocumentsPart!Document
    BY DEF DocumentsPart!Dismissed, DocumentsPart!Document
  <1> HIDE DEF D
  <1>3. /\ documents' \in Seq(D) /\ Len(documents') = Len(documents)
        /\ \A e \in 1..Len(documents) : documents'[e] = IF e = d THEN y ELSE documents[e]
    BY <1>1, ExceptSeq
  <1>4. \A e \in Nat : e # d /\ (Found(e) \/ Found(e)') =>
          Found(e) /\ Found(e)' /\ documents'[e] = documents[e]
    BY <1>3 DEF Found
  <1>5. documents'[d] = y /\ (Found(d)' => y \in DocumentsPart!Document)
    BY <1>1, <1>3 DEF Found
  <1>6. y \in DocumentsPart!Document => Found(d)'
    BY <1>1, <1>3 DEF Found
  <1> QED
    BY <1>2, <1>3, <1>4, <1>5, <1>6 DEF Kept, D

(* Every call keeps what it may read apart from what it may not.           *)
LEMMA DocumentsKeep == DocumentInv /\ [DocumentsPart!DocumentsNext]_documentVars => DocumentInv'
  <1> SUFFICES ASSUME DocumentInv, [DocumentsPart!DocumentsNext]_documentVars
               PROVE  DocumentInv'
    OBVIOUS
  <1> USE DEF DocumentsPart!Starts, DocumentsPart!Proceeds, DocumentsPart!Ends
  <1>i. /\ DocumentsPart!Idle \in DocumentCall /\ DocumentsPart!Idle.at = "idle"
        /\ DocumentsPart!Idle.links = {} /\ DocumentsPart!Idle.text = DocumentsPart!NoText
    BY DEF DocumentsPart!Idle, DocumentCall
  <1>t. /\ transcript \in DocumentsPart!Texts \cup {DocumentsPart!NoText}
        /\ imported \in BOOLEAN /\ searchesCrossed \in BOOLEAN
        /\ \A c \in Calls : reading[c] \in DocumentCall
    BY DEF DocumentInv, DocumentRows
  <1>m. \A c \in Calls : reading[c].at # "idle" => imported
    BY DEF DocumentInv, ImportFirst
  <1>g. ASSUME UNCHANGED <<imported, transcript, chosen, searchesCrossed>>
        PROVE  Grown
    BY <1>g, <1>t DEF Grown
  <1>k. ASSUME UNCHANGED documents
        PROVE  Kept
    BY <1>k, SameAreKept
  <1>s. DocumentsPart!Stored = {d \in Nat : Found(d)}
    <2>1. /\ DOMAIN documents = 1..Len(documents)
          /\ \A d \in 1..Len(documents) : d \in Nat /\ documents[d] \in
               DocumentsPart!Document \cup {DocumentsPart!Dismissed}
      BY LenProperties DEF DocumentInv, DocumentRows
    <2>2. DocumentsPart!Dismissed \notin DocumentsPart!Document
      BY DEF DocumentsPart!Dismissed, DocumentsPart!Document
    <2> QED
      BY <2>1, <2>2 DEF Found, DocumentsPart!Stored
  <1>e. ASSUME NEW c \in Calls, reading' = [reading EXCEPT ![c] = DocumentsPart!Idle],
               Kept, Grown, ~imported => UNCHANGED documents
        PROVE  DocumentInv'
    BY <1>e, <1>i, CallGoesOn
  <1>1. ASSUME NEW c \in Calls, DocumentsPart!StartImport(c)
        PROVE  DocumentInv'
    <2>1. /\ ~imported /\ imported' = TRUE /\ UNCHANGED <<transcript, documents, chosen>>
          /\ searchesCrossed' = (searchesCrossed \/ \E other \in Calls : DocumentsPart!Searching(other))
      BY <1>1 DEF DocumentsPart!StartImport, DocumentsPart!StartsSearching
    <2>2. PICK text \in PageTexts \cup {DocumentsPart!NoText} :
            reading' = [reading EXCEPT ![c] = [DocumentsPart!Idle EXCEPT
                                                 !.at = "describing", !.text = text, !.links = Links]]
      BY <1>1 DEF DocumentsPart!StartImport
    <2> DEFINE k == [DocumentsPart!Idle EXCEPT !.at = "describing", !.text = text, !.links = Links]
    <2>3. text \in DocumentsPart!Texts \cup {DocumentsPart!NoText}
      BY DEF DocumentsPart!Texts
    <2>4. k \in DocumentCall /\ k.at = "describing"
      BY <1>i, <2>3 DEF DocumentCall
    <2> HIDE DEF k
    <2>5. documents = << >> /\ \A e \in Calls : reading[e].at = "idle"
      BY <2>1 DEF DocumentInv, ImportFirst
    <2>6. (\A d \in Nat : ~Found(d)) /\ \A e \in Calls : ~Searches(e)
      BY <2>5 DEF Found, Searches
    <2>7. Allowed(c, k)
      BY <2>1, <2>4, <2>6 DEF Allowed
    <2>8. Grown
      BY <1>t, <2>1 DEF Grown
    <2> QED
      BY <1>k, <2>1, <2>2, <2>7, <2>8, KeptDocuments DEF k
  <1>2. ASSUME NEW c \in Calls, DocumentsPart!AddMetadata(c)
        PROVE  DocumentInv'
    <2> DEFINE k == [reading[c] EXCEPT !.at = "searching"]
               x == DocumentsPart!Full("metadata", DocumentsPart!Described)
    <2>1. k \in DocumentCall /\ k.at = "searching" /\ k.links = reading[c].links
      BY <1>t DEF DocumentCall
    <2>2. x \in DocumentsPart!Document /\ x.kind = "metadata" /\ x.url = DocumentsPart!NoUrl
      BY DEF DocumentsPart!Full, DocumentsPart!Document, DocumentsPart!Texts
    <2>3. /\ reading' = [reading EXCEPT ![c] = k] /\ documents' = Append(documents, x)
          /\ UNCHANGED <<imported, transcript, chosen, searchesCrossed>>
          /\ reading[c].at = "describing"
      BY <1>2 DEF DocumentsPart!AddMetadata, DocumentsPart!AddSourceDocument
    <2>4. Searches(c)
      BY <2>3 DEF Searches
    <2> HIDE DEF k, x
    <2> QED
      BY <2>1, <2>2, <2>3, <2>4, DocumentStored
  <1>3. ASSUME NEW c \in Calls, DocumentsPart!StartDiscover(c)
        PROVE  DocumentInv'
    <2> DEFINE k == [DocumentsPart!Idle EXCEPT !.at = "searching",
                                               !.links = Links \ DocumentsPart!ExistingUrls]
    <2>1. k \in DocumentCall /\ k.at = "searching" /\ k.links = Links \ DocumentsPart!ExistingUrls
      BY <1>i DEF DocumentCall
    <2>2. /\ imported /\ reading' = [reading EXCEPT ![c] = k]
          /\ UNCHANGED <<imported, transcript, documents, chosen>>
          /\ searchesCrossed' = (searchesCrossed \/ \E other \in Calls : DocumentsPart!Searching(other))
      BY <1>3 DEF DocumentsPart!StartDiscover, DocumentsPart!StartsSearching
    <2> HIDE DEF k
    <2>3. \A d \in Nat : Found(d) => documents[d].url \in DocumentsPart!ExistingUrls
      BY <1>s DEF DocumentsPart!ExistingUrls
    <2>4. ~searchesCrossed' => \A e \in Calls : ~Searches(e)
      BY <2>2 DEF DocumentsPart!Searching, Searches
    <2>5. Allowed(c, k)
      BY <2>1, <2>2, <2>3, <2>4 DEF Allowed
    <2>6. Grown
      BY <1>t, <2>2 DEF Grown
    <2> QED
      BY <1>k, <2>2, <2>5, <2>6, KeptDocuments
  <1>4. ASSUME NEW c \in Calls, DocumentsPart!AddLink(c)
        PROVE  DocumentInv'
    <2>1. PICK url \in reading[c].links :
            /\ documents' = Append(documents, DocumentsPart!LinkTo(url))
            /\ reading' = [reading EXCEPT ![c] = [reading[c] EXCEPT !.links = @ \ {url}]]
      BY <1>4 DEF DocumentsPart!AddLink, DocumentsPart!AddSourceDocument
    <2> DEFINE k == [reading[c] EXCEPT !.links = @ \ {url}]
               x == DocumentsPart!LinkTo(url)
    <2>2. /\ reading[c].at = "searching"
          /\ UNCHANGED <<imported, transcript, chosen, searchesCrossed>>
      BY <1>4 DEF DocumentsPart!AddLink
    <2>3. k \in DocumentCall /\ k.at = "searching" /\ k.links = reading[c].links \ {url}
      BY <1>t, <2>2 DEF DocumentCall
    <2>4. url \in Links
      BY <1>t DEF DocumentCall
    <2>5. x \in DocumentsPart!Document /\ x.url = url
      BY <2>4 DEF DocumentsPart!LinkTo, DocumentsPart!Document
    <2>6. ~x.approved
      BY DEF DocumentsPart!LinkTo
    <2>7. Searches(c)
      BY <2>2 DEF Searches
    <2> HIDE DEF k, x
    <2> QED
      BY <2>1, <2>2, <2>3, <2>5, <2>6, <2>7, DocumentStored DEF k, x
  <1>5. ASSUME NEW c \in Calls, DocumentsPart!LinksDone(c)
        PROVE  DocumentInv'
    <2> DEFINE k == [reading[c] EXCEPT !.at = "writing"]
    <2>1. k \in DocumentCall /\ k.at = "writing"
      BY <1>t DEF DocumentCall
    <2>2. /\ UNCHANGED <<imported, transcript, documents, chosen, searchesCrossed>>
          /\ reading[c].at = "searching"
          /\ \/ reading' = [reading EXCEPT ![c] = DocumentsPart!Idle]
             \/ reading' = [reading EXCEPT ![c] = k]
      BY <1>5 DEF DocumentsPart!LinksDone
    <2> HIDE DEF k
    <2> QED
      BY <1>e, <1>g, <1>k, <1>m, <2>1, <2>2, CallGoesOn
  <1>6. ASSUME NEW c \in Calls, DocumentsPart!Paste(c)
        PROVE  DocumentInv'
    <2>1. PICK text \in PastedTexts :
            reading' = [reading EXCEPT ![c] = [DocumentsPart!Idle EXCEPT !.at = "writing",
                                                                         !.text = text]]
      BY <1>6 DEF DocumentsPart!Paste
    <2> DEFINE k == [DocumentsPart!Idle EXCEPT !.at = "writing", !.text = text]
    <2>2. text \in DocumentsPart!Texts
      BY DEF DocumentsPart!Texts
    <2>3. k \in DocumentCall /\ k.at = "writing"
      BY <1>i, <2>2 DEF DocumentCall
    <2>4. imported /\ UNCHANGED <<imported, transcript, documents, chosen, searchesCrossed>>
      BY <1>6 DEF DocumentsPart!Paste
    <2> HIDE DEF k
    <2> QED
      BY <1>g, <1>k, <2>1, <2>3, <2>4, CallGoesOn DEF k
  <1>7. ASSUME NEW c \in Calls, DocumentsPart!StartRefresh(c) \/ DocumentsPart!Backfill(c)
        PROVE  DocumentInv'
    <2> DEFINE k == [DocumentsPart!Idle EXCEPT !.at = "comparing", !.text = transcript]
    <2>1. k \in DocumentCall /\ k.at = "comparing"
      BY <1>i, <1>t DEF DocumentCall
    <2>2. /\ imported /\ UNCHANGED <<imported, transcript, documents, chosen, searchesCrossed>>
          /\ reading' = [reading EXCEPT ![c] = k]
      BY <1>7 DEF DocumentsPart!StartRefresh, DocumentsPart!Backfill
    <2> HIDE DEF k
    <2> QED
      BY <1>g, <1>k, <2>1, <2>2, CallGoesOn
  <1>8. ASSUME NEW c \in Calls, DocumentsPart!FetchText(c)
        PROVE  DocumentInv'
    <2>1. PICK text \in PageTexts \cup {DocumentsPart!NoText} :
            \/ reading' = [reading EXCEPT ![c] = DocumentsPart!Idle]
            \/ reading' = [reading EXCEPT ![c] = [reading[c] EXCEPT !.at = "rewriting",
                                                                    !.text = text]]
      BY <1>8 DEF DocumentsPart!FetchText
    <2> DEFINE k == [reading[c] EXCEPT !.at = "rewriting", !.text = text]
    <2>2. text \in DocumentsPart!Texts \cup {DocumentsPart!NoText}
      BY DEF DocumentsPart!Texts
    <2>3. k \in DocumentCall /\ k.at = "rewriting"
      BY <1>t, <2>2 DEF DocumentCall
    <2>4. /\ UNCHANGED <<imported, transcript, documents, chosen, searchesCrossed>>
          /\ reading[c].at = "comparing"
      BY <1>8 DEF DocumentsPart!FetchText
    <2> HIDE DEF k
    <2> QED
      BY <1>e, <1>g, <1>k, <1>m, <2>1, <2>3, <2>4, CallGoesOn DEF k
  <1>9. ASSUME NEW c \in Calls, DocumentsPart!SetTranscript(c)
        PROVE  DocumentInv'
    <2> DEFINE k == [reading[c] EXCEPT !.at = IF @ = "writing" THEN "adding" ELSE "finding"]
    <2>1. k \in DocumentCall /\ k.at \in {"adding", "finding"}
      BY <1>t DEF DocumentCall
    <2>2. /\ reading[c].at # "idle" /\ transcript' = reading[c].text
          /\ reading' = [reading EXCEPT ![c] = k]
          /\ UNCHANGED <<imported, documents, chosen, searchesCrossed>>
      BY <1>9 DEF DocumentsPart!SetTranscript
    <2> HIDE DEF k
    <2>3. Grown
      BY <1>t, <2>2 DEF Grown, DocumentCall
    <2> QED
      BY <1>k, <1>m, <2>1, <2>2, <2>3, CallGoesOn
  <1>10. ASSUME NEW c \in Calls, DocumentsPart!FindTranscript(c)
         PROVE  DocumentInv'
    <2>1. /\ reading[c].at = "finding"
          /\ UNCHANGED <<imported, transcript, documents, chosen, searchesCrossed>>
      BY <1>10 DEF DocumentsPart!FindTranscript
    <2>2. CASE reading' = [reading EXCEPT ![c] = [reading[c] EXCEPT !.at = "adding"]]
      <3> DEFINE k == [reading[c] EXCEPT !.at = "adding"]
      <3>1. k \in DocumentCall /\ k.at = "adding"
        BY <1>t DEF DocumentCall
      <3> HIDE DEF k
      <3> QED
        BY <1>g, <1>k, <1>m, <2>1, <2>2, <3>1, CallGoesOn DEF k
    <2>3. ASSUME NEW d \in DocumentsPart!Transcripts,
                 reading' = [reading EXCEPT ![c] = [reading[c] EXCEPT !.at = "updating", !.of = {d}]]
          PROVE  DocumentInv'
      <3> DEFINE k == [reading[c] EXCEPT !.at = "updating", !.of = {d}]
      <3>1. d \in Nat /\ Found(d) /\ documents[d].kind = "transcript"
        BY <1>s DEF DocumentsPart!Transcripts
      <3>2. k \in DocumentCall /\ k.at = "updating" /\ k.of = {d}
        BY <1>t, <3>1 DEF DocumentCall
      <3> HIDE DEF k
      <3>3. Allowed(c, k)
        BY <1>m, <2>1, <3>1, <3>2 DEF Allowed
      <3> QED
        BY <1>g, <1>k, <2>1, <2>3, <3>3, KeptDocuments DEF k
    <2> QED
      BY <1>10, <2>2, <2>3 DEF DocumentsPart!FindTranscript
  <1>11. ASSUME NEW c \in Calls, DocumentsPart!UpdateTranscript(c)
         PROVE  DocumentInv'
    <2>1. PICK d \in reading[c].of :
            documents' = [documents EXCEPT ![d].text = reading[c].text]
      BY <1>11 DEF DocumentsPart!UpdateTranscript
    <2>2. /\ reading[c].at = "updating" /\ reading' = [reading EXCEPT ![c] = DocumentsPart!Idle]
          /\ UNCHANGED <<imported, transcript, chosen, searchesCrossed>>
      BY <1>11 DEF DocumentsPart!UpdateTranscript
    <2>3. d \in Nat /\ Found(d) /\ documents[d].kind = "transcript"
      BY <1>t, <2>2 DEF DocumentInv, TranscriptStays, DocumentCall
    <2> DEFINE y == [documents[d] EXCEPT !.text = reading[c].text]
    <2>4. /\ y \in DocumentsPart!Document /\ y.kind = documents[d].kind
          /\ y.url = documents[d].url
      BY <1>t, <2>3 DEF Found, DocumentsPart!Document, DocumentCall
    <2>5. documents' = [documents EXCEPT ![d] = y]
      BY <2>1
    <2> HIDE DEF y
    <2>6. Kept
      BY <2>3, <2>4, <2>5, OneRewritten
    <2> QED
      BY <1>e, <1>g, <1>m, <2>2, <2>6
  <1>12. ASSUME NEW c \in Calls, DocumentsPart!AddTranscript(c)
         PROVE  DocumentInv'
    <2> DEFINE x == DocumentsPart!Full("transcript", reading[c].text)
    <2>1. x \in DocumentsPart!Document /\ x.kind = "transcript" /\ x.url = DocumentsPart!NoUrl
      BY <1>t DEF DocumentsPart!Full, DocumentsPart!Document, DocumentCall
    <2>2. /\ reading' = [reading EXCEPT ![c] = DocumentsPart!Idle]
          /\ documents' = Append(documents, x) /\ reading[c].at = "adding"
          /\ UNCHANGED <<imported, transcript, chosen, searchesCrossed>>
      BY <1>12 DEF DocumentsPart!AddTranscript, DocumentsPart!AddSourceDocument
    <2> HIDE DEF x
    <2> QED
      BY <1>i, <2>1, <2>2, DocumentStored
  <1>13. ASSUME NEW c \in Calls, DocumentsPart!Include(c)
         PROVE  DocumentInv'
    <2>1. PICK d \in DocumentsPart!LinkDocuments :
            /\ reading' = [reading EXCEPT ![c] = [DocumentsPart!Idle EXCEPT !.at = "including",
                                                                            !.of = {d}]]
            /\ chosen' = chosen \cup {d}
      BY <1>13 DEF DocumentsPart!Include
    <2> DEFINE k == [DocumentsPart!Idle EXCEPT !.at = "including", !.of = {d}]
    <2>2. UNCHANGED <<imported, transcript, documents, searchesCrossed>>
      BY <1>13 DEF DocumentsPart!Include
    <2>3. d \in Nat /\ Found(d)
      BY <1>s DEF DocumentsPart!LinkDocuments
    <2>4. k \in DocumentCall /\ k.at = "including" /\ k.of = {d}
      BY <1>i, <2>3 DEF DocumentCall
    <2>5. imported
      BY <2>3 DEF DocumentInv, DocumentRows, ImportFirst, Found
    <2> HIDE DEF k
    <2>6. Allowed(c, k)
      BY <2>1, <2>2, <2>4, <2>5 DEF Allowed
    <2>7. Grown
      BY <1>t, <2>1, <2>2 DEF Grown
    <2> QED
      BY <1>k, <2>1, <2>2, <2>6, <2>7, KeptDocuments DEF k
  <1>14. ASSUME NEW c \in Calls, DocumentsPart!IncludeAll(c)
         PROVE  DocumentInv'
    <2> DEFINE k == [DocumentsPart!Idle EXCEPT !.at = "including", !.of = DocumentsPart!Pending]
    <2>1. /\ imported /\ reading' = [reading EXCEPT ![c] = k]
          /\ chosen' = chosen \cup DocumentsPart!Pending
          /\ UNCHANGED <<imported, transcript, documents, searchesCrossed>>
      BY <1>14 DEF DocumentsPart!IncludeAll
    <2>2. DocumentsPart!Pending \subseteq Nat
      BY <1>s DEF DocumentsPart!Pending, DocumentsPart!LinkDocuments
    <2>3. k \in DocumentCall /\ k.at = "including" /\ k.of = DocumentsPart!Pending
      BY <1>i, <2>2 DEF DocumentCall
    <2> HIDE DEF k
    <2>4. Allowed(c, k)
      BY <2>1, <2>3 DEF Allowed
    <2>5. Grown
      BY <1>t, <2>1 DEF Grown
    <2> QED
      BY <1>k, <2>1, <2>4, <2>5, KeptDocuments
  <1>15. ASSUME NEW c \in Calls, DocumentsPart!FetchLink(c)
         PROVE  DocumentInv'
    <2>1. PICK d \in reading[c].of :
            /\ DocumentsPart!ApproveSourceDocument(c, d) \/ UNCHANGED documents
            /\ reading' = [reading EXCEPT ![c] = [reading[c] EXCEPT !.of = @ \ {d}]]
      BY <1>15 DEF DocumentsPart!FetchLink
    <2> DEFINE k == [reading[c] EXCEPT !.of = @ \ {d}]
    <2>2. /\ reading[c].at = "including"
          /\ UNCHANGED <<imported, transcript, chosen, searchesCrossed>>
      BY <1>15 DEF DocumentsPart!FetchLink
    <2>3. d \in chosen /\ reading[c].of \subseteq chosen
      BY <2>2 DEF DocumentInv, ApprovedIsChosen
    <2>4. k \in DocumentCall /\ k.at = "including" /\ k.of = reading[c].of \ {d}
      BY <1>t, <2>2 DEF DocumentCall
    <2> HIDE DEF k
    <2>5. Allowed(c, k)
      BY <1>m, <2>2, <2>3, <2>4 DEF Allowed
    <2>6. Kept
      <3>1. CASE UNCHANGED documents
        BY <1>k, <3>1
      <3>2. CASE documents' # documents
        <4> DEFINE y == [documents[d] EXCEPT !.text = DocumentsPart!Linked, !.approved = TRUE]
        <4>1. d \in DocumentsPart!Stored /\ documents' = [documents EXCEPT ![d] = y]
          BY <2>1, <3>2 DEF DocumentsPart!ApproveSourceDocument
        <4>2. d \in Nat /\ Found(d)
          BY <1>s, <4>1
        <4>3. /\ y \in DocumentsPart!Document /\ y.kind = documents[d].kind
              /\ y.url = documents[d].url
          BY <4>2 DEF Found, DocumentsPart!Document, DocumentsPart!Texts
        <4> HIDE DEF y
        <4> QED
          BY <2>3, <4>1, <4>2, <4>3, OneRewritten
      <3> QED
        BY <3>1, <3>2
    <2> QED
      BY <1>g, <1>m, <2>1, <2>2, <2>5, <2>6, KeptDocuments DEF k
  <1>16. ASSUME NEW c \in Calls, DocumentsPart!Included(c)
         PROVE  DocumentInv'
    BY <1>e, <1>g, <1>k, <1>16 DEF DocumentsPart!Included
  <1>17. ASSUME NEW c \in Calls, DocumentsPart!Dismiss(c)
         PROVE  DocumentInv'
    <2>1. PICK d \in DocumentsPart!LinkDocuments :
            documents' = [documents EXCEPT ![d] = DocumentsPart!Dismissed]
      BY <1>17 DEF DocumentsPart!Dismiss
    <2>2. d \in Nat /\ Found(d) /\ documents[d].kind = "link"
      BY <1>s DEF DocumentsPart!LinkDocuments
    <2>3. Kept
      BY <2>1, <2>2, OneRewritten
    <2>4. imported
      BY <2>2 DEF DocumentInv, DocumentRows, ImportFirst, Found
    <2> QED
      BY <1>e, <1>g, <1>17, <2>3, <2>4 DEF DocumentsPart!Dismiss
  <1>18. ASSUME NEW c \in Calls, DocumentsPart!CallThrows(c)
         PROVE  DocumentInv'
    BY <1>e, <1>g, <1>k, <1>18 DEF DocumentsPart!CallThrows
  <1>19. CASE UNCHANGED documentVars
    <2>1. UNCHANGED <<imported, transcript, documents, reading, chosen, searchesCrossed>>
      BY <1>19 DEF documentVars
    <2> QED
      BY <2>1 DEF DocumentInv, DocumentRows, ImportFirst, ApprovedIsChosen, TranscriptStays,
         SearchesApart, Searches, Found, IsLink
  <1> QED
    BY <1>1, <1>2, <1>3, <1>4, <1>5, <1>6, <1>7, <1>8, <1>9, <1>10, <1>11, <1>12, <1>13, <1>14,
       <1>15, <1>16, <1>17, <1>18, <1>19 DEF DocumentsPart!DocumentsNext

(* "Nothing is fetched and nothing feeds AI categorization until a human   *)
(* approves each one" (import-service.ts:75), and nobody is asked twice    *)
(* about a link unless two searches overlapped: of every number of calls,  *)
(* links and documents, wherever one of them breaks off.                   *)
THEOREM OnlyChosenIsRead == Spec => []ReadIsChosen
  <1>1. Init => DocumentInv
    BY NothingImported
  <1>2. DocumentInv /\ [Next]_vars => DocumentInv'
    BY DocumentsStep, DocumentsKeep
  <1>3. DocumentInv => ReadIsChosen
    <2> SUFFICES ASSUME DocumentInv PROVE ReadIsChosen
      OBVIOUS
    <2>1. \A d \in DocumentsPart!Stored : d \in Nat /\ Found(d) /\ d \in 1..Len(documents)
      <3>1. /\ DOMAIN documents = 1..Len(documents)
            /\ \A d \in 1..Len(documents) : d \in Nat /\ documents[d] \in
                 DocumentsPart!Document \cup {DocumentsPart!Dismissed}
        BY LenProperties DEF DocumentInv, DocumentRows
      <3> QED
        BY <3>1 DEF Found, DocumentsPart!Stored
    <2>2. DocumentsPart!ReadIsChosen
      BY <2>1 DEF DocumentInv, ApprovedIsChosen, IsLink, DocumentsPart!ReadIsChosen,
         DocumentsPart!ReadByAnalysis, DocumentsPart!LinkDocuments
    <2>3. DocumentsPart!EachLinkOnce
      BY <2>1 DEF DocumentInv, SearchesApart, DocumentsPart!EachLinkOnce
    <2> QED
      BY <2>2, <2>3 DEF ReadIsChosen
  <1> QED
    BY <1>1, <1>2, <1>3, PTL DEF Spec

-----------------------------------------------------------------------------
(* SourceDocuments: an analysis reads the transcript that staff see.       *)

IsTranscript(d) == Found(d) /\ documents[d].kind = "transcript"

(* A call on its way to the transcript.                                    *)
Writes(k) ==
  \/ k.at \in {"comparing", "rewriting", "writing", "finding", "updating", "adding"}
  \/ k.at \in {"describing", "searching"} /\ k.text # DocumentsPart!NoText

(* A transcript is there to be read; a text that is written is one; and    *)
(* the links to be included are none.                                      *)
TextsAreThere ==
  /\ ~imported => transcript = DocumentsPart!NoText
  /\ \A d \in Nat : IsTranscript(d) =>
       documents[d].approved /\ documents[d].text # DocumentsPart!NoText
  /\ \A c \in Calls : reading[c].at \in {"rewriting", "writing", "finding", "updating", "adding"} =>
       reading[c].text # DocumentsPart!NoText
  /\ \A c \in Calls : reading[c].at = "including" =>
       \A d \in reading[c].of : d \in 1..Len(documents) /\ ~IsTranscript(d)

NoTranscript  == \A d \in Nat : ~IsTranscript(d)
OneTranscript == \A d, e \in Nat : IsTranscript(d) /\ IsTranscript(e) => d = e

(* The document has what the row has, as far as there is something.        *)
Shown ==
  /\ OneTranscript
  /\ \A d \in Nat : IsTranscript(d) => documents[d].text = transcript
  /\ transcript # DocumentsPart!NoText => \E d \in Nat : IsTranscript(d)

(* What a call that writes can rely on, depending on how far it is.        *)
ReliesOn(k) ==
  /\ k.at \in {"describing", "searching", "writing"} =>
       NoTranscript /\ transcript = DocumentsPart!NoText
  /\ k.at \in {"comparing", "rewriting"} => Shown
  /\ k.at \in {"finding", "updating", "adding"} => OneTranscript /\ transcript = k.text
  /\ k.at = "adding" => NoTranscript

(* Writes of the transcript that no other overlapped, and that were not    *)
(* broken off halfway.                                                     *)
WritesApart ==
  parted \/
    /\ \A c, e \in Calls : Writes(reading[c]) /\ Writes(reading[e]) => c = e
    /\ \A c \in Calls : Writes(reading[c]) => ReliesOn(reading[c])
    /\ (\A c \in Calls : ~Writes(reading[c])) => Shown

TranscriptInv == DocumentInv /\ TextsAreThere /\ WritesApart

(* ReliesOn of a call as it will be.                                       *)
WillRelyOn(k) ==
  /\ k.at \in {"describing", "searching", "writing"} =>
       NoTranscript' /\ transcript' = DocumentsPart!NoText
  /\ k.at \in {"comparing", "rewriting"} => Shown'
  /\ k.at \in {"finding", "updating", "adding"} => OneTranscript' /\ transcript' = k.text
  /\ k.at = "adding" => NoTranscript'

(* No document is lost, and the transcripts are as they were.              *)
SameTranscripts ==
  /\ \A d \in 1..Len(documents) : d \in 1..Len(documents')
  /\ \A d \in Nat : /\ IsTranscript(d)' <=> IsTranscript(d)
                    /\ IsTranscript(d) => /\ documents'[d].text = documents[d].text
                                          /\ documents'[d].approved = documents[d].approved

(* Nothing is imported, so nothing is written.                             *)
LEMMA NothingShown == Init => TranscriptInv
  <1> SUFFICES ASSUME Init PROVE TranscriptInv
    OBVIOUS
  <1>1. /\ imported = FALSE /\ transcript = DocumentsPart!NoText /\ documents = << >>
        /\ reading = [c \in Calls |-> DocumentsPart!Idle] /\ parted = FALSE
    BY DEF Init, DocumentsPart!DocumentsInit
  <1>2. \A d : ~IsTranscript(d)
    BY <1>1 DEF IsTranscript, Found
  <1>3. \A c \in Calls : reading[c].at = "idle" /\ ~Writes(reading[c])
    BY <1>1 DEF DocumentsPart!Idle, Writes
  <1>4. Shown
    BY <1>1, <1>2 DEF Shown, OneTranscript
  <1>5. TextsAreThere
    BY <1>1, <1>2, <1>3 DEF TextsAreThere
  <1>6. WritesApart
    BY <1>3, <1>4 DEF WritesApart
  <1> QED
    BY <1>5, <1>6, NothingImported DEF TranscriptInv

(* A document that is added is a transcript, or the transcripts are as     *)
(* they were.                                                              *)
LEMMA DocumentAdded ==
  ASSUME DocumentInv, NEW x \in DocumentsPart!Document, documents' = Append(documents, x)
  PROVE  /\ x.kind # "transcript" => SameTranscripts
         /\ Len(documents) + 1 \in Nat /\ documents'[Len(documents) + 1] = x
         /\ \A d \in 1..Len(documents) : d \in 1..Len(documents') /\ documents'[d] = documents[d]
         /\ \A d \in Nat : IsTranscript(d)' <=>
              IsTranscript(d) \/ (d = Len(documents) + 1 /\ x.kind = "transcript")
  <1> DEFINE D == DocumentsPart!Document \cup {DocumentsPart!Dismissed}
  <1>1. documents \in Seq(D) /\ x \in D
    BY DEF DocumentInv, DocumentRows
  <1> HIDE DEF D
  <1>2. /\ Len(documents') = Len(documents) + 1 /\ documents'[Len(documents) + 1] = x
        /\ \A d \in 1..Len(documents) : documents'[d] = documents[d]
        /\ Len(documents) \in Nat
    BY <1>1, AppendProperties, LenProperties
  <1>3. \A d \in 1..Len(documents) : d \in 1..Len(documents') /\ documents'[d] = documents[d]
    BY <1>2
  <1>4. ASSUME NEW d \in Nat
        PROVE  IsTranscript(d)' <=>
                 IsTranscript(d) \/ (d = Len(documents) + 1 /\ x.kind = "transcript")
    <2>1. CASE d \in 1..Len(documents)
      BY <1>2, <1>3, <2>1 DEF IsTranscript, Found
    <2>2. CASE d = Len(documents) + 1
      BY <1>2, <2>2 DEF IsTranscript, Found
    <2>3. CASE d \notin 1..(Len(documents) + 1)
      BY <1>2, <2>3 DEF IsTranscript, Found
    <2> QED
      BY <1>2, <2>1, <2>2, <2>3
  <1>5. x.kind # "transcript" => SameTranscripts
    BY <1>3, <1>4 DEF SameTranscripts, IsTranscript, Found
  <1> QED
    BY <1>2, <1>3, <1>4, <1>5

(* A document that is rewritten or dismissed leaves the others alone.      *)
LEMMA DocumentReplaced ==
  ASSUME DocumentInv, NEW d \in Nat, Found(d),
         NEW y \in DocumentsPart!Document \cup {DocumentsPart!Dismissed},
         documents' = [documents EXCEPT ![d] = y]
  PROVE  /\ \A e \in 1..Len(documents) : e \in 1..Len(documents')
         /\ documents'[d] = y
         /\ IsTranscript(d)' <=> y \in DocumentsPart!Document /\ y.kind = "transcript"
         /\ \A e \in Nat : e # d => /\ IsTranscript(e)' <=> IsTranscript(e)
                                    /\ IsTranscript(e) => documents'[e] = documents[e]
         /\ ~IsTranscript(d) /\ ~IsTranscript(d)' => SameTranscripts
  <1> DEFINE D == DocumentsPart!Document \cup {DocumentsPart!Dismissed}
  <1>1. documents \in Seq(D) /\ d \in 1..Len(documents) /\ y \in D
    BY DEF DocumentInv, DocumentRows, Found
  <1> HIDE DEF D
  <1>2. /\ Len(documents') = Len(documents)
        /\ \A e \in 1..Len(documents) : documents'[e] = IF e = d THEN y ELSE documents[e]
    BY <1>1, ExceptSeq
  <1>3. documents'[d] = y /\ (IsTranscript(d)' <=> y \in DocumentsPart!Document /\ y.kind = "transcript")
    BY <1>1, <1>2 DEF IsTranscript, Found
  <1>4. \A e \in Nat : e # d => /\ IsTranscript(e)' <=> IsTranscript(e)
                                /\ IsTranscript(e) => documents'[e] = documents[e]
    BY <1>2 DEF IsTranscript, Found
  <1>5. \A e \in 1..Len(documents) : e \in 1..Len(documents')
    BY <1>2
  <1>6. ~IsTranscript(d) /\ ~IsTranscript(d)' => SameTranscripts
    BY <1>4, <1>5 DEF SameTranscripts
  <1> QED
    BY <1>3, <1>4, <1>5, <1>6

(* What is shown is shown as long as the transcripts are the same.         *)
LEMMA SameAreShown ==
  ASSUME SameTranscripts
  PROVE  /\ NoTranscript' <=> NoTranscript
         /\ OneTranscript' <=> OneTranscript
         /\ transcript' = transcript => (Shown' <=> Shown)
  BY DEF SameTranscripts, NoTranscript, OneTranscript, Shown

(* No document is lost, no other becomes a transcript, and each transcript *)
(* is there to be read.                                                    *)
TextsGrow ==
  /\ \A d \in 1..Len(documents) :
       d \in 1..Len(documents') /\ (IsTranscript(d)' => IsTranscript(d))
  /\ \A d \in Nat : IsTranscript(d)' =>
       documents'[d].approved /\ documents'[d].text # DocumentsPart!NoText

LEMMA SameTextsGrow == TranscriptInv /\ SameTranscripts => TextsGrow
  <1> SUFFICES ASSUME TranscriptInv, SameTranscripts PROVE TextsGrow
    OBVIOUS
  <1>1. \A d \in 1..Len(documents) : d \in Nat
    BY LenProperties DEF TranscriptInv, DocumentInv, DocumentRows
  <1> QED
    BY <1>1 DEF TranscriptInv, TextsAreThere, SameTranscripts, TextsGrow

(* One call goes on with a text, if it writes one, and includes no         *)
(* transcript.                                                             *)
LEMMA TextsStay ==
  ASSUME TranscriptInv, NEW c \in Calls, NEW k, reading' = [reading EXCEPT ![c] = k],
         TextsGrow, imported => imported', ~imported' => transcript' = transcript,
         k.at \in {"rewriting", "writing", "finding", "updating", "adding"} =>
           k.text # DocumentsPart!NoText,
         k.at = "including" => \A d \in k.of : d \in 1..Len(documents) /\ ~IsTranscript(d)
  PROVE  TextsAreThere'
  <1>1. \A e \in Calls : reading'[e] = IF e = c THEN k ELSE reading[e]
    BY DEF TranscriptInv, DocumentInv, DocumentRows
  <1>2. ~imported' => transcript' = DocumentsPart!NoText
    BY DEF TranscriptInv, TextsAreThere
  <1>3. ASSUME NEW e \in Calls, reading'[e].at = "including", NEW d \in reading'[e].of
        PROVE  d \in 1..Len(documents') /\ ~IsTranscript(d)'
    <2>1. d \in 1..Len(documents) /\ ~IsTranscript(d)
      BY <1>1, <1>3 DEF TranscriptInv, TextsAreThere
    <2> QED
      BY <2>1 DEF TextsGrow
  <1>4. \A e \in Calls :
          reading'[e].at \in {"rewriting", "writing", "finding", "updating", "adding"} =>
            reading'[e].text # DocumentsPart!NoText
    BY <1>1 DEF TranscriptInv, TextsAreThere
  <1> QED
    BY <1>2, <1>3, <1>4 DEF TextsAreThere, TextsGrow

(* One call goes on: one that does not write leaves everything as it is;   *)
(* one that does is the only one, and leaves what it relies on, or what is *)
(* shown when it is done; one that begins to finds no other.               *)
LEMMA WritesGoOn ==
  ASSUME TranscriptInv, NEW c \in Calls, NEW k, reading' = [reading EXCEPT ![c] = k],
         parted => parted',
         \/ parted'
         \/ /\ ~Writes(reading[c]) /\ ~Writes(k)
            /\ SameTranscripts /\ transcript' = transcript
         \/ Writes(reading[c]) /\ Writes(k) /\ WillRelyOn(k)
         \/ Writes(reading[c]) /\ ~Writes(k) /\ Shown'
         \/ (\A e \in Calls : ~Writes(reading[e])) /\ Writes(k) /\ WillRelyOn(k)
  PROVE  WritesApart'
  <1> SUFFICES ASSUME ~parted' PROVE WritesApart'
    BY DEF WritesApart
  <1>1. \A e \in Calls : reading'[e] = IF e = c THEN k ELSE reading[e]
    BY DEF TranscriptInv, DocumentInv, DocumentRows
  <1>2. /\ \A e, f \in Calls : Writes(reading[e]) /\ Writes(reading[f]) => e = f
        /\ \A e \in Calls : Writes(reading[e]) => ReliesOn(reading[e])
        /\ (\A e \in Calls : ~Writes(reading[e])) => Shown
    BY DEF TranscriptInv, WritesApart
  <1>3. \A e \in Calls : Writes(reading[e])' = Writes(reading'[e])
    BY DEF Writes
  <1>4. CASE /\ ~Writes(reading[c]) /\ ~Writes(k)
             /\ SameTranscripts /\ transcript' = transcript
    <2>1. \A e \in Calls : Writes(reading'[e]) => e # c /\ Writes(reading[e])
      BY <1>1, <1>4
    <2>2. (\A e \in Calls : ~Writes(reading'[e])) => \A e \in Calls : ~Writes(reading[e])
      BY <1>1, <1>4
    <2>3. ASSUME NEW e \in Calls, Writes(reading'[e])
          PROVE  ReliesOn(reading[e])'
      <3>1. reading'[e] = reading[e] /\ ReliesOn(reading[e])
        BY <1>1, <1>2, <2>1, <2>3
      <3> QED
        BY <1>4, <3>1, SameAreShown DEF ReliesOn
    <2>4. (\A e \in Calls : ~Writes(reading'[e])) => Shown'
      BY <1>2, <1>4, <2>2, SameAreShown
    <2> QED
      BY <1>2, <1>3, <2>1, <2>3, <2>4 DEF WritesApart
  <1>5. CASE /\ Writes(k) /\ WillRelyOn(k)
             /\ Writes(reading[c]) \/ \A e \in Calls : ~Writes(reading[e])
    <2>1. \A e \in Calls : Writes(reading'[e]) <=> e = c
      BY <1>1, <1>2, <1>5
    <2>2. ReliesOn(reading[c])'
      BY <1>1, <1>5 DEF ReliesOn, WillRelyOn
    <2> QED
      BY <1>3, <2>1, <2>2 DEF WritesApart
  <1>6. CASE Writes(reading[c]) /\ ~Writes(k) /\ Shown'
    <2>1. \A e \in Calls : ~Writes(reading'[e])
      BY <1>1, <1>2, <1>6
    <2> QED
      BY <1>3, <1>6, <2>1 DEF WritesApart
  <1> QED
    BY <1>4, <1>5, <1>6

(* Every call leaves the row and the document alike, unless it overlapped  *)
(* another or was broken off halfway.                                      *)
LEMMA TranscriptsKeep ==
  TranscriptInv /\ [DocumentsPart!DocumentsNext]_documentVars => TranscriptInv'
  <1> SUFFICES ASSUME TranscriptInv, [DocumentsPart!DocumentsNext]_documentVars
               PROVE  TranscriptInv'
    OBVIOUS
  <1> USE DEF DocumentsPart!Starts, DocumentsPart!Proceeds, DocumentsPart!Ends
  <1> DEFINE Goal == TextsAreThere' /\ WritesApart'
  <1>i. /\ DocumentsPart!Idle.at = "idle" /\ DocumentsPart!Idle.text = DocumentsPart!NoText
        /\ DocumentsPart!Idle = [at |-> "idle", text |-> DocumentsPart!NoText, links |-> {}, of |-> {}]
        /\ ~Writes(DocumentsPart!Idle)
    BY DEF DocumentsPart!Idle, Writes
  <1>t. /\ \A c \in Calls : reading[c] \in DocumentCall
        /\ \A c \in Calls : reading[c].at # "idle" => imported
        /\ \A d \in 1..Len(documents) : d \in Nat
    BY LenProperties DEF TranscriptInv, DocumentInv, DocumentRows, ImportFirst
  <1>s. DocumentsPart!Stored = {d \in Nat : Found(d)}
    <2>1. /\ DOMAIN documents = 1..Len(documents)
          /\ \A d \in 1..Len(documents) : d \in Nat /\ documents[d] \in
               DocumentsPart!Document \cup {DocumentsPart!Dismissed}
      BY LenProperties DEF TranscriptInv, DocumentInv, DocumentRows
    <2>2. DocumentsPart!Dismissed \notin DocumentsPart!Document
      BY DEF DocumentsPart!Dismissed, DocumentsPart!Document
    <2> QED
      BY <2>1, <2>2 DEF Found, DocumentsPart!Stored
  <1>l. \A d \in DocumentsPart!LinkDocuments :
          d \in Nat /\ d \in 1..Len(documents) /\ Found(d) /\ ~IsTranscript(d)
    BY <1>s DEF DocumentsPart!LinkDocuments, Found, IsTranscript
  <1>v. DocumentsPart!Transcripts = {d \in Nat : IsTranscript(d)}
    BY <1>s DEF DocumentsPart!Transcripts, IsTranscript
  <1>w. \A c \in Calls : DocumentsPart!Writing(c) <=> Writes(reading[c])
    BY DEF DocumentsPart!Writing, Writes
  <1>k. ASSUME UNCHANGED documents
        PROVE  SameTranscripts
    BY <1>k DEF SameTranscripts, IsTranscript, Found
  <1>a. ~parted => /\ \A c \in Calls : Writes(reading[c]) => ReliesOn(reading[c])
                   /\ (\A c \in Calls : ~Writes(reading[c])) => Shown
    BY DEF TranscriptInv, WritesApart
  <1>b. /\ \A c \in Calls :
             reading[c].at \in {"rewriting", "writing", "finding", "updating", "adding"} =>
               reading[c].text # DocumentsPart!NoText
        /\ \A c \in Calls : reading[c].at = "including" =>
             \A d \in reading[c].of : d \in 1..Len(documents) /\ ~IsTranscript(d)
    BY DEF TranscriptInv, TextsAreThere
  <1>c. NoTranscript /\ transcript = DocumentsPart!NoText => Shown
    BY DEF NoTranscript, OneTranscript, Shown
  <1>n. Shown /\ transcript = DocumentsPart!NoText => NoTranscript
    BY DEF TranscriptInv, TextsAreThere, Shown, NoTranscript
  <1>q. ASSUME NEW c \in Calls, reading' = [reading EXCEPT ![c] = DocumentsPart!Idle],
               SameTranscripts, UNCHANGED <<imported, transcript, parted>>,
               ~Writes(reading[c])
        PROVE  Goal
    <2>1. TextsAreThere'
      BY <1>i, <1>q, SameTextsGrow, TextsStay
    <2>2. WritesApart'
      BY <1>i, <1>q, WritesGoOn
    <2> QED
      BY <2>1, <2>2
  <1>1. ASSUME NEW c \in Calls, DocumentsPart!StartImport(c)
        PROVE  Goal
    <2>1. PICK text \in PageTexts \cup {DocumentsPart!NoText} :
            /\ reading' = [reading EXCEPT ![c] = [DocumentsPart!Idle EXCEPT
                                                  !.at = "describing", !.text = text, !.links = Links]]
            /\ text = DocumentsPart!NoText => parted' = parted
            /\ parted => parted'
      BY <1>1 DEF DocumentsPart!StartImport, DocumentsPart!StartsWriting
    <2> DEFINE k == [DocumentsPart!Idle EXCEPT !.at = "describing", !.text = text, !.links = Links]
    <2>2. k.at = "describing" /\ k.text = text
      BY <1>i
    <2>3. ~imported /\ imported' = TRUE /\ UNCHANGED <<transcript, documents>>
      BY <1>1 DEF DocumentsPart!StartImport
    <2>4. documents = << >> /\ transcript = DocumentsPart!NoText
          /\ \A e \in Calls : reading[e].at = "idle"
      BY <2>3 DEF TranscriptInv, TextsAreThere, DocumentInv, ImportFirst
    <2>5. SameTranscripts /\ \A e \in Calls : ~Writes(reading[e])
      BY <1>k, <2>3, <2>4 DEF Writes
    <2> HIDE DEF k
    <2>6. TextsAreThere'
      BY <2>1, <2>2, <2>3, <2>5, SameTextsGrow, TextsStay DEF k
    <2>7. NoTranscript
      BY <2>4 DEF NoTranscript, IsTranscript, Found
    <2>8. WillRelyOn(k)
      BY <2>2, <2>3, <2>4, <2>5, <2>7, SameAreShown DEF WillRelyOn
    <2>9. Writes(k) \/ ~Writes(k)
      OBVIOUS
    <2>10. WritesApart'
      BY <2>1, <2>3, <2>5, <2>8, WritesGoOn DEF k
    <2> QED
      BY <2>6, <2>10
  <1>2. ASSUME NEW c \in Calls, DocumentsPart!AddMetadata(c)
        PROVE  Goal
    <2> DEFINE k == [reading[c] EXCEPT !.at = "searching"]
               x == DocumentsPart!Full("metadata", DocumentsPart!Described)
    <2>1. k.at = "searching" /\ k.text = reading[c].text
      BY <1>t DEF DocumentCall
    <2>2. x \in DocumentsPart!Document /\ x.kind = "metadata"
      BY DEF DocumentsPart!Full, DocumentsPart!Document, DocumentsPart!Texts
    <2>3. /\ reading' = [reading EXCEPT ![c] = k] /\ documents' = Append(documents, x)
          /\ UNCHANGED <<imported, transcript, parted>>
          /\ reading[c].at = "describing"
      BY <1>2 DEF DocumentsPart!AddMetadata, DocumentsPart!AddSourceDocument
    <2> HIDE DEF k, x
    <2>4. SameTranscripts
      BY <2>2, <2>3, DocumentAdded DEF TranscriptInv
    <2>5. TextsAreThere'
      BY <2>1, <2>3, <2>4, SameTextsGrow, TextsStay
    <2>6. Writes(k) <=> Writes(reading[c])
      BY <2>1, <2>3 DEF Writes
    <2>7. ~parted /\ Writes(k) => WillRelyOn(k)
      BY <1>a, <2>1, <2>3, <2>4, <2>6, SameAreShown DEF ReliesOn, WillRelyOn
    <2>8. WritesApart'
      BY <2>3, <2>4, <2>6, <2>7, WritesGoOn
    <2> QED
      BY <2>5, <2>8
  <1>3. ASSUME NEW c \in Calls, DocumentsPart!StartDiscover(c)
        PROVE  Goal
    <2> DEFINE k == [DocumentsPart!Idle EXCEPT !.at = "searching",
                                               !.links = Links \ DocumentsPart!ExistingUrls]
    <2>1. k.at = "searching" /\ k.text = DocumentsPart!NoText
      BY <1>i
    <2>2. /\ imported /\ reading' = [reading EXCEPT ![c] = k] /\ reading[c] = DocumentsPart!Idle
          /\ UNCHANGED <<imported, transcript, documents, parted>>
      BY <1>3 DEF DocumentsPart!StartDiscover
    <2> HIDE DEF k
    <2>3. SameTranscripts /\ ~Writes(k) /\ ~Writes(reading[c])
      BY <1>i, <1>k, <2>1, <2>2 DEF Writes
    <2>4. TextsAreThere'
      BY <2>1, <2>2, <2>3, SameTextsGrow, TextsStay
    <2>5. WritesApart'
      BY <2>2, <2>3, WritesGoOn
    <2> QED
      BY <2>4, <2>5
  <1>4. ASSUME NEW c \in Calls, DocumentsPart!AddLink(c)
        PROVE  Goal
    <2>1. PICK url \in reading[c].links :
            /\ documents' = Append(documents, DocumentsPart!LinkTo(url))
            /\ reading' = [reading EXCEPT ![c] = [reading[c] EXCEPT !.links = @ \ {url}]]
      BY <1>4 DEF DocumentsPart!AddLink, DocumentsPart!AddSourceDocument
    <2> DEFINE k == [reading[c] EXCEPT !.links = @ \ {url}]
               x == DocumentsPart!LinkTo(url)
    <2>2. reading[c].at = "searching" /\ UNCHANGED <<imported, transcript, parted>>
      BY <1>4 DEF DocumentsPart!AddLink
    <2>3. k.at = "searching" /\ k.text = reading[c].text
      BY <1>t, <2>2 DEF DocumentCall
    <2>4. url \in Links
      BY <1>t DEF DocumentCall
    <2>5. x \in DocumentsPart!Document /\ x.kind = "link"
      BY <2>4 DEF DocumentsPart!LinkTo, DocumentsPart!Document
    <2> HIDE DEF k, x
    <2>6. SameTranscripts
      BY <2>1, <2>5, DocumentAdded DEF TranscriptInv, x
    <2>7. TextsAreThere'
      BY <2>1, <2>2, <2>3, <2>6, SameTextsGrow, TextsStay DEF k
    <2>8. Writes(k) <=> Writes(reading[c])
      BY <2>2, <2>3 DEF Writes
    <2>9. ~parted /\ Writes(k) => WillRelyOn(k)
      BY <1>a, <2>2, <2>3, <2>6, <2>8, SameAreShown DEF ReliesOn, WillRelyOn
    <2>10. WritesApart'
      BY <2>1, <2>2, <2>6, <2>8, <2>9, WritesGoOn DEF k
    <2> QED
      BY <2>7, <2>10
  <1>5. ASSUME NEW c \in Calls, DocumentsPart!LinksDone(c)
        PROVE  Goal
    <2> DEFINE k == [reading[c] EXCEPT !.at = "writing"]
    <2>1. k.at = "writing" /\ k.text = reading[c].text
      BY <1>t DEF DocumentCall
    <2>2. /\ UNCHANGED <<imported, transcript, documents, parted>>
          /\ reading[c].at = "searching"
          /\ IF reading[c].text = DocumentsPart!NoText
             THEN reading' = [reading EXCEPT ![c] = DocumentsPart!Idle]
             ELSE reading' = [reading EXCEPT ![c] = k]
      BY <1>5 DEF DocumentsPart!LinksDone
    <2> HIDE DEF k
    <2>3. SameTranscripts
      BY <1>k, <2>2
    <2>4. CASE reading[c].text = DocumentsPart!NoText
      <3>1. ~Writes(reading[c])
        BY <2>2, <2>4 DEF Writes
      <3> QED
        BY <1>q, <2>2, <2>3, <2>4, <3>1
    <2>5. CASE reading[c].text # DocumentsPart!NoText
      <3>1. Writes(reading[c]) /\ Writes(k)
        BY <2>1, <2>2, <2>5 DEF Writes
      <3>2. ~parted => WillRelyOn(k)
        BY <1>a, <2>1, <2>2, <2>3, <3>1, SameAreShown DEF ReliesOn, WillRelyOn
      <3>3. TextsAreThere'
        BY <2>1, <2>2, <2>3, <2>5, SameTextsGrow, TextsStay
      <3>4. WritesApart'
        BY <2>2, <2>5, <3>1, <3>2, WritesGoOn
      <3> QED
        BY <3>3, <3>4
    <2> QED
      BY <2>4, <2>5
  <1>6. ASSUME NEW c \in Calls, DocumentsPart!Paste(c)
        PROVE  Goal
    <2>1. PICK text \in PastedTexts :
            reading' = [reading EXCEPT ![c] = [DocumentsPart!Idle EXCEPT !.at = "writing",
                                                                         !.text = text]]
      BY <1>6 DEF DocumentsPart!Paste
    <2> DEFINE k == [DocumentsPart!Idle EXCEPT !.at = "writing", !.text = text]
    <2>2. k.at = "writing" /\ k.text = text /\ text # DocumentsPart!NoText
      BY <1>i, ChurchAssumption DEF DocumentsPart!NoText
    <2>3. /\ UNCHANGED <<imported, transcript, documents>>
          /\ parted' = (parted \/ transcript # DocumentsPart!NoText
                         \/ \E other \in Calls : DocumentsPart!Writing(other))
      BY <1>6 DEF DocumentsPart!Paste
    <2> HIDE DEF k
    <2>4. SameTranscripts /\ Writes(k)
      BY <1>k, <2>2, <2>3 DEF Writes
    <2>5. TextsAreThere'
      BY <2>1, <2>2, <2>3, <2>4, SameTextsGrow, TextsStay DEF k
    <2>6. ~parted' => ~parted /\ transcript = DocumentsPart!NoText
                      /\ \A e \in Calls : ~Writes(reading[e])
      BY <1>w, <2>3
    <2>7. ~parted' => WillRelyOn(k)
      BY <1>a, <1>n, <2>2, <2>3, <2>4, <2>6, SameAreShown DEF WillRelyOn
    <2>8. WritesApart'
      BY <2>1, <2>3, <2>4, <2>6, <2>7, WritesGoOn DEF k
    <2> QED
      BY <2>5, <2>8
  <1>7. ASSUME NEW c \in Calls, DocumentsPart!StartRefresh(c) \/ DocumentsPart!Backfill(c)
        PROVE  Goal
    <2> DEFINE k == [DocumentsPart!Idle EXCEPT !.at = "comparing", !.text = transcript]
    <2>1. k.at = "comparing"
      BY <1>i
    <2>2. /\ UNCHANGED <<imported, transcript, documents>>
          /\ reading' = [reading EXCEPT ![c] = k]
          /\ parted' = (parted \/ \E other \in Calls : DocumentsPart!Writing(other))
      BY <1>7 DEF DocumentsPart!StartRefresh, DocumentsPart!Backfill, DocumentsPart!StartsWriting
    <2> HIDE DEF k
    <2>3. SameTranscripts /\ Writes(k)
      BY <1>k, <2>1, <2>2 DEF Writes
    <2>4. TextsAreThere'
      BY <2>1, <2>2, <2>3, SameTextsGrow, TextsStay
    <2>5. ~parted' => ~parted /\ \A e \in Calls : ~Writes(reading[e])
      BY <1>w, <2>2
    <2>6. ~parted' => WillRelyOn(k)
      BY <1>a, <2>1, <2>2, <2>3, <2>5, SameAreShown DEF WillRelyOn
    <2>7. WritesApart'
      BY <2>2, <2>3, <2>5, <2>6, WritesGoOn
    <2> QED
      BY <2>4, <2>7
  <1>8. ASSUME NEW c \in Calls, DocumentsPart!FetchText(c)
        PROVE  Goal
    <2>1. PICK text \in PageTexts \cup {DocumentsPart!NoText} :
            IF text \in {DocumentsPart!NoText, reading[c].text}
            THEN reading' = [reading EXCEPT ![c] = DocumentsPart!Idle]
            ELSE reading' = [reading EXCEPT ![c] = [reading[c] EXCEPT !.at = "rewriting",
                                                                      !.text = text]]
      BY <1>8 DEF DocumentsPart!FetchText
    <2> DEFINE k == [reading[c] EXCEPT !.at = "rewriting", !.text = text]
    <2>2. k.at = "rewriting" /\ k.text = text
      BY <1>t DEF DocumentCall
    <2>3. /\ UNCHANGED <<imported, transcript, documents, parted>>
          /\ reading[c].at = "comparing"
      BY <1>8 DEF DocumentsPart!FetchText
    <2> HIDE DEF k
    <2>4. SameTranscripts /\ Writes(reading[c]) /\ Writes(k)
      BY <1>k, <2>2, <2>3 DEF Writes
    <2>5. ~parted => Shown'
      BY <1>a, <2>3, <2>4, SameAreShown DEF ReliesOn
    <2>6. ~parted => WillRelyOn(k)
      BY <2>2, <2>5 DEF WillRelyOn
    <2>7. CASE text \in {DocumentsPart!NoText, reading[c].text}
      <3>1. TextsAreThere'
        BY <1>i, <2>1, <2>3, <2>4, <2>7, SameTextsGrow, TextsStay
      <3>2. WritesApart'
        BY <1>i, <2>1, <2>3, <2>4, <2>5, <2>7, WritesGoOn
      <3> QED
        BY <3>1, <3>2
    <2>8. CASE text \notin {DocumentsPart!NoText, reading[c].text}
      <3>1. TextsAreThere'
        BY <2>1, <2>2, <2>3, <2>4, <2>8, SameTextsGrow, TextsStay DEF k
      <3>2. WritesApart'
        BY <2>1, <2>3, <2>4, <2>6, <2>8, WritesGoOn DEF k
      <3> QED
        BY <3>1, <3>2
    <2> QED
      BY <2>7, <2>8
  <1>9. ASSUME NEW c \in Calls, DocumentsPart!SetTranscript(c)
        PROVE  Goal
    <2> DEFINE k == [reading[c] EXCEPT !.at = IF @ = "writing" THEN "adding" ELSE "finding"]
    <2>1. /\ k.at = (IF reading[c].at = "writing" THEN "adding" ELSE "finding")
          /\ k.text = reading[c].text
      BY <1>t DEF DocumentCall
    <2>2. /\ reading[c].at \in {"writing", "rewriting"} /\ transcript' = reading[c].text
          /\ reading' = [reading EXCEPT ![c] = k]
          /\ UNCHANGED <<imported, documents, parted>>
      BY <1>9 DEF DocumentsPart!SetTranscript
    <2> HIDE DEF k
    <2>3. SameTranscripts /\ Writes(reading[c]) /\ Writes(k) /\ imported
      BY <1>k, <1>t, <2>1, <2>2 DEF Writes
    <2>4. TextsAreThere'
      BY <1>b, <2>1, <2>2, <2>3, SameTextsGrow, TextsStay
    <2>5. ~parted => OneTranscript /\ (reading[c].at = "writing" => NoTranscript)
      BY <1>a, <2>2, <2>3 DEF ReliesOn, Shown, NoTranscript, OneTranscript
    <2>6. ~parted => WillRelyOn(k)
      BY <2>1, <2>2, <2>3, <2>5, SameAreShown DEF WillRelyOn
    <2>7. WritesApart'
      BY <2>2, <2>3, <2>6, WritesGoOn
    <2> QED
      BY <2>4, <2>7
  <1>10. ASSUME NEW c \in Calls, DocumentsPart!FindTranscript(c)
         PROVE  Goal
    <2>1. /\ reading[c].at = "finding"
          /\ UNCHANGED <<imported, transcript, documents, parted>>
      BY <1>10 DEF DocumentsPart!FindTranscript
    <2>2. SameTranscripts /\ Writes(reading[c]) /\ imported
      BY <1>k, <1>t, <2>1 DEF Writes
    <2>3. ~parted => OneTranscript /\ transcript = reading[c].text
      BY <1>a, <2>1, <2>2 DEF ReliesOn
    <2>4. ASSUME DocumentsPart!Transcripts = {},
                 reading' = [reading EXCEPT ![c] = [reading[c] EXCEPT !.at = "adding"]]
          PROVE  Goal
      <3> DEFINE k == [reading[c] EXCEPT !.at = "adding"]
      <3>1. k.at = "adding" /\ k.text = reading[c].text
        BY <1>t DEF DocumentCall
      <3> HIDE DEF k
      <3>2. TextsAreThere'
        BY <1>b, <2>1, <2>2, <2>4, <3>1, SameTextsGrow, TextsStay DEF k
      <3>3. NoTranscript
        BY <1>v, <2>4 DEF NoTranscript
      <3>4. ~parted => WillRelyOn(k)
        BY <2>1, <2>2, <2>3, <3>1, <3>3, SameAreShown DEF WillRelyOn
      <3>5. Writes(k)
        BY <3>1 DEF Writes
      <3>6. WritesApart'
        BY <2>1, <2>2, <2>4, <3>4, <3>5, WritesGoOn DEF k
      <3> QED
        BY <3>2, <3>6
    <2>5. ASSUME NEW d \in DocumentsPart!Transcripts,
                 reading' = [reading EXCEPT ![c] = [reading[c] EXCEPT !.at = "updating", !.of = {d}]]
          PROVE  Goal
      <3> DEFINE k == [reading[c] EXCEPT !.at = "updating", !.of = {d}]
      <3>1. k.at = "updating" /\ k.text = reading[c].text
        BY <1>t DEF DocumentCall
      <3> HIDE DEF k
      <3>2. TextsAreThere'
        BY <1>b, <2>1, <2>2, <2>5, <3>1, SameTextsGrow, TextsStay DEF k
      <3>3. ~parted => WillRelyOn(k)
        BY <2>1, <2>2, <2>3, <3>1, SameAreShown DEF WillRelyOn
      <3>4. Writes(k)
        BY <3>1 DEF Writes
      <3>5. WritesApart'
        BY <2>1, <2>2, <2>5, <3>3, <3>4, WritesGoOn DEF k
      <3> QED
        BY <3>2, <3>5
    <2> QED
      BY <1>10, <2>4, <2>5 DEF DocumentsPart!FindTranscript
  <1>11. ASSUME NEW c \in Calls, DocumentsPart!UpdateTranscript(c)
         PROVE  Goal
    <2>1. PICK d \in reading[c].of :
            documents' = [documents EXCEPT ![d].text = reading[c].text]
      BY <1>11 DEF DocumentsPart!UpdateTranscript
    <2>2. /\ reading[c].at = "updating" /\ reading' = [reading EXCEPT ![c] = DocumentsPart!Idle]
          /\ UNCHANGED <<imported, transcript, parted>>
      BY <1>11 DEF DocumentsPart!UpdateTranscript
    <2>3. d \in Nat /\ Found(d) /\ IsTranscript(d) /\ d \in 1..Len(documents)
      BY <1>t, <2>2 DEF TranscriptInv, DocumentInv, TranscriptStays, DocumentCall, IsTranscript, Found
    <2> DEFINE y == [documents[d] EXCEPT !.text = reading[c].text]
    <2>4. /\ y \in DocumentsPart!Document /\ y.kind = "transcript"
          /\ y.text = reading[c].text /\ y.approved = documents[d].approved
      BY <1>t, <2>3 DEF Found, IsTranscript, DocumentsPart!Document, DocumentCall
    <2>5. documents' = [documents EXCEPT ![d] = y]
      BY <2>1
    <2> HIDE DEF y
    <2>6. /\ \A e \in 1..Len(documents) : e \in 1..Len(documents')
          /\ documents'[d] = y /\ IsTranscript(d)'
          /\ \A e \in Nat : e # d => /\ IsTranscript(e)' <=> IsTranscript(e)
                                     /\ IsTranscript(e) => documents'[e] = documents[e]
      BY <2>3, <2>4, <2>5, DocumentReplaced DEF TranscriptInv
    <2>7. documents[d].approved /\ reading[c].text # DocumentsPart!NoText
      BY <1>b, <2>2, <2>3 DEF TranscriptInv, TextsAreThere
    <2>8. ASSUME NEW e \in Nat, IsTranscript(e)'
          PROVE  documents'[e].approved /\ documents'[e].text # DocumentsPart!NoText
      <3>1. CASE e = d
        BY <2>4, <2>6, <2>7, <3>1
      <3>2. CASE e # d
        BY <2>6, <2>8, <3>2 DEF TranscriptInv, TextsAreThere
      <3> QED
        BY <3>1, <3>2
    <2>9. TextsGrow
      BY <1>t, <2>3, <2>6, <2>8 DEF TextsGrow
    <2>10. TextsAreThere'
      BY <1>i, <2>2, <2>9, TextsStay
    <2>11. Writes(reading[c])
      BY <2>2 DEF Writes
    <2>12. ~parted => OneTranscript /\ transcript = reading[c].text
      BY <1>a, <2>2, <2>11 DEF ReliesOn
    <2>13. ~parted => \A e \in Nat : IsTranscript(e)' => e = d
      BY <2>3, <2>6, <2>12 DEF OneTranscript
    <2>14. ~parted => Shown'
      BY <2>2, <2>3, <2>4, <2>6, <2>12, <2>13 DEF Shown, OneTranscript
    <2>15. WritesApart'
      BY <1>i, <2>2, <2>11, <2>14, WritesGoOn
    <2> QED
      BY <2>10, <2>15
  <1>12. ASSUME NEW c \in Calls, DocumentsPart!AddTranscript(c)
         PROVE  Goal
    <2> DEFINE x == DocumentsPart!Full("transcript", reading[c].text)
               n == Len(documents) + 1
    <2>1. /\ x \in DocumentsPart!Document /\ x.kind = "transcript" /\ x.approved
          /\ x.text = reading[c].text
      BY <1>t DEF DocumentsPart!Full, DocumentsPart!Document, DocumentCall
    <2>2. /\ reading' = [reading EXCEPT ![c] = DocumentsPart!Idle]
          /\ documents' = Append(documents, x) /\ reading[c].at = "adding"
          /\ UNCHANGED <<imported, transcript, parted>>
      BY <1>12 DEF DocumentsPart!AddTranscript, DocumentsPart!AddSourceDocument
    <2> HIDE DEF x
    <2>3. /\ n \in Nat /\ documents'[n] = x
          /\ \A d \in 1..Len(documents) : d \in 1..Len(documents') /\ documents'[d] = documents[d]
          /\ \A d \in Nat : IsTranscript(d)' <=> IsTranscript(d) \/ d = n
      BY <2>1, <2>2, DocumentAdded DEF TranscriptInv
    <2>4. \A d \in 1..Len(documents) : d # n
      BY LenProperties DEF TranscriptInv, DocumentInv, DocumentRows
    <2> HIDE DEF n
    <2>5. reading[c].text # DocumentsPart!NoText
      BY <1>b, <2>2
    <2>6. ASSUME NEW d \in Nat, IsTranscript(d)'
          PROVE  documents'[d].approved /\ documents'[d].text # DocumentsPart!NoText
      <3>1. CASE d = n
        BY <2>1, <2>3, <2>5, <3>1
      <3>2. CASE d # n
        <4>1. IsTranscript(d) /\ d \in 1..Len(documents)
          BY <2>3, <2>6, <3>2 DEF IsTranscript, Found
        <4> QED
          BY <2>3, <4>1 DEF TranscriptInv, TextsAreThere
      <3> QED
        BY <3>1, <3>2
    <2>7. TextsGrow
      BY <1>t, <2>3, <2>4, <2>6 DEF TextsGrow
    <2>8. TextsAreThere'
      BY <1>i, <2>2, <2>7, TextsStay
    <2>9. Writes(reading[c])
      BY <2>2 DEF Writes
    <2>10. ~parted => NoTranscript /\ transcript = reading[c].text
      BY <1>a, <2>2, <2>9 DEF ReliesOn
    <2>11. ~parted => \A d \in Nat : IsTranscript(d)' <=> d = n
      BY <2>3, <2>10 DEF NoTranscript
    <2>12. ~parted => Shown'
      BY <2>1, <2>2, <2>3, <2>10, <2>11 DEF Shown, OneTranscript
    <2>13. WritesApart'
      BY <1>i, <2>2, <2>9, <2>12, WritesGoOn
    <2> QED
      BY <2>8, <2>13
  <1>13. ASSUME NEW c \in Calls, DocumentsPart!Include(c)
         PROVE  Goal
    <2>1. PICK d \in DocumentsPart!LinkDocuments :
            reading' = [reading EXCEPT ![c] = [DocumentsPart!Idle EXCEPT !.at = "including",
                                                                         !.of = {d}]]
      BY <1>13 DEF DocumentsPart!Include
    <2> DEFINE k == [DocumentsPart!Idle EXCEPT !.at = "including", !.of = {d}]
    <2>2. UNCHANGED <<imported, transcript, documents, parted>> /\ reading[c] = DocumentsPart!Idle
      BY <1>13 DEF DocumentsPart!Include
    <2>3. k.at = "including" /\ k.of = {d}
      BY <1>i
    <2> HIDE DEF k
    <2>4. SameTranscripts /\ ~Writes(k) /\ ~Writes(reading[c])
      BY <1>i, <1>k, <2>2, <2>3 DEF Writes
    <2>5. TextsAreThere'
      BY <1>l, <2>1, <2>2, <2>3, <2>4, SameTextsGrow, TextsStay DEF k
    <2>6. WritesApart'
      BY <2>1, <2>2, <2>4, WritesGoOn DEF k
    <2> QED
      BY <2>5, <2>6
  <1>14. ASSUME NEW c \in Calls, DocumentsPart!IncludeAll(c)
         PROVE  Goal
    <2> DEFINE k == [DocumentsPart!Idle EXCEPT !.at = "including", !.of = DocumentsPart!Pending]
    <2>1. /\ reading' = [reading EXCEPT ![c] = k] /\ reading[c] = DocumentsPart!Idle
          /\ UNCHANGED <<imported, transcript, documents, parted>>
      BY <1>14 DEF DocumentsPart!IncludeAll
    <2>2. k.at = "including" /\ k.of = DocumentsPart!Pending
      BY <1>i
    <2> HIDE DEF k
    <2>3. SameTranscripts /\ ~Writes(k) /\ ~Writes(reading[c])
      BY <1>i, <1>k, <2>1, <2>2 DEF Writes
    <2>4. \A d \in DocumentsPart!Pending : d \in 1..Len(documents) /\ ~IsTranscript(d)
      BY <1>l DEF DocumentsPart!Pending
    <2>5. TextsAreThere'
      BY <2>1, <2>2, <2>3, <2>4, SameTextsGrow, TextsStay
    <2>6. WritesApart'
      BY <2>1, <2>3, WritesGoOn
    <2> QED
      BY <2>5, <2>6
  <1>15. ASSUME NEW c \in Calls, DocumentsPart!FetchLink(c)
         PROVE  Goal
    <2>1. PICK d \in reading[c].of :
            /\ DocumentsPart!ApproveSourceDocument(c, d) \/ UNCHANGED documents
            /\ reading' = [reading EXCEPT ![c] = [reading[c] EXCEPT !.of = @ \ {d}]]
      BY <1>15 DEF DocumentsPart!FetchLink
    <2> DEFINE k == [reading[c] EXCEPT !.of = @ \ {d}]
    <2>2. reading[c].at = "including" /\ UNCHANGED <<imported, transcript, parted>>
      BY <1>15 DEF DocumentsPart!FetchLink
    <2>3. k.at = "including" /\ k.of = reading[c].of \ {d}
      BY <1>t, <2>2 DEF DocumentCall
    <2> HIDE DEF k
    <2>4. ~IsTranscript(d)
      BY <1>b, <2>2
    <2>5. SameTranscripts
      <3>1. CASE UNCHANGED documents
        BY <1>k, <3>1
      <3>2. CASE documents' # documents
        <4> DEFINE y == [documents[d] EXCEPT !.text = DocumentsPart!Linked, !.approved = TRUE]
        <4>1. d \in DocumentsPart!Stored /\ documents' = [documents EXCEPT ![d] = y]
          BY <2>1, <3>2 DEF DocumentsPart!ApproveSourceDocument
        <4>2. d \in Nat /\ Found(d)
          BY <1>s, <4>1
        <4>3. y \in DocumentsPart!Document /\ y.kind = documents[d].kind
          BY <4>2 DEF Found, DocumentsPart!Document, DocumentsPart!Texts
        <4>4. y.kind # "transcript"
          BY <2>4, <4>2, <4>3 DEF IsTranscript
        <4> HIDE DEF y
        <4> QED
          BY <2>4, <4>1, <4>2, <4>3, <4>4, DocumentReplaced DEF TranscriptInv
      <3> QED
        BY <3>1, <3>2
    <2>6. ~Writes(k) /\ ~Writes(reading[c])
      BY <2>2, <2>3 DEF Writes
    <2>7. TextsAreThere'
      BY <1>b, <2>1, <2>2, <2>3, <2>5, SameTextsGrow, TextsStay DEF k
    <2>8. WritesApart'
      BY <2>1, <2>2, <2>5, <2>6, WritesGoOn DEF k
    <2> QED
      BY <2>7, <2>8
  <1>16. ASSUME NEW c \in Calls, DocumentsPart!Included(c)
         PROVE  Goal
    <2>1. /\ reading[c].at = "including" /\ UNCHANGED <<imported, transcript, documents, parted>>
          /\ reading' = [reading EXCEPT ![c] = DocumentsPart!Idle]
      BY <1>16 DEF DocumentsPart!Included
    <2>2. ~Writes(reading[c])
      BY <2>1 DEF Writes
    <2> QED
      BY <1>k, <1>q, <2>1, <2>2
  <1>17. ASSUME NEW c \in Calls, DocumentsPart!Dismiss(c)
         PROVE  Goal
    <2>1. PICK d \in DocumentsPart!LinkDocuments :
            documents' = [documents EXCEPT ![d] = DocumentsPart!Dismissed]
      BY <1>17 DEF DocumentsPart!Dismiss
    <2>2. d \in Nat /\ Found(d) /\ ~IsTranscript(d)
      BY <1>l
    <2>3. DocumentsPart!Dismissed \notin DocumentsPart!Document
      BY DEF DocumentsPart!Dismissed, DocumentsPart!Document
    <2>4. SameTranscripts
      BY <2>1, <2>2, <2>3, DocumentReplaced DEF TranscriptInv
    <2>5. /\ reading[c] = DocumentsPart!Idle /\ UNCHANGED <<imported, transcript, parted>>
          /\ reading' = [reading EXCEPT ![c] = DocumentsPart!Idle]
      BY <1>17 DEF DocumentsPart!Dismiss
    <2> QED
      BY <1>i, <1>q, <2>4, <2>5
  <1>18. ASSUME NEW c \in Calls, DocumentsPart!CallThrows(c)
         PROVE  Goal
    <2>1. /\ UNCHANGED <<imported, transcript, documents>>
          /\ reading' = [reading EXCEPT ![c] = DocumentsPart!Idle]
          /\ parted' = (parted \/ reading[c].at \in {"finding", "updating", "adding"})
      BY <1>18 DEF DocumentsPart!CallThrows
    <2>2. SameTranscripts
      BY <1>k, <2>1
    <2>3. TextsAreThere'
      BY <1>i, <2>1, <2>2, SameTextsGrow, TextsStay
    <2>4. ~parted' /\ Writes(reading[c]) => Shown
      BY <1>a, <1>c, <2>1 DEF Writes, ReliesOn
    <2>5. ~parted' /\ Writes(reading[c]) => Shown'
      BY <2>1, <2>2, <2>4, SameAreShown
    <2>6. WritesApart'
      BY <1>i, <2>1, <2>2, <2>5, WritesGoOn
    <2> QED
      BY <2>3, <2>6
  <1>19. ASSUME UNCHANGED documentVars
         PROVE  Goal
    <2>1. UNCHANGED <<imported, transcript, documents, reading, parted>>
      BY <1>19 DEF documentVars
    <2>2. TextsAreThere'
      BY <2>1 DEF TranscriptInv, TextsAreThere, IsTranscript, Found
    <2>3. WritesApart'
      BY <2>1 DEF TranscriptInv, WritesApart, Writes, ReliesOn, Shown, NoTranscript, OneTranscript,
         IsTranscript, Found
    <2> QED
      BY <2>2, <2>3
  <1> HIDE DEF Goal
  <1>20. Goal
    BY <1>1, <1>2, <1>3, <1>4, <1>5, <1>6, <1>7, <1>8, <1>9, <1>10, <1>11, <1>12, <1>13, <1>14,
       <1>15, <1>16, <1>17, <1>18, <1>19 DEF DocumentsPart!DocumentsNext
  <1>21. DocumentInv'
    BY DocumentsKeep DEF TranscriptInv
  <1> QED
    BY <1>20, <1>21 DEF TranscriptInv, Goal

(* The transcript staff see is the one an analysis reads, and the only one *)
(* (upsertTranscriptSourceDocument, resource-service.ts:360): of every     *)
(* number of calls, in every order, unless two writes of it overlapped or  *)
(* one was broken off between the row and the document.                    *)
THEOREM ShownIsRead == Spec => []AnalysisReadsShown
  <1>1. Init => TranscriptInv
    BY NothingShown
  <1>2. TranscriptInv /\ [Next]_vars => TranscriptInv'
    BY DocumentsStep, TranscriptsKeep
  <1>3. TranscriptInv => AnalysisReadsShown
    <2> SUFFICES ASSUME TranscriptInv, ~parted, \A c \in Calls : ~DocumentsPart!Writing(c)
                 PROVE  AnalysisReadsShown
      BY DEF AnalysisReadsShown, DocumentsPart!AnalysisReadsShown
    <2>1. Shown
      BY DEF TranscriptInv, WritesApart, Writes, DocumentsPart!Writing
    <2>2. DocumentsPart!Transcripts = {d \in Nat : IsTranscript(d)}
      <3>1. /\ DOMAIN documents = 1..Len(documents)
            /\ \A d \in 1..Len(documents) : d \in Nat /\ documents[d] \in
                 DocumentsPart!Document \cup {DocumentsPart!Dismissed}
        BY LenProperties DEF TranscriptInv, DocumentInv, DocumentRows
      <3>2. DocumentsPart!Dismissed \notin DocumentsPart!Document
        BY DEF DocumentsPart!Dismissed, DocumentsPart!Document
      <3> QED
        BY <3>1, <3>2 DEF Found, IsTranscript, DocumentsPart!Stored, DocumentsPart!Transcripts
    <2>3. DocumentsPart!Transcripts \subseteq DocumentsPart!ReadByAnalysis
      BY <2>2 DEF DocumentsPart!ReadByAnalysis, DocumentsPart!Transcripts, TranscriptInv,
         TextsAreThere
    <2>4. \A d \in DocumentsPart!Transcripts :
            documents[d].text = transcript /\ transcript # DocumentsPart!NoText
      BY <2>1, <2>2 DEF Shown, TranscriptInv, TextsAreThere
    <2>5. transcript # DocumentsPart!NoText => DocumentsPart!Transcripts # {}
      BY <2>1, <2>2 DEF Shown
    <2>6. {documents[d].text : d \in DocumentsPart!ReadByAnalysis \cap DocumentsPart!Transcripts}
            = {transcript} \ {DocumentsPart!NoText}
      BY <2>3, <2>4, <2>5
    <2>7. \A d, e \in DocumentsPart!Transcripts : d = e
      BY <2>1, <2>2 DEF Shown, OneTranscript
    <2> QED
      BY <2>6, <2>7 DEF AnalysisReadsShown, DocumentsPart!AnalysisReadsShown
  <1> QED
    BY <1>1, <1>2, <1>3, PTL DEF Spec

-----------------------------------------------------------------------------
(* SettingsForms: every column is as it was last chosen.                   *)

(* Every step is one of the settings forms', or leaves them alone.         *)
LEMMA FormsStep == [Next]_vars => [FormsPart!FormsNext]_formVars
  BY DEF Next, vars, OnTeam, OnUsage, OnRate, OnList, OnWall, OnSetup, InSetup, OnForms,
     OnDocuments, OnAccounts, OnDesk, OnInsights, OnLog, OnListing,
     OnPanels, OnTypes, formVars

FormRows ==
  /\ row = [c \in FormsPart!Columns[subject] |-> row[c]]
  /\ intended = [c \in FormsPart!Columns[subject] |-> intended[c]]
  /\ saves = [e \in Editors |-> saves[e]]

(* What a save passes on is what is there, unless another was written      *)
(* after it read.                                                          *)
Current(e) == \A c \in saves[e].form.keeps : saves[e].read[c] = row[c]

(* No form of the code empties what it is not known to.                    *)
SavesAsRead ==
  \A e \in Editors : saves[e] # FormsPart!NoSave =>
    /\ saves[e].at = "saving"
    /\ saves[e].form.empties \subseteq FormsPart!Unshown
    /\ e \in crossed \/ Current(e)

FormsInv == FormRows /\ SavesAsRead /\ FormsPart!ChoicesKept

(* Nothing is chosen to begin with.                                        *)
LEMMA NothingChosen == Init => FormsInv
  <1> SUFFICES ASSUME Init PROVE FormsInv
    OBVIOUS
  <1>1. FormsPart!FormsInit
    BY DEF Init
  <1>2. FormRows /\ FormsPart!ChoicesKept
    BY <1>1 DEF FormsPart!FormsInit, FormRows, FormsPart!Values, FormsPart!ChoicesKept
  <1>3. SavesAsRead
    BY <1>1 DEF FormsPart!FormsInit, SavesAsRead
  <1> QED
    BY <1>2, <1>3 DEF FormsInv

(* A save that begins passes on what it reads.                             *)
LEMMA SaveBegins ==
  ASSUME FormsInv, NEW e \in Editors, NEW sent, NEW sets, FormsPart!Reads(e, sent, sets),
         sent.empties \subseteq FormsPart!Unshown
  PROVE  FormsInv'
  <1> USE DEF FormsPart!Reads
  <1>1. FormRows' /\ FormsPart!ChoicesKept'
    BY DEF FormsInv, FormRows, FormsPart!ChoicesKept
  <1>2. ASSUME NEW o \in Editors, saves'[o] # FormsPart!NoSave
        PROVE  /\ saves'[o].at = "saving"
               /\ saves'[o].form.empties \subseteq FormsPart!Unshown
               /\ o \in crossed' \/ Current(o)'
    <2>1. CASE o = e
      <3>1. saves'[e] = [at |-> "saving", form |-> sent, sets |-> sets,
                         read |-> [c \in sent.keeps |-> row[c]]]
        BY DEF FormsInv, FormRows
      <3>2. /\ saves'[e].at = "saving" /\ saves'[e].form = sent
            /\ saves'[e].read = [c \in sent.keeps |-> row[c]]
        BY <3>1
      <3>3. Current(e)'
        BY <3>2 DEF Current
      <3> QED
        BY <2>1, <3>2, <3>3
    <2>2. CASE o # e
      <3>1. saves'[o] = saves[o]
        BY <2>2 DEF FormsInv, FormRows
      <3> QED
        BY <3>1, <1>2 DEF FormsInv, SavesAsRead, Current
    <2> QED
      BY <2>1, <2>2
  <1>3. SavesAsRead'
    BY <1>2 DEF SavesAsRead
  <1> QED
    BY <1>1, <1>3 DEF FormsInv

(* None of the code's forms empties what it is not known to.               *)
LEMMA FormsShow ==
  /\ \A sent \in FormsPart!WallForms \cup FormsPart!WidgetForms :
       sent.empties \subseteq FormsPart!Unshown
  /\ \A sent \in FormsPart!OrganizationForms \cup FormsPart!CampusForms :
       sent.empties \subseteq FormsPart!Unshown
  /\ FormsPart!WizardEnablePrayerWall.empties = {}
  /\ FormsPart!WizardEnableTestimonies.empties = {}
  <1>1. \A sent \in FormsPart!WidgetForms : sent.empties \subseteq FormsPart!Unshown
    BY DEF FormsPart!WidgetForms, FormsPart!PanelSends, FormsPart!Form, FormsPart!WithLogo,
           FormsPart!Unshown
  <1>2. \A chooses, empties : \A sent \in FormsPart!WithLogo(chooses, empties) :
          sent.empties = empties
    BY DEF FormsPart!Form, FormsPart!WithLogo
  <1>3. ASSUME NEW sent \in FormsPart!WallForms
        PROVE  sent.empties \subseteq FormsPart!Unshown
    <2>1. PICK fields \in FormsPart!WallSends :
            sent \in FormsPart!WithLogo(fields, {"testimonies"} \ fields)
      BY DEF FormsPart!WallForms
    <2>2. sent.empties = {"testimonies"} \ fields
      BY <2>1, <1>2
    <2> QED
      BY <2>2 DEF FormsPart!Unshown
  <1> QED
    BY <1>1, <1>3 DEF FormsPart!OrganizationForms, FormsPart!CampusForms,
       FormsPart!PublicContact, FormsPart!QuestionForwarding, FormsPart!Form,
       FormsPart!WizardEnablePrayerWall, FormsPart!WizardEnableTestimonies

(* A save writes each column as chosen or as it is; whatever saves are     *)
(* under way have been written across.                                     *)
LEMMA OneSaved ==
  ASSUME FormsInv, NEW e \in Editors, FormsPart!Save(e), saves[e] # FormsPart!NoSave
  PROVE  FormsInv'
  <1> DEFINE f == saves[e].form
             Chosen(c) == \/ c \in f.chooses \/ c \in f.empties \cap FormsPart!Unshown
                          \/ c \in f.keeps /\ e \in crossed
  <1>1. PICK choice \in [f.chooses -> FormsPart!Values] :
          /\ row' = [c \in FormsPart!Columns[subject] |->
                       IF c \in f.chooses THEN choice[c]
                       ELSE IF c \in f.keeps THEN saves[e].read[c]
                       ELSE IF c \in f.empties THEN "none" ELSE row[c]]
          /\ intended' = [c \in FormsPart!Columns[subject] |->
                            IF Chosen(c) THEN row'[c] ELSE intended[c]]
    BY DEF FormsPart!Save
  <1>2. /\ saves' = [saves EXCEPT ![e] = FormsPart!NoSave]
        /\ crossed' = {o \in Editors \ {e} : saves[o] # FormsPart!NoSave}
        /\ subject' = subject
    BY DEF FormsPart!Save
  <1>3. ASSUME NEW c \in FormsPart!Columns[subject]
        PROVE  row'[c] = intended'[c]
    <2>1. CASE Chosen(c)
      BY <2>1, <1>1
    <2>2. CASE ~Chosen(c)
      <3>1. c \in f.keeps => saves[e].read[c] = row[c]
        BY <2>2 DEF FormsInv, SavesAsRead, Current
      <3>2. c \notin f.chooses /\ c \notin f.empties
        BY <2>2 DEF FormsInv, SavesAsRead
      <3>3. row'[c] = row[c]
        BY <1>1, <3>1, <3>2
      <3> QED
        BY <1>1, <2>2, <3>3 DEF FormsInv, FormsPart!ChoicesKept
    <2> QED
      BY <2>1, <2>2
  <1>4. row' = intended'
    BY <1>1, <1>3
  <1>5. FormRows'
    BY <1>1, <1>2 DEF FormsInv, FormRows
  <1>6. SavesAsRead'
    BY <1>2 DEF FormsInv, FormRows, SavesAsRead, Current
  <1> QED
    BY <1>4, <1>5, <1>6 DEF FormsInv, FormsPart!ChoicesKept

(* Every save, and whatever comes between, keeps every column as chosen.   *)
LEMMA FormsSave == FormsInv /\ [FormsPart!FormsNext]_formVars => FormsInv'
  <1> SUFFICES ASSUME FormsInv, [FormsPart!FormsNext]_formVars PROVE FormsInv'
    OBVIOUS
  <1>1. ASSUME NEW e \in Editors, FormsPart!StartSave(e)
        PROVE  FormsInv'
    BY <1>1, FormsShow, SaveBegins DEF FormsPart!StartSave
  <1>2. ASSUME NEW e \in Editors,
               FormsPart!StartWizardWall(e) \/ FormsPart!StartWizardTestimonies(e)
        PROVE  FormsInv'
    BY <1>2, FormsShow, SaveBegins DEF FormsPart!StartWizardWall, FormsPart!StartWizardTestimonies
  <1>3. ASSUME NEW e \in Editors, FormsPart!Save(e)
        PROVE  FormsInv'
    <2>1. saves[e] # FormsPart!NoSave
      BY <1>3 DEF FormsPart!Save, FormsPart!NoSave
    <2> QED
      BY <1>3, <2>1, OneSaved
  <1>4. ASSUME NEW e \in Editors, FormsPart!SaveThrows(e)
        PROVE  FormsInv'
    <2>1. /\ saves' = [saves EXCEPT ![e] = FormsPart!NoSave]
          /\ crossed' = crossed \ {e} /\ UNCHANGED <<subject, row, intended>>
      BY <1>4 DEF FormsPart!SaveThrows
    <2>2. \A o \in Editors : saves'[o] = IF o = e THEN FormsPart!NoSave ELSE saves[o]
      BY <2>1 DEF FormsInv, FormRows
    <2>3. FormRows' /\ FormsPart!ChoicesKept'
      BY <2>1 DEF FormsInv, FormRows, FormsPart!ChoicesKept
    <2>4. SavesAsRead'
      BY <2>1, <2>2 DEF FormsInv, SavesAsRead, Current
    <2> QED
      BY <2>3, <2>4 DEF FormsInv
  <1>5. ASSUME UNCHANGED <<subject, row, saves, crossed, intended>>
        PROVE  FormsInv'
    BY <1>5 DEF FormsInv, FormRows, SavesAsRead, Current, FormsPart!ChoicesKept
  <1> QED
    BY <1>1, <1>2, <1>3, <1>4, <1>5 DEF FormsPart!FormsNext, FormsPart!OpenWizard,
       FormsPart!SkipOrBack, FormsPart!ChangePlan, formVars

(* Each form keeps what it does not show, as each "must pass them through  *)
(* rather than risk clobbering" (prayer-wall/setup/page.tsx:42): for every *)
(* number of editors and every plan, unless another saved between its read *)
(* and its write.                                                          *)
THEOREM FormsKeepChoices == Spec => []FormsPart!ChoicesKept
  <1>1. Init => FormsInv
    BY NothingChosen
  <1>2. FormsInv /\ [Next]_vars => FormsInv'
    BY FormsStep, FormsSave
  <1>3. FormsInv => FormsPart!ChoicesKept
    BY DEF FormsInv
  <1> QED
    BY <1>1, <1>2, <1>3, PTL DEF Spec

-----------------------------------------------------------------------------
(* RateLimit: no window of a key lets more through than its limit and what *)
(* was forgotten. A bucket only has to be right about what is recent, and  *)
(* what is recent becomes less; so what is said of a window is said of     *)
(* every later moment from which one may count.                            *)

After(c) == {t \in RatePart!Times : c < t}
Count(seq, c) == Len(Where(seq, After(c)))

(* The requests a key let through after c, a moment of its window w, are   *)
(* in its bucket or forgotten, and the bucket keeps to the limit.          *)
Accounts(n, w, limit, let, bucket, gone) ==
  /\ {let, bucket, gone} \subseteq Seq(RatePart!Times)
  /\ Count(bucket, n - w) <= limit
  /\ \A c \in Int : n - w <= c => Count(let, c) <= Count(bucket, c) + Count(gone, c)

RateInv ==
  /\ now \in RatePart!Times
  /\ admitted = [k \in Keys |-> admitted[k]] /\ buckets = [k \in Keys |-> buckets[k]]
  /\ forgotten = [k \in Keys |-> forgotten[k]]
  /\ \A k \in Keys : Accounts(now, WindowOf[k], Limit[k], admitted[k], buckets[k], forgotten[k])

(* The limiter's module filters with the same operator.                    *)
LEMMA SameFilter == \A seq, S : RatePart!Where(seq, S) = Where(seq, S)
  BY DEF RatePart!Where, Where

(* What counting counts.                                                   *)
LEMMA Counting ==
  ASSUME NEW seq \in Seq(RatePart!Times), NEW c \in Int
  PROVE  /\ Count(seq, c) \in Nat /\ Count(seq, c) <= Len(seq)
         /\ Count(<< >>, c) = 0
         /\ \A n \in RatePart!Times :
              Count(Append(seq, n), c) = IF c < n THEN Count(seq, c) + 1 ELSE Count(seq, c)
         /\ \A more \in Seq(RatePart!Times) : Count(seq \o more, c) = Count(seq, c) + Count(more, c)
<1>1. Where(seq, After(c)) \in Seq(RatePart!Times) /\ Len(Where(seq, After(c))) <= Len(seq)
  BY WhereKeeps
<1>2. Count(<< >>, c) = 0
  BY WhereOfNone DEF Count
<1>3. ASSUME NEW n \in RatePart!Times
      PROVE  Count(Append(seq, n), c) = IF c < n THEN Count(seq, c) + 1 ELSE Count(seq, c)
  <2>1. Where(Append(seq, n), After(c)) =
          IF n \in After(c) THEN Append(Where(seq, After(c)), n) ELSE Where(seq, After(c))
    BY WhereAppended
  <2>2. n \in After(c) <=> c < n
    BY DEF After
  <2> QED
    BY <1>1, <2>1, <2>2 DEF Count
<1> QED
  BY <1>1, <1>2, <1>3, WhereJoins DEF Count

(* What is after d, counted from c.                                        *)
LEMMA CountingAfter ==
  ASSUME NEW seq \in Seq(RatePart!Times), NEW c \in Int, NEW d \in Int
  PROVE  /\ Where(seq, After(d)) \in Seq(RatePart!Times)
         /\ Count(Where(seq, After(d)), c) <= Count(seq, c)
         /\ d <= c => Count(Where(seq, After(d)), c) = Count(seq, c)
<1>1. Where(seq, After(d)) \in Seq(RatePart!Times) /\ Where(seq, After(c)) \in Seq(RatePart!Times)
  BY WhereKeeps
<1>2. /\ Where(Where(seq, After(d)), After(c)) = Where(seq, After(d) \cap After(c))
      /\ Where(Where(seq, After(c)), After(d)) = Where(seq, After(c) \cap After(d))
  BY WhereTwice
<1>3. After(d) \cap After(c) = After(c) \cap After(d)
  OBVIOUS
<1>4. Len(Where(Where(seq, After(c)), After(d))) <= Len(Where(seq, After(c)))
  BY <1>1, WhereKeeps
<1>5. d <= c => After(d) \cap After(c) = After(c)
  <2>1. \A t \in RatePart!Times : t \in Int
    BY ChurchAssumption DEF RatePart!Times
  <2> QED
    BY <2>1 DEF After
<1> QED
  BY <1>1, <1>2, <1>3, <1>4, <1>5 DEF Count

(* What a filter drops and what it keeps are all.                          *)
LEMMA CountingBoth ==
  ASSUME NEW seq \in Seq(RatePart!Times), NEW c \in Int, NEW d \in Int
  PROVE  LET rest == Where(seq, RatePart!Times \ After(d)) IN
         /\ rest \in Seq(RatePart!Times)
         /\ Count(Where(seq, After(d)), c) + Count(rest, c) = Count(seq, c)
<1> DEFINE T == RatePart!Times
           B == T \ After(d)
           late == Where(seq, After(c))
<1>1. late \in Seq(T) /\ Where(seq, B) \in Seq(T)
  BY WhereKeeps
<1> HIDE DEF late, B
<1>2. /\ Where(Where(seq, After(d)), After(c)) = Where(seq, After(d) \cap After(c))
      /\ Where(Where(seq, After(c)), After(d)) = Where(seq, After(c) \cap After(d))
      /\ Where(Where(seq, B), After(c)) = Where(seq, B \cap After(c))
      /\ Where(Where(seq, After(c)), B) = Where(seq, After(c) \cap B)
  BY WhereTwice
<1>3. After(d) \cap After(c) = After(c) \cap After(d) /\ B \cap After(c) = After(c) \cap B
  OBVIOUS
<1>4. Len(Where(late, After(d))) + Len(Where(late, T \ After(d))) = Len(late)
  BY <1>1, WhereSplits
<1>5. /\ Where(Where(seq, After(d)), After(c)) = Where(late, After(d))
      /\ Where(Where(seq, B), After(c)) = Where(late, B)
  BY <1>2, <1>3 DEF late
<1> QED
  BY <1>1, <1>4, <1>5 DEF Count, late, B

(* Accounts that are right now are right later.                            *)
LEMMA AccountsLater ==
  ASSUME NEW n \in Int, NEW w \in Int, NEW limit \in Int, NEW let, NEW bucket, NEW gone,
         Accounts(n, w, limit, let, bucket, gone)
  PROVE  Accounts(n + 1, w, limit, Where(let, After(n - w)), bucket, Where(gone, After(n - w)))
<1>1. /\ let \in Seq(RatePart!Times) /\ bucket \in Seq(RatePart!Times)
      /\ gone \in Seq(RatePart!Times)
  BY DEF Accounts
<1>2. n - w \in Int /\ (n + 1) - w \in Int /\ n - w <= (n + 1) - w
  OBVIOUS
<1>3. Count(bucket, (n + 1) - w) <= Count(bucket, n - w)
  <2> DEFINE c == (n + 1) - w
             d == n - w
  <2>1. c \in Int /\ d \in Int /\ d <= c
    OBVIOUS
  <2> HIDE DEF c, d
  <2>2. Where(bucket, After(d)) \in Seq(RatePart!Times)
        /\ Count(Where(bucket, After(d)), c) = Count(bucket, c)
    BY <1>1, <2>1, CountingAfter
  <2>3. Count(Where(bucket, After(d)), c) <= Len(Where(bucket, After(d)))
    BY <2>1, <2>2, Counting
  <2> QED
    BY <2>2, <2>3 DEF Count, c, d
<1>4. Count(bucket, (n + 1) - w) <= limit
  <2>1. Count(bucket, (n + 1) - w) \in Nat /\ Count(bucket, n - w) \in Nat
    BY <1>1, <1>2, Counting
  <2> QED
    BY <1>3, <2>1 DEF Accounts
<1>5. ASSUME NEW c \in Int, (n + 1) - w <= c
      PROVE  Count(Where(let, After(n - w)), c) <=
               Count(bucket, c) + Count(Where(gone, After(n - w)), c)
  <2>1. n - w <= c
    BY <1>5
  <2>2. /\ Count(Where(let, After(n - w)), c) = Count(let, c)
        /\ Count(Where(gone, After(n - w)), c) = Count(gone, c)
    BY <1>1, <1>2, <2>1, CountingAfter
  <2> QED
    BY <2>1, <2>2 DEF Accounts
<1>6. Where(let, After(n - w)) \in Seq(RatePart!Times)
      /\ Where(gone, After(n - w)) \in Seq(RatePart!Times)
  BY <1>1, <1>2, CountingAfter
<1> QED
  BY <1>1, <1>4, <1>5, <1>6 DEF Accounts

(* A sweep, with any window v, drops from a bucket what it remembers to    *)
(* have forgotten.                                                         *)
LEMMA AccountsSwept ==
  ASSUME NEW n \in Int, NEW w \in Int, NEW v \in Int, NEW limit \in Int,
         NEW let, NEW bucket, NEW gone, Accounts(n, w, limit, let, bucket, gone)
  PROVE  Accounts(n, w, limit, let, Where(bucket, After(n - v)),
           Where(gone, After(n - w)) \o
             Where(Where(bucket, RatePart!Times \ After(n - v)), After(n - w)))
<1> DEFINE T == RatePart!Times
           kept == Where(bucket, After(n - v))
           rest == Where(bucket, T \ After(n - v))
           old == Where(gone, After(n - w))
           lost == Where(rest, After(n - w))
<1>1. let \in Seq(T) /\ bucket \in Seq(T) /\ gone \in Seq(T)
  BY DEF Accounts
<1>2. n - w \in Int /\ n - v \in Int
  OBVIOUS
<1>3. kept \in Seq(T) /\ rest \in Seq(T) /\ old \in Seq(T)
  BY <1>1, <1>2, CountingAfter, CountingBoth
<1>4. \A c \in Int : Count(kept, c) + Count(rest, c) = Count(bucket, c)
  BY <1>1, <1>2, CountingBoth
<1>5. \A c \in Int : Count(kept, c) <= Count(bucket, c)
  BY <1>1, <1>2, CountingAfter
<1>6. \A c \in Int : n - w <= c => Count(old, c) = Count(gone, c)
  BY <1>1, <1>2, CountingAfter
<1> HIDE DEF kept, rest
<1>7. lost \in Seq(T) /\ \A c \in Int : n - w <= c => Count(lost, c) = Count(rest, c)
  BY <1>2, <1>3, CountingAfter
<1> HIDE DEF old, lost
<1>8. old \o lost \in Seq(T) /\ \A c \in Int : Count(old \o lost, c) = Count(old, c) + Count(lost, c)
  BY <1>3, <1>7, Counting
<1>9. \A c \in Int : Count(kept, c) \in Nat /\ Count(rest, c) \in Nat /\ Count(bucket, c) \in Nat
                     /\ Count(gone, c) \in Nat /\ Count(let, c) \in Nat
  BY <1>1, <1>3, Counting
<1>10. Count(kept, n - w) <= limit
  BY <1>2, <1>5, <1>9 DEF Accounts
<1>11. ASSUME NEW c \in Int, n - w <= c
       PROVE  Count(let, c) <= Count(kept, c) + Count(old \o lost, c)
  <2>1. Count(let, c) <= Count(bucket, c) + Count(gone, c)
    BY <1>11 DEF Accounts
  <2>2. Count(old \o lost, c) = Count(gone, c) + Count(rest, c)
    BY <1>6, <1>7, <1>8, <1>11
  <2> QED
    BY <1>4, <1>9, <2>1, <2>2
<1>12. Accounts(n, w, limit, let, kept, old \o lost)
  BY <1>1, <1>3, <1>8, <1>10, <1>11 DEF Accounts
<1> QED
  BY <1>12 DEF kept, old, lost, rest

(* Without a sweep nothing more is forgotten.                              *)
LEMMA AccountsUnswept ==
  ASSUME NEW n \in Int, NEW w \in Int, NEW limit \in Int, NEW let, NEW bucket, NEW gone,
         Accounts(n, w, limit, let, bucket, gone)
  PROVE  Accounts(n, w, limit, let, bucket, Where(gone, After(n - w)) \o << >>)
<1>1. gone \in Seq(RatePart!Times) /\ n - w \in Int
  BY DEF Accounts
<1> DEFINE old == Where(gone, After(n - w))
<1>2. old \in Seq(RatePart!Times) /\ \A c \in Int : n - w <= c => Count(old, c) = Count(gone, c)
  BY <1>1, CountingAfter
<1> HIDE DEF old
<1>3. old \o << >> = old
  BY <1>2
<1>4. Accounts(n, w, limit, let, bucket, old)
  BY <1>2 DEF Accounts
<1> QED
  BY <1>3, <1>4 DEF old

(* A key's bucket is left with what its own window holds.                  *)
LEMMA AccountsTrimmed ==
  ASSUME NEW n \in Int, NEW w \in Int, NEW limit \in Int, NEW let, NEW bucket, NEW gone,
         Accounts(n, w, limit, let, bucket, gone)
  PROVE  Accounts(n, w, limit, let, Where(bucket, After(n - w)), gone)
<1>1. bucket \in Seq(RatePart!Times) /\ n - w \in Int
  BY DEF Accounts
<1> DEFINE kept == Where(bucket, After(n - w))
<1>2. kept \in Seq(RatePart!Times) /\ \A c \in Int : n - w <= c => Count(kept, c) = Count(bucket, c)
  BY <1>1, CountingAfter
<1> HIDE DEF kept
<1>3. Accounts(n, w, limit, let, kept, gone)
  BY <1>1, <1>2 DEF Accounts
<1> QED
  BY <1>3 DEF kept

(* A request is let through when there is room for it in the bucket.       *)
LEMMA AccountsAdmit ==
  ASSUME NEW n \in RatePart!Times, NEW w \in Int, NEW limit \in Int,
         NEW let, NEW bucket, NEW gone,
         Accounts(n, w, limit, let, bucket, gone), Len(bucket) < limit
  PROVE  Accounts(n, w, limit, Append(Where(let, After(n - w)), n), Append(bucket, n), gone)
<1> DEFINE T == RatePart!Times
           before == Where(let, After(n - w))
<1>0. n \in Int /\ n - w \in Int
  BY ChurchAssumption DEF RatePart!Times
<1>1. let \in Seq(T) /\ bucket \in Seq(T) /\ gone \in Seq(T)
  BY DEF Accounts
<1>2. before \in Seq(T) /\ \A c \in Int : n - w <= c => Count(before, c) = Count(let, c)
  BY <1>0, <1>1, CountingAfter
<1> HIDE DEF before
<1>3. \A c \in Int :
        /\ Count(Append(before, n), c) = IF c < n THEN Count(before, c) + 1 ELSE Count(before, c)
        /\ Count(Append(bucket, n), c) = IF c < n THEN Count(bucket, c) + 1 ELSE Count(bucket, c)
        /\ Count(bucket, c) \in Nat /\ Count(before, c) \in Nat /\ Count(gone, c) \in Nat
        /\ Count(bucket, c) <= Len(bucket)
  BY <1>1, <1>2, Counting
<1>4. Append(before, n) \in Seq(T) /\ Append(bucket, n) \in Seq(T) /\ Len(bucket) \in Nat
  BY <1>1, <1>2
<1>5. Count(Append(bucket, n), n - w) <= limit
  <2> DEFINE d == n - w
  <2>1. /\ Count(Append(bucket, n), d) = IF d < n THEN Count(bucket, d) + 1 ELSE Count(bucket, d)
        /\ Count(bucket, d) \in Nat /\ Count(bucket, d) <= Len(bucket)
    BY <1>0, <1>3
  <2> HIDE DEF d
  <2>2. Count(Append(bucket, n), d) <= Count(bucket, d) + 1
    BY <2>1
  <2> QED
    BY <1>4, <2>1, <2>2 DEF d
<1>6. ASSUME NEW c \in Int, n - w <= c
      PROVE  Count(Append(before, n), c) <= Count(Append(bucket, n), c) + Count(gone, c)
  <2>1. Count(before, c) <= Count(bucket, c) + Count(gone, c)
    BY <1>2, <1>6 DEF Accounts
  <2>2. /\ Count(Append(before, n), c) = IF c < n THEN Count(before, c) + 1 ELSE Count(before, c)
        /\ Count(Append(bucket, n), c) = IF c < n THEN Count(bucket, c) + 1 ELSE Count(bucket, c)
        /\ Count(bucket, c) \in Nat /\ Count(before, c) \in Nat /\ Count(gone, c) \in Nat
    BY <1>3
  <2>3. CASE c < n
    BY <2>1, <2>2, <2>3
  <2>4. CASE ~(c < n)
    BY <2>1, <2>2, <2>4
  <2> QED
    BY <2>3, <2>4
<1>7. Accounts(n, w, limit, Append(before, n), Append(bucket, n), gone)
  BY <1>1, <1>4, <1>5, <1>6 DEF Accounts
<1> QED
  BY <1>7 DEF before

(* A restart forgets the bucket.                                           *)
LEMMA AccountsRestart ==
  ASSUME NEW n \in Int, NEW w \in Int, NEW limit \in Nat, NEW let, NEW bucket, NEW gone,
         Accounts(n, w, limit, let, bucket, gone), Where(gone, After(n - w)) = << >>
  PROVE  Accounts(n, w, limit, let, << >>, Where(bucket, After(n - w)))
<1> DEFINE T == RatePart!Times
           lost == Where(bucket, After(n - w))
<1>1. let \in Seq(T) /\ bucket \in Seq(T) /\ gone \in Seq(T) /\ n - w \in Int /\ << >> \in Seq(T)
  BY DEF Accounts
<1>2. lost \in Seq(T) /\ \A c \in Int : n - w <= c => Count(lost, c) = Count(bucket, c)
  BY <1>1, CountingAfter
<1>3. \A c \in Int : n - w <= c => Count(Where(gone, After(n - w)), c) = Count(gone, c)
  BY <1>1, CountingAfter
<1>4. \A c \in Int : Count(<< >>, c) = 0
  BY <1>1, Counting
<1> HIDE DEF lost
<1>5. ASSUME NEW c \in Int, n - w <= c
      PROVE  Count(let, c) <= Count(<< >>, c) + Count(lost, c)
  <2>1. Count(let, c) <= Count(bucket, c) + Count(gone, c)
    BY <1>5 DEF Accounts
  <2>2. Count(gone, c) = 0
    BY <1>3, <1>4, <1>5
  <2>3. Count(bucket, c) \in Nat
    BY <1>1, Counting
  <2> QED
    BY <1>2, <1>4, <1>5, <2>1, <2>2, <2>3
<1>6. Accounts(n, w, limit, let, << >>, lost)
  BY <1>1, <1>2, <1>4, <1>5 DEF Accounts
<1> QED
  BY <1>6 DEF lost

(* Every step of the limiter keeps every key's accounts.                   *)
LEMMA RateStep == ASSUME RateInv, [RatePart!RateNext]_rateVars PROVE RateInv'
<1> DEFINE T == RatePart!Times
           A(k) == Accounts(now, WindowOf[k], Limit[k], admitted[k], buckets[k], forgotten[k])
<1>0. /\ now \in Int /\ now \in T /\ T \subseteq Int
      /\ \A k \in Keys : WindowOf[k] \in Int /\ Limit[k] \in Nat /\ Limit[k] \in Int /\ A(k)
      /\ admitted = [k \in Keys |-> admitted[k]] /\ buckets = [k \in Keys |-> buckets[k]]
      /\ forgotten = [k \in Keys |-> forgotten[k]]
  BY ChurchAssumption DEF RateInv, RatePart!Times
<1>w. ASSUME NEW w \in Int, NEW seq
      PROVE  /\ RatePart!Within(w, seq) = Where(seq, After(now - w))
             /\ RatePart!Beyond(w, seq) = Where(seq, T \ After(now - w))
  <2>1. {t \in T : now - t < w} = After(now - w)
    BY <1>0 DEF After
  <2>2. {t \in T : now - t >= w} = T \ After(now - w)
    BY <1>0 DEF After
  <2> QED
    BY <2>1, <2>2, SameFilter DEF RatePart!Within, RatePart!Beyond
<1> HIDE DEF T
<1>1. CASE RatePart!Tick
  <2>1. /\ now' = now + 1 /\ now' \in T /\ buckets' = buckets
        /\ admitted' = [k \in Keys |-> Where(admitted[k], After(now - WindowOf[k]))]
        /\ forgotten' = [k \in Keys |-> Where(forgotten[k], After(now - WindowOf[k]))]
    <3>1. /\ now < MaxTime /\ now' = now + 1 /\ buckets' = buckets
          /\ admitted' = [k \in Keys |-> RatePart!Within(WindowOf[k], admitted[k])]
          /\ forgotten' = [k \in Keys |-> RatePart!Within(WindowOf[k], forgotten[k])]
      BY <1>1 DEF RatePart!Tick
    <3>2. now' \in T
      BY <1>0, <3>1, ChurchAssumption DEF RatePart!Times, T
    <3>3. \A k \in Keys :
            /\ RatePart!Within(WindowOf[k], admitted[k]) = Where(admitted[k], After(now - WindowOf[k]))
            /\ RatePart!Within(WindowOf[k], forgotten[k]) = Where(forgotten[k], After(now - WindowOf[k]))
      BY <1>0, <1>w
    <3> QED
      BY <3>1, <3>2, <3>3, Zenon
  <2>2. ASSUME NEW k \in Keys
        PROVE  Accounts(now + 1, WindowOf[k], Limit[k], admitted'[k], buckets[k], forgotten'[k])
    BY <1>0, <2>1, AccountsLater
  <2> QED
    BY <1>0, <2>1, <2>2 DEF RateInv, T
<1>2. CASE RatePart!Restart
  <2>1. /\ \A k \in Keys : Where(forgotten[k], After(now - WindowOf[k])) = << >>
        /\ now' = now /\ admitted' = admitted /\ buckets' = [k \in Keys |-> << >>]
        /\ forgotten' = [k \in Keys |-> Where(buckets[k], After(now - WindowOf[k]))]
    BY <1>0, <1>2, <1>w DEF RatePart!Restart
  <2>2. ASSUME NEW k \in Keys
        PROVE  Accounts(now, WindowOf[k], Limit[k], admitted[k], << >>, forgotten'[k])
    BY <1>0, <2>1, AccountsRestart
  <2> QED
    BY <1>0, <2>1, <2>2 DEF RateInv, T
<1>3. ASSUME NEW k \in Keys, RatePart!CheckRateLimit(k) PROVE RateInv'
  <2> DEFINE v == WindowOf[k]
             swept == RatePart!Swept(v)
             here == RatePart!Within(v, swept[k])
  <2>1. /\ now' = now /\ RatePart!Remember(v)
        /\ IF RatePart!Admits(k, here)
           THEN /\ buckets' = [swept EXCEPT ![k] = Append(here, now)]
                /\ admitted' = [admitted EXCEPT ![k] = Append(RatePart!Within(v, @), now)]
           ELSE buckets' = [swept EXCEPT ![k] = here] /\ admitted' = admitted
    BY <1>3 DEF RatePart!CheckRateLimit
  <2>2. v \in Int
    BY <1>0
  <2>3. /\ swept = [j \in Keys |-> swept[j]]
        /\ forgotten' = [j \in Keys |-> forgotten'[j]]
        /\ \A j \in Keys :
             Accounts(now, WindowOf[j], Limit[j], admitted[j], swept[j], forgotten'[j])
    <3>1. \A j \in Keys : forgotten'[j] =
            Where(forgotten[j], After(now - WindowOf[j])) \o RatePart!Lost(v)[j]
      BY <1>0, <1>w, <2>1 DEF RatePart!Remember
    <3>2. forgotten' = [j \in Keys |-> forgotten'[j]]
      BY <2>1 DEF RatePart!Remember
    <3>3. CASE now - lastSweep < SweepInterval
      <4>1. swept = buckets /\ \A j \in Keys : RatePart!Lost(v)[j] = << >>
        BY <3>3 DEF RatePart!Swept, RatePart!Lost
      <4> HIDE DEF swept
      <4>2. ASSUME NEW j \in Keys
            PROVE  Accounts(now, WindowOf[j], Limit[j], admitted[j], swept[j], forgotten'[j])
        <5>1. /\ forgotten'[j] = Where(forgotten[j], After(now - WindowOf[j])) \o << >>
              /\ swept[j] = buckets[j]
          BY <3>1, <4>1
        <5>2. Accounts(now, WindowOf[j], Limit[j], admitted[j], buckets[j],
                       Where(forgotten[j], After(now - WindowOf[j])) \o << >>)
          BY <1>0, AccountsUnswept
        <5> QED
          BY <5>1, <5>2
      <4> QED
        BY <1>0, <3>2, <4>1, <4>2
    <3>4. CASE ~(now - lastSweep < SweepInterval)
      <4>1. /\ swept = [j \in Keys |-> Where(buckets[j], After(now - v))]
            /\ \A j \in Keys : RatePart!Lost(v)[j] =
                 Where(Where(buckets[j], T \ After(now - v)), After(now - WindowOf[j]))
        BY <1>0, <1>w, <2>2, <3>4 DEF RatePart!Swept, RatePart!Lost
      <4>2. ASSUME NEW j \in Keys
            PROVE  Accounts(now, WindowOf[j], Limit[j], admitted[j], swept[j], forgotten'[j])
        <5> DEFINE held == Where(buckets[j], After(now - v))
                   more == Where(forgotten[j], After(now - WindowOf[j])) \o
                             Where(Where(buckets[j], RatePart!Times \ After(now - v)),
                                   After(now - WindowOf[j]))
        <5>1. swept[j] = held /\ forgotten'[j] = more
          BY <3>1, <4>1 DEF T
        <5>2. Accounts(now, WindowOf[j], Limit[j], admitted[j], held, more)
          BY <1>0, <2>2, AccountsSwept
        <5> QED
          BY <5>1, <5>2
      <4> HIDE DEF swept
      <4> QED
        BY <3>2, <4>1, <4>2
    <3> QED
      BY <3>3, <3>4
  <2>4. here = Where(swept[k], After(now - v))
    BY <1>w, <2>2
  <2> HIDE DEF swept, here
  <2>5. Accounts(now, v, Limit[k], admitted[k], here, forgotten'[k])
    BY <1>0, <2>3, <2>4, AccountsTrimmed
  <2>6. CASE ~RatePart!Admits(k, here)
    <3>1. admitted' = admitted /\ buckets' = [swept EXCEPT ![k] = here]
      BY <2>1, <2>6
    <3>2. /\ buckets' = [j \in Keys |-> buckets'[j]] /\ buckets'[k] = here
          /\ \A j \in Keys : j # k => buckets'[j] = swept[j]
      BY <2>3, <3>1
    <3> QED
      BY <1>0, <2>1, <2>3, <2>5, <3>1, <3>2 DEF RateInv, T
  <2>7. CASE RatePart!Admits(k, here)
    <3>1. /\ buckets' = [swept EXCEPT ![k] = Append(here, now)]
          /\ admitted' = [admitted EXCEPT ![k] = Append(Where(admitted[k], After(now - v)), now)]
      BY <1>w, <2>1, <2>2, <2>7
    <3>2. Accounts(now, v, Limit[k], Append(Where(admitted[k], After(now - v)), now),
                   Append(here, now), forgotten'[k])
      <4>1. Len(here) < Limit[k]
        BY <2>7 DEF RatePart!Admits
      <4> QED
        BY <1>0, <2>2, <2>5, <4>1, AccountsAdmit DEF T
    <3>3. /\ buckets' = [j \in Keys |-> buckets'[j]] /\ buckets'[k] = Append(here, now)
          /\ \A j \in Keys : j # k => buckets'[j] = swept[j]
      BY <2>3, <3>1
    <3>4. /\ admitted' = [j \in Keys |-> admitted'[j]]
          /\ admitted'[k] = Append(Where(admitted[k], After(now - v)), now)
          /\ \A j \in Keys : j # k => admitted'[j] = admitted[j]
      BY <1>0, <3>1
    <3> QED
      BY <1>0, <2>1, <2>3, <3>2, <3>3, <3>4 DEF RateInv, T
  <2> QED
    BY <2>6, <2>7
<1>4. CASE UNCHANGED rateVars
  BY <1>4 DEF rateVars, RateInv
<1> QED
  BY <1>1, <1>2, <1>3, <1>4 DEF RatePart!RateNext

(* No window lets more through than the limit and what was forgotten.      *)
THEOREM LimitIsKept == Spec => []LimitHolds
<1>1. Init => RateInv
  <2> SUFFICES ASSUME Init PROVE RateInv
    OBVIOUS
  <2>1. RatePart!RateInit
    BY DEF Init
  <2>2. ASSUME NEW k \in Keys
        PROVE  Accounts(0, WindowOf[k], Limit[k], << >>, << >>, << >>)
    <3>1. << >> \in Seq(RatePart!Times) /\ WindowOf[k] \in Int /\ 0 - WindowOf[k] \in Int
          /\ 0 <= Limit[k]
      BY ChurchAssumption
    <3>2. \A c \in Int : Count(<< >>, c) = 0
      BY <3>1, Counting
    <3> QED
      BY <3>1, <3>2 DEF Accounts
  <2> QED
    BY <2>1, <2>2, ChurchAssumption DEF RateInv, RatePart!RateInit, RatePart!Times
<1>2. RateInv /\ [Next]_vars => RateInv'
  <2> SUFFICES ASSUME RateInv, [Next]_vars PROVE RateInv'
    OBVIOUS
  <2>1. [RatePart!RateNext]_rateVars
    BY DEF Next, vars, OnTeam, OnUsage, OnRate, OnList, OnWall, OnSetup, InSetup, OnForms,
       OnDocuments, OnAccounts, OnDesk, OnInsights, OnLog, OnListing, OnPanels, OnTypes
  <2> QED
    BY <2>1, RateStep
<1>3. RateInv => LimitHolds
  <2> SUFFICES ASSUME RateInv, NEW k \in Keys
      PROVE  Len(RatePart!Within(WindowOf[k], admitted[k]))
               <= Limit[k] + Len(RatePart!Within(WindowOf[k], forgotten[k]))
    BY DEF LimitHolds, RatePart!LimitHolds
  <2>1. now \in Int /\ WindowOf[k] \in Int /\ RatePart!Times \subseteq Int /\ Limit[k] \in Nat
    BY ChurchAssumption DEF RateInv, RatePart!Times
  <2> DEFINE d == now - WindowOf[k]
  <2>0. Accounts(now, WindowOf[k], Limit[k], admitted[k], buckets[k], forgotten[k])
    BY DEF RateInv
  <2>2. /\ Count(buckets[k], d) <= Limit[k] /\ d \in Int
        /\ Count(admitted[k], d) <= Count(buckets[k], d) + Count(forgotten[k], d)
        /\ {admitted[k], buckets[k], forgotten[k]} \subseteq Seq(RatePart!Times)
    BY <2>0, <2>1 DEF Accounts
  <2>3. {t \in RatePart!Times : now - t < WindowOf[k]} = After(d)
    <3>1. \A t \in RatePart!Times : t \in Int /\ (now - t < WindowOf[k] <=> d < t)
      BY <2>1
    <3> HIDE DEF d
    <3> QED
      BY <3>1 DEF After
  <2>4. \A seq : RatePart!Within(WindowOf[k], seq) = Where(seq, After(d))
    BY <2>3, SameFilter DEF RatePart!Within
  <2>5. /\ Count(admitted[k], d) \in Nat /\ Count(buckets[k], d) \in Nat
        /\ Count(forgotten[k], d) \in Nat
    BY <2>2, Counting
  <2> QED
    BY <2>1, <2>2, <2>4, <2>5 DEF Count
<1> QED
  BY <1>1, <1>2, <1>3, PTL DEF Spec

-----------------------------------------------------------------------------
(* Moderation: the switch of an item is where it was last put, and a page  *)
(* with nothing on its way shows the row.                                  *)

Deeds == {"add", "toggle", "answered", "category", "note", "save", "delete", "reply"}

(* Calls that the server can carry out, in a queue.                        *)
QueuesOf(Orders) == Seq([at : {"asked", "written"}, asks : Orders])
Queued(queued) ==
  \E Orders : (\A o \in Orders : o.do \in Deeds) /\ queued \in QueuesOf(Orders)

(* What the tab was rendered with is the row, until a call has written.    *)
InSync ==
  page.at # "closed" /\ ~unseen /\ (calls = << >> \/ Head(calls).at # "written") => page.row = item

DeskBase ==
  /\ Queued(calls)
  /\ page = [at |-> page.at, row |-> page.row]
  /\ page.at = "closed" => calls = << >> /\ ~asking
  /\ item \in DeskPart!Row => item.public = said
  /\ InSync

(* A tab with a prayer request has one call at most under way.             *)
OneAtATime ==
  what = "request" =>
    /\ page.at = "error" => calls = << >>
    /\ asking => calls = << >> /\ page.at = "rendered" /\ page.row \in DeskPart!Row
    /\ calls # << >> => /\ Tail(calls) = << >> /\ Head(calls).asks.do # "add"
                       /\ page.row \in DeskPart!Row

ForCategory == calls # << >> /\ Head(calls).asks.do = "category"

(* The Select is where it was put, which the row is when the server has    *)
(* written it, and what the tab was rendered with once it has answered.    *)
SelectTrue ==
  what = "request" /\ ~drifted /\ item \in DeskPart!Row /\ page.row \in DeskPart!Row
      /\ page.at # "closed" =>
    /\ page.at = "rendered" /\ ForCategory => picked = Head(calls).asks.set
    /\ page.at = "rendered" /\ (ForCategory => Head(calls).at = "written") =>
         picked = DeskPart!HasCategory(item)
    /\ (ForCategory => Head(calls).at # "written") =>
         DeskPart!HasCategory(page.row) = DeskPart!HasCategory(item)

DeskInv == DeskBase /\ picked \in BOOLEAN /\ OneAtATime /\ SelectTrue

(* A queue may be empty.                                                   *)
LEMMA QueueOfNone == Queued(<< >>)
<1>1. << >> \in Seq([at : {"asked", "written"}, asks : {}])
  OBVIOUS
<1> QED
  BY <1>1 DEF Queued, QueuesOf

(* A call joins the queue.                                                 *)
LEMMA QueueGrows ==
  ASSUME NEW queued, Queued(queued), NEW c, c.do \in Deeds
  PROVE  LET longer == Append(queued, [at |-> "asked", asks |-> c]) IN
         /\ Queued(longer) /\ longer # << >>
         /\ queued # << >> => Head(longer) = Head(queued)
<1>1. PICK Orders : /\ \A o \in Orders : o.do \in Deeds
                    /\ queued \in Seq([at : {"asked", "written"}, asks : Orders])
  BY DEF Queued, QueuesOf
<1> DEFINE e == [at |-> "asked", asks |-> c]
           More == Orders \cup {c}
           S == [at : {"asked", "written"}, asks : Orders]
           T == [at : {"asked", "written"}, asks : More]
<1>2. S \subseteq T /\ e \in T /\ \A o \in More : o.do \in Deeds
  BY <1>1
<1>4. Len(queued) \in Nat /\ DOMAIN queued = 1..Len(queued) /\ \A i \in 1..Len(queued) : queued[i] \in S
  <2>1. queued \in Seq(S)
    BY <1>1
  <2> HIDE DEF S
  <2> QED
    BY <2>1
<1> HIDE DEF S, T, e, More
<1>3. queued \in Seq(T)
  BY <1>1, <1>2, <1>4 DEF S
<1>5. /\ Append(queued, e) \in Seq(T) /\ Append(queued, e) # << >>
      /\ queued # << >> => Head(Append(queued, e)) = Head(queued)
  BY <1>2, <1>3
<1>6. Queued(Append(queued, e))
  <2>1. Append(queued, e) \in QueuesOf(More)
    <3>1. QueuesOf(More) = Seq(T)
      BY DEF QueuesOf, T
    <3> QED
      BY <1>5, <3>1
  <2> QED
    BY <1>2, <2>1, Zenon DEF Queued
<1> QED
  BY <1>5, <1>6 DEF e

(* The first of the queue, and the queue without it.                       *)
LEMMA QueueMoves ==
  ASSUME NEW queued, Queued(queued), queued # << >>
  PROVE  /\ Queued(Tail(queued))
         /\ Head(queued).asks.do \in Deeds
         /\ LET served == [queued EXCEPT ![1].at = "written"] IN
            Queued(served) /\ served # << >> /\ Head(served).at = "written"
<1>1. PICK Orders : /\ \A o \in Orders : o.do \in Deeds
                    /\ queued \in Seq([at : {"asked", "written"}, asks : Orders])
  BY DEF Queued, QueuesOf
<1> DEFINE S == [at : {"asked", "written"}, asks : Orders]
           served == [queued EXCEPT ![1].at = "written"]
<1>2. Tail(queued) \in Seq(S) /\ Head(queued) \in S /\ queued[1] \in S
  <2>1. queued \in Seq(S)
    BY <1>1
  <2> HIDE DEF S
  <2> QED
    BY <2>1
<1>3. [queued[1] EXCEPT !.at = "written"] \in S /\ [queued[1] EXCEPT !.at = "written"].at = "written"
      /\ Head(queued).asks.do \in Deeds
  BY <1>1, <1>2
<1> HIDE DEF S
<1>4. served \in Seq(S) /\ served # << >> /\ Head(served) = [queued[1] EXCEPT !.at = "written"]
  <2>1. served = [queued EXCEPT ![1] = [queued[1] EXCEPT !.at = "written"]]
    OBVIOUS
  <2>2. queued \in Seq(S) /\ 1 \in 1..Len(queued)
    BY <1>1 DEF S
  <2> HIDE DEF served
  <2> QED
    BY <1>3, <2>1, <2>2
<1> QED
  BY <1>1, <1>2, <1>3, <1>4 DEF Queued, QueuesOf, S

(* A queue of one call, when it has been served.                           *)
LEMMA QueueOfOne ==
  ASSUME NEW queued, Queued(queued), queued # << >>, Tail(queued) = << >>
  PROVE  LET served == [queued EXCEPT ![1].at = "written"] IN
         /\ Tail(served) = << >>
         /\ Head(served).asks = Head(queued).asks
<1>1. PICK Orders : queued \in Seq([at : {"asked", "written"}, asks : Orders])
  BY DEF Queued, QueuesOf
<1> DEFINE S == [at : {"asked", "written"}, asks : Orders]
           served == [queued EXCEPT ![1].at = "written"]
<1>2. /\ Len(queued) = 1 /\ DOMAIN queued = 1..1 /\ queued[1] \in S /\ Head(queued) = queued[1]
      /\ served = [queued EXCEPT ![1] = [queued[1] EXCEPT !.at = "written"]]
  <2>1. queued \in Seq(S)
    BY <1>1
  <2> HIDE DEF S, served
  <2>2. Len(Tail(queued)) = Len(queued) - 1 /\ Len(queued) \in Nat
    BY <2>1
  <2>3. Len(queued) = 1
    BY <2>2
  <2> QED
    BY <2>1, <2>3 DEF served
<1>3. [queued[1] EXCEPT !.at = "written"] \in S
      /\ [queued[1] EXCEPT !.at = "written"].asks = queued[1].asks
  BY <1>2
<1> DEFINE e == [queued[1] EXCEPT !.at = "written"]
<1>4. served = <<e>>
  BY <1>2
<1>5. e.asks = Head(queued).asks
  BY <1>2, <1>3
<1> HIDE DEF S, e
<1>6. Tail(<<e>>) = << >> /\ Head(<<e>>) = e
  OBVIOUS
<1> QED
  BY <1>4, <1>5, <1>6

(* What staff do in the tab asks for something, or changes drafts alone.   *)
LEMMA DeskAsks ==
  ASSUME DeskBase, UNCHANGED <<item, page, said, unseen>>, page.at # "closed",
         calls' = calls \/ \E c : c.do \in Deeds /\ DeskPart!Call(c)
  PROVE  DeskBase'
<1>1. CASE calls' = calls
  BY <1>1 DEF DeskBase, InSync
<1>2. CASE \E c : c.do \in Deeds /\ DeskPart!Call(c)
  <2>1. PICK c : c.do \in Deeds /\ calls' = Append(calls, [at |-> "asked", asks |-> c])
    BY <1>2 DEF DeskPart!Call
  <2>2. Queued(calls') /\ calls' # << >> /\ (calls # << >> => Head(calls') = Head(calls))
    BY <2>1, QueueGrows DEF DeskBase
  <2> QED
    BY <2>2 DEF DeskBase, InSync
<1> QED
  BY <1>1, <1>2

(* Every step of the desk keeps its part without the Select.               *)
LEMMA DeskBaseStep == ASSUME DeskBase, [DeskPart!ModerationNext]_deskVars PROVE DeskBase'
<1> USE DEF DeskPart!OnDesk, DeskPart!OnPage
<1>g. DeskPart!Gone \notin DeskPart!Row /\ DeskPart!NotYet \notin DeskPart!Row
  <2>1. DOMAIN DeskPart!Gone = {"gone"} /\ DOMAIN DeskPart!NotYet = {"gone"}
    BY DEF DeskPart!Gone, DeskPart!NotYet
  <2>2. \A r \in DeskPart!Row : "public" \in DOMAIN r
    BY DEF DeskPart!Row
  <2> QED
    BY <2>1, <2>2
<1>e. Queued(<< >>)
  BY QueueOfNone
<1>1. CASE DeskPart!Arrives
  <2>1. PICK public : item' = DeskPart!NewRow(public, "", FALSE) /\ said' = public
    BY <1>1 DEF DeskPart!Arrives
  <2>2. unseen' = (page.at # "closed") /\ UNCHANGED <<page, calls, asking>> /\ item'.public = public
    BY <1>1, <2>1 DEF DeskPart!Arrives, DeskPart!NewRow
  <2> QED
    BY <2>1, <2>2 DEF DeskBase, InSync
<1>2. CASE DeskPart!WrittenElsewhere
  <2>1. item \in DeskPart!Row /\ unseen' /\ UNCHANGED <<page, calls, asking>>
    BY <1>2 DEF DeskPart!WrittenElsewhere
  <2>2. item' \in DeskPart!Row => item'.public = said'
    <3>1. ASSUME NEW public, item' = [item EXCEPT !.public = public], said' = public
          PROVE  item'.public = said'
      BY <2>1, <3>1 DEF DeskPart!Row
    <3>2. ASSUME NEW text, item' = DeskPart!Noted([text |-> text]), said' = said
          PROVE  item'.public = said'
      BY <2>1, <3>2 DEF DeskPart!Row, DeskPart!Noted, DeskBase
    <3>3. ASSUME item' = DeskPart!MarkedAnswered, said' = said
          PROVE  item'.public = said'
      BY <2>1, <3>3 DEF DeskPart!Row, DeskPart!MarkedAnswered, DeskBase
    <3>4. ASSUME item' = DeskPart!Gone PROVE item' \notin DeskPart!Row
      BY <1>g, <3>4
    <3>5. ASSUME NEW set, item' = DeskPart!Categorized([set |-> set]), said' = said
          PROVE  item'.public = said'
      BY <2>1, <3>5 DEF DeskPart!Row, DeskPart!Categorized, DeskBase
    <3> QED
      BY <1>2, <3>1, <3>2, <3>3, <3>4, <3>5 DEF DeskPart!WrittenElsewhere
  <2> QED
    BY <2>1, <2>2 DEF DeskBase, InSync
<1>3. CASE DeskPart!OpenTestimonies
  BY <1>3 DEF DeskPart!OpenTestimonies, DeskBase, InSync
<1>4. CASE DeskPart!OpenPage
  <2>1. /\ page' = [at |-> "rendered", row |-> item] /\ calls' = << >>
        /\ UNCHANGED <<item, said>>
    BY <1>4 DEF DeskPart!OpenPage, DeskPart!ListForModeration
  <2> QED
    BY <1>e, <2>1 DEF DeskBase, InSync
<1>5. CASE DeskPart!TryAgain
  <2>1. page' = [page EXCEPT !.at = "rendered"] /\ page.at = "error"
        /\ UNCHANGED <<item, calls, said, unseen>>
    BY <1>5 DEF DeskPart!TryAgain
  <2>2. page' = [at |-> "rendered", row |-> page.row]
    BY <2>1 DEF DeskBase
  <2> QED
    BY <2>1, <2>2 DEF DeskBase, InSync
<1>6. CASE \/ DeskPart!ClickToggle \/ DeskPart!ClickMarkAnswered \/ DeskPart!ChooseCategory
           \/ DeskPart!TypeNote \/ DeskPart!ClickSaveNote \/ DeskPart!TypeReply
           \/ DeskPart!ClickSendReply \/ DeskPart!ClickDelete \/ DeskPart!SubmitToggle
           \/ DeskPart!SubmitDelete \/ DeskPart!TypeStory \/ DeskPart!SubmitFeatured
  <2>1. UNCHANGED <<item, page, said, unseen>> /\ page.at # "closed"
    BY <1>6 DEF DeskPart!ClickToggle, DeskPart!ClickMarkAnswered, DeskPart!ChooseCategory,
         DeskPart!TypeNote, DeskPart!ClickSaveNote, DeskPart!TypeReply, DeskPart!ClickSendReply,
         DeskPart!ClickDelete, DeskPart!SubmitToggle, DeskPart!SubmitDelete, DeskPart!TypeStory,
         DeskPart!SubmitFeatured, DeskPart!Enabled, DeskPart!OnRequest, DeskPart!OnItem
  <2>2. calls' = calls \/ \E c : c.do \in Deeds /\ DeskPart!Call(c)
    <3> HIDE DEF DeskPart!Call
    <3> USE DEF Deeds
    <3>1. CASE DeskPart!ClickToggle
      BY <3>1 DEF DeskPart!ClickToggle
    <3>2. CASE DeskPart!ClickMarkAnswered
      BY <3>2 DEF DeskPart!ClickMarkAnswered
    <3>3. CASE DeskPart!ChooseCategory
      BY <3>3 DEF DeskPart!ChooseCategory
    <3>4. CASE DeskPart!ClickSaveNote
      BY <3>4 DEF DeskPart!ClickSaveNote
    <3>5. CASE DeskPart!ClickSendReply
      BY <3>5 DEF DeskPart!ClickSendReply
    <3>6. CASE DeskPart!SubmitToggle
      BY <3>6 DEF DeskPart!SubmitToggle
    <3>7. CASE DeskPart!SubmitDelete
      BY <3>7 DEF DeskPart!SubmitDelete
    <3>8. CASE DeskPart!SubmitFeatured
      BY <3>8 DEF DeskPart!SubmitFeatured
    <3>9. CASE DeskPart!TypeNote \/ DeskPart!TypeReply \/ DeskPart!ClickDelete \/ DeskPart!TypeStory
      BY <3>9 DEF DeskPart!TypeNote, DeskPart!TypeReply, DeskPart!ClickDelete, DeskPart!TypeStory
    <3> QED
      BY <1>6, <3>1, <3>2, <3>3, <3>4, <3>5, <3>6, <3>7, <3>8, <3>9
  <2> QED
    BY <2>1, <2>2, DeskAsks
<1>7. CASE DeskPart!AnswerDialog \/ DeskPart!AddFeatured
  <2>1. UNCHANGED <<item, page, said, unseen>> /\ page.at # "closed"
    BY <1>7 DEF DeskPart!AnswerDialog, DeskPart!AddFeatured, DeskPart!OnForms, DeskBase
  <2>2. calls' = calls \/ \E c : c.do \in Deeds /\ DeskPart!Call(c)
    <3>1. CASE DeskPart!AnswerDialog
      <4>1. DeskPart!Call([do |-> "delete"]) \/ calls' = calls
        BY <3>1 DEF DeskPart!AnswerDialog
      <4>2. [do |-> "delete"].do \in Deeds
        BY DEF Deeds
      <4> HIDE DEF DeskPart!Call
      <4> QED
        BY <4>1, <4>2
    <3>2. CASE DeskPart!AddFeatured
      <4>1. PICK video \in BOOLEAN, text \in NoteTexts :
              DeskPart!Call([do |-> "add", text |-> text, video |-> video])
        BY <3>2 DEF DeskPart!AddFeatured
      <4>2. [do |-> "add", text |-> text, video |-> video].do \in Deeds
        BY DEF Deeds
      <4> HIDE DEF DeskPart!Call
      <4> QED
        BY <4>1, <4>2
    <3> QED
      BY <1>7, <3>1, <3>2
  <2> QED
    BY <2>1, <2>2, DeskAsks
<1>8. CASE DeskPart!Serve
  <2> DEFINE c == Head(calls).asks
  <2>1. /\ calls # << >> /\ Head(calls).at = "asked"
        /\ item' = DeskPart!Written(c)
        /\ said' = CASE c.do = "toggle" /\ item \in DeskPart!Row -> c.public
                     [] c.do = "add" -> TRUE
                     [] OTHER -> said
        /\ calls' = [calls EXCEPT ![1].at = "written"]
        /\ UNCHANGED <<page, asking, unseen>>
    BY <1>8 DEF DeskPart!Serve, DeskPart!First
  <2>2. c.do \in Deeds /\ Queued(calls') /\ calls' # << >> /\ Head(calls').at = "written"
    BY <2>1, QueueMoves DEF DeskBase
  <2> HIDE DEF c
  <2>3. item' \in DeskPart!Row => item'.public = said'
    <3>1. CASE c.do = "add"
      BY <2>1, <3>1 DEF DeskPart!Written, DeskPart!Featured, DeskPart!NewRow
    <3>2. CASE c.do # "add" /\ item \notin DeskPart!Row
      BY <2>1, <3>2 DEF DeskPart!Written
    <3>3. CASE item \in DeskPart!Row /\ c.do = "toggle"
      BY <2>1, <3>3 DEF DeskPart!Written, DeskPart!Toggled, DeskPart!Row
    <3>4. CASE item \in DeskPart!Row /\ c.do \in {"answered", "category", "note", "save", "delete", "reply"}
      <4>1. said' = said /\ item.public = said
        BY <2>1, <3>4 DEF DeskBase
      <4>2. \/ item' = DeskPart!MarkedAnswered \/ item' = DeskPart!Categorized(c)
            \/ item' = DeskPart!Noted(c) \/ item' = DeskPart!Saved(c)
            \/ item' = DeskPart!Gone \/ item' = item
        BY <2>1, <3>4 DEF DeskPart!Written
      <4> QED
        BY <1>g, <3>4, <4>1, <4>2 DEF DeskPart!MarkedAnswered, DeskPart!Categorized,
             DeskPart!Noted, DeskPart!Saved, DeskPart!Row
    <3> QED
      BY <2>2, <3>1, <3>2, <3>3, <3>4 DEF Deeds
  <2> QED
    BY <2>1, <2>2, <2>3 DEF DeskBase, InSync
<1>9. CASE DeskPart!Answered
  <2>1. /\ calls # << >> /\ page' = [page EXCEPT !.row = item] /\ calls' = Tail(calls)
        /\ UNCHANGED <<item, said, asking>>
    BY <1>9 DEF DeskPart!Answered, DeskPart!ListForModeration
  <2>2. Queued(calls')
    BY <2>1, QueueMoves DEF DeskBase
  <2>3. page.at # "closed" /\ page' = [at |-> page.at, row |-> item]
    BY <2>1 DEF DeskBase
  <2> QED
    BY <2>1, <2>2, <2>3 DEF DeskBase, InSync
<1>10. CASE DeskPart!CallThrows
  <2>1. /\ calls # << >> /\ (page' = page \/ page' = [page EXCEPT !.at = "error"])
        /\ asking' => asking
        /\ unseen' = (unseen \/ Head(calls).at = "written") /\ calls' = Tail(calls)
        /\ UNCHANGED <<item, said>>
    BY <1>10 DEF DeskPart!CallThrows
  <2>2. Queued(calls')
    BY <2>1, QueueMoves DEF DeskBase
  <2>3. page.at # "closed" /\ page' = [at |-> page'.at, row |-> page.row] /\ page'.at # "closed"
    BY <2>1 DEF DeskBase
  <2>4. ~unseen' => ~unseen /\ Head(calls).at # "written"
    BY <2>1
  <2> QED
    BY <2>1, <2>2, <2>3, <2>4 DEF DeskBase, InSync
<1>11. CASE UNCHANGED deskVars
  BY <1>11 DEF deskVars, DeskBase, InSync
<1> QED
  BY <1>1, <1>2, <1>3, <1>4, <1>5, <1>6, <1>7, <1>8, <1>9, <1>10, <1>11
    DEF DeskPart!ModerationNext

(* Neither does any step put the Select elsewhere.                         *)
LEMMA SelectStep ==
  ASSUME DeskInv, [DeskPart!ModerationNext]_deskVars
  PROVE  picked' \in BOOLEAN /\ OneAtATime' /\ SelectTrue'
<1>p. picked' \in BOOLEAN
  <2>1. picked' = picked \/ picked' = ~picked \/ \E r : picked' = DeskPart!Mounted(r)
    BY DEF deskVars, DeskPart!ModerationNext, DeskPart!Arrives, DeskPart!WrittenElsewhere,
       DeskPart!OpenTestimonies, DeskPart!OpenPage, DeskPart!TryAgain, DeskPart!ClickToggle,
       DeskPart!ClickMarkAnswered, DeskPart!ChooseCategory, DeskPart!TypeNote,
       DeskPart!ClickSaveNote, DeskPart!TypeReply, DeskPart!ClickSendReply,
       DeskPart!ClickDelete, DeskPart!AnswerDialog, DeskPart!SubmitToggle,
       DeskPart!SubmitDelete, DeskPart!TypeStory, DeskPart!SubmitFeatured,
       DeskPart!AddFeatured, DeskPart!Serve, DeskPart!Answered, DeskPart!CallThrows,
       DeskPart!OnDesk, DeskPart!OnPage
  <2>2. \A r : DeskPart!Mounted(r) \in BOOLEAN
    BY DEF DeskPart!Mounted
  <2> QED
    BY <2>1, <2>2 DEF DeskInv
<1>w. what' = what
  BY DEF deskVars, DeskPart!ModerationNext, DeskPart!Arrives, DeskPart!WrittenElsewhere,
     DeskPart!OpenTestimonies, DeskPart!OpenPage, DeskPart!TryAgain, DeskPart!ClickToggle,
     DeskPart!ClickMarkAnswered, DeskPart!ChooseCategory, DeskPart!TypeNote,
     DeskPart!ClickSaveNote, DeskPart!TypeReply, DeskPart!ClickSendReply, DeskPart!ClickDelete,
     DeskPart!AnswerDialog, DeskPart!SubmitToggle, DeskPart!SubmitDelete, DeskPart!TypeStory,
     DeskPart!SubmitFeatured, DeskPart!AddFeatured, DeskPart!Serve, DeskPart!Answered,
     DeskPart!CallThrows, DeskPart!OnDesk, DeskPart!OnPage
<1> SUFFICES ASSUME what = "request" PROVE OneAtATime' /\ SelectTrue'
  BY <1>p, <1>w DEF OneAtATime, SelectTrue
<1>g. DeskPart!Gone \notin DeskPart!Row
  <2>1. DOMAIN DeskPart!Gone = {"gone"} /\ \A r \in DeskPart!Row : "public" \in DOMAIN r
    BY DEF DeskPart!Gone, DeskPart!Row
  <2> QED
    BY <2>1
<1>m. \A r \in DeskPart!Row : DeskPart!Mounted(r) = DeskPart!HasCategory(r)
  BY DEF DeskPart!Mounted, DeskPart!HasCategory
<1>f. ASSUME UNCHANGED <<item, page, calls, asking, picked, drifted>>
      PROVE  OneAtATime' /\ SelectTrue'
  BY <1>f, <1>w DEF DeskInv, OneAtATime, SelectTrue, ForCategory
<1>c. ASSUME NEW c, DeskPart!Call(c), calls = << >>, c.do \notin {"add", "category"},
             ~asking', page.at # "error", page.row \in DeskPart!Row,
             UNCHANGED <<item, page, picked, drifted>>
      PROVE  OneAtATime' /\ SelectTrue'
  <2>1. calls' = <<[at |-> "asked", asks |-> c]>>
    BY <1>c DEF DeskPart!Call
  <2>2. calls' # << >> /\ Tail(calls') = << >> /\ Head(calls').asks = c
    BY <2>1
  <2> QED
    BY <1>c, <1>w, <2>2 DEF DeskInv, OneAtATime, SelectTrue, ForCategory
<1>1. CASE DeskPart!Arrives
  <2>1. /\ UNCHANGED <<page, calls, asking>>
        /\ drifted' = (page.at # "closed")
    BY <1>1 DEF DeskPart!Arrives
  <2> QED
    BY <2>1 DEF DeskInv, OneAtATime, SelectTrue
<1>2. CASE DeskPart!WrittenElsewhere
  <2>1. item \in DeskPart!Row /\ UNCHANGED <<page, calls, asking, picked>>
    BY <1>2 DEF DeskPart!WrittenElsewhere
  <2>2. \/ drifted' \/ item' \notin DeskPart!Row
        \/ drifted' = drifted /\ DeskPart!HasCategory(item)' = DeskPart!HasCategory(item)
    <3>1. ASSUME NEW public, item' = [item EXCEPT !.public = public]
          PROVE  item'.marks = item.marks
      BY <2>1, <3>1 DEF DeskPart!Row
    <3>2. ASSUME NEW text, item' = DeskPart!Noted([text |-> text])
          PROVE  item'.marks = item.marks
      BY <2>1, <3>2 DEF DeskPart!Row, DeskPart!Noted
    <3>3. ASSUME item' = DeskPart!MarkedAnswered
          PROVE  item'.marks = item.marks \cup {"answered"}
      BY <2>1, <3>3 DEF DeskPart!Row, DeskPart!MarkedAnswered
    <3>4. item' = DeskPart!Gone => item' \notin DeskPart!Row
      BY <1>g
    <3>5. \/ drifted' \/ item' = DeskPart!Gone
          \/ drifted' = drifted /\ \/ \E public : item' = [item EXCEPT !.public = public]
                                   \/ \E text : item' = DeskPart!Noted([text |-> text])
                                   \/ item' = DeskPart!MarkedAnswered
      BY <1>2 DEF DeskPart!WrittenElsewhere
    <3>6. item'.marks \in {item.marks, item.marks \cup {"answered"}} =>
            DeskPart!HasCategory(item)' = DeskPart!HasCategory(item)
      BY DEF DeskPart!HasCategory
    <3> QED
      BY <3>1, <3>2, <3>3, <3>4, <3>5, <3>6
  <2>3. OneAtATime'
    BY <1>w, <2>1 DEF DeskInv, OneAtATime
  <2>4. SelectTrue'
    BY <1>w, <2>1, <2>2 DEF DeskInv, SelectTrue, ForCategory
  <2> QED
    BY <2>3, <2>4
<1>3. CASE DeskPart!OpenTestimonies
  BY <1>3, <1>f DEF DeskPart!OpenTestimonies
<1>4. CASE DeskPart!OpenPage
  <2>1. /\ page' = [at |-> "rendered", row |-> item] /\ calls' = << >> /\ ~asking'
        /\ item' = item /\ picked' = DeskPart!Mounted(item)
    BY <1>4 DEF DeskPart!OpenPage, DeskPart!ListForModeration
  <2> QED
    BY <2>1, <1>w, <1>m DEF OneAtATime, SelectTrue, ForCategory
<1>5. CASE DeskPart!TryAgain
  <2>1. /\ page.at = "error" /\ page' = [at |-> "rendered", row |-> page.row] /\ ~asking'
        /\ picked' = DeskPart!Mounted(page.row) /\ UNCHANGED <<item, calls, drifted>>
    BY <1>5 DEF DeskPart!TryAgain, DeskInv, DeskBase
  <2>2. calls = << >>
    BY <2>1 DEF DeskInv, OneAtATime
  <2> QED
    BY <2>1, <2>2, <1>w, <1>m DEF DeskInv, OneAtATime, SelectTrue, ForCategory
<1>6. CASE DeskPart!ChooseCategory
  <2>1. /\ calls = << >> /\ page.at = "rendered" /\ ~asking /\ picked' = ~picked
        /\ page.row \in DeskPart!Row
        /\ calls' = <<[at |-> "asked", asks |-> [do |-> "category", set |-> ~picked]]>>
        /\ UNCHANGED <<item, page, asking, drifted>>
    BY <1>6 DEF DeskPart!ChooseCategory, DeskPart!Enabled, DeskPart!OnRequest, DeskPart!OnItem,
         DeskPart!Call, DeskPart!OnPage
  <2>2. /\ calls' # << >> /\ Tail(calls') = << >> /\ Head(calls').asks.do = "category"
        /\ Head(calls').asks.set = picked' /\ Head(calls').at = "asked"
    BY <2>1
  <2> QED
    BY <2>1, <2>2, <1>w DEF DeskInv, OneAtATime, SelectTrue, ForCategory
<1>7. CASE \/ DeskPart!ClickToggle \/ DeskPart!ClickMarkAnswered \/ DeskPart!ClickSaveNote
           \/ DeskPart!ClickSendReply
  <2>1. /\ calls = << >> /\ page.at = "rendered" /\ ~asking /\ page.row \in DeskPart!Row
        /\ UNCHANGED <<item, page, picked, asking, drifted>>
        /\ \E c : c.do \notin {"add", "category"} /\ DeskPart!Call(c)
    <3> HIDE DEF DeskPart!Call
    <3> USE DEF DeskPart!Enabled, DeskPart!OnRequest, DeskPart!OnItem, DeskPart!OnDesk,
            DeskPart!OnPage
    <3>1. CASE DeskPart!ClickToggle
      BY <3>1 DEF DeskPart!ClickToggle
    <3>2. CASE DeskPart!ClickMarkAnswered
      BY <3>2 DEF DeskPart!ClickMarkAnswered
    <3>3. CASE DeskPart!ClickSaveNote
      BY <3>3 DEF DeskPart!ClickSaveNote
    <3>4. CASE DeskPart!ClickSendReply
      BY <3>4 DEF DeskPart!ClickSendReply
    <3> QED
      BY <1>7, <3>1, <3>2, <3>3, <3>4
  <2> QED
    BY <2>1, <1>c
<1>8. CASE DeskPart!TypeNote \/ DeskPart!TypeReply
  BY <1>8, <1>f DEF DeskPart!TypeNote, DeskPart!TypeReply, DeskPart!OnDesk, DeskPart!OnPage
<1>9. CASE DeskPart!ClickDelete
  <2>1. /\ calls = << >> /\ page.at = "rendered" /\ page.row \in DeskPart!Row
        /\ UNCHANGED <<item, page, calls, picked, drifted>>
    BY <1>9 DEF DeskPart!ClickDelete, DeskPart!Enabled, DeskPart!OnRequest, DeskPart!OnItem,
         DeskPart!OnDesk, DeskPart!OnPage
  <2> QED
    BY <2>1, <1>w DEF DeskInv, OneAtATime, SelectTrue, ForCategory
<1>10. CASE DeskPart!AnswerDialog
  <2>1. /\ asking /\ ~asking' /\ UNCHANGED <<item, page, picked, drifted>>
        /\ DeskPart!Call([do |-> "delete"]) \/ calls' = calls
    BY <1>10 DEF DeskPart!AnswerDialog, DeskPart!OnDesk, DeskPart!OnPage
  <2>2. calls = << >> /\ [do |-> "delete"].do \notin {"add", "category"}
    BY <2>1 DEF DeskInv, OneAtATime
  <2>3. CASE calls' = calls
    BY <2>1, <2>2, <2>3, <1>w DEF DeskInv, OneAtATime, SelectTrue, ForCategory
  <2>4. CASE DeskPart!Call([do |-> "delete"])
    <3>1. calls' = <<[at |-> "asked", asks |-> [do |-> "delete"]]>>
      BY <2>2, <2>4 DEF DeskPart!Call
    <3>2. /\ calls' # << >> /\ Tail(calls') = << >> /\ Head(calls').asks.do = "delete"
      BY <3>1
    <3> QED
      BY <2>1, <2>2, <3>2, <1>w DEF DeskInv, DeskBase, OneAtATime, SelectTrue, ForCategory
  <2> QED
    BY <2>1, <2>3, <2>4
<1>11. CASE \/ DeskPart!SubmitToggle \/ DeskPart!SubmitDelete \/ DeskPart!TypeStory
            \/ DeskPart!SubmitFeatured \/ DeskPart!AddFeatured
  BY <1>11 DEF DeskPart!SubmitToggle, DeskPart!SubmitDelete, DeskPart!TypeStory,
     DeskPart!SubmitFeatured, DeskPart!AddFeatured
<1>12. CASE DeskPart!Serve
  <2> DEFINE c == Head(calls).asks
  <2>1. /\ calls # << >> /\ Head(calls).at = "asked"
        /\ item' = DeskPart!Written(c)
        /\ calls' = [calls EXCEPT ![1].at = "written"]
        /\ UNCHANGED <<page, picked, asking, drifted>>
    BY <1>12 DEF DeskPart!Serve, DeskPart!First
  <2>2. /\ calls' # << >> /\ Tail(calls') = << >> /\ Head(calls').at = "written"
        /\ Head(calls').asks = c
    <3>1. Queued(calls) /\ calls # << >> /\ Tail(calls) = << >>
      BY <2>1 DEF DeskInv, DeskBase, OneAtATime
    <3> QED
      BY <2>1, <3>1, QueueMoves, QueueOfOne
  <2>3. c.do \in Deeds /\ c.do # "add"
    BY <2>1, QueueMoves DEF DeskInv, DeskBase, OneAtATime
  <2> HIDE DEF c
  <2>4. OneAtATime'
    BY <2>1, <2>2, <2>3, <1>w DEF DeskInv, OneAtATime
  <2>5. item \notin DeskPart!Row => item' = item
    BY <2>1, <2>3 DEF DeskPart!Written
  <2>6. ASSUME item \in DeskPart!Row, item' \in DeskPart!Row
        PROVE  IF c.do = "category"
               THEN c.set \in BOOLEAN => DeskPart!HasCategory(item)' = c.set
               ELSE DeskPart!HasCategory(item)' = DeskPart!HasCategory(item)
    <3>1. CASE c.do = "category"
      <4>1. item' = DeskPart!Categorized(c)
        BY <2>1, <2>6, <3>1 DEF DeskPart!Written
      <4>2. item'.marks = IF c.set THEN item.marks \cup {"category"}
                          ELSE item.marks \ {"category"}
        BY <2>6, <4>1 DEF DeskPart!Categorized, DeskPart!Row
      <4>3. CASE c.set = TRUE
        BY <3>1, <4>2, <4>3 DEF DeskPart!HasCategory
      <4>4. CASE c.set = FALSE
        BY <3>1, <4>2, <4>4 DEF DeskPart!HasCategory
      <4> QED
        BY <3>1, <4>3, <4>4
    <3>2. CASE c.do # "category"
      <4>1. \/ item' = DeskPart!Toggled(c) \/ item' = DeskPart!MarkedAnswered
            \/ item' = DeskPart!Noted(c) \/ item' = DeskPart!Saved(c) \/ item' = item
        BY <1>g, <2>1, <2>3, <2>6, <3>2 DEF DeskPart!Written, Deeds
      <4>2. item'.marks = item.marks \/ item'.marks = item.marks \cup {"answered"}
        BY <2>6, <4>1 DEF DeskPart!Toggled, DeskPart!MarkedAnswered, DeskPart!Noted,
           DeskPart!Saved, DeskPart!Row
      <4> QED
        BY <3>2, <4>2 DEF DeskPart!HasCategory
    <3> QED
      BY <3>1, <3>2
  <2>7. SelectTrue'
    BY <1>w, <2>1, <2>2, <2>5, <2>6 DEF DeskInv, SelectTrue, ForCategory, c
  <2> QED
    BY <2>4, <2>7
<1>13. CASE DeskPart!Answered
  <2>1. /\ calls # << >> /\ Head(calls).at = "written" /\ calls' = Tail(calls)
        /\ page' = [at |-> page.at, row |-> item]
        /\ UNCHANGED <<item, picked, asking, drifted>>
    BY <1>13 DEF DeskPart!Answered, DeskPart!ListForModeration, DeskInv, DeskBase
  <2>2. calls' = << >>
    BY <2>1 DEF DeskInv, OneAtATime
  <2>3. page.row \in DeskPart!Row
    BY <2>1 DEF DeskInv, OneAtATime
  <2> QED
    BY <2>1, <2>2, <2>3, <1>w DEF DeskInv, OneAtATime, SelectTrue, ForCategory
<1>14. CASE DeskPart!CallThrows
  <2>1. /\ calls # << >> /\ calls' = Tail(calls) /\ UNCHANGED <<item, picked>>
        /\ page' = page \/ page' = [page EXCEPT !.at = "error"]
    BY <1>14 DEF DeskPart!CallThrows
  <2>2. ~asking
    BY <2>1 DEF DeskInv, OneAtATime
  <2>3. ~asking' /\ calls' = << >>
    BY <1>14, <2>1, <2>2 DEF DeskPart!CallThrows, DeskInv, OneAtATime
  <2>4. page'.row = page.row /\ (page'.at = page.at \/ page'.at = "error")
    BY <2>1 DEF DeskInv, DeskBase
  <2>5. page'.at # "error" => Head(calls).asks.do = "reply"
    BY <1>14, <2>4 DEF DeskPart!CallThrows, DeskPart!First, DeskInv, DeskBase
  <2>6. ~drifted' => ~drifted /\ (ForCategory => Head(calls).at # "written")
    BY <1>14 DEF DeskPart!CallThrows, DeskPart!First, ForCategory
  <2>7. OneAtATime'
    BY <1>w, <2>3 DEF OneAtATime
  <2>8. ~ForCategory'
    BY <2>3 DEF ForCategory
  <2>9. page'.at = "rendered" => page.at = "rendered" /\ ~ForCategory
    BY <2>1, <2>4, <2>5 DEF DeskInv, OneAtATime, ForCategory
  <2>10. page.at # "closed"
    BY <2>1 DEF DeskInv, DeskBase
  <2> QED
    BY <1>w, <2>1, <2>4, <2>6, <2>7, <2>8, <2>9, <2>10 DEF DeskInv, SelectTrue
<1>15. CASE UNCHANGED deskVars
  BY <1>15, <1>f DEF deskVars
<1> QED
  BY <1>1, <1>2, <1>3, <1>4, <1>5, <1>6, <1>7, <1>8, <1>9, <1>10, <1>11, <1>12, <1>13, <1>14,
     <1>15 DEF DeskPart!ModerationNext

(* Every step of the desk keeps the invariant.                             *)
LEMMA DeskStep == ASSUME DeskInv, [DeskPart!ModerationNext]_deskVars PROVE DeskInv'
  BY DeskBaseStep, SelectStep DEF DeskInv

(* ResourcePanels: a page with nothing on its way shows the rows, its      *)
(* links keep to their maximum, and a form waits for an import.            *)

LinksIn(t) == PanelsPart!There(t, LinkRows)

PanelCall ==
  [do : {"switch", "remove", "import", "add"}, at : {"asked", "counted", "written"},
   row : PanelsPart!PanelRows \cup {"none", "url", "bulk", "unmounted"}, switch : PanelsPart!Switches \cup {"none", "trackAutoSync"}, on : BOOLEAN]

(* Calls wait behind the first as they were asked.                         *)
InTurn(queued) ==
  /\ queued \in Seq(PanelCall)
  /\ \A i \in 1..Len(queued) : i # 1 => queued[i].at = "asked"

PanelInSync ==
  ~behind /\ (panelCalls = << >> \/ Head(panelCalls).at # "written") => shownAt = table

(* A link about to be created has room, unless a colleague's has come.     *)
LinksFit ==
  /\ IsFiniteSet(LinksIn(table))
  /\ ~rivalled => /\ Cardinality(LinksIn(table)) <= MaxOrgLinks
                  /\ PanelsPart!At("add", "counted") => Cardinality(LinksIn(table)) < MaxOrgLinks

ImportUnderWay ==
  importing.says = "pending" =>
    \E i \in 1..Len(panelCalls) :
      panelCalls[i].do = "import" /\ panelCalls[i].row = importing.method

PanelsInv ==
  /\ table = [r \in PanelsPart!PanelRows |-> table[r]]
  /\ importing = [method |-> importing.method, says |-> importing.says]
  /\ importing.method \in PanelsPart!Methods
  /\ InTurn(panelCalls) /\ PanelInSync /\ LinksFit /\ ImportUnderWay

(* The panels' module counts with the same operator.                       *)
LEMMA SameCount == \A S : PanelsPart!Cardinality(S) = Cardinality(S)
  BY DEF PanelsPart!Cardinality, Cardinality

(* A call joins those that wait.                                           *)
LEMMA CallJoins ==
  ASSUME NEW queued, InTurn(queued), NEW c \in PanelCall, c.at = "asked"
  PROVE  LET longer == Append(queued, c) IN
         /\ InTurn(longer) /\ longer # << >> /\ Len(longer) = Len(queued) + 1
         /\ Head(longer) = IF queued = << >> THEN c ELSE Head(queued)
         /\ \A i \in 1..Len(queued) : longer[i] = queued[i]
         /\ longer[Len(queued) + 1] = c
<1>1. queued \in Seq(PanelCall) /\ \A i \in 1..Len(queued) : i # 1 => queued[i].at = "asked"
  BY DEF InTurn
<1>2. Append(queued, c) \in Seq(PanelCall) /\ Len(Append(queued, c)) = Len(queued) + 1
      /\ \A i \in 1..Len(queued) : Append(queued, c)[i] = queued[i]
      /\ Append(queued, c)[Len(queued) + 1] = c
  BY <1>1
<1>3. InTurn(Append(queued, c))
  BY <1>1, <1>2 DEF InTurn
<1>4. Append(queued, c) # << >>
  BY <1>1
<1>5. CASE queued = << >>
  <2>1. Head(Append(queued, c)) = c
    BY <1>5
  <2> QED
    BY <1>2, <1>3, <1>4, <1>5, <2>1
<1>6. CASE queued # << >>
  <2>1. Head(Append(queued, c)) = Head(queued)
    BY <1>1, <1>6
  <2> QED
    BY <1>2, <1>3, <1>4, <1>6, <2>1
<1> QED
  BY <1>5, <1>6

(* The first one has been answered.                                        *)
LEMMA CallLeaves ==
  ASSUME NEW queued, InTurn(queued), queued # << >>
  PROVE  LET rest == Tail(queued) IN
         /\ InTurn(rest) /\ (rest = << >> \/ Head(rest).at = "asked")
         /\ Len(rest) = Len(queued) - 1
         /\ \A i \in 1..Len(rest) : rest[i] = queued[i + 1]
<1>1. queued \in Seq(PanelCall) /\ \A i \in 1..Len(queued) : i # 1 => queued[i].at = "asked"
  BY DEF InTurn
<1>2. Tail(queued) \in Seq(PanelCall) /\ Len(Tail(queued)) = Len(queued) - 1
      /\ \A i \in 1..Len(Tail(queued)) : Tail(queued)[i] = queued[i + 1]
  BY <1>1
<1>3. \A i \in 1..Len(Tail(queued)) : Tail(queued)[i].at = "asked"
  BY <1>1, <1>2
<1>4. Tail(queued) # << >> => Head(Tail(queued)) = Tail(queued)[1] /\ 1 \in 1..Len(Tail(queued))
  BY <1>2
<1> QED
  BY <1>2, <1>3, <1>4 DEF InTurn

Reaching(queued, at) == [queued EXCEPT ![1].at = at]

(* The first one gets on.                                                  *)
LEMMA CallReaches ==
  ASSUME NEW queued, InTurn(queued), queued # << >>, NEW at \in {"asked", "counted", "written"},
         NEW moved, moved = Reaching(queued, at)
  PROVE  /\ InTurn(moved) /\ moved # << >> /\ Head(moved).at = at /\ Len(moved) = Len(queued)
         /\ \A i \in 1..Len(queued) : moved[i].do = queued[i].do /\ moved[i].row = queued[i].row
<1> DEFINE c == [queued[1] EXCEPT !.at = at]
<1>1. queued \in Seq(PanelCall) /\ \A i \in 1..Len(queued) : i # 1 => queued[i].at = "asked"
  BY DEF InTurn
<1>2. queued[1] \in PanelCall /\ 1 \in 1..Len(queued)
  BY <1>1
<1>3. c \in PanelCall /\ c.at = at /\ c.do = queued[1].do /\ c.row = queued[1].row
  BY <1>2 DEF PanelCall
<1>4. moved = [queued EXCEPT ![1] = c]
  BY DEF Reaching
<1> HIDE DEF c
<1>5. moved \in Seq(PanelCall) /\ Len(moved) = Len(queued) /\ moved[1] = c /\ moved # << >>
      /\ \A i \in 1..Len(queued) : i # 1 => moved[i] = queued[i]
  BY <1>1, <1>2, <1>3, <1>4
<1>6. Head(moved) = c
  BY <1>5
<1> QED
  BY <1>1, <1>3, <1>5, <1>6 DEF InTurn

(* The import forms of the calls are gone.                                 *)
LEMMA CallsUnmounted ==
  ASSUME NEW queued, InTurn(queued)
  PROVE  LET after == [i \in DOMAIN queued |-> IF queued[i].do = "import"
                         THEN [queued[i] EXCEPT !.row = "unmounted"] ELSE queued[i]] IN
         /\ InTurn(after) /\ (after = << >> <=> queued = << >>)
         /\ queued # << >> => Head(after).at = Head(queued).at /\ Head(after).do = Head(queued).do
<1> DEFINE c(i) == IF queued[i].do = "import"
                   THEN [queued[i] EXCEPT !.row = "unmounted"] ELSE queued[i]
           after == [i \in DOMAIN queued |-> c(i)]
<1>1. queued \in Seq(PanelCall) /\ \A i \in 1..Len(queued) : i # 1 => queued[i].at = "asked"
  BY DEF InTurn
<1>2. ASSUME NEW i \in 1..Len(queued)
      PROVE  c(i) \in PanelCall /\ c(i).at = queued[i].at /\ c(i).do = queued[i].do
  <2>1. queued[i] \in PanelCall
    BY <1>1
  <2> DEFINE q == queued[i]
  <2> HIDE DEF q
  <2>2. q \in PanelCall => LET d == [q EXCEPT !.row = "unmounted"] IN
                             d \in PanelCall /\ d.at = q.at /\ d.do = q.do
    BY DEF PanelCall
  <2> QED
    BY <2>1, <2>2 DEF q
<1> HIDE DEF c
<1>3. after = [i \in 1..Len(queued) |-> c(i)] /\ Len(queued) \in Nat
  BY <1>1
<1>4. after \in Seq(PanelCall) /\ Len(after) = Len(queued)
      /\ \A i \in 1..Len(queued) : after[i] = c(i)
  BY <1>2, <1>3
<1>5. InTurn(after)
  BY <1>1, <1>2, <1>4 DEF InTurn
<1>6. queued # << >> => Head(after) = c(1) /\ Head(queued) = queued[1] /\ 1 \in 1..Len(queued)
  BY <1>1, <1>4
<1>7. after = << >> <=> queued = << >>
  BY <1>1, <1>4
<1> QED
  BY <1>2, <1>5, <1>6, <1>7 DEF c

(* One row is written.                                                     *)
LEMMA TableWritten ==
  ASSUME NEW t, t = [r \in PanelsPart!PanelRows |-> t[r]], IsFiniteSet(LinksIn(t)),
         NEW r, NEW new
  PROVE  LET u == [t EXCEPT ![r] = new] IN
         /\ u = [q \in PanelsPart!PanelRows |-> u[q]] /\ IsFiniteSet(LinksIn(u))
         /\ Cardinality(LinksIn(u)) <= Cardinality(LinksIn(t)) + 1
         /\ new.at # "there" \/ t[r].at = "there" \/ r \notin LinkRows =>
              Cardinality(LinksIn(u)) <= Cardinality(LinksIn(t))
<1> DEFINE u == [t EXCEPT ![r] = new]
           L == LinksIn(t)
           M == LinksIn(u)
<1>1. u = [q \in PanelsPart!PanelRows |-> u[q]]
  OBVIOUS
<1>2. \A q \in PanelsPart!PanelRows : q # r => u[q] = t[q]
  OBVIOUS
<1>3. r \in PanelsPart!PanelRows => u[r] = new
  OBVIOUS
<1>4. LinkRows \subseteq PanelsPart!PanelRows
  BY DEF PanelsPart!PanelRows
<1> HIDE DEF u
<1>5. M \subseteq L \cup {r}
  BY <1>2, <1>4 DEF LinksIn, PanelsPart!There
<1>6. new.at # "there" \/ t[r].at = "there" \/ r \notin LinkRows => M \subseteq L
  BY <1>2, <1>3, <1>4 DEF LinksIn, PanelsPart!There
<1> HIDE DEF L, M
<1>7. IsFiniteSet(L) /\ IsFiniteSet(L \cup {r}) /\ Cardinality(L) \in Nat
      /\ Cardinality(L \cup {r}) = IF r \in L THEN Cardinality(L) ELSE Cardinality(L) + 1
  BY FS_AddElement, FS_CardinalityType DEF L
<1>8. IsFiniteSet(M) /\ Cardinality(M) \in Nat /\ Cardinality(M) <= Cardinality(L \cup {r})
  BY <1>5, <1>7, FS_Subset, FS_CardinalityType
<1>9. M \subseteq L => Cardinality(M) <= Cardinality(L)
  BY <1>7, FS_Subset
<1> QED
  BY <1>1, <1>6, <1>7, <1>8, <1>9 DEF u, L, M

(* Switching, removing and tracking a source add no link.                  *)
LEMMA NoLinkMore ==
  ASSUME PanelsInv,
         \/ \E r, s, on : PanelsPart!SetSwitch(r, s, on)
         \/ \E r : PanelsPart!Remove(r)
         \/ \E auto : PanelsPart!TrackContentSource(auto)
         \/ UNCHANGED table
  PROVE  /\ table' = [q \in PanelsPart!PanelRows |-> table'[q]] /\ IsFiniteSet(LinksIn(table'))
         /\ Cardinality(LinksIn(table')) <= Cardinality(LinksIn(table))
<1>1. table = [q \in PanelsPart!PanelRows |-> table[q]] /\ IsFiniteSet(LinksIn(table))
      /\ Cardinality(LinksIn(table)) \in Nat
  BY FS_CardinalityType DEF PanelsInv, LinksFit
<1>2. \/ table' = table
      \/ \E r, new : /\ table' = [table EXCEPT ![r] = new]
                     /\ new.at # "there" \/ table[r].at = "there" \/ r \notin LinkRows
  <2>1. ASSUME NEW r, NEW s, NEW on, PanelsPart!SetSwitch(r, s, on), table' # table
        PROVE  \E new : table' = [table EXCEPT ![r] = new] /\ table[r].at = "there"
    BY <2>1 DEF PanelsPart!SetSwitch, PanelsPart!Write
  <2>2. ASSUME NEW r, PanelsPart!Remove(r), table' # table
        PROVE  \E new : table' = [table EXCEPT ![r] = new] /\ new.at # "there"
    <3>1. table' = [table EXCEPT ![r] = PanelsPart!Gone]
      BY <2>2 DEF PanelsPart!Remove, PanelsPart!Write
    <3>2. PanelsPart!Gone.at # "there"
      BY DEF PanelsPart!Gone
    <3> QED
      BY <3>1, <3>2
  <2>3. ASSUME NEW auto, PanelsPart!TrackContentSource(auto), table' # table
        PROVE  \E r, new : table' = [table EXCEPT ![r] = new] /\ r \notin LinkRows
    BY <2>3, ChurchAssumption DEF PanelsPart!TrackContentSource, PanelsPart!CreateRow, PanelsPart!Write
  <2> QED
    BY <2>1, <2>2, <2>3
<1>3. CASE table' = table
  BY <1>1, <1>3
<1>4. CASE table' # table
  <2>1. PICK r, new : /\ table' = [table EXCEPT ![r] = new]
                      /\ new.at # "there" \/ table[r].at = "there" \/ r \notin LinkRows
    BY <1>2, <1>4
  <2> QED
    BY <1>1, <2>1, TableWritten
<1> QED
  BY <1>3, <1>4

(* Creating a link adds one.                                               *)
LEMMA OneLinkMore ==
  ASSUME PanelsInv, PanelsPart!CreateOrganizationalLink
  PROVE  /\ table' = [q \in PanelsPart!PanelRows |-> table'[q]] /\ IsFiniteSet(LinksIn(table'))
         /\ Cardinality(LinksIn(table')) <= Cardinality(LinksIn(table)) + 1
<1>1. table = [q \in PanelsPart!PanelRows |-> table[q]] /\ IsFiniteSet(LinksIn(table))
  BY DEF PanelsInv, LinksFit
<1>2. PICK r, new : table' = [table EXCEPT ![r] = new]
  BY DEF PanelsPart!CreateOrganizationalLink, PanelsPart!CreateRow, PanelsPart!Write
<1> QED
  BY <1>1, <1>2, TableWritten

(* What staff ask for above the list waits its turn.                       *)
LEMMA PanelAsks ==
  ASSUME PanelsInv, NEW do \in {"switch", "remove", "import", "add"},
         NEW r \in PanelsPart!PanelRows \cup {"none", "url", "bulk"},
         NEW s \in PanelsPart!Switches \cup {"none", "trackAutoSync"}, NEW on \in BOOLEAN,
         PanelsPart!Ask(do, r, s, on),
         \/ UNCHANGED importing
         \/ do = "import" /\ r = importing.method /\ importing' = [importing EXCEPT !.says = "pending"]
  PROVE  PanelsInv'
<1> DEFINE c == [do |-> do, at |-> "asked", row |-> r, switch |-> s, on |-> on]
<1>1. panelCalls' = Append(panelCalls, c) /\ UNCHANGED <<table, shownAt, behind, rivalled>>
  BY DEF PanelsPart!Ask
<1>2. c \in PanelCall /\ c.at = "asked"
  BY DEF PanelCall
<1>3. c.do = do /\ c.row = r
  OBVIOUS
<1> HIDE DEF c
<1>4. /\ InTurn(panelCalls') /\ panelCalls' # << >> /\ Len(panelCalls') = Len(panelCalls) + 1
      /\ Head(panelCalls') = IF panelCalls = << >> THEN c ELSE Head(panelCalls)
      /\ \A i \in 1..Len(panelCalls) : panelCalls'[i] = panelCalls[i]
      /\ panelCalls'[Len(panelCalls) + 1] = c
      /\ Len(panelCalls) \in Nat
  BY <1>1, <1>2, CallJoins DEF PanelsInv, InTurn
<1>5. PanelInSync'
  BY <1>1, <1>4 DEF PanelsInv, PanelInSync
<1>6. LinksFit'
  <2>1. PanelsPart!At("add", "counted")' => PanelsPart!At("add", "counted")
    BY <1>2, <1>4 DEF PanelsPart!At
  <2> QED
    BY <1>1, <2>1 DEF PanelsInv, LinksFit
<1>7. ImportUnderWay'
  <2>1. CASE UNCHANGED importing
    <3>1. \A i \in 1..Len(panelCalls) : i \in 1..Len(panelCalls')
      BY <1>4
    <3> QED
      BY <1>4, <2>1, <3>1 DEF PanelsInv, ImportUnderWay
  <2>2. CASE /\ do = "import" /\ r = importing.method
             /\ importing' = [importing EXCEPT !.says = "pending"]
    <3>1. importing'.method = importing.method
      BY <2>2 DEF PanelsInv
    <3>2. Len(panelCalls) + 1 \in 1..Len(panelCalls')
      BY <1>4
    <3> QED
      BY <1>3, <1>4, <2>2, <3>1, <3>2 DEF ImportUnderWay
  <2> QED
    BY <2>1, <2>2
<1>8. importing' = [method |-> importing'.method, says |-> importing'.says]
      /\ importing'.method \in PanelsPart!Methods
  BY DEF PanelsInv
<1> QED
  BY <1>1, <1>4, <1>5, <1>6, <1>7, <1>8 DEF PanelsInv

(* Every step of the panels keeps the invariant.                           *)
LEMMA PanelsStep == ASSUME PanelsInv, [PanelsPart!PanelsNext]_panelVars PROVE PanelsInv'
<1>i. /\ table = [r \in PanelsPart!PanelRows |-> table[r]]
      /\ importing = [method |-> importing.method, says |-> importing.says]
      /\ importing.method \in PanelsPart!Methods
      /\ InTurn(panelCalls) /\ PanelInSync /\ LinksFit /\ ImportUnderWay
  BY DEF PanelsInv
<1>n. panelCalls \in Seq(PanelCall) /\ Len(panelCalls) \in Nat /\ MaxOrgLinks \in Nat
      /\ Cardinality(LinksIn(table)) \in Nat
  BY <1>i, ChurchAssumption, FS_CardinalityType DEF InTurn, LinksFit
<1>1. ASSUME NEW r \in PanelsPart!PanelRows, PanelsPart!OnSource(r) \/ PanelsPart!OnLink(r)
      PROVE  PanelsInv'
  <2>1. UNCHANGED importing /\ \E do \in {"switch", "remove"}, s \in PanelsPart!Switches \cup {"none"},
                                 on \in BOOLEAN : PanelsPart!Ask(do, r, s, on)
    <3>1. PanelsPart!SwitchesOf(r) \subseteq PanelsPart!Switches /\ "isActive" \in PanelsPart!Switches
      BY DEF PanelsPart!SwitchesOf, PanelsPart!Switches
    <3>2. UNCHANGED importing /\ (PanelsPart!ClickRemove(r) \/
             \E s \in PanelsPart!Switches : PanelsPart!ClickSwitch(r, s))
      BY <1>1, <3>1 DEF PanelsPart!OnSource, PanelsPart!OnLink
    <3>3. CASE PanelsPart!ClickRemove(r)
      <4>1. PanelsPart!Ask("remove", r, "none", FALSE)
        BY <3>3 DEF PanelsPart!ClickRemove
      <4> HIDE DEF PanelsPart!Ask
      <4> QED
        BY <3>2, <4>1
    <3>4. ASSUME NEW s \in PanelsPart!Switches, PanelsPart!ClickSwitch(r, s)
          PROVE  \E on \in BOOLEAN : PanelsPart!Ask("switch", r, s, on)
      <4>1. PanelsPart!Ask("switch", r, s, s \notin shownAt[r].on)
        BY <3>4 DEF PanelsPart!ClickSwitch
      <4>2. (s \notin shownAt[r].on) \in BOOLEAN
        OBVIOUS
      <4> QED
        BY <4>1, <4>2, Zenon
    <3> QED
      BY <3>2, <3>3, <3>4
  <2> QED
    BY <2>1, PanelAsks
<1>2. CASE PanelsPart!AddLink
  <2>1. UNCHANGED importing /\ PanelsPart!Ask("add", "none", "none", FALSE)
    BY <1>2 DEF PanelsPart!AddLink
  <2> QED
    BY <2>1, PanelAsks
<1>3. CASE PanelsPart!ImportResource
  <2>1. /\ importing.method = "url" /\ PanelsPart!Ask("import", "url", "none", FALSE)
        /\ importing' = [importing EXCEPT !.says = "pending"]
    BY <1>3 DEF PanelsPart!ImportResource
  <2> QED
    BY <2>1, PanelAsks
<1>4. CASE PanelsPart!ImportMany
  <2>1. PICK track \in {"none", "trackAutoSync"}, auto \in BOOLEAN :
          PanelsPart!Ask("import", "bulk", track, auto)
    BY <1>4 DEF PanelsPart!ImportMany
  <2>2. importing.method = "bulk" /\ importing' = [importing EXCEPT !.says = "pending"]
    BY <1>4 DEF PanelsPart!ImportMany
  <2> QED
    BY <2>1, <2>2, PanelAsks
<1>5. CASE PanelsPart!OpenPanels
  <2>1. /\ shownAt' = table /\ importing' = [method |-> "url", says |-> "nothing"]
        /\ panelCalls' = << >> /\ UNCHANGED <<table, rivalled>>
    BY <1>5 DEF PanelsPart!OpenPanels
  <2>2. InTurn(<< >>)
    BY DEF InTurn
  <2>3. importing'.method \in PanelsPart!Methods /\ importing'.says = "nothing"
    BY <2>1 DEF PanelsPart!Methods
  <2> QED
    BY <1>i, <2>1, <2>2, <2>3 DEF PanelsInv, PanelInSync, LinksFit, ImportUnderWay, PanelsPart!At
<1>6. ASSUME NEW m \in PanelsPart!Methods, PanelsPart!SetActiveTab(m) PROVE PanelsInv'
  <2>1. /\ importing' = [method |-> m, says |-> "nothing"]
        /\ UNCHANGED <<table, shownAt, behind, rivalled>>
    BY <1>6 DEF PanelsPart!SetActiveTab
  <2>2. panelCalls' = [i \in DOMAIN panelCalls |-> IF panelCalls[i].do = "import"
                         THEN [panelCalls[i] EXCEPT !.row = "unmounted"] ELSE panelCalls[i]]
    BY <1>6 DEF PanelsPart!SetActiveTab
  <2>3. /\ InTurn(panelCalls') /\ (panelCalls' = << >> <=> panelCalls = << >>)
        /\ panelCalls # << >> => Head(panelCalls').at = Head(panelCalls).at
                                 /\ Head(panelCalls').do = Head(panelCalls).do
    BY <1>i, <2>2, CallsUnmounted
  <2>4. PanelsPart!At("add", "counted")' => PanelsPart!At("add", "counted")
    BY <2>3 DEF PanelsPart!At
  <2>5. importing'.method \in PanelsPart!Methods /\ importing'.says = "nothing"
    BY <2>1
  <2> QED
    BY <1>i, <2>1, <2>3, <2>4, <2>5 DEF PanelsInv, PanelInSync, LinksFit, ImportUnderWay
<1>7. CASE PanelsPart!Serve
  <2>1. panelCalls # << >> /\ panelCalls' = [panelCalls EXCEPT ![1].at = "written"]
        /\ UNCHANGED <<shownAt, importing, behind, rivalled>>
    BY <1>7 DEF PanelsPart!Serve, PanelsPart!At, PanelsPart!Reaches
  <2>2. /\ InTurn(panelCalls') /\ panelCalls' # << >> /\ Head(panelCalls').at = "written"
        /\ Len(panelCalls') = Len(panelCalls)
        /\ \A i \in 1..Len(panelCalls) : panelCalls'[i].do = panelCalls[i].do
                                         /\ panelCalls'[i].row = panelCalls[i].row
    <3>1. "written" \in {"asked", "counted", "written"} /\ panelCalls' = Reaching(panelCalls, "written")
      BY <2>1 DEF Reaching
    <3>2. InTurn(panelCalls) /\ panelCalls # << >>
      BY <1>i, <2>1
    <3> QED
      BY <3>1, <3>2, CallReaches
  <2>3. /\ table' = [r \in PanelsPart!PanelRows |-> table'[r]] /\ IsFiniteSet(LinksIn(table'))
        /\ ~rivalled => Cardinality(LinksIn(table')) <= MaxOrgLinks
    <3>1. CASE PanelsPart!At("add", "counted") /\ PanelsPart!CreateOrganizationalLink
      <4>1. /\ table' = [r \in PanelsPart!PanelRows |-> table'[r]] /\ IsFiniteSet(LinksIn(table'))
            /\ Cardinality(LinksIn(table')) <= Cardinality(LinksIn(table)) + 1
        BY <3>1, OneLinkMore
      <4>2. ~rivalled => Cardinality(LinksIn(table)) < MaxOrgLinks
        BY <1>i, <3>1 DEF LinksFit
      <4>3. Cardinality(LinksIn(table')) \in Nat
        BY <4>1, FS_CardinalityType
      <4> QED
        BY <1>n, <4>1, <4>2, <4>3
    <3>2. CASE ~(PanelsPart!At("add", "counted") /\ PanelsPart!CreateOrganizationalLink)
      <4>1. \/ \E r, s, on : PanelsPart!SetSwitch(r, s, on)
            \/ \E r : PanelsPart!Remove(r)
            \/ \E auto : PanelsPart!TrackContentSource(auto)
            \/ UNCHANGED table
        BY <1>7, <3>2 DEF PanelsPart!Serve
      <4>2. /\ table' = [r \in PanelsPart!PanelRows |-> table'[r]] /\ IsFiniteSet(LinksIn(table'))
            /\ Cardinality(LinksIn(table')) <= Cardinality(LinksIn(table))
        BY <4>1, NoLinkMore
      <4>3. Cardinality(LinksIn(table')) \in Nat
        BY <4>2, FS_CardinalityType
      <4> QED
        BY <1>i, <1>n, <4>2, <4>3 DEF LinksFit
    <3> QED
      BY <3>1, <3>2
  <2>4. LinksFit'
    BY <2>1, <2>2, <2>3 DEF LinksFit, PanelsPart!At
  <2>5. ImportUnderWay'
    BY <1>i, <2>1, <2>2 DEF ImportUnderWay
  <2> QED
    BY <1>i, <2>1, <2>2, <2>3, <2>4, <2>5 DEF PanelsInv, PanelInSync
<1>8. CASE PanelsPart!CountLinks
  <2>1. /\ panelCalls # << >> /\ Head(panelCalls).at = "asked"
        /\ panelCalls' = [panelCalls EXCEPT ![1].at = "counted"]
        /\ Cardinality(LinksIn(table)) < MaxOrgLinks
        /\ UNCHANGED <<table, shownAt, importing, behind, rivalled>>
    BY <1>8, SameCount DEF PanelsPart!CountLinks, PanelsPart!At, PanelsPart!Reaches, PanelsPart!MayCreate, LinksIn
  <2>2. /\ InTurn(panelCalls') /\ panelCalls' # << >> /\ Head(panelCalls').at = "counted"
        /\ Len(panelCalls') = Len(panelCalls)
        /\ \A i \in 1..Len(panelCalls) : panelCalls'[i].do = panelCalls[i].do
                                         /\ panelCalls'[i].row = panelCalls[i].row
    <3>1. "counted" \in {"asked", "counted", "written"} /\ panelCalls' = Reaching(panelCalls, "counted")
      BY <2>1 DEF Reaching
    <3>2. InTurn(panelCalls) /\ panelCalls # << >>
      BY <1>i, <2>1
    <3> QED
      BY <3>1, <3>2, CallReaches
  <2>3. LinksFit'
    BY <1>i, <2>1 DEF LinksFit
  <2>4. ImportUnderWay'
    BY <1>i, <2>1, <2>2 DEF ImportUnderWay
  <2> QED
    BY <1>i, <2>1, <2>2, <2>3, <2>4 DEF PanelsInv, PanelInSync
<1>9. CASE PanelsPart!ByColleague
  <2>1. /\ behind' /\ UNCHANGED <<shownAt, importing, panelCalls>>
        /\ rivalled' = (rivalled \/ (PanelsPart!At("add", "counted")
                                     /\ LinksIn(table') \ LinksIn(table) # {}))
    BY <1>9 DEF PanelsPart!ByColleague, LinksIn
  <2>2. CASE PanelsPart!MayCreate /\ PanelsPart!CreateOrganizationalLink
    <3>1. /\ table' = [r \in PanelsPart!PanelRows |-> table'[r]] /\ IsFiniteSet(LinksIn(table'))
          /\ Cardinality(LinksIn(table')) <= Cardinality(LinksIn(table)) + 1
      BY <2>2, OneLinkMore
    <3>2. Cardinality(LinksIn(table)) < MaxOrgLinks
      BY <2>2, SameCount DEF PanelsPart!MayCreate, LinksIn
    <3>3. Cardinality(LinksIn(table')) \in Nat
      BY <3>1, FS_CardinalityType
    <3>4. LinksIn(table') \subseteq LinksIn(table) => Cardinality(LinksIn(table')) <= Cardinality(LinksIn(table))
      BY <1>i, FS_Subset DEF LinksFit
    <3>5. Cardinality(LinksIn(table')) <= MaxOrgLinks
      BY <1>n, <3>1, <3>2, <3>3
    <3>6. ~rivalled' /\ PanelsPart!At("add", "counted")' => Cardinality(LinksIn(table')) < MaxOrgLinks
      <4>1. PanelsPart!At("add", "counted")' <=> PanelsPart!At("add", "counted")
        BY <2>1 DEF PanelsPart!At
      <4> QED
        <5> SUFFICES ASSUME ~rivalled', PanelsPart!At("add", "counted")'
                     PROVE  Cardinality(LinksIn(table')) < MaxOrgLinks
          OBVIOUS
        <5>1. LinksIn(table') \subseteq LinksIn(table)
          BY <2>1, <4>1
        <5> QED
          BY <1>n, <3>2, <3>3, <3>4, <5>1
    <3>7. LinksFit'
      BY <3>1, <3>5, <3>6 DEF LinksFit
    <3> QED
      BY <1>i, <2>1, <3>1, <3>7 DEF PanelsInv, PanelInSync, ImportUnderWay
  <2>3. CASE ~(PanelsPart!MayCreate /\ PanelsPart!CreateOrganizationalLink)
    <3>1. \/ \E r, s, on : PanelsPart!SetSwitch(r, s, on)
          \/ \E r : PanelsPart!Remove(r)
          \/ \E auto : PanelsPart!TrackContentSource(auto)
          \/ UNCHANGED table
      BY <1>9, <2>3 DEF PanelsPart!ByColleague
    <3>2. /\ table' = [r \in PanelsPart!PanelRows |-> table'[r]] /\ IsFiniteSet(LinksIn(table'))
          /\ Cardinality(LinksIn(table')) <= Cardinality(LinksIn(table))
      BY <3>1, NoLinkMore
    <3>3. Cardinality(LinksIn(table')) \in Nat
      BY <3>2, FS_CardinalityType
    <3>4. PanelsPart!At("add", "counted")' <=> PanelsPart!At("add", "counted")
      BY <2>1 DEF PanelsPart!At
    <3>5. LinksFit'
      <4>1. ~rivalled' => ~rivalled
        BY <2>1
      <4>2. ~rivalled' => Cardinality(LinksIn(table')) <= MaxOrgLinks
        BY <1>i, <1>n, <3>2, <3>3, <4>1 DEF LinksFit
      <4>3. ~rivalled' /\ PanelsPart!At("add", "counted")' => Cardinality(LinksIn(table')) < MaxOrgLinks
        BY <1>i, <1>n, <3>2, <3>3, <3>4, <4>1 DEF LinksFit
      <4> QED
        BY <3>2, <4>2, <4>3 DEF LinksFit
    <3> QED
      BY <1>i, <2>1, <3>2, <3>5 DEF PanelsInv, PanelInSync, ImportUnderWay
  <2> QED
    BY <2>2, <2>3
<1>10. CASE PanelsPart!Answered \/ PanelsPart!Throws
  <2>1. /\ panelCalls # << >> /\ panelCalls' = Tail(panelCalls) /\ UNCHANGED <<table, rivalled>>
        /\ PanelsPart!Says("imported") \/ PanelsPart!Says("failed")
    BY <1>10 DEF PanelsPart!Answered, PanelsPart!Throws
  <2>2. /\ InTurn(panelCalls') /\ (panelCalls' = << >> \/ Head(panelCalls').at = "asked")
        /\ Len(panelCalls') = Len(panelCalls) - 1
        /\ \A i \in 1..Len(panelCalls') : panelCalls'[i] = panelCalls[i + 1]
    BY <1>i, <2>1, CallLeaves
  <2>3. PanelInSync'
    <3>1. CASE PanelsPart!Answered
      BY <3>1 DEF PanelsPart!Answered, PanelInSync
    <3>2. CASE PanelsPart!Throws
      BY <1>i, <3>2 DEF PanelsPart!Throws, PanelInSync
    <3> QED
      BY <1>10, <3>1, <3>2
  <2>4. LinksFit'
    BY <1>i, <2>1, <2>2 DEF LinksFit, PanelsPart!At
  <2>5. /\ importing' = [method |-> importing'.method, says |-> importing'.says]
        /\ importing'.method = importing.method
        /\ importing'.says = "pending" =>
             importing.says = "pending"
             /\ ~(Head(panelCalls).do = "import" /\ Head(panelCalls).row # "unmounted")
    <3>1. ASSUME NEW what_ \in {"imported", "failed"}, PanelsPart!Says(what_)
          PROVE  \/ importing' = [method |-> importing.method, says |-> what_]
                 \/ /\ importing' = importing
                    /\ ~(Head(panelCalls).do = "import" /\ Head(panelCalls).row # "unmounted")
      BY <1>i, <3>1 DEF PanelsPart!Says
    <3> QED
      BY <1>i, <2>1, <3>1
  <2>6. ImportUnderWay'
    <3> SUFFICES ASSUME importing'.says = "pending"
        PROVE \E i \in 1..Len(panelCalls') :
                panelCalls'[i].do = "import" /\ panelCalls'[i].row = importing'.method
      BY DEF ImportUnderWay
    <3>1. PICK i \in 1..Len(panelCalls) :
            panelCalls[i].do = "import" /\ panelCalls[i].row = importing.method
      BY <1>i, <2>5 DEF ImportUnderWay
    <3>2. importing.method # "unmounted" /\ Head(panelCalls) = panelCalls[1]
      BY <1>i, <1>n, <2>1 DEF PanelsPart!Methods
    <3>3. i # 1
      BY <2>5, <3>1, <3>2
    <3>4. i - 1 \in 1..Len(panelCalls') /\ (i - 1) + 1 = i
      BY <1>n, <2>2, <3>3
    <3> QED
      BY <2>2, <2>5, <3>1, <3>4
  <2> QED
    BY <1>i, <2>1, <2>2, <2>3, <2>4, <2>5, <2>6 DEF PanelsInv
<1>11. CASE UNCHANGED panelVars
  BY <1>i, <1>11 DEF panelVars, PanelsInv, PanelInSync, LinksFit, ImportUnderWay, PanelsPart!At
<1> QED
  BY <1>1, <1>2, <1>3, <1>4, <1>5, <1>6, <1>7, <1>8, <1>9, <1>10, <1>11 DEF PanelsPart!PanelsNext

(* A switch is where it was put last; a page at rest was rendered with the *)
(* rows, and its Select shows the category, but for one from elsewhere.    *)
THEOREM SwitchIsTruthful == Spec => []SwitchIsTrue
<1>1. Init => DeskInv /\ PanelsInv
  <2> SUFFICES ASSUME Init PROVE DeskInv /\ PanelsInv
    OBVIOUS
  <2>1. DeskPart!ModerationInit /\ PanelsPart!PanelsInit
    BY DEF Init
  <2>2. DeskPart!NotYet \notin DeskPart!Row
    <3>1. DOMAIN DeskPart!NotYet = {"gone"} /\ \A r \in DeskPart!Row : "public" \in DOMAIN r
      BY DEF DeskPart!NotYet, DeskPart!Row
    <3> QED
      BY <3>1
  <2>3. Queued(<< >>) /\ InTurn(<< >>)
    BY QueueOfNone DEF InTurn
  <2>4. LinksIn(table) = {}
    <3>1. \A r \in LinkRows : r \in PanelsPart!PanelRows
      BY DEF PanelsPart!PanelRows
    <3> QED
      BY <2>1, <3>1 DEF PanelsPart!PanelsInit, LinksIn, PanelsPart!There, PanelsPart!NoRow
  <2>5. IsFiniteSet(LinksIn(table)) /\ Cardinality(LinksIn(table)) = 0
    BY <2>4, FS_EmptySet
  <2>6. importing.method \in PanelsPart!Methods /\ importing.says = "nothing"
    BY <2>1 DEF PanelsPart!PanelsInit, PanelsPart!Methods
  <2>7. DeskInv
    BY <2>1, <2>2, <2>3 DEF DeskPart!ModerationInit, DeskInv, DeskBase, OneAtATime, SelectTrue, InSync
  <2>8. PanelsInv
    BY <2>1, <2>3, <2>5, <2>6, ChurchAssumption
      DEF PanelsPart!PanelsInit, PanelsInv, PanelInSync, LinksFit, ImportUnderWay, PanelsPart!At
  <2> QED
    BY <2>7, <2>8
<1>2. DeskInv /\ PanelsInv /\ [Next]_vars => (DeskInv /\ PanelsInv)'
  <2> SUFFICES ASSUME DeskInv, PanelsInv, [Next]_vars PROVE DeskInv' /\ PanelsInv'
    OBVIOUS
  <2>1. [DeskPart!ModerationNext]_deskVars /\ [PanelsPart!PanelsNext]_panelVars
    BY DEF Next, vars, OnTeam, OnUsage, OnRate, OnList, OnWall, OnSetup, InSetup, OnForms,
       OnDocuments, OnAccounts, OnDesk, OnInsights, OnLog, OnListing, OnPanels, OnTypes
  <2> QED
    BY <2>1, DeskStep, PanelsStep
<1>3. DeskInv /\ PanelsInv => SwitchIsTrue
  <2>1. DeskInv => DeskPart!SwitchIsTrue
    BY DEF DeskInv, DeskBase, InSync, SelectTrue, ForCategory, DeskPart!SwitchIsTrue
  <2>2. PanelsInv => PanelsPart!PanelsAreTrue
    <3>1. InTurn(panelCalls) => DOMAIN panelCalls = 1..Len(panelCalls)
      BY DEF InTurn
    <3> QED
      BY <3>1, SameCount DEF PanelsInv, PanelInSync, LinksFit, LinksIn, ImportUnderWay,
                             PanelsPart!PanelsAreTrue
  <2> QED
    BY <2>1, <2>2 DEF SwitchIsTrue
<1> QED
  BY <1>1, <1>2, <1>3, PTL DEF Spec

-----------------------------------------------------------------------------
(* ResourceListing: tabs, page links and forms keep each other's choices,  *)
(* and no page beyond the last is rendered.                                *)

FilterForms == [status : ListingPart!ResourceStatuses \cup {""}, q : ListingPart!Searches,
                size : PageSizes]
ListParams  == [status : ListingPart!ResourceStatuses \cup {""}, type : ListingPart!Types,
                q : ListingPart!Searches, size : PageSizes \cup {0}, page : Nat \ {0}]

ListingRows ==
  /\ params \in ListParams /\ form \in FilterForms /\ wanted \in ListingPart!Filters
  /\ rendered.page \in Nat /\ rendered.total \in Nat
  /\ rendered.rows = << >> => ~rendered.any

(* The type is what was chosen even while something is being typed.        *)
ChosenStays ==
  ~strayed => /\ ListingPart!Tabbed(ListingPart!FiltersOf(params)).type =
                   ListingPart!Tabbed(wanted).type
              /\ ~pending => /\ params.status = wanted.status /\ params.q = wanted.q
                             /\ ListingPart!PageSizeOf(params) = wanted.size

ListingInv == ListingRows /\ ChosenStays

(* A page that is not beyond the last begins within the list.              *)
LEMMA PageBegins ==
  ASSUME NEW n \in Nat, n # 0, NEW size \in Nat, size # 0,
         NEW k \in Nat, k # 0, k <= (n + size - 1) \div size
  PROVE  (k - 1) * size + 1 <= n
<1> DEFINE q == (n + size - 1) \div size
<1>1. q \in Int /\ q * size <= n + size - 1
  OBVIOUS
<1> HIDE DEF q
<1>2. (k - 1) * size <= (q - 1) * size
  <2>1. k <= q
    BY DEF q
  <2>2. q - k \in Nat
    BY <1>1, <2>1
  <2>3. (q - k) * size >= 0
    BY <2>2
  <2> QED
    BY <1>1, <2>3
<1>3. (q - 1) * size = q * size - size
  BY <1>1
<1>4. (k - 1) * size \in Int /\ q * size \in Int
  BY <1>1
<1> QED
  BY <1>1, <1>2, <1>3, <1>4

(* There is a page, and a page of nothing only where nothing matches.      *)
LEMMA RenderedPage ==
  ASSUME NEW p \in ListParams, NEW resources
  PROVE  LET page_ == ListingPart!Render(p, resources) IN
         /\ page_.page \in Nat /\ page_.total \in Nat
         /\ page_.rows = << >> => ~page_.any
<1> DEFINE filtered == ListingPart!Filtered(p, resources)
           size == ListingPart!PageSizeOf(p)
           n == Len(filtered)
           total == ListingPart!TotalPages(n, size)
           k == ListingPart!Least(p.page, total)
<1>1. filtered \in Seq(DOMAIN TypeOf) /\ n \in Nat
  <2>1. \A seq, S : ListingPart!Where(seq, S) = Where(seq, S)
    BY DEF ListingPart!Where, Where
  <2>2. \A S : Where(NewestFirst, S) \in Seq(DOMAIN TypeOf)
    BY ChurchAssumption, WhereKeeps
  <2>3. filtered \in Seq(DOMAIN TypeOf)
    BY <2>1, <2>2 DEF ListingPart!Filtered
  <2> HIDE DEF filtered
  <2> QED
    BY <2>3
<1>2. size \in Nat /\ size # 0 /\ p.page \in Nat /\ p.page # 0
  BY ChurchAssumption DEF ListingPart!PageSizeOf, ListParams
<1> HIDE DEF filtered, size
<1>3. total \in Nat /\ total # 0 /\ (n # 0 => total = (n + size - 1) \div size)
  <2>1. CASE n = 0
    BY <2>1 DEF ListingPart!TotalPages
  <2>2. CASE n # 0
    <3>1. total = (n + size - 1) \div size
      BY <2>2 DEF ListingPart!TotalPages
    <3>2. n + size - 1 \in Nat /\ n + size - 1 >= size
      BY <1>1, <1>2, <2>2
    <3>3. (n + size - 1) \div size \in Nat /\ (n + size - 1) \div size # 0
      <4> DEFINE m == n + size - 1
      <4> HIDE DEF m
      <4> QED
        BY <1>2, <3>2 DEF m
    <3> QED
      BY <3>1, <3>3
  <2> QED
    BY <2>1, <2>2
<1> HIDE DEF total
<1>4. k \in Nat /\ k # 0 /\ k <= total
  BY <1>2, <1>3 DEF ListingPart!Least
<1>5. /\ ListingPart!Render(p, resources).page = k
      /\ ListingPart!Render(p, resources).total = total
      /\ ListingPart!Render(p, resources).any = (filtered # << >>)
      /\ ListingPart!Render(p, resources).rows =
           SubSeq(filtered, (k - 1) * size + 1, ListingPart!Least(k * size, n))
  BY DEF ListingPart!Render, filtered, size, total
<1> HIDE DEF k
<1>6. ASSUME filtered # << >>
      PROVE  SubSeq(filtered, (k - 1) * size + 1, ListingPart!Least(k * size, n)) # << >>
  <2> DEFINE from == (k - 1) * size + 1
             to == ListingPart!Least(k * size, n)
  <2>1. n # 0
    <3>1. \A seq \in Seq(DOMAIN TypeOf) : Len(seq) = 0 => seq = << >>
      OBVIOUS
    <3> QED
      BY <1>1, <1>6, <3>1
  <2>2. from <= n
    BY <1>1, <1>2, <1>3, <1>4, <2>1, PageBegins
  <2>3. from = k * size - size + 1 /\ k * size \in Nat /\ from \in Int
    BY <1>2, <1>4
  <2>4. from >= 1
    <3>1. (k - 1) \in Nat
      BY <1>4
    <3>2. (k - 1) * size \in Nat
      BY <1>2, <3>1
    <3> QED
      BY <3>2
  <2>5. from <= to /\ to \in Nat /\ to <= n
    BY <1>1, <1>2, <2>2, <2>3 DEF ListingPart!Least
  <2> HIDE DEF from, to
  <2>6. Len(SubSeq(filtered, from, to)) = to - from + 1
    BY <1>1, <2>3, <2>4, <2>5
  <2>7. SubSeq(filtered, from, to) # << >>
    <3>1. Len(<< >>) = 0
      OBVIOUS
    <3>2. Len(SubSeq(filtered, from, to)) # 0
      <4>1. to - from + 1 # 0
        BY <2>3, <2>5
      <4> QED
        BY <2>6, <4>1
    <3> QED
      BY <3>1, <3>2
  <2> QED
    BY <2>7 DEF from, to
<1> QED
  BY <1>3, <1>4, <1>5, <1>6

(* What an address is left with when some of it changes.                   *)
LEMMA AddressChanged ==
  ASSUME NEW p \in ListParams
  PROVE  /\ \A t \in ListingPart!Types, n \in Nat \ {0} :
              LET a == [p EXCEPT !.type = t, !.page = n] IN
              /\ a \in ListParams /\ a.type = t /\ a.status = p.status /\ a.q = p.q
              /\ ListingPart!PageSizeOf(a) = ListingPart!PageSizeOf(p)
         /\ \A n \in Nat \ {0} :
              LET a == [p EXCEPT !.page = n] IN
              /\ a \in ListParams /\ a.type = p.type /\ a.status = p.status /\ a.q = p.q
              /\ ListingPart!PageSizeOf(a) = ListingPart!PageSizeOf(p)
  BY DEF ListParams, ListingPart!PageSizeOf

(* Pages are counted from one.                                             *)
LEMMA FirstPage == 1 \in Nat \ {0}
  OBVIOUS

(* The sidebar's addresses.                                                *)
LEMMA SidebarAddress ==
  ASSUME NEW status \in {"", "REVIEW_REQUIRED"}
  PROVE  LET p == ListingPart!SidebarParams(status) IN
         /\ p \in ListParams /\ ListingPart!FiltersOf(p) \in ListingPart!Filters
         /\ ListingPart!FormOf(p) \in FilterForms
         /\ ListingPart!FiltersOf(p) = [status |-> p.status, type |-> p.type, q |-> p.q,
                                        size |-> ListingPart!PageSizeOf(p)]
<1> DEFINE p == ListingPart!SidebarParams(status)
<1>1. p = [status |-> status, type |-> "", q |-> "", size |-> 0, page |-> 1]
  BY DEF ListingPart!SidebarParams
<1>2. p \in ListParams
  <2>1. /\ status \in ListingPart!ResourceStatuses \cup {""} /\ "" \in ListingPart!Types
        /\ "" \in ListingPart!Searches
    BY DEF ListingPart!ResourceStatuses, ListingPart!Types, ListingPart!Searches
  <2>2. 0 \in PageSizes \cup {0} /\ 1 \in Nat \ {0}
    <3>1. 0 \in PageSizes \cup {0}
      BY Zenon
    <3> QED
      BY <3>1, FirstPage
  <2>3. [status |-> status, type |-> "", q |-> "", size |-> 0, page |-> 1] \in ListParams
    BY <2>1, <2>2, Zenon DEF ListParams
  <2> QED
    BY <1>1, <2>3, Zenon
<1> HIDE DEF p
<1>3. ListingPart!PageSizeOf(p) \in PageSizes
  <2>1. p.size = 0
    BY <1>1
  <2>2. DefaultSize \in PageSizes
    BY ChurchAssumption
  <2> QED
    BY <2>1, <2>2 DEF ListingPart!PageSizeOf
<1>4. /\ ListingPart!FiltersOf(p) \in ListingPart!Filters
      /\ ListingPart!FormOf(p) \in FilterForms
  BY <1>2, <1>3 DEF ListingPart!FiltersOf, ListingPart!FormOf, FilterForms, ListingPart!Filters,
                    ListParams
<1> QED
  BY <1>2, <1>4 DEF p, ListingPart!FiltersOf

(* A submitted form, of a tab or loaded anew, asks for what it holds and   *)
(* the address's type.                                                     *)
LEMMA FormSubmitted ==
  ASSUME ListingInv, NEW f \in FilterForms, NEW newly \in ListingPart!Filters,
         newly.type = wanted.type, ListingPart!Submit(f, newly)
  PROVE  ListingInv'
<1> DEFINE p == [status |-> f.status, type |-> params.type, q |-> f.q, size |-> f.size, page |-> 1]
<1>1. ListingPart!Submission(f) = p
  BY DEF ListingPart!Submission, ListingPart!SubmissionOfFields, ListingPart!NoParams
<1>2. p \in ListParams
  <2>1. /\ f.status \in ListingPart!ResourceStatuses \cup {""} /\ f.q \in ListingPart!Searches
        /\ f.size \in PageSizes \cup {0} /\ params.type \in ListingPart!Types
    BY DEF ListingInv, ListingRows, ListParams, FilterForms
  <2>2. 1 \in Nat \ {0}
    OBVIOUS
  <2> QED
    BY <2>1, <2>2 DEF ListParams
<1>3. ListingPart!PageSizeOf(p) = f.size /\ f.size \in PageSizes
  BY ChurchAssumption DEF ListingPart!PageSizeOf, FilterForms
<1>4. p.status = f.status /\ p.type = params.type /\ p.q = f.q
  OBVIOUS
<1> HIDE DEF p
<1>5. /\ params' = p /\ rendered' = ListingPart!Render(p, stored)
      /\ form' = ListingPart!FormOf(p) /\ wanted' = newly
      /\ strayed' = (strayed \/ f # [status |-> newly.status, q |-> newly.q, size |-> newly.size])
  BY <1>1 DEF ListingPart!Submit, ListingPart!Load
<1>6. ListingPart!FormOf(p) \in FilterForms
  BY <1>2, <1>3 DEF ListingPart!FormOf, FilterForms, ListParams
<1>7. ListingRows'
  BY <1>2, <1>5, <1>6, RenderedPage DEF ListingRows
<1>8. ~strayed' => /\ f.status = newly.status /\ f.q = newly.q /\ f.size = newly.size /\ ~strayed
  <2>1. ASSUME f = [status |-> newly.status, q |-> newly.q, size |-> newly.size]
        PROVE  f.status = newly.status /\ f.q = newly.q /\ f.size = newly.size
    BY <2>1
  <2>2. ~strayed' => /\ f = [status |-> newly.status, q |-> newly.q, size |-> newly.size]
                     /\ ~strayed
    BY <1>5, Zenon
  <2> QED
    BY <2>1, <2>2
<1>9. /\ ListingPart!Tabbed(ListingPart!FiltersOf(p)).type =
           ListingPart!Tabbed(ListingPart!FiltersOf(params)).type
      /\ ListingPart!Tabbed(newly).type = ListingPart!Tabbed(wanted).type
  BY <1>4 DEF ListingPart!Tabbed, ListingPart!FiltersOf, ListingPart!Filters, ListingInv, ListingRows
<1>10. ChosenStays'
  BY <1>3, <1>4, <1>5, <1>8, <1>9 DEF ListingInv, ChosenStays
<1> QED
  BY <1>7, <1>10 DEF ListingInv

(* Every step of the listing keeps the invariant.                          *)
LEMMA ListingStep == ASSUME ListingInv, [ListingPart!ListingNext]_listingVars PROVE ListingInv'
<1>i. ListingRows /\ ChosenStays
  BY DEF ListingInv
<1>1. CASE ListingPart!CatalogueChanges
  BY <1>1, <1>i DEF ListingPart!CatalogueChanges, ListingInv, ListingRows, ChosenStays
<1>2. CASE ListingPart!Refresh
  BY <1>2, <1>i, RenderedPage DEF ListingPart!Refresh, ListingInv, ListingRows, ChosenStays
<1>3. ASSUME NEW t \in TypeTabs \cup {"ALL"}, ListingPart!TypeTab(t) PROVE ListingInv'
  <2> DEFINE u == IF t = "ALL" THEN "" ELSE t
             one == 1
             a == [params EXCEPT !.type = u, !.page = one]
  <2>1. /\ params' = a /\ rendered' = ListingPart!Render(a, stored)
        /\ wanted' = [wanted EXCEPT !.type = t] /\ UNCHANGED <<form, strayed, pending>>
    BY <1>3 DEF ListingPart!TypeTab, ListingPart!Follow
  <2>2. u \in ListingPart!Types /\ t \in ListingPart!Types
    BY DEF ListingPart!Types
  <2>3. /\ a \in ListParams /\ a.type = u /\ a.status = params.status /\ a.q = params.q
        /\ ListingPart!PageSizeOf(a) = ListingPart!PageSizeOf(params)
    <3>1. params \in ListParams /\ one \in Nat \ {0}
      BY <1>i DEF ListingRows
    <3> HIDE DEF u, one
    <3> QED
      BY <2>2, <3>1, AddressChanged
  <2> HIDE DEF a
  <2>4. /\ wanted' \in ListingPart!Filters /\ wanted'.type = t /\ wanted'.status = wanted.status
        /\ wanted'.q = wanted.q /\ wanted'.size = wanted.size
    BY <1>i, <2>1, <2>2 DEF ListingRows, ListingPart!Filters
  <2>5. ListingRows'
    BY <1>i, <2>1, <2>3, <2>4, RenderedPage DEF ListingRows
  <2>6. ListingPart!Tabbed(ListingPart!FiltersOf(a)).type = ListingPart!Tabbed(wanted').type
    BY <2>3, <2>4 DEF ListingPart!Tabbed, ListingPart!FiltersOf, ListingPart!Filters
  <2>7. ChosenStays'
    BY <1>i, <2>1, <2>3, <2>4, <2>6 DEF ChosenStays
  <2> QED
    BY <2>5, <2>7 DEF ListingInv
<1>4. CASE ListingPart!PageLink
  <2>1. PICK n \in {rendered.page - 1, rendered.page + 1} \cap 1..rendered.total :
          ListingPart!Follow([params EXCEPT !.type = IF @ = "" THEN "ALL" ELSE @, !.page = n])
    BY <1>4 DEF ListingPart!PageLink
  <2> DEFINE u == IF params.type = "" THEN "ALL" ELSE params.type
             a == [params EXCEPT !.type = u, !.page = n]
  <2>2. /\ params' = a /\ rendered' = ListingPart!Render(a, stored)
        /\ UNCHANGED <<wanted, form, strayed, pending>>
    BY <1>4, <2>1 DEF ListingPart!PageLink, ListingPart!Follow
  <2>3. u \in ListingPart!Types /\ n \in Nat \ {0}
    <3>1. params.type \in ListingPart!Types
      BY <1>i DEF ListingRows, ListParams
    <3>2. rendered.page \in Nat /\ rendered.total \in Nat /\ n \in 1..rendered.total
      BY <1>i, <2>1 DEF ListingRows
    <3>3. "ALL" \in ListingPart!Types
      BY DEF ListingPart!Types
    <3>4. n \in Nat \ {0}
      BY <3>2
    <3> QED
      BY <3>1, <3>3, <3>4
  <2>4. /\ a \in ListParams /\ a.type = u /\ a.status = params.status /\ a.q = params.q
        /\ ListingPart!PageSizeOf(a) = ListingPart!PageSizeOf(params)
    <3>1. params \in ListParams
      BY <1>i DEF ListingRows
    <3> HIDE DEF u
    <3> QED
      BY <2>3, <3>1, AddressChanged
  <2> HIDE DEF a
  <2>5. ListingRows'
    BY <1>i, <2>2, <2>4, RenderedPage DEF ListingRows
  <2>6. ListingPart!Tabbed(ListingPart!FiltersOf(a)).type =
          ListingPart!Tabbed(ListingPart!FiltersOf(params)).type
    BY <2>4 DEF ListingPart!Tabbed, ListingPart!FiltersOf
  <2>7. ChosenStays'
    BY <1>i, <2>2, <2>4, <2>6 DEF ChosenStays
  <2> QED
    BY <2>5, <2>7 DEF ListingInv
<1>5. CASE ListingPart!SidebarLink \/ ListingPart!Arrive
  <2>1. PICK status \in {"", "REVIEW_REQUIRED"} :
          LET p == ListingPart!SidebarParams(status) IN
          /\ params' = p /\ rendered' = ListingPart!Render(p, stored)
          /\ wanted' = ListingPart!FiltersOf(p)
          /\ \/ form' = IF pending THEN form ELSE [form EXCEPT !.q = ""]
             \/ form' = ListingPart!FormOf(p)
    BY <1>5 DEF ListingPart!SidebarLink, ListingPart!Arrive, ListingPart!Follow, ListingPart!Load
  <2> DEFINE p == ListingPart!SidebarParams(status)
  <2>2. /\ p \in ListParams /\ ListingPart!FiltersOf(p) \in ListingPart!Filters
        /\ ListingPart!FormOf(p) \in FilterForms
        /\ ListingPart!FiltersOf(p) = [status |-> p.status, type |-> p.type, q |-> p.q,
                                       size |-> ListingPart!PageSizeOf(p)]
    BY SidebarAddress
  <2> HIDE DEF p
  <2>3. [form EXCEPT !.q = ""] \in FilterForms /\ form \in FilterForms
    BY <1>i DEF ListingRows, FilterForms, ListingPart!Searches
  <2>4. params' = p /\ rendered' = ListingPart!Render(p, stored) /\ form' \in FilterForms
        /\ wanted' = ListingPart!FiltersOf(p)
    BY <2>1, <2>2, <2>3 DEF p
  <2>5. ListingRows'
    BY <2>2, <2>4, RenderedPage DEF ListingRows
  <2>6. /\ ListingPart!Tabbed(ListingPart!FiltersOf(params')).type =
              ListingPart!Tabbed(wanted').type
        /\ params'.status = wanted'.status /\ params'.q = wanted'.q
        /\ ListingPart!PageSizeOf(params') = wanted'.size
    <3>1. ListingPart!FiltersOf(params') = wanted'
      BY <2>4
    <3>2. wanted'.status = p.status /\ wanted'.q = p.q /\ wanted'.size = ListingPart!PageSizeOf(p)
      <4>1. wanted' = [status |-> p.status, type |-> p.type, q |-> p.q,
                       size |-> ListingPart!PageSizeOf(p)]
        BY <2>2, <2>4
      <4> QED
        BY <4>1
    <3>3. params'.status = p.status /\ params'.q = p.q
          /\ ListingPart!PageSizeOf(params') = ListingPart!PageSizeOf(p)
      BY <2>4
    <3>4. ListingPart!Tabbed(ListingPart!FiltersOf(params')).type =
            ListingPart!Tabbed(wanted').type
      BY <3>1
    <3> QED
      BY <3>2, <3>3, <3>4
  <2>7. ChosenStays'
    BY <2>6 DEF ChosenStays
  <2> QED
    BY <2>5, <2>7 DEF ListingInv
<1>6. CASE ListingPart!TypeSearch
  <2>1. PICK text \in ListingPart!Searches :
          form' = [form EXCEPT !.q = text] /\ wanted' = [wanted EXCEPT !.q = text]
    BY <1>6 DEF ListingPart!TypeSearch
  <2>2. pending' /\ UNCHANGED <<params, rendered, strayed>>
    BY <1>6 DEF ListingPart!TypeSearch
  <2>3. form' \in FilterForms /\ wanted' \in ListingPart!Filters /\ wanted'.type = wanted.type
    BY <1>i, <2>1 DEF ListingRows, FilterForms, ListingPart!Filters
  <2>4. ListingPart!Tabbed(wanted').type = ListingPart!Tabbed(wanted).type
    BY <1>i, <2>3 DEF ListingRows, ListingPart!Tabbed, ListingPart!Filters
  <2> QED
    BY <1>i, <2>2, <2>3, <2>4 DEF ListingInv, ListingRows, ChosenStays
<1>7. CASE ListingPart!SubmitSearch
  <2>1. ListingPart!Submit(form, wanted)
    BY <1>7 DEF ListingPart!SubmitSearch
  <2> QED
    BY <1>i, <2>1, FormSubmitted DEF ListingRows
<1>8. CASE ListingPart!SelectStatus
  <2>1. PICK s \in ListingPart!ResourceStatuses \cup {""} :
          ListingPart!Submit([form EXCEPT !.status = s], [wanted EXCEPT !.status = s])
    BY <1>8 DEF ListingPart!SelectStatus
  <2>2. /\ [form EXCEPT !.status = s] \in FilterForms
        /\ [wanted EXCEPT !.status = s] \in ListingPart!Filters
        /\ [wanted EXCEPT !.status = s].type = wanted.type
    BY <1>i DEF ListingRows, FilterForms, ListingPart!Filters
  <2> QED
    BY <2>1, <2>2, FormSubmitted
<1>9. CASE ListingPart!SelectPageSize
  <2>1. PICK n \in PageSizes :
          ListingPart!Submit([form EXCEPT !.size = n], [wanted EXCEPT !.size = n])
    BY <1>9 DEF ListingPart!SelectPageSize
  <2>2. /\ [form EXCEPT !.size = n] \in FilterForms
        /\ [wanted EXCEPT !.size = n] \in ListingPart!Filters
        /\ [wanted EXCEPT !.size = n].type = wanted.type
    BY <1>i DEF ListingRows, FilterForms, ListingPart!Filters
  <2> QED
    BY <2>1, <2>2, FormSubmitted
<1>10. CASE ListingPart!JumpToPage
  <2>1. PICK n \in 1..rendered.total : ListingPart!Load([params EXCEPT !.page = n])
    BY <1>10 DEF ListingPart!JumpToPage
  <2> DEFINE a == [params EXCEPT !.page = n]
  <2>2. /\ params' = a /\ rendered' = ListingPart!Render(a, stored) /\ form' = ListingPart!FormOf(a)
        /\ strayed' = (strayed \/ pending) /\ wanted' = wanted
    BY <1>10, <2>1 DEF ListingPart!JumpToPage, ListingPart!Load
  <2>3. n \in Nat \ {0}
    BY <1>i DEF ListingRows
  <2>4. /\ a \in ListParams /\ a.type = params.type /\ a.status = params.status /\ a.q = params.q
        /\ ListingPart!PageSizeOf(a) = ListingPart!PageSizeOf(params)
    BY <1>i, <2>3, AddressChanged DEF ListingRows
  <2> HIDE DEF a
  <2>5. ListingPart!FormOf(a) \in FilterForms
    <3>1. ListingPart!PageSizeOf(a) \in PageSizes
      BY <2>4, ChurchAssumption DEF ListingPart!PageSizeOf, ListParams
    <3> QED
      BY <2>4, <3>1 DEF ListingPart!FormOf, FilterForms, ListParams
  <2>6. ListingRows'
    BY <1>i, <2>2, <2>4, <2>5, RenderedPage DEF ListingRows
  <2>7. ListingPart!Tabbed(ListingPart!FiltersOf(a)).type =
          ListingPart!Tabbed(ListingPart!FiltersOf(params)).type
    BY <2>4 DEF ListingPart!Tabbed, ListingPart!FiltersOf
  <2>8. ChosenStays'
    BY <1>i, <2>2, <2>4, <2>7 DEF ChosenStays
  <2> QED
    BY <2>6, <2>8 DEF ListingInv
<1>11. CASE UNCHANGED listingVars
  BY <1>i, <1>11 DEF listingVars, ListingInv, ListingRows, ChosenStays
<1> QED
  BY <1>1, <1>2, <1>3, <1>4, <1>5, <1>6, <1>7, <1>8, <1>9, <1>10, <1>11 DEF ListingPart!ListingNext

(* The list is of what was chosen, and empty only where nothing matches.   *)
THEOREM ListIsChosen == Spec => []ListedAsChosen
<1>1. Init => ListingInv
  <2> SUFFICES ASSUME Init PROVE ListingInv
    OBVIOUS
  <2>1. /\ params = ListingPart!NoParams /\ rendered = ListingPart!Render(ListingPart!NoParams, stored)
        /\ form = ListingPart!FormOf(ListingPart!NoParams)
        /\ wanted = ListingPart!FiltersOf(ListingPart!NoParams)
    BY DEF Init, ListingPart!ListingInit
  <2>2. ListingPart!NoParams = ListingPart!SidebarParams("")
    BY DEF ListingPart!NoParams
  <2> DEFINE p == ListingPart!NoParams
  <2>3. /\ p \in ListParams /\ ListingPart!FiltersOf(p) \in ListingPart!Filters
        /\ ListingPart!FormOf(p) \in FilterForms
        /\ ListingPart!FiltersOf(p) = [status |-> p.status, type |-> p.type, q |-> p.q,
                                       size |-> ListingPart!PageSizeOf(p)]
    BY <2>2, SidebarAddress
  <2> HIDE DEF p
  <2>4. params = p /\ rendered = ListingPart!Render(p, stored) /\ form = ListingPart!FormOf(p)
        /\ wanted = ListingPart!FiltersOf(p)
    BY <2>1 DEF p
  <2>5. ListingRows
    BY <2>3, <2>4, RenderedPage DEF ListingRows
  <2>6. ChosenStays
    BY <2>3, <2>4 DEF ChosenStays
  <2> QED
    BY <2>5, <2>6 DEF ListingInv
<1>2. ListingInv /\ [Next]_vars => ListingInv'
  <2> SUFFICES ASSUME ListingInv, [Next]_vars PROVE ListingInv'
    OBVIOUS
  <2>1. [ListingPart!ListingNext]_listingVars
    BY DEF Next, vars, OnTeam, OnUsage, OnRate, OnList, OnWall, OnSetup, InSetup, OnForms,
       OnDocuments, OnAccounts, OnDesk, OnInsights, OnLog, OnListing, OnPanels, OnTypes
  <2> QED
    BY <2>1, ListingStep
<1>3. ListingInv => ListedAsChosen
  <2> SUFFICES ASSUME ListingInv, ~strayed, ~pending
      PROVE  ListingPart!Tabbed(ListingPart!FiltersOf(params)) = ListingPart!Tabbed(wanted)
    BY DEF ListingInv, ListingRows, ListedAsChosen, ListingPart!ListedAsChosen
  <2> DEFINE f == ListingPart!FiltersOf(params)
             T(g) == [status |-> g.status, type |-> ListingPart!Tabbed(g).type, q |-> g.q,
                      size |-> g.size]
  <2>1. f = [status |-> params.status, type |-> params.type, q |-> params.q,
             size |-> ListingPart!PageSizeOf(params)]
    BY DEF ListingPart!FiltersOf
  <2>2. wanted = [status |-> wanted.status, type |-> wanted.type, q |-> wanted.q, size |-> wanted.size]
    BY DEF ListingInv, ListingRows, ListingPart!Filters
  <2>3. ListingPart!Tabbed(f) = T(f) /\ ListingPart!Tabbed(wanted) = T(wanted)
    BY <2>1, <2>2 DEF ListingPart!Tabbed
  <2>4. /\ ListingPart!Tabbed(f).type = ListingPart!Tabbed(wanted).type
        /\ f.status = wanted.status /\ f.q = wanted.q /\ f.size = wanted.size
    BY <2>1 DEF ListingInv, ChosenStays
  <2> HIDE DEF f
  <2>5. T(f) = T(wanted)
    BY <2>4
  <2> HIDE DEF T
  <2> QED
    BY <2>3, <2>5 DEF f
<1> QED
  BY <1>1, <1>2, <1>3, PTL DEF Spec

-----------------------------------------------------------------------------
(* The conversation log: whoever opens it at page 1 and goes on to its end *)
(* meets every conversation that was there, but as many as came between    *)
(* the last page's count and its rows, whatever comes in meanwhile.        *)

LogRows ==
  /\ conversations \in Seq(LogPart!Conversation) /\ turns \in 0..MaxTurns
  /\ logTab.at = "shown" =>
       /\ logTab.page \in Nat \ {0} /\ logTab.totalPages \in Nat \ {0}
       /\ logTab.filter \in ChatWidgets \cup {"all"}
  /\ logAsked # LogPart!NoPage =>
       /\ logAsked.page \in Nat \ {0} /\ logAsked.since \in 0..Len(conversations)
       /\ logAsked.filter \in ChatWidgets \cup {"all"}

(* Each of these has as many of S in front of it.                          *)
Behind(those, S, many) == \A id \in those : Cardinality(AheadOf(S, id)) >= many

(* The newer ones stand in front: an older one that is still to be met     *)
(* has at least as many in front of it as the pages gone through have rows. *)
StillAhead ==
  due # {LogPart!NotCounted} =>
    /\ logTab.at = "shown" /\ query = ""
    /\ due \subseteq LogPart!Filtered(logTab.filter)
    /\ Behind(due \ met, LogPart!Filtered(logTab.filter), logTab.page * LogPageSize)
    /\ logTab.page >= logTab.totalPages => Cardinality(due \ met) <= Cardinality(uncounted)

(* And so it was when the next page was asked for.                         *)
NextAhead ==
  logAsked # LogPart!NoPage /\ logAsked.way = "next" /\ due # {LogPart!NotCounted} =>
    /\ due \subseteq LogPart!SeenAt(logAsked.since, logAsked.filter)
    /\ Behind(due \ met, LogPart!SeenAt(logAsked.since, logAsked.filter),
              (logAsked.page - 1) * LogPageSize)

LogInv == LogRows /\ StillAhead /\ NextAhead

(* The instance's filter is the one the lemmas are about.                  *)
LEMMA SameLogFilter == \A seq, S : LogPart!Where(seq, S) = Where(seq, S)
  BY DEF LogPart!Where, Where

(* What the instance counts.                                               *)
LEMMA SameLogCount == \A S : LogPart!Cardinality(S) = Cardinality(S)
  BY DEF LogPart!Cardinality, Cardinality

(* The conversations of a widget are some of those there are.              *)
LEMMA FilteredThere ==
  ASSUME NEW filter, conversations \in Seq(LogPart!Conversation)
  PROVE  /\ Len(conversations) \in Nat
         /\ LogPart!Filtered(filter) \in SUBSET (1..Len(conversations))
         /\ \A S \in SUBSET LogPart!Filtered(filter) :
              /\ S \in SUBSET Nat /\ IsFiniteSet(S) /\ Cardinality(S) \in Nat
              /\ \A id : /\ IsFiniteSet(AheadOf(S, id))
                         /\ Cardinality(AheadOf(S, id)) \in Nat
<1>1. Len(conversations) \in Nat /\ DOMAIN conversations = 1..Len(conversations)
  OBVIOUS
<1>2. LogPart!Filtered(filter) \in SUBSET (1..Len(conversations))
  BY <1>1 DEF LogPart!Filtered
<1>3. IsFiniteSet(1..Len(conversations))
  BY <1>1, FS_Interval
<1>4. ASSUME NEW S \in SUBSET LogPart!Filtered(filter)
      PROVE  /\ S \in SUBSET Nat /\ IsFiniteSet(S) /\ Cardinality(S) \in Nat
             /\ \A id : /\ IsFiniteSet(AheadOf(S, id))
                        /\ Cardinality(AheadOf(S, id)) \in Nat
  <2>1. S \in SUBSET (1..Len(conversations)) /\ S \in SUBSET Nat
    BY <1>1, <1>2
  <2>2. IsFiniteSet(S)
    BY <1>3, <2>1, FS_Subset
  <2>3. \A id : AheadOf(S, id) \in SUBSET S
    BY DEF AheadOf
  <2>4. ASSUME NEW id PROVE IsFiniteSet(AheadOf(S, id)) /\ Cardinality(AheadOf(S, id)) \in Nat
    BY <2>2, <2>3, FS_Subset, FS_CardinalityType
  <2> QED
    BY <2>1, <2>2, <2>4, FS_CardinalityType
<1> QED
  BY <1>1, <1>2, <1>4

(* The more there are, the more are in front.                              *)
LEMMA StillBehind ==
  ASSUME NEW T, IsFiniteSet(T), NEW S \in SUBSET T, NEW those, NEW many \in Nat,
         Behind(those, S, many)
  PROVE  Behind(those, T, many)
<1> SUFFICES ASSUME NEW id \in those PROVE Cardinality(AheadOf(T, id)) >= many
  BY DEF Behind
<1>1. AheadOf(S, id) \in SUBSET AheadOf(T, id) /\ AheadOf(T, id) \in SUBSET T
  BY DEF AheadOf
<1>2. IsFiniteSet(AheadOf(T, id))
  BY <1>1, FS_Subset
<1>3. /\ Cardinality(AheadOf(S, id)) <= Cardinality(AheadOf(T, id))
      /\ Cardinality(AheadOf(S, id)) \in Nat /\ Cardinality(AheadOf(T, id)) \in Nat
  BY <1>1, <1>2, FS_Subset, FS_CardinalityType
<1>4. Cardinality(AheadOf(S, id)) >= many
  BY DEF Behind
<1> QED
  BY <1>3, <1>4

(* The list has a conversation behind those that came after it.            *)
LEMMA NewerInFront ==
  ASSUME NEW filter, NEW n, conversations \in Seq(LogPart!Conversation)
  PROVE  LET S == LogPart!SeenAt(n, filter)
         IN  /\ LogPart!ByUpdatedAt(n, filter) \in Seq(Nat)
             /\ Len(LogPart!ByUpdatedAt(n, filter)) \in Nat
             /\ \A id \in S :
                  LET ahead == Cardinality(AheadOf(S, id))
                  IN  /\ ahead + 1 \in 1..Len(LogPart!ByUpdatedAt(n, filter))
                      /\ LogPart!ByUpdatedAt(n, filter)[ahead + 1] = id
<1> DEFINE L == Len(conversations)
           S == LogPart!SeenAt(n, filter)
           order == [id \in DOMAIN conversations |-> id]
           seq == LogPart!Reverse(order)
<1>1. L \in Nat /\ S \in SUBSET (1..L) /\ DOMAIN conversations = 1..L
  BY FilteredThere DEF LogPart!SeenAt
<1>2. LogPart!ByUpdatedAt(n, filter) = Where(seq, S)
  BY SameLogFilter, Zenon DEF LogPart!ByUpdatedAt
<1> HIDE DEF L, S
<1>3. order = [id \in 1..L |-> id] /\ order \in Seq(Nat) /\ Len(order) = L
  BY <1>1
<1>4. seq \in Seq(Nat) /\ Len(seq) = L /\ \A k \in 1..L : seq[k] = L + 1 - k
  <2>1. seq = [i \in 1..L |-> order[(L - i) + 1]]
    BY <1>3, Zenon DEF LogPart!Reverse
  <2>2. \A i \in 1..L : (L - i) + 1 \in 1..L /\ order[(L - i) + 1] = L + 1 - i
    BY <1>1, <1>3
  <2> HIDE DEF seq, order
  <2> QED
    BY <1>1, <2>1, <2>2
<1> HIDE DEF seq
<1>5. /\ Where(seq, S) \in Seq(Nat) /\ Len(Where(seq, S)) \in Nat
      /\ \A id \in S : /\ Cardinality(AheadOf(S, id)) + 1 \in 1..Len(Where(seq, S))
                       /\ Where(seq, S)[Cardinality(AheadOf(S, id)) + 1] = id
  BY <1>1, <1>4, WhereRanks
<1> QED
  BY <1>2, <1>5, Zenon DEF S

(* A conversation that is not on the pages up to this one, nor on this one, *)
(* is behind it; and the last page announced is behind all that were       *)
(* counted.                                                                *)
LEMMA PageOfLog ==
  ASSUME conversations \in Seq(LogPart!Conversation), NEW filter, NEW p \in Nat \ {0},
         NEW n, NEW m, NEW t, t = LogPart!ListConversations(filter, p, n, m)
  PROVE  LET S == LogPart!SeenAt(n, filter)
         IN  /\ t.at = "shown" /\ t.page = p /\ t.filter = filter /\ t.totalPages \in Nat \ {0}
             /\ \A id \in S \ LogPart!Displayed(t.rows, "") :
                  Cardinality(AheadOf(S, id)) >= (p - 1) * LogPageSize =>
                    Cardinality(AheadOf(S, id)) >= p * LogPageSize
             /\ p >= t.totalPages =>
                  Cardinality(LogPart!SeenAt(m, filter)) <= p * LogPageSize
<1> DEFINE list == LogPart!ByUpdatedAt(n, filter)
           F == LogPart!SeenAt(n, filter)
           C == Cardinality(LogPart!SeenAt(m, filter))
           first == (p - 1) * LogPageSize
           end   == p * LogPageSize
           last  == IF end < Len(list) THEN end ELSE Len(list)
           pages == (C + LogPageSize - 1) \div LogPageSize
           total == IF pages = 0 THEN 1 ELSE pages
           part == SubSeq(list, first + 1, last)
<1>1. LogPageSize \in Nat \ {0}
  BY ChurchAssumption
<1>2. t = [at |-> "shown", filter |-> filter, page |-> p, rows |-> part,
           totalPages |-> total]
  BY SameLogCount, Zenon DEF LogPart!ListConversations
<1>3. list \in Seq(Nat) /\ Len(list) \in Nat /\ C \in Nat
  <2>1. \A k : LogPart!SeenAt(k, filter) \in SUBSET LogPart!Filtered(filter)
    BY DEF LogPart!SeenAt
  <2> QED
    BY <2>1, NewerInFront, FilteredThere
<1>4. \A id \in F : /\ Cardinality(AheadOf(F, id)) + 1 \in 1..Len(list)
                    /\ list[Cardinality(AheadOf(F, id)) + 1] = id
                    /\ Cardinality(AheadOf(F, id)) \in Nat
  <2>1. F \in SUBSET LogPart!Filtered(filter)
    BY DEF LogPart!SeenAt
  <2>2. \A id : Cardinality(AheadOf(F, id)) \in Nat
    BY <2>1, FilteredThere
  <2> QED
    BY <2>2, NewerInFront, Zenon
<1> HIDE DEF list, F, C
<1>5. first \in Nat /\ end \in Nat /\ end = first + LogPageSize
  BY <1>1
<1>6. pages \in Nat /\ (C > end => pages > p)
  <2> DEFINE k == C + LogPageSize - 1
  <2>1. k \in Nat
    BY <1>1, <1>3
  <2>2. pages \in Nat /\ k < (pages + 1) * LogPageSize
    BY <1>1, <2>1
  <2>3. ASSUME C > end, ~(pages > p) PROVE FALSE
    <3>1. (pages + 1) * LogPageSize <= (p + 1) * LogPageSize
      BY <1>1, <2>2, <2>3
    <3>2. (p + 1) * LogPageSize = end + LogPageSize
      BY <1>1
    <3>3. k < end + LogPageSize
      <4> HIDE DEF k, pages, end
      <4>1. (pages + 1) * LogPageSize \in Nat
        BY <1>1, <2>2
      <4> QED
        BY <1>1, <1>5, <2>1, <2>2, <3>1, <3>2, <4>1
    <3> HIDE DEF pages, end
    <3> QED
      BY <1>1, <1>3, <1>5, <2>3, <3>3
  <2> QED
    BY <2>2, <2>3
<1> HIDE DEF first, end, pages
<1>7. total \in Nat \ {0} /\ (C > end => total > p)
  BY <1>6
<1> HIDE DEF total, last, part
<1>8. t.at = "shown" /\ t.page = p /\ t.filter = filter /\ t.totalPages = total
      /\ t.rows = part
  BY <1>2
<1>9. ASSUME NEW id \in F, id \notin LogPart!Displayed(t.rows, ""),
             Cardinality(AheadOf(F, id)) >= first
      PROVE  Cardinality(AheadOf(F, id)) >= end
  <2> DEFINE k == Cardinality(AheadOf(F, id))
  <2>1. k \in Nat /\ k + 1 \in 1..Len(list) /\ list[k + 1] = id /\ k >= first
    BY <1>4, <1>9
  <2> HIDE DEF k
  <2>2. SUFFICES ASSUME ~(k >= end) PROVE FALSE
    BY DEF k
  <2>3. k + 1 <= last /\ last \in 0..Len(list) /\ first + 1 \in 1..(last + 1)
    BY <1>3, <1>5, <2>1, <2>2 DEF last
  <2>4. /\ Len(t.rows) = last - first
        /\ \A i \in 1..(last - first) : t.rows[i] = list[first + i]
        /\ t.rows \in Seq(Nat)
    <3> DEFINE from == first + 1
    <3>1. from \in 1..(Len(list) + 1) /\ last \in (from - 1)..Len(list)
      BY <1>3, <1>5, <2>1, <2>3
    <3> HIDE DEF from
    <3>2. /\ SubSeq(list, from, last) \in Seq(Nat)
          /\ Len(SubSeq(list, from, last)) = last - from + 1
          /\ \A i \in 1..(last - from + 1) : SubSeq(list, from, last)[i] = list[from + i - 1]
      BY <1>3, <3>1, SubSeqProperties
    <3>3. t.rows = SubSeq(list, from, last) /\ last - from + 1 = last - first
          /\ \A i \in 1..(last - first) : from + i - 1 = first + i
      BY <1>5, <1>8, <2>3 DEF part, from
    <3> QED
      BY <3>2, <3>3
  <2>5. k + 1 - first \in 1..(last - first) /\ first + (k + 1 - first) = k + 1
    BY <1>3, <1>5, <2>1, <2>3
  <2>6. k + 1 - first \in DOMAIN t.rows /\ t.rows[k + 1 - first] = id
    BY <2>1, <2>4, <2>5
  <2>7. id \in LogPart!ToSet(t.rows)
    BY <2>6, Zenon DEF LogPart!ToSet
  <2> QED
    BY <1>9, <2>7, Zenon DEF LogPart!Displayed
<1>10. p >= t.totalPages => C <= end
  BY <1>3, <1>5, <1>7, <1>8
<1> QED
  BY <1>7, <1>8, <1>9, <1>10 DEF F, C, first, end

(* Those that are behind the last page announced are no more than those    *)
(* that were read and not counted: the newest of them has as many in front *)
(* of it as were counted.                                                  *)
LEMMA UnmetAreLate ==
  ASSUME NEW L \in Nat, NEW R \in SUBSET (1..L), IsFiniteSet(R), NEW C, IsFiniteSet(C), NEW U \in SUBSET R,
         NEW many \in Nat, Behind(U, R, many), Cardinality(C) <= many
  PROVE  Cardinality(U) <= Cardinality(R \ C)
<1>1. /\ IsFiniteSet(U) /\ IsFiniteSet(R \ C) /\ IsFiniteSet(R \cap C)
      /\ Cardinality(U) \in Nat /\ Cardinality(R \ C) \in Nat /\ Cardinality(R) \in Nat
      /\ Cardinality(C) \in Nat
  <2>1. (R \ C) \in SUBSET R /\ (R \cap C) \in SUBSET R
    OBVIOUS
  <2>2. IsFiniteSet(U) /\ IsFiniteSet(R \ C) /\ IsFiniteSet(R \cap C)
    BY <2>1, FS_Subset
  <2> QED
    BY <2>2, FS_CardinalityType
<1>2. CASE U = {}
  BY <1>1, <1>2, FS_EmptySet
<1>3. CASE U # {}
  <2>1. PICK last \in U : \A id \in U : id <= last
    <3>1. PICK some \in U : TRUE
      BY <1>3
    <3> DEFINE D == {b \in Nat : \A x \in U : x <= b}
    <3>4. D \in SUBSET Nat /\ L \in D
      OBVIOUS
    <3>5. PICK least \in D : \A b \in D : least <= b
      <4> HIDE DEF D
      <4> QED
        BY <3>4, Least
    <3>6. least \in U
      <4> SUFFICES ASSUME least \notin U PROVE FALSE
        OBVIOUS
      <4>1. \A x \in U : x \in Nat /\ x < least
        BY <3>5
      <4>2. least - 1 \in Nat /\ \A x \in U : x <= least - 1
        BY <3>1, <3>5, <4>1
      <4> QED
        BY <3>5, <4>2
    <3> QED
      BY <3>5, <3>6
  <2> DEFINE A == AheadOf(R, last)
  <2>2. A \cap U = {} /\ A \in SUBSET R /\ (A \cup U) \in SUBSET R
    <3>1. last \in Nat /\ \A id \in U : id \in Nat /\ ~(id > last)
      BY <2>1
    <3>2. \A id \in A : id \in R /\ id > last
      BY DEF AheadOf
    <3> HIDE DEF A
    <3> QED
      BY <3>1, <3>2
  <2>3. IsFiniteSet(A) /\ IsFiniteSet(A \cup U)
    BY <2>2, FS_Subset
  <2>4. /\ Cardinality(A) \in Nat /\ Cardinality(A \cup U) \in Nat
        /\ Cardinality(A \cup U) <= Cardinality(R)
    BY <2>2, <2>3, FS_Subset, FS_CardinalityType
  <2>5. Cardinality(A \cup U) = Cardinality(A) + Cardinality(U)
    <3>1. Cardinality(A \cup U) = Cardinality(A) + Cardinality(U) - Cardinality(A \cap U)
      BY <1>1, <2>3, FS_Union
    <3>2. Cardinality(A \cap U) = 0
      BY <2>2, FS_EmptySet
    <3> QED
      BY <1>1, <2>4, <3>1, <3>2
  <2>6. Cardinality(A) >= many
    BY <2>1 DEF Behind
  <2> HIDE DEF A
  <2>7. Cardinality(R) <= Cardinality(C) + Cardinality(R \ C)
    <3>1. R \cap C \in SUBSET C /\ R = (R \cap C) \cup (R \ C) /\ (R \cap C) \cap (R \ C) = {}
      OBVIOUS
    <3>2. Cardinality(R \cap C) <= Cardinality(C) /\ Cardinality(R \cap C) \in Nat
      BY <1>1, <3>1, FS_Subset, FS_CardinalityType
    <3>3. Cardinality((R \cap C) \cup (R \ C)) =
            Cardinality(R \cap C) + Cardinality(R \ C) - Cardinality((R \cap C) \cap (R \ C))
      BY <1>1, FS_Union
    <3>4. Cardinality((R \cap C) \cap (R \ C)) = 0
      BY <3>1, FS_EmptySet
    <3>5. Cardinality(R) = Cardinality(R \cap C) + Cardinality(R \ C) - 0
      BY <3>1, <3>3, <3>4
    <3> QED
      BY <1>1, <3>2, <3>5
  <2> QED
    BY <1>1, <2>4, <2>5, <2>6, <2>7
<1> QED
  BY <1>2, <1>3

(* One more conversation, or one more message in one, leaves those that    *)
(* are to be met where they are, or further back.                          *)
LEMMA LogGrows ==
  ASSUME LogInv, conversations' \in Seq(LogPart!Conversation), turns' \in 0..MaxTurns,
         \A id \in DOMAIN conversations :
           id \in DOMAIN conversations' /\ conversations'[id].widget = conversations[id].widget,
         UNCHANGED <<logTab, logAsked, query, due, met, uncounted>>
  PROVE  LogInv'
<1>0. /\ Len(conversations) \in Nat /\ Len(conversations') \in Nat
      /\ DOMAIN conversations = 1..Len(conversations)
      /\ DOMAIN conversations' = 1..Len(conversations')
      /\ Len(conversations) <= Len(conversations')
  <2>1. /\ Len(conversations) \in Nat /\ Len(conversations') \in Nat
        /\ DOMAIN conversations = 1..Len(conversations)
        /\ DOMAIN conversations' = 1..Len(conversations')
    BY DEF LogInv, LogRows
  <2>2. CASE Len(conversations) = 0
    BY <2>1, <2>2
  <2>3. CASE Len(conversations) # 0
    <3>1. Len(conversations) \in DOMAIN conversations
      BY <2>1, <2>3
    <3>2. Len(conversations) \in 1..Len(conversations')
      BY <2>1, <3>1
    <3> QED
      BY <2>1, <3>2
  <2> QED
    BY <2>1, <2>2, <2>3
<1>1. LogRows'
  BY <1>0 DEF LogInv, LogRows
<1>2. StillAhead'
  <2> SUFFICES ASSUME due # {LogPart!NotCounted} PROVE StillAhead'
    BY DEF StillAhead
  <2> DEFINE F == LogPart!Filtered(logTab.filter)
             G == LogPart!Filtered(logTab.filter)'
  <2>1. F \subseteq G
    BY DEF LogPart!Filtered
  <2>2. IsFiniteSet(G)
    <3>1. G \subseteq 1..Len(conversations')
      BY <1>0 DEF LogPart!Filtered
    <3>2. IsFiniteSet(1..Len(conversations'))
      BY <1>0, FS_Interval
    <3> QED
      BY <3>1, <3>2, FS_Subset
  <2>3. /\ logTab.at = "shown" /\ query = "" /\ due \subseteq F
        /\ Behind(due \ met, F, logTab.page * LogPageSize) /\ logTab.page \in Nat
        /\ logTab.page >= logTab.totalPages => Cardinality(due \ met) <= Cardinality(uncounted)
    BY DEF LogInv, LogRows, StillAhead
  <2> HIDE DEF F, G
  <2>4. logTab.page * LogPageSize \in Nat
    <3>1. logTab.page \in Nat /\ LogPageSize \in Nat
      BY <2>3, ChurchAssumption
    <3> QED
      BY <3>1
  <2>5. Behind(due \ met, G, logTab.page * LogPageSize)
    BY <2>1, <2>2, <2>3, <2>4, StillBehind
  <2>6. due \subseteq G
    BY <2>1, <2>3
  <2> QED
    BY <2>3, <2>5, <2>6 DEF StillAhead, G, Behind
<1>3. NextAhead'
  <2> SUFFICES ASSUME logAsked # LogPart!NoPage, logAsked.way = "next", due # {LogPart!NotCounted}
      PROVE  NextAhead'
    BY DEF NextAhead
  <2>1. logAsked.since \in 0..Len(conversations)
    BY DEF LogInv, LogRows
  <2>2. LogPart!SeenAt(logAsked.since, logAsked.filter)' =
          LogPart!SeenAt(logAsked.since, logAsked.filter)
    BY <1>0, <2>1 DEF LogPart!SeenAt, LogPart!Filtered
  <2> QED
    BY <2>2 DEF LogInv, NextAhead, Behind
<1> QED
  BY <1>1, <1>2, <1>3 DEF LogInv

(* A page is asked for: the next one with those that are to be met where   *)
(* they are.                                                               *)
LEMMA LogAsks ==
  ASSUME LogInv, NEW way, NEW filter \in ChatWidgets \cup {"all"}, NEW p \in Nat \ {0},
         LogPart!AskFor(way, filter, p),
         way = "next" => /\ logTab.at = "shown" /\ filter = logTab.filter
                         /\ p - 1 = logTab.page
  PROVE  LogInv'
<1>1. /\ logAsked' = [way |-> way, filter |-> filter, page |-> p, since |-> Len(conversations)]
      /\ UNCHANGED <<conversations, turns, logTab, query, due, met, uncounted>>
  BY DEF LogPart!AskFor
<1>2. /\ logAsked'.way = way /\ logAsked'.filter = filter /\ logAsked'.page = p
      /\ logAsked'.since = Len(conversations)
  BY <1>1
<1>3. Len(conversations) \in Nat /\ DOMAIN conversations = 1..Len(conversations)
  BY DEF LogInv, LogRows
<1>4. LogRows'
  BY <1>1, <1>2, <1>3 DEF LogInv, LogRows
<1>5. StillAhead'
  BY <1>1 DEF LogInv, StillAhead, Behind, LogPart!Filtered
<1>6. NextAhead'
  <2> SUFFICES ASSUME way = "next", due # {LogPart!NotCounted}
      PROVE  NextAhead'
    BY <1>1, <1>2 DEF NextAhead
  <2>1. LogPart!SeenAt(Len(conversations), filter) = LogPart!Filtered(filter)
    BY <1>3 DEF LogPart!SeenAt, LogPart!Filtered
  <2>2. LogPart!SeenAt(logAsked.since, logAsked.filter)' =
          LogPart!SeenAt(Len(conversations), filter)
    BY <1>1, <1>2 DEF LogPart!SeenAt, LogPart!Filtered
  <2>3. /\ due \subseteq LogPart!Filtered(filter)
        /\ Behind(due \ met, LogPart!Filtered(filter), (p - 1) * LogPageSize)
    BY DEF LogInv, StillAhead
  <2> QED
    BY <1>1, <1>2, <2>1, <2>2, <2>3 DEF NextAhead, Behind
<1> QED
  BY <1>4, <1>5, <1>6 DEF LogInv

(* A page is rendered: page 1, from which the count begins, or the one     *)
(* behind, where it goes on.                                               *)
LEMMA LogRendered ==
  ASSUME LogInv, LogPart!RenderLog
  PROVE  LogInv'
<1> DEFINE filter == logAsked.filter
           p == logAsked.page
           since == logAsked.since
           Seen(k) == LogPart!SeenAt(k, filter)
<1>1. PICK n \in since..Len(conversations), m \in since..Len(conversations) :
        LET goneTo == LogPart!ListConversations(filter, p, n, m)
            shown == LogPart!Displayed(goneTo.rows, query')
        IN /\ logTab' = goneTo
           /\ met' = IF due' = {LogPart!NotCounted} THEN {}
                     ELSE IF logAsked.way = "anew" THEN shown ELSE met \cup shown
           /\ uncounted' = IF due' = {LogPart!NotCounted} THEN {} ELSE Seen(n) \ Seen(m)
  BY Zenon DEF LogPart!RenderLog
<1>2. /\ logAsked # LogPart!NoPage
      /\ query' = IF logAsked.way = "anew" THEN "" ELSE query
      /\ due' = IF logAsked.way = "anew" /\ p = 1 THEN Seen(since)
                ELSE IF logAsked.way = "next" THEN due ELSE {LogPart!NotCounted}
      /\ logAsked' = LogPart!NoPage /\ UNCHANGED <<conversations, turns>>
  BY Zenon DEF LogPart!RenderLog
<1>3. /\ conversations \in Seq(LogPart!Conversation) /\ Len(conversations) \in Nat
      /\ p \in Nat \ {0} /\ since \in 0..Len(conversations)
      /\ filter \in ChatWidgets \cup {"all"} /\ LogPageSize \in Nat \ {0}
  <2>1. /\ conversations \in Seq(LogPart!Conversation)
        /\ p \in Nat \ {0} /\ since \in 0..Len(conversations)
        /\ filter \in ChatWidgets \cup {"all"}
    BY <1>2 DEF LogInv, LogRows
  <2>2. LogPageSize \in Nat \ {0}
    BY ChurchAssumption
  <2>3. Len(conversations) \in Nat
    BY <2>1
  <2> QED
    BY <2>1, <2>2, <2>3, Zenon
<1>p. conversations \in Seq(LogPart!Conversation) /\ p \in Nat \ {0}
  BY <1>3
<1>4. /\ logTab'.at = "shown" /\ logTab'.page = p /\ logTab'.filter = filter
      /\ logTab'.totalPages \in Nat \ {0}
      /\ \A id \in Seen(n) \ LogPart!Displayed(logTab'.rows, "") :
           Cardinality(AheadOf(Seen(n), id)) >= (p - 1) * LogPageSize =>
             Cardinality(AheadOf(Seen(n), id)) >= p * LogPageSize
      /\ p >= logTab'.totalPages => Cardinality(Seen(m)) <= p * LogPageSize
  <2>1. \A t : t = LogPart!ListConversations(filter, p, n, m) =>
           /\ t.at = "shown" /\ t.page = p /\ t.filter = filter /\ t.totalPages \in Nat \ {0}
           /\ \A id \in Seen(n) \ LogPart!Displayed(t.rows, "") :
                Cardinality(AheadOf(Seen(n), id)) >= (p - 1) * LogPageSize =>
                  Cardinality(AheadOf(Seen(n), id)) >= p * LogPageSize
           /\ p >= t.totalPages => Cardinality(Seen(m)) <= p * LogPageSize
    <3> HIDE DEF p, filter
    <3> QED
      BY <1>p, PageOfLog
  <2> HIDE DEF filter, p, Seen
  <2> QED
    BY <1>1, <2>1, Zenon
<1>5. /\ met' = IF due' = {LogPart!NotCounted} THEN {}
                ELSE IF logAsked.way = "anew" THEN LogPart!Displayed(logTab'.rows, query')
                ELSE met \cup LogPart!Displayed(logTab'.rows, query')
      /\ uncounted' = IF due' = {LogPart!NotCounted} THEN {} ELSE Seen(n) \ Seen(m)
  <2> HIDE DEF filter, p, Seen
  <2> QED
    BY <1>1, Zenon
<1>6. LogRows'
  BY <1>2, <1>3, <1>4 DEF LogInv, LogRows
<1>7. NextAhead'
  BY <1>2 DEF NextAhead
<1>8. ASSUME due' # {LogPart!NotCounted}
      PROVE  /\ query' = "" /\ LogPart!Displayed(logTab'.rows, "") \subseteq met'
             /\ due' \subseteq Seen(since)
             /\ Behind(due' \ met', Seen(since), (p - 1) * LogPageSize)
  <2>1. CASE logAsked.way = "anew"
    <3>1. /\ p = 1 /\ due' = Seen(since) /\ query' = ""
          /\ met' = LogPart!Displayed(logTab'.rows, "")
      BY <1>2, <1>5, <1>8, <2>1
    <3>2. (p - 1) * LogPageSize = 0
      <4> HIDE DEF p, filter, since
      <4> QED
        <5>1. p = 1
          BY <3>1
        <5>2. p - 1 = 0
          BY <5>1
        <5>3. LogPageSize \in Nat
          BY ChurchAssumption
        <5> QED
          BY <5>2, <5>3
    <3>3. Seen(since) \in SUBSET LogPart!Filtered(filter)
      BY DEF LogPart!SeenAt
    <3>4. \A id : Cardinality(AheadOf(Seen(since), id)) \in Nat
      <4> HIDE DEF Seen, filter
      <4> QED
        BY <1>3, <3>3, FilteredThere
    <3>5. Behind(due' \ met', Seen(since), (p - 1) * LogPageSize)
      <4> HIDE DEF Seen
      <4> QED
        BY <3>2, <3>4 DEF Behind
    <3> QED
      BY <3>1, <3>5
  <2>2. CASE logAsked.way # "anew"
    <3>1. logAsked.way = "next" /\ due' = due /\ query' = query
          /\ met' = met \cup LogPart!Displayed(logTab'.rows, query)
      BY <1>2, <1>5, <1>8, <2>2
    <3>2. /\ query = "" /\ due \subseteq Seen(since)
          /\ Behind(due \ met, Seen(since), (p - 1) * LogPageSize)
      BY <1>2, <1>8, <3>1 DEF LogInv, StillAhead, NextAhead
    <3>3. Behind(due' \ met', Seen(since), (p - 1) * LogPageSize)
      <4> HIDE DEF Seen, p
      <4> QED
        BY <3>1, <3>2 DEF Behind
    <3> QED
      BY <3>1, <3>2, <3>3
  <2> QED
    BY <2>1, <2>2
<1>9. /\ Seen(since) \in SUBSET Seen(n)
      /\ \A k : Seen(k) \in SUBSET LogPart!Filtered(filter)
  BY <1>1, <1>3 DEF LogPart!SeenAt
<1>10. /\ LogPart!Filtered(filter) \in SUBSET Nat /\ IsFiniteSet(LogPart!Filtered(filter))
       /\ LogPart!Filtered(filter) \in SUBSET (1..Len(conversations))
       /\ \A k : Seen(k) \in SUBSET (1..Len(conversations)) /\ IsFiniteSet(Seen(k))
  <2>1. LogPart!Filtered(filter) \in SUBSET LogPart!Filtered(filter)
    OBVIOUS
  <2> HIDE DEF Seen, filter
  <2> QED
    BY <1>3, <1>9, <2>1, FilteredThere
<1>11. \A f : LogPart!Filtered(f)' = LogPart!Filtered(f)
  BY <1>2 DEF LogPart!Filtered
<1>12. (p - 1) * LogPageSize \in Nat /\ p * LogPageSize \in Nat
  BY <1>3
<1> HIDE DEF p, since, Seen
<1>13. StillAhead'
  <2> SUFFICES ASSUME due' # {LogPart!NotCounted} PROVE StillAhead'
    BY DEF StillAhead
  <2> DEFINE U == due' \ met'
             many == p * LogPageSize
  <2>1. Behind(U, Seen(n), (p - 1) * LogPageSize)
    BY <1>8, <1>9, <1>10, <1>12, StillBehind
  <2>2. \A id \in U : id \in Seen(n) \ LogPart!Displayed(logTab'.rows, "")
    BY <1>8, <1>9
  <2>3. Behind(U, Seen(n), many)
    <3> HIDE DEF U
    <3> QED
      BY <1>4, <2>1, <2>2 DEF Behind
  <2>4. U \in SUBSET Seen(n) /\ due' \subseteq LogPart!Filtered(filter)
    BY <1>8, <1>9
  <2>5. many \in Nat
    BY <1>12
  <2> HIDE DEF U
  <2>6. Behind(U, LogPart!Filtered(filter), many)
    BY <1>9, <1>10, <2>3, <2>5, StillBehind
  <2>7. logTab'.page >= logTab'.totalPages => Cardinality(U) <= Cardinality(uncounted')
    <3> SUFFICES ASSUME p >= logTab'.totalPages PROVE Cardinality(U) <= Cardinality(uncounted')
      BY <1>4
    <3>1. Cardinality(Seen(m)) <= many
      BY <1>4
    <3>2. uncounted' = Seen(n) \ Seen(m)
      BY <1>5
    <3> HIDE DEF many
    <3>3. Cardinality(U) <= Cardinality(Seen(n) \ Seen(m))
      BY <1>3, <1>10, <2>3, <2>4, <2>5, <3>1, UnmetAreLate
    <3> QED
      BY <3>2, <3>3
  <2> HIDE DEF filter
  <2>8. LogPart!Filtered(logTab.filter)' = LogPart!Filtered(filter)
    <3>1. LogPart!Filtered(logTab.filter)' = LogPart!Filtered(logTab'.filter)
      BY <1>2 DEF LogPart!Filtered
    <3> QED
      BY <1>4, <3>1
  <2>9. Behind(due \ met, LogPart!Filtered(logTab.filter), logTab.page * LogPageSize)'
    BY <1>4, <2>6, <2>8 DEF Behind, U, many
  <2> QED
    BY <1>4, <1>8, <2>4, <2>7, <2>8, <2>9, Zenon DEF StillAhead, U
<1> QED
  BY <1>6, <1>7, <1>13 DEF LogInv

(* Every step of the log keeps what is to be met in front of the tab.      *)
LEMMA LogStep == ASSUME LogInv, [LogPart!LogNext]_logVars PROVE LogInv'
<1>i. /\ conversations \in Seq(LogPart!Conversation)
      /\ LogPageSize \in Nat \ {0} /\ MaxConversations \in Nat
  BY ChurchAssumption DEF LogInv, LogRows
<1>t. logTab.at = "shown" => /\ logTab.page \in Nat \ {0}
                             /\ logTab.filter \in ChatWidgets \cup {"all"}
  BY DEF LogInv, LogRows
<1>1. CASE LogPart!StartConversation
  <2>1. PICK w \in ChatWidgets, text \in Previews :
          conversations' = Append(conversations,
                                  [widget |-> w, lastMessage |-> text, lastAt |-> turns + 1])
    BY <1>1 DEF LogPart!StartConversation
  <2>2. turns' \in 0..MaxTurns /\ turns + 1 \in 1..MaxTurns /\ UNCHANGED <<logTab, logAsked, query, due, met, uncounted>>
    BY <1>1, ChurchAssumption DEF LogPart!StartConversation, LogInv, LogRows
  <2> DEFINE c == [widget |-> w, lastMessage |-> text, lastAt |-> turns + 1]
  <2>3. c \in LogPart!Conversation
    BY <2>2 DEF LogPart!Conversation
  <2>4. conversations' = Append(conversations, c)
    BY <2>1
  <2> HIDE DEF c
  <2>5. /\ conversations' \in Seq(LogPart!Conversation)
        /\ \A id \in DOMAIN conversations :
             id \in DOMAIN conversations' /\ conversations'[id] = conversations[id]
    BY <1>i, <2>3, <2>4
  <2> QED
    BY <2>2, <2>5, LogGrows
<1>2. CASE LogPart!AppendToConversation
  <2>1. PICK id \in DOMAIN conversations, text \in Previews :
          conversations' = [conversations EXCEPT ![id].lastMessage = text,
                                                 ![id].lastAt = turns + 1]
    BY <1>2 DEF LogPart!AppendToConversation
  <2>2. turns' \in 0..MaxTurns /\ turns + 1 \in 1..MaxTurns /\ UNCHANGED <<logTab, logAsked, query, due, met, uncounted>>
    BY <1>2, ChurchAssumption DEF LogPart!AppendToConversation, LogInv, LogRows
  <2>3. DOMAIN conversations' = DOMAIN conversations /\ DOMAIN conversations = 1..Len(conversations)
    BY <1>i, <2>1
  <2>4. ASSUME NEW n \in DOMAIN conversations
        PROVE  /\ conversations'[n] \in LogPart!Conversation
               /\ conversations'[n].widget = conversations[n].widget
    <3>1. conversations[n] \in LogPart!Conversation
      BY <1>i
    <3>2. CASE n = id
      <4>1. conversations'[n] = [conversations[n] EXCEPT !.lastMessage = text,
                                                         !.lastAt = turns + 1]
        BY <2>1, <3>2
      <4> QED
        BY <2>2, <3>1, <4>1 DEF LogPart!Conversation
    <3>3. CASE n # id
      BY <2>1, <3>1, <3>3
    <3> QED
      BY <3>2, <3>3
  <2>5. conversations' \in Seq(LogPart!Conversation)
    <3> DEFINE c == [conversations[id] EXCEPT !.lastMessage = text, !.lastAt = turns + 1]
    <3>1. conversations' = [conversations EXCEPT ![id] = c]
      BY <2>1
    <3>2. c \in LogPart!Conversation
      BY <2>1, <2>3, <2>4, <3>1
    <3> HIDE DEF c
    <3> QED
      BY <1>i, <2>3, <3>1, <3>2
  <2> QED
    BY <2>2, <2>3, <2>4, <2>5, LogGrows
<1>3. CASE LogPart!OpenLog
  <2>1. PICK p \in 1..MaxConversations, filter \in ChatWidgets \cup {"all"} :
          LogPart!AskFor("anew", filter, p)
    BY <1>3, Zenon DEF LogPart!OpenLog
  <2>2. p \in Nat \ {0}
    BY <1>i
  <2> QED
    BY <2>1, <2>2, LogAsks
<1>4. CASE LogPart!FilterByWidget
  <2>1. PICK filter \in ChatWidgets \cup {"all"} : LogPart!AskFor("anew", filter, 1)
    BY <1>4, Zenon DEF LogPart!FilterByWidget
  <2> QED
    BY <2>1, LogAsks
<1>5. CASE LogPart!NextPage
  <2>1. logTab.at = "shown" /\ LogPart!AskFor("next", logTab.filter, logTab.page + 1)
    BY <1>5, Zenon DEF LogPart!NextPage
  <2>2. logTab.page + 1 \in Nat \ {0} /\ (logTab.page + 1) - 1 = logTab.page
    BY <1>t, <2>1
  <2> QED
    BY <1>t, <2>1, <2>2, LogAsks
<1>6. CASE LogPart!Previous
  <2>1. /\ logTab.at = "shown" /\ logTab.page > 1
        /\ LogPart!AskFor("previous", logTab.filter, logTab.page - 1)
    BY <1>6, Zenon DEF LogPart!Previous
  <2>2. logTab.page - 1 \in Nat \ {0}
    BY <1>t, <2>1
  <2> QED
    BY <1>t, <2>1, <2>2, LogAsks
<1>7. CASE LogPart!TypeQuery
  <2>1. /\ UNCHANGED <<conversations, turns, logTab, logAsked>>
        /\ query' = "" => UNCHANGED <<due, met, uncounted>>
        /\ query' # "" => due' = {LogPart!NotCounted}
    BY <1>7 DEF LogPart!TypeQuery
  <2>2. LogRows'
    BY <2>1 DEF LogInv, LogRows
  <2>3. CASE query' = ""
    BY <2>1, <2>2, <2>3 DEF LogInv, StillAhead, NextAhead, Behind, LogPart!Filtered, LogPart!SeenAt
  <2>4. CASE query' # ""
    BY <2>1, <2>2, <2>4 DEF LogInv, StillAhead, NextAhead
  <2> QED
    BY <2>3, <2>4
<1>8. CASE LogPart!RenderLog
  BY <1>8, LogRendered
<1>9. CASE UNCHANGED logVars
  BY <1>9 DEF logVars, LogInv, LogRows, StillAhead, NextAhead, Behind, LogPart!Filtered,
     LogPart!SeenAt
<1> QED
  BY <1>1, <1>2, <1>3, <1>4, <1>5, <1>6, <1>7, <1>8, <1>9 DEF LogPart!LogNext

(* Whoever opens the log and goes on to its end meets every conversation   *)
(* that was there, but as many as came between the last page's count and   *)
(* its rows.                                                               *)
THEOREM NoneIsPassedOver == Spec => []PagingMeetsAll
<1>1. Init => LogInv
  <2> SUFFICES ASSUME Init PROVE LogInv
    OBVIOUS
  <2>1. /\ conversations = << >> /\ turns = 0 /\ logTab = LogPart!NoTab
        /\ logAsked = LogPart!NoPage /\ due = {LogPart!NotCounted}
    BY DEF Init, LogPart!LogInit
  <2>2. logTab.at # "shown"
    BY <2>1 DEF LogPart!NoTab
  <2>3. conversations \in Seq(LogPart!Conversation) /\ turns \in 0..MaxTurns
    BY <2>1, ChurchAssumption
  <2> QED
    BY <2>1, <2>2, <2>3, Zenon DEF LogInv, LogRows, StillAhead, NextAhead
<1>2. LogInv /\ [Next]_vars => LogInv'
  <2> SUFFICES ASSUME LogInv, [Next]_vars PROVE LogInv'
    OBVIOUS
  <2>1. [LogPart!LogNext]_logVars
    BY DEF Next, vars, OnTeam, OnUsage, OnRate, OnList, OnWall, OnSetup, InSetup, OnForms,
       OnDocuments, OnAccounts, OnDesk, OnInsights, OnLog, OnListing, OnPanels, OnTypes
  <2> QED
    BY <2>1, LogStep
<1>3. LogInv => PagingMeetsAll
  BY SameLogCount DEF LogInv, StillAhead, PagingMeetsAll, LogPart!PagingMeetsAll
<1> QED
  BY <1>1, <1>2, <1>3, PTL DEF Spec

-----------------------------------------------------------------------------
(* Insights: questions and replies are paired by the time they came at,    *)
(* and where questions waited for replies that is how they were made.      *)

ChatsLogged ==
  /\ log \in Seq(InsightsPart!Message)
  /\ today \in 0..LastDay /\ catalogue \subseteq Recommendable

(* A reply has one question, and a question has one reply at most: after   *)
(* it, in its conversation, and nothing else is under way for it then.     *)
RepliesAnswer ==
  /\ answering \subseteq InsightsPart!Asked(log)
  /\ DOMAIN answers = InsightsPart!Replied(log)
  /\ \A r \in DOMAIN answers :
       /\ answers[r] \in InsightsPart!Asked(log) /\ answers[r] < r
       /\ answers[r] \notin answering
       /\ log[answers[r]].conversation = log[r].conversation
       /\ \A other \in DOMAIN answers : answers[other] = answers[r] => other = r

(* Between two questions of an orderly conversation there is the reply to  *)
(* the first.                                                              *)
RepliesBetween ==
  \A q1, q2 \in InsightsPart!Asked(log) :
    /\ q1 < q2 /\ log[q1].conversation = log[q2].conversation
    /\ log[q1].conversation \notin tangled
    => \E r \in DOMAIN answers : answers[r] = q1 /\ r < q2

(* The replies that found nothing.                                         *)
Unanswered == {r \in InsightsPart!Replied(log) : log[r].type = "NO_RESULTS"}

(* The page was asked for with a part of the log that is still there.      *)
FirstRead ==
  load.at = "read" => load.from \in Nat \ {0} /\ load.upTo \in 0..Len(log)

InsightsInv == ChatsLogged /\ RepliesAnswer /\ RepliesBetween /\ FirstRead /\ PairedRightly

(* What the instance counts.                                               *)
LEMMA SameInsightsCount == \A S : InsightsPart!Cardinality(S) = Cardinality(S)
  BY DEF InsightsPart!Cardinality, Cardinality

(* What there was in the log is there after one message more.              *)
LEMMA OneMessageMore ==
  ASSUME ChatsLogged, FirstRead, NEW m \in InsightsPart!Message, log' = Append(log, m),
         UNCHANGED <<today, catalogue, load>>
  PROVE  LET n == Len(log) + 1
         IN  /\ Len(log) \in Nat /\ DOMAIN log = 1..Len(log) /\ DOMAIN log' = 1..n
             /\ log'[n] = m /\ n \notin DOMAIN log /\ \A i \in DOMAIN log : log'[i] = log[i]
             /\ \A i \in DOMAIN log : i < n
             /\ ChatsLogged' /\ FirstRead'
<1> DEFINE n == Len(log) + 1
<1>1. /\ Len(log) \in Nat /\ DOMAIN log = 1..Len(log) /\ DOMAIN log' = 1..n /\ Len(log') = n
      /\ log'[n] = m /\ n \notin DOMAIN log /\ \A i \in DOMAIN log : log'[i] = log[i]
      /\ \A i \in DOMAIN log : i < n
  BY DEF ChatsLogged
<1>2. ChatsLogged'
  BY DEF ChatsLogged
<1>3. FirstRead'
  BY <1>1 DEF FirstRead
<1> QED
  BY <1>1, <1>2, <1>3

(* A question that comes.                                                  *)
LEMMA QuestionComes ==
  ASSUME InsightsInv, NEW c \in Conversations, InsightsPart!Ask(c)
  PROVE  InsightsInv'
<1> DEFINE n == Len(log) + 1
<1>1. PICK text \in Questions :
        log' = Append(log, [role |-> "USER", conversation |-> c, day |-> today, text |-> text])
  BY DEF InsightsPart!Ask, InsightsPart!AppendMessage
<1> DEFINE m == [role |-> "USER", conversation |-> c, day |-> today, text |-> text]
<1>2. m \in InsightsPart!Message
  BY DEF InsightsPart!Message, InsightsInv, ChatsLogged
<1>3. /\ log' = Append(log, m) /\ answering' = answering \cup {n}
      /\ tangled' = IF \E q \in InsightsPart!Asked(log) \cap InsightsPart!Of(log, c) :
                         \A r \in DOMAIN answers : answers[r] # q
                    THEN tangled \cup {c} ELSE tangled
      /\ UNCHANGED <<today, catalogue, load, answers>> /\ insights' = InsightsPart!NoPage
  BY <1>1 DEF InsightsPart!Ask, InsightsPart!Unrendered
<1>4. m.role = "USER" /\ m.conversation = c
  OBVIOUS
<1> HIDE DEF m
<1>5. /\ Len(log) \in Nat /\ DOMAIN log = 1..Len(log) /\ DOMAIN log' = 1..n
      /\ log'[n] = m /\ n \notin DOMAIN log /\ \A i \in DOMAIN log : log'[i] = log[i]
      /\ \A i \in DOMAIN log : i < n
      /\ ChatsLogged' /\ FirstRead'
  BY <1>2, <1>3, OneMessageMore DEF InsightsInv
<1>6. /\ InsightsPart!Asked(log)' = InsightsPart!Asked(log) \cup {n}
      /\ InsightsPart!Replied(log)' = InsightsPart!Replied(log)
      /\ InsightsPart!Asked(log) \subseteq DOMAIN log /\ InsightsPart!Replied(log) \subseteq DOMAIN log
  BY <1>4, <1>5 DEF InsightsPart!Asked, InsightsPart!Replied
<1>n. n \in Nat
  BY <1>5
<1> HIDE DEF n
<1>7. RepliesAnswer'
  BY <1>3, <1>5, <1>6 DEF InsightsInv, RepliesAnswer
<1>8. RepliesBetween'
  <2> SUFFICES ASSUME NEW q1 \in InsightsPart!Asked(log)', NEW q2 \in InsightsPart!Asked(log)',
                      q1 < q2, log'[q1].conversation = log'[q2].conversation,
                      log'[q1].conversation \notin tangled'
      PROVE  \E r \in DOMAIN answers : answers[r] = q1 /\ r < q2
    BY <1>3 DEF RepliesBetween
  <2>1. q1 \in InsightsPart!Asked(log) /\ log'[q1] = log[q1]
    BY <1>n, <1>5, <1>6
  <2>2. CASE q2 = n
    <3>1. log[q1].conversation = c
      BY <1>4, <1>5, <2>1, <2>2
    <3>2. q1 \in InsightsPart!Of(log, c)
      BY <2>1, <3>1 DEF InsightsPart!Of, InsightsPart!Asked
    <3>3. c \notin tangled'
      BY <2>1, <3>1
    <3>4. \E r \in DOMAIN answers : answers[r] = q1
      BY <1>3, <2>1, <3>2, <3>3
    <3> QED
      BY <1>5, <1>6, <2>2, <3>4 DEF InsightsInv, RepliesAnswer
  <2>3. CASE q2 # n
    <3>1. q2 \in InsightsPart!Asked(log) /\ log'[q2] = log[q2]
      BY <1>5, <1>6, <2>3
    <3>2. log[q1].conversation \notin tangled
      BY <1>3, <2>1
    <3> QED
      BY <2>1, <3>1, <3>2 DEF InsightsInv, RepliesBetween
  <2> QED
    BY <2>2, <2>3
<1>9. PairedRightly'
  BY <1>3 DEF PairedRightly, InsightsPart!PairedRightly, InsightsPart!NoPage
<1> QED
  BY <1>5, <1>7, <1>8, <1>9 DEF InsightsInv

(* A reply that comes.                                                     *)
LEMMA ReplyComes ==
  ASSUME InsightsInv, NEW q \in answering, InsightsPart!Reply(q)
  PROVE  InsightsInv'
<1> DEFINE n == Len(log) + 1
           c == log[q].conversation
<1>1. PICK type \in InsightsPart!Types, recommended \in SUBSET catalogue :
        log' = Append(log, [role |-> "ASSISTANT", conversation |-> c,
                            day |-> today, type |-> type, recommended |-> recommended])
  BY DEF InsightsPart!Reply, InsightsPart!AppendMessage
<1> DEFINE m == [role |-> "ASSISTANT", conversation |-> c,
                 day |-> today, type |-> type, recommended |-> recommended]
<1>0. q \in InsightsPart!Asked(log) /\ q \in DOMAIN log /\ c \in Conversations
  <2>1. q \in InsightsPart!Asked(log) /\ q \in DOMAIN log
    BY DEF InsightsInv, RepliesAnswer, InsightsPart!Asked
  <2>2. log[q] \in InsightsPart!Message
    BY <2>1 DEF InsightsInv, ChatsLogged
  <2> QED
    BY <2>1, <2>2 DEF InsightsPart!Message
<1> HIDE DEF c
<1>2. m \in InsightsPart!Message
  BY <1>0 DEF InsightsPart!Message, InsightsInv, ChatsLogged
<1>3. /\ log' = Append(log, m) /\ answering' = answering \ {q}
      /\ answers' = [r \in DOMAIN answers \cup {n} |-> IF r \in DOMAIN answers THEN answers[r] ELSE q]
      /\ UNCHANGED <<today, catalogue, load, tangled>> /\ insights' = InsightsPart!NoPage
  BY <1>1 DEF InsightsPart!Reply, InsightsPart!Unrendered
<1>4. m.role = "ASSISTANT" /\ m.conversation = c
  OBVIOUS
<1> HIDE DEF m
<1>5. /\ Len(log) \in Nat /\ DOMAIN log = 1..Len(log) /\ DOMAIN log' = 1..n
      /\ log'[n] = m /\ n \notin DOMAIN log /\ \A i \in DOMAIN log : log'[i] = log[i]
      /\ \A i \in DOMAIN log : i < n
      /\ ChatsLogged' /\ FirstRead'
  BY <1>2, <1>3, OneMessageMore DEF InsightsInv
<1>6. /\ InsightsPart!Asked(log)' = InsightsPart!Asked(log)
      /\ InsightsPart!Replied(log)' = InsightsPart!Replied(log) \cup {n}
      /\ InsightsPart!Asked(log) \subseteq DOMAIN log /\ InsightsPart!Replied(log) \subseteq DOMAIN log
  BY <1>4, <1>5 DEF InsightsPart!Asked, InsightsPart!Replied
<1> HIDE DEF n
<1>a. /\ DOMAIN answers' = DOMAIN answers \cup {n} /\ answers'[n] = q /\ n \notin DOMAIN answers
      /\ \A r \in DOMAIN answers : answers'[r] = answers[r]
  BY <1>3, <1>5, <1>6 DEF InsightsInv, RepliesAnswer
<1>7. RepliesAnswer'
  <2>1. answering' \subseteq InsightsPart!Asked(log)' /\ DOMAIN answers' = InsightsPart!Replied(log)'
    BY <1>3, <1>6, <1>a DEF InsightsInv, RepliesAnswer
  <2>2. ASSUME NEW r \in DOMAIN answers'
        PROVE  /\ answers'[r] \in InsightsPart!Asked(log)' /\ answers'[r] < r
               /\ answers'[r] \notin answering'
               /\ log'[answers'[r]].conversation = log'[r].conversation
               /\ \A other \in DOMAIN answers' : answers'[other] = answers'[r] => other = r
    <3>1. CASE r = n
      <4>1. answers'[r] = q /\ q \in InsightsPart!Asked(log)' /\ q < r /\ q \notin answering'
        BY <1>0, <1>3, <1>5, <1>6, <1>a, <3>1
      <4>2. log'[q].conversation = log'[r].conversation
        BY <1>0, <1>4, <1>5, <3>1 DEF c
      <4>3. \A other \in DOMAIN answers : answers[other] # q
        BY DEF InsightsInv, RepliesAnswer
      <4>4. \A other \in DOMAIN answers' : answers'[other] = q => other = r
        BY <1>a, <3>1, <4>3
      <4> QED
        BY <4>1, <4>2, <4>4
    <3>2. CASE r \in DOMAIN answers
      BY <1>0, <1>3, <1>5, <1>6, <1>a, <3>2 DEF InsightsInv, RepliesAnswer
    <3> QED
      BY <1>a, <3>1, <3>2
  <2> QED
    BY <2>1, <2>2 DEF RepliesAnswer
<1>8. RepliesBetween'
  <2> SUFFICES ASSUME NEW q1 \in InsightsPart!Asked(log), NEW q2 \in InsightsPart!Asked(log),
                      q1 < q2, log'[q1].conversation = log'[q2].conversation,
                      log'[q1].conversation \notin tangled
      PROVE  \E r \in DOMAIN answers' : answers'[r] = q1 /\ r < q2
    BY <1>3, <1>6 DEF RepliesBetween
  <2>1. log'[q1] = log[q1] /\ log'[q2] = log[q2]
    BY <1>5, <1>6
  <2> QED
    BY <1>a, <2>1 DEF InsightsInv, RepliesBetween
<1>9. PairedRightly'
  BY <1>3 DEF PairedRightly, InsightsPart!PairedRightly, InsightsPart!NoPage
<1> QED
  BY <1>5, <1>7, <1>8, <1>9 DEF InsightsInv

(* The earliest place of a set.                                            *)
LEMMA EarliestPlace ==
  ASSUME NEW S \in SUBSET Nat, NEW r \in S, \A other \in S : r <= other
  PROVE  InsightsPart!Min(S) = r
<1> DEFINE best == CHOOSE x \in S : \A y \in S : x <= y
<1>1. best \in S /\ \A y \in S : best <= y
  OBVIOUS
<1> HIDE DEF best
<1>2. best = r
  BY <1>1
<1> QED
  BY <1>2 DEF InsightsPart!Min, best

(* And the latest.                                                         *)
LEMMA LatestPlace ==
  ASSUME NEW S \in SUBSET Nat, NEW q \in S, \A other \in S : q >= other
  PROVE  InsightsPart!Max(S) = q
<1> DEFINE best == CHOOSE x \in S : \A y \in S : x >= y
<1>1. best \in S /\ \A y \in S : best >= y
  OBVIOUS
<1> HIDE DEF best
<1>2. best = q
  BY <1>1
<1> QED
  BY <1>2 DEF InsightsPart!Max, best

(* What a statement sees is the log up to its moment.                      *)
LEMMA SeenUpTo ==
  ASSUME ChatsLogged, NEW n \in 0..Len(log)
  PROVE  /\ \A i \in 1..n : i \in DOMAIN log /\ InsightsPart!SeenAt(n)[i] = log[i]
         /\ InsightsPart!Asked(InsightsPart!SeenAt(n)) = InsightsPart!Asked(log) \cap (1..n)
         /\ InsightsPart!Replied(InsightsPart!SeenAt(n)) = InsightsPart!Replied(log) \cap (1..n)
         /\ \A c : InsightsPart!Of(InsightsPart!SeenAt(n), c) = InsightsPart!Of(log, c) \cap (1..n)
<1>1. Len(log) \in Nat /\ DOMAIN log = 1..Len(log) /\ n \in Nat /\ 1..n \subseteq 1..Len(log)
  BY DEF ChatsLogged
<1> DEFINE visible == InsightsPart!SeenAt(n)
<1>2. DOMAIN visible = 1..n /\ \A i \in 1..n : visible[i] = log[i]
  <2>1. visible = SubSeq(log, 1, n)
    BY DEF InsightsPart!SeenAt
  <2> HIDE DEF visible
  <2> QED
    BY <1>1, <2>1 DEF ChatsLogged
<1> HIDE DEF visible
<1>3. /\ InsightsPart!Asked(visible) = InsightsPart!Asked(log) \cap (1..n)
      /\ InsightsPart!Replied(visible) = InsightsPart!Replied(log) \cap (1..n)
  BY <1>1, <1>2 DEF InsightsPart!Asked, InsightsPart!Replied
<1>4. \A c : InsightsPart!Of(visible, c) = InsightsPart!Of(log, c) \cap (1..n)
  BY <1>1, <1>2 DEF InsightsPart!Of
<1> QED
  BY <1>1, <1>2, <1>3, <1>4 DEF visible

(* In an orderly conversation the earliest reply behind a question is its  *)
(* own, whatever of the log is seen with the question.                    *)
LEMMA EarliestIsOwn ==
  ASSUME ChatsLogged, RepliesAnswer, RepliesBetween, NEW n \in 0..Len(log),
         NEW q \in InsightsPart!Asked(log), q <= n, log[q].conversation \notin tangled
  PROVE  /\ \A r \in DOMAIN answers : answers[r] = q /\ r <= n =>
                InsightsPart!EarliestReply(InsightsPart!SeenAt(n), q) = r
         /\ (\A r \in DOMAIN answers : r <= n => answers[r] # q) =>
                InsightsPart!EarliestReply(InsightsPart!SeenAt(n), q) = 0
<1> DEFINE R == {r \in InsightsPart!Replied(log) \cap InsightsPart!Of(log, log[q].conversation) :
                   r > q /\ r \in 1..n}
           visible == InsightsPart!SeenAt(n)
           e == InsightsPart!EarliestReply(visible, q)
<1>1. /\ DOMAIN log \subseteq Nat \ {0} /\ InsightsPart!Asked(log) \subseteq DOMAIN log
      /\ InsightsPart!Replied(log) \subseteq DOMAIN log /\ R \subseteq DOMAIN log
      /\ n \in Nat /\ q \in 1..n
  BY DEF ChatsLogged, InsightsPart!Asked, InsightsPart!Replied
<1>2. e = IF R = {} THEN 0 ELSE InsightsPart!Min(R)
  <2>1. visible[q] = log[q]
    BY <1>1, SeenUpTo
  <2>2. R = {r \in InsightsPart!Replied(visible) \cap InsightsPart!Of(visible, visible[q].conversation) : r > q}
    <3>1. /\ InsightsPart!Replied(visible) = InsightsPart!Replied(log) \cap (1..n)
          /\ InsightsPart!Of(visible, log[q].conversation) =
               InsightsPart!Of(log, log[q].conversation) \cap (1..n)
      BY SeenUpTo
    <3> QED
      BY <2>1, <3>1
  <2> HIDE DEF R, visible
  <2> QED
    BY <2>2, Zenon DEF InsightsPart!EarliestReply
<1> HIDE DEF e
<1>3. ASSUME NEW r \in R
      PROVE  /\ r \in DOMAIN answers
             /\ answers[r] # q => \E own \in DOMAIN answers : answers[own] = q /\ own < r
  <2>1. /\ r \in DOMAIN answers /\ answers[r] \in InsightsPart!Asked(log) /\ answers[r] < r
        /\ log[answers[r]].conversation = log[r].conversation /\ r > q
        /\ log[r].conversation = log[q].conversation
    BY DEF RepliesAnswer, InsightsPart!Of
  <2>2. ASSUME answers[r] < q PROVE FALSE
    <3>1. PICK own \in DOMAIN answers : answers[own] = answers[r] /\ own < q
      BY <2>1, <2>2 DEF RepliesBetween
    <3>2. own = r
      BY <2>1, <3>1 DEF RepliesAnswer
    <3> QED
      BY <1>1, <2>1, <3>1, <3>2
  <2>3. ASSUME answers[r] > q PROVE \E own \in DOMAIN answers : answers[own] = q /\ own < r
    <3>1. PICK own \in DOMAIN answers : answers[own] = q /\ own < answers[r]
      BY <2>1, <2>3 DEF RepliesBetween
    <3>2. own \in DOMAIN log
      BY <1>1, <3>1 DEF RepliesAnswer
    <3> QED
      BY <1>1, <2>1, <3>1, <3>2
  <2> QED
    BY <1>1, <2>1, <2>2, <2>3
<1>4. ASSUME NEW r \in DOMAIN answers, answers[r] = q, r <= n
      PROVE  e = r
  <2>1. r \in R
    BY <1>1, <1>4 DEF RepliesAnswer, InsightsPart!Of
  <2>2. ASSUME NEW other \in R PROVE r <= other
    <3>1. CASE answers[other] = q
      BY <1>1, <1>3, <1>4, <2>1, <3>1 DEF RepliesAnswer
    <3>2. CASE answers[other] # q
      <4>1. PICK own \in DOMAIN answers : answers[own] = q /\ own < other
        BY <1>3, <3>2
      <4>2. own = r
        BY <1>4, <4>1 DEF RepliesAnswer
      <4> QED
        BY <1>1, <2>1, <4>1, <4>2
    <3> QED
      BY <3>1, <3>2
  <2>3. R \in SUBSET Nat /\ R # {}
    BY <1>1, <2>1
  <2> HIDE DEF R
  <2>4. InsightsPart!Min(R) = r
    BY <2>1, <2>2, <2>3, EarliestPlace
  <2> QED
    BY <1>2, <2>3, <2>4
<1>5. ASSUME \A r \in DOMAIN answers : r <= n => answers[r] # q
      PROVE  e = 0
  <2>1. R = {}
    BY <1>1, <1>3, <1>5
  <2> HIDE DEF R
  <2> QED
    BY <1>2, <2>1
<1> QED
  BY <1>4, <1>5 DEF e

(* In an orderly conversation the last question before a reply is the one  *)
(* it was made for.                                                        *)
LEMMA LatestIsAnswered ==
  ASSUME ChatsLogged, RepliesAnswer, RepliesBetween, NEW n \in 0..Len(log),
         NEW r \in InsightsPart!Replied(log), r <= n, log[answers[r]].conversation \notin tangled
  PROVE  LET visible == InsightsPart!SeenAt(n)
         IN  InsightsPart!Max({q \in InsightsPart!Asked(visible)
                                  \cap InsightsPart!Of(visible, visible[r].conversation) : q < r}) = answers[r]
<1> DEFINE Q == {q \in InsightsPart!Asked(log)
                         \cap InsightsPart!Of(log, log[r].conversation) : q < r}
<1>1. /\ DOMAIN log \subseteq Nat /\ InsightsPart!Asked(log) \subseteq DOMAIN log
      /\ InsightsPart!Replied(log) \subseteq DOMAIN log
  BY DEF ChatsLogged, InsightsPart!Asked, InsightsPart!Replied
<1>2. /\ r \in DOMAIN answers /\ answers[r] \in InsightsPart!Asked(log) /\ answers[r] < r
      /\ log[answers[r]].conversation = log[r].conversation
  BY DEF RepliesAnswer
<1>3. answers[r] \in Q
  BY <1>1, <1>2 DEF InsightsPart!Of
<1>4. ASSUME NEW other \in Q PROVE answers[r] >= other
  <2>1. other \in InsightsPart!Asked(log) /\ other < r
        /\ log[other].conversation = log[r].conversation
    BY DEF InsightsPart!Of
  <2>2. ASSUME answers[r] < other PROVE FALSE
    <3>1. PICK own \in DOMAIN answers : answers[own] = answers[r] /\ own < other
      BY <1>2, <2>1, <2>2 DEF RepliesBetween
    <3>2. own = r
      BY <1>2, <3>1 DEF RepliesAnswer
    <3> QED
      BY <1>1, <2>1, <3>1, <3>2
  <2> QED
    BY <1>1, <1>2, <2>1, <2>2
<1>5. Q \in SUBSET Nat
  BY <1>1
<1> DEFINE visible == InsightsPart!SeenAt(n)
<1>6. Q = {q \in InsightsPart!Asked(visible) \cap InsightsPart!Of(visible, visible[r].conversation) : q < r}
  <2>1. n \in Nat /\ r \in 1..n /\ visible[r] = log[r]
    <3>1. Len(log) \in Nat /\ DOMAIN log = 1..Len(log)
      BY DEF ChatsLogged
    <3>2. n \in Nat /\ r \in 1..n
      BY <1>1, <3>1
    <3> QED
      BY <3>2, SeenUpTo
  <2>2. /\ InsightsPart!Asked(visible) = InsightsPart!Asked(log) \cap (1..n)
        /\ InsightsPart!Of(visible, log[r].conversation) =
             InsightsPart!Of(log, log[r].conversation) \cap (1..n)
    BY SeenUpTo
  <2>3. \A q \in Q : q \in DOMAIN log /\ q \in 1..n
    <3>1. \A q \in Q : q \in Nat /\ q < r /\ q \in DOMAIN log
      BY <1>1
    <3>2. DOMAIN log = 1..Len(log) /\ Len(log) \in Nat
      BY DEF ChatsLogged
    <3> QED
      BY <2>1, <3>1, <3>2
  <2> HIDE DEF visible
  <2> QED
    BY <2>1, <2>2, <2>3
<1> HIDE DEF Q
<1>7. InsightsPart!Max(Q) = answers[r]
  BY <1>3, <1>4, <1>5, LatestPlace
<1> QED
  BY <1>6, <1>7

(* The page is asked for.                                                  *)
LEMMA PageStarts == ASSUME InsightsInv, InsightsPart!StartPage PROVE InsightsInv'
<1>1. PICK from \in 1..(Len(log) + 1) :
        load' = [at |-> "read", from |-> from, upTo |-> Len(log), day |-> today,
                 existing |-> catalogue]
  BY Zenon DEF InsightsPart!StartPage
<1>2. /\ UNCHANGED <<log, answering, today, catalogue, answers, tangled>>
      /\ insights' = InsightsPart!NoPage
  BY DEF InsightsPart!StartPage, InsightsPart!Unrendered
<1>3. Len(log) \in Nat
  BY DEF InsightsInv, ChatsLogged
<1>4. FirstRead'
  BY <1>1, <1>2, <1>3 DEF FirstRead
<1>5. PairedRightly'
  BY <1>2 DEF PairedRightly, InsightsPart!PairedRightly, InsightsPart!NoPage
<1>6. ChatsLogged' /\ RepliesAnswer' /\ RepliesBetween'
  BY <1>2 DEF InsightsInv, ChatsLogged, RepliesAnswer, RepliesBetween, InsightsPart!Asked,
     InsightsPart!Replied
<1> QED
  BY <1>4, <1>5, <1>6 DEF InsightsInv

(* No more replies than questions up to the same moment, where each reply *)
(* has a question of its own in the window.                                *)
LEMMA QuestionsOfReplies ==
  ASSUME ChatsLogged, RepliesAnswer, NEW from \in Nat \ {0}, NEW n \in 0..Len(log), NEW m \in 0..Len(log),
         \A r \in DOMAIN answers : r >= from => answers[r] >= from
  PROVE  InsightsPart!NoResultCount(m, from, Conversations) <=
           InsightsPart!TotalQuestions(n, from, Conversations)
             + Cardinality({q \in InsightsPart!Asked(log) : q > n /\ q <= m})
<1> DEFINE A == InsightsPart!Asked(log)
           R == {i \in from..m : i \in Unanswered}
           Q == {i \in from..n : i \in A}
           N == {q \in A : q > n /\ q <= m}
           f == [r \in R |-> answers[r]]
<1>1. /\ m \in Nat /\ n \in Nat /\ IsFiniteSet(from..n) /\ IsFiniteSet(1..m)
      /\ Len(log) \in Nat /\ DOMAIN log = 1..Len(log)
  BY FS_Interval DEF ChatsLogged
<1>2. IsFiniteSet(Q) /\ IsFiniteSet(N) /\ IsFiniteSet(Q \cup N)
  <2>1. Q \in SUBSET (from..n)
    OBVIOUS
  <2>2. N \in SUBSET (1..m)
    BY <1>1 DEF InsightsPart!Asked
  <2>3. IsFiniteSet(Q) /\ IsFiniteSet(N)
    BY <1>1, <2>1, <2>2, FS_Subset
  <2> QED
    BY <2>3, FS_Union
<1>3. \A r \in R : r \in DOMAIN answers /\ r \in from..m
  BY DEF Unanswered, RepliesAnswer
<1>4. \A r \in DOMAIN answers : answers[r] \in Nat /\ answers[r] < r /\ answers[r] \in A
  BY DEF RepliesAnswer, ChatsLogged, InsightsPart!Asked
<1>5. \A r \in R : answers[r] \in Q \cup N
  <2> TAKE r \in R
  <2>1. r \in DOMAIN answers /\ r \in Nat /\ r >= from /\ r <= m
    BY <1>1, <1>3
  <2>2. answers[r] \in from..m /\ answers[r] \in A
    BY <1>1, <1>4, <2>1
  <2> HIDE DEF A
  <2> QED
    BY <1>1, <2>2
<1>6. \A r1, r2 \in R : answers[r1] = answers[r2] => r1 = r2
  BY <1>3 DEF RepliesAnswer
<1>7. \A i \in from..Len(log) : log[i].conversation \in Conversations
  <2>1. \A i \in DOMAIN log : log[i] \in InsightsPart!Message
    BY DEF ChatsLogged
  <2>2. \A i \in DOMAIN log : log[i].conversation \in Conversations
    BY <2>1 DEF InsightsPart!Message
  <2> QED
    BY <1>1, <2>2
<1>8. /\ InsightsPart!Among(n, from, Conversations) = from..n
      /\ InsightsPart!Among(m, from, Conversations) = from..m
  <2>1. from..n \subseteq from..Len(log) /\ from..m \subseteq from..Len(log)
    BY <1>1
  <2> QED
    BY <1>7, <2>1 DEF InsightsPart!Among
<1>9. /\ InsightsPart!TotalQuestions(n, from, Conversations) = Cardinality(Q)
      /\ InsightsPart!NoResultCount(m, from, Conversations) = Cardinality(R)
  <2>1. (from..n) \cap A = Q
        /\ {i \in (from..m) \cap InsightsPart!Replied(log) : log[i].type = "NO_RESULTS"} = R
    BY DEF Unanswered
  <2> QED
    BY <1>8, <2>1, SameInsightsCount, Zenon
       DEF InsightsPart!TotalQuestions, InsightsPart!NoResultCount
<1> HIDE DEF R, Q, N
<1>10. f \in Injection(R, Q \cup N)
  BY <1>5, <1>6 DEF Injection, IsInjective
<1>11. Cardinality(R) <= Cardinality(Q \cup N) /\ Cardinality(R) \in Nat
  BY <1>2, <1>10, FS_Injection, FS_CardinalityType
<1>12. /\ Cardinality(Q \cup N) = Cardinality(Q) + Cardinality(N) - Cardinality(Q \cap N)
       /\ Cardinality(Q) \in Nat /\ Cardinality(N) \in Nat /\ Cardinality(Q \cap N) \in Nat
  <2>1. IsFiniteSet(Q \cap N)
    BY <1>2, FS_Intersection
  <2> QED
    BY <1>2, <2>1, FS_Union, FS_CardinalityType
<1>13. Cardinality(R) <= Cardinality(Q) + Cardinality(N)
  BY <1>11, <1>12
<1> QED
  BY <1>9, <1>13 DEF N

(* A group is shown by one of its places.                                  *)
LEMMA LatestOfGroup ==
  ASSUME NEW places, NEW TextOf
  PROVE  \A g \in InsightsPart!GroupRepeatedText(places, TextOf) : g.latest \in places
<1> TAKE g \in InsightsPart!GroupRepeatedText(places, TextOf)
<1>1. PICK i \in places :
        g = [latest |-> i,
             count |-> InsightsPart!Cardinality({j \in places : TextOf[j] = TextOf[i]})]
  BY Zenon DEF InsightsPart!GroupRepeatedText
<1>2. g.latest = i
  BY <1>1
<1> QED
  BY <1>2

(* The outcomes beside the recent questions.                               *)
LEMMA OutcomesShown ==
  ASSUME ChatsLogged, RepliesAnswer, RepliesBetween, FirstRead, load.at = "read",
         NEW v \in InsightsPart!RecentQuestions
  PROVE  /\ v.panel = "recent"
         /\ \A g \in v.recent :
              LET q == g.latest
                  own == {r \in DOMAIN answers : answers[r] = q /\ r <= v.until}
              IN  log[q].conversation \notin tangled =>
                    v.outcomes[q] = IF own = {} THEN "pending"
                                    ELSE IF \E r \in own : log[r].type = "NO_RESULTS"
                                         THEN "no_match" ELSE "matched"
<1> DEFINE A == InsightsPart!Asked(log)
           Recent(n) == InsightsPart!Latest((load.from..n) \cap A, RecentLimit)
           Out(at) == InsightsPart!GetRecentQuestions(Recent(at[1]), InsightsPart!SeenAt(at[2]))
           Groups(at) == InsightsPart!GroupRepeatedText(DOMAIN Out(at),
                            [q \in DOMAIN Out(at) |-> log[q].text])
<1>1. PICK at \in InsightsPart!InTurn :
        v = [panel |-> "recent", until |-> at[2], outcomes |-> Out(at), recent |-> Groups(at)]
  BY Zenon DEF InsightsPart!RecentQuestions
<1>2. at[1] \in load.upTo..Len(log) /\ at[2] \in load.upTo..Len(log) /\ at[1] <= at[2]
  BY DEF InsightsPart!InTurn, InsightsPart!Moments
<1> DEFINE n == at[1]
           m == at[2]
           visible == InsightsPart!SeenAt(m)
           outcomes == Out(at)
<1>3. n \in Nat /\ m \in 0..Len(log) /\ n <= m /\ load.from \in Nat \ {0}
  BY <1>2 DEF FirstRead, ChatsLogged
<1>4. Recent(n) \subseteq (load.from..n) \cap A
  BY DEF InsightsPart!Latest
<1>5. DOMAIN outcomes = Recent(n)
      /\ \A q \in Recent(n) :
           LET e == InsightsPart!EarliestReply(visible, q)
           IN outcomes[q] = IF e = 0 THEN "pending"
                            ELSE IF visible[e].type = "NO_RESULTS" THEN "no_match" ELSE "matched"
  <2> HIDE DEF Recent
  <2> QED
    BY DEF InsightsPart!GetRecentQuestions
<1>6. \A g \in Groups(at) : g.latest \in Recent(n)
  <2>1. \A g \in Groups(at) : g.latest \in DOMAIN outcomes
    BY LatestOfGroup, Zenon
  <2> HIDE DEF Groups, outcomes
  <2> QED
    BY <1>5, <2>1, Zenon
<1> DEFINE groups == Groups(at)
<1> HIDE DEF outcomes, groups, Recent
<1>7. v.panel = "recent" /\ v.until = m /\ v.outcomes = outcomes /\ v.recent = groups
  <2>1. v = [panel |-> "recent", until |-> m, outcomes |-> outcomes, recent |-> groups]
    BY <1>1, Zenon DEF outcomes, groups
  <2> QED
    BY <2>1
<1>8. ASSUME NEW q \in Recent(n), log[q].conversation \notin tangled
      PROVE  LET own == {r \in DOMAIN answers : answers[r] = q /\ r <= m}
             IN  outcomes[q] = IF own = {} THEN "pending"
                               ELSE IF \E r \in own : log[r].type = "NO_RESULTS"
                                    THEN "no_match" ELSE "matched"
  <2> DEFINE own == {r \in DOMAIN answers : answers[r] = q /\ r <= m}
             e == InsightsPart!EarliestReply(visible, q)
  <2>1. outcomes[q] = IF e = 0 THEN "pending"
                      ELSE IF visible[e].type = "NO_RESULTS" THEN "no_match" ELSE "matched"
    BY <1>5
  <2>2. q \in A /\ q <= m
    BY <1>3, <1>4 DEF InsightsPart!Asked, ChatsLogged
  <2>3. /\ \A r \in DOMAIN answers : answers[r] = q /\ r <= m => e = r
        /\ (\A r \in DOMAIN answers : r <= m => answers[r] # q) => e = 0
    BY <1>3, <1>8, <2>2, EarliestIsOwn
  <2>4. \A r \in DOMAIN answers : r \in Nat \ {0} /\ (r <= m => visible[r] = log[r])
    <3>1. \A r \in DOMAIN answers : r \in Nat \ {0} /\ (r <= m => r \in 1..m)
      BY <1>3 DEF ChatsLogged, RepliesAnswer, InsightsPart!Replied
    <3> QED
      BY <1>3, <3>1, SeenUpTo
  <2> HIDE DEF e, visible
  <2>5. CASE own = {}
    <3>1. e = 0
      BY <2>3, <2>5
    <3> QED
      BY <2>1, <2>5, <3>1
  <2>6. CASE own # {}
    <3>1. PICK r \in own : TRUE
      BY <2>6
    <3>2. e = r /\ r # 0 /\ visible[r] = log[r] /\ \A other \in own : other = r
      BY <2>3, <2>4, <3>1
    <3> QED
      BY <2>1, <3>1, <3>2
  <2> QED
    BY <2>5, <2>6
<1>9. \A g \in groups : g.latest \in Recent(n)
  BY <1>6 DEF groups
<1> HIDE DEF n, m
<1> QED
  BY <1>7, <1>8, <1>9

(* The content gaps.                                                       *)
LEMMA GapsShown ==
  ASSUME ChatsLogged, RepliesAnswer, RepliesBetween, FirstRead, load.at = "read",
         NEW v \in InsightsPart!ContentGaps
  PROVE  /\ v.panel = "gaps"
         /\ \A g \in v.gaps : log[g.latest].conversation \notin tangled =>
                                 answers[g.latest] = v.gapOf[g.latest]
<1> DEFINE Replies(n) == InsightsPart!Latest(
                {i \in (load.from..n) \cap InsightsPart!Replied(log) : log[i].type = "NO_RESULTS"},
                GapLimit * 3)
           GapsAt(at) == InsightsPart!GetContentGaps(Replies(at[1]), InsightsPart!SeenAt(at[2]))
           ShownAt(at) == InsightsPart!Latest(DOMAIN GapsAt(at), GapLimit)
           Groups(at) == InsightsPart!GroupRepeatedText(ShownAt(at),
                            [i \in DOMAIN GapsAt(at) |-> log[GapsAt(at)[i]].text])
<1>1. PICK at \in InsightsPart!InTurn :
        v = [panel |-> "gaps", gapOf |-> GapsAt(at), gaps |-> Groups(at)]
  BY Zenon DEF InsightsPart!ContentGaps
<1>2. at[1] \in load.upTo..Len(log) /\ at[2] \in load.upTo..Len(log) /\ at[1] <= at[2]
  BY DEF InsightsPart!InTurn, InsightsPart!Moments
<1> DEFINE n == at[1]
           m == at[2]
           visible == InsightsPart!SeenAt(m)
           gapOf == GapsAt(at)
           groups == Groups(at)
<1>3. n \in Nat /\ m \in 0..Len(log) /\ n <= m /\ load.from \in Nat \ {0}
  BY <1>2 DEF FirstRead, ChatsLogged
<1>4. Replies(n) \subseteq (load.from..n) \cap InsightsPart!Replied(log)
  BY DEF InsightsPart!Latest
<1>5. DOMAIN gapOf = Replies(n)
      /\ \A r \in Replies(n) :
           gapOf[r] = InsightsPart!Max({q \in InsightsPart!Asked(visible)
                                            \cap InsightsPart!Of(visible, visible[r].conversation) : q < r})
  <2> HIDE DEF Replies
  <2> QED
    BY DEF InsightsPart!GetContentGaps
<1>6. \A g \in groups : g.latest \in Replies(n)
  <2>1. \A g \in groups : g.latest \in ShownAt(at)
    BY LatestOfGroup, Zenon
  <2>2. ShownAt(at) \subseteq DOMAIN gapOf
    BY DEF InsightsPart!Latest
  <2> HIDE DEF ShownAt, groups, gapOf, Replies
  <2> QED
    BY <1>5, <2>1, <2>2, Zenon
<1> HIDE DEF gapOf, groups, Replies
<1>7. v.panel = "gaps" /\ v.gapOf = gapOf /\ v.gaps = groups
  <2>1. v = [panel |-> "gaps", gapOf |-> gapOf, gaps |-> groups]
    BY <1>1, Zenon DEF gapOf, groups
  <2> QED
    BY <2>1
<1>8. ASSUME NEW r \in Replies(n), log[r].conversation \notin tangled
      PROVE  answers[r] = gapOf[r]
  <2>1. r \in InsightsPart!Replied(log) /\ r <= m
    BY <1>3, <1>4 DEF InsightsPart!Replied, ChatsLogged
  <2>2. log[answers[r]].conversation \notin tangled
    BY <1>8, <2>1 DEF RepliesAnswer
  <2> QED
    BY <1>3, <1>5, <2>1, <2>2, LatestIsAnswered
<1> HIDE DEF n, m
<1> QED
  BY <1>6, <1>7, <1>8

(* The page, as it is rendered.                                            *)
LEMMA PageShows == ASSUME InsightsInv, InsightsPart!RenderPage PROVE InsightsInv'
<1>1. /\ load.at = "read" /\ load' = InsightsPart!NoLoad
      /\ UNCHANGED <<log, answering, today, catalogue, answers, tangled>>
      /\ \/ insights' = InsightsPart!NoPage
         \/ insights' \in InsightsPart!GetSummaryMetrics
         \/ insights' \in InsightsPart!GetAnalyticsByWebsite
         \/ insights' \in InsightsPart!Engagement
         \/ insights' \in InsightsPart!Recommended
         \/ insights' \in InsightsPart!ContentGaps
         \/ insights' \in InsightsPart!RecentQuestions
  BY Zenon DEF InsightsPart!RenderPage
<1>i. ChatsLogged /\ RepliesAnswer /\ RepliesBetween /\ FirstRead
  BY DEF InsightsInv
<1>2. ASSUME insights'.panel \notin {"recent", "gaps", "rate"} PROVE PairedRightly'
  BY <1>2 DEF PairedRightly, InsightsPart!PairedRightly
<1>3. ASSUME insights' = InsightsPart!NoPage PROVE PairedRightly'
  <2>1. insights'.panel \notin {"recent", "gaps", "rate"}
    BY <1>3 DEF InsightsPart!NoPage
  <2> QED
    BY <1>2, <2>1, Zenon
<1>4. ASSUME insights' \in InsightsPart!GetSummaryMetrics PROVE PairedRightly'
  <2>1. CASE \E k \in InsightsPart!Moments :
               insights' = [panel |-> "number",
                            shows |-> InsightsPart!TotalConversations(k, load.from, Conversations)]
    <3>1. PICK total : insights' = [panel |-> "number", shows |-> total]
      BY <2>1, Zenon
    <3>2. insights'.panel \notin {"recent", "gaps", "rate"}
      BY <3>1
    <3> QED
      BY <1>2, <3>2, Zenon
  <2>2. CASE \E at \in InsightsPart!Moments \X InsightsPart!Moments :
               insights' = [panel |-> "rate", from |-> load.from, countedAt |-> at,
                            totalQuestions |-> InsightsPart!TotalQuestions(at[1], load.from, Conversations),
                            noResultCount |-> InsightsPart!NoResultCount(at[2], load.from, Conversations)]
    <3> DEFINE all(k) == InsightsPart!TotalQuestions(k, load.from, Conversations)
               none(k) == InsightsPart!NoResultCount(k, load.from, Conversations)
    <3>1. PICK at \in InsightsPart!Moments \X InsightsPart!Moments :
               insights' = [panel |-> "rate", from |-> load.from, countedAt |-> at,
                            totalQuestions |-> all(at[1]), noResultCount |-> none(at[2])]
      BY <2>2, Zenon
    <3> DEFINE n == at[1]
               m == at[2]
    <3>2. /\ insights'.panel = "rate" /\ insights'.from = load.from
          /\ insights'.countedAt[1] = n /\ insights'.countedAt[2] = m
          /\ insights'.totalQuestions = all(n)
          /\ insights'.noResultCount = none(m)
      <4> HIDE DEF all, none
      <4> QED
        BY <3>1
    <3> HIDE DEF n, m
    <3>3. load.from \in Nat \ {0} /\ n \in 0..Len(log) /\ m \in 0..Len(log)
      <4>1. n \in load.upTo..Len(log) /\ m \in load.upTo..Len(log)
        BY <3>1 DEF InsightsPart!Moments, n, m
      <4> QED
        BY <1>1, <1>i, <4>1 DEF FirstRead, ChatsLogged
    <3>4. (\A r \in DOMAIN answers : r >= load.from => answers[r] >= load.from) =>
             InsightsPart!NoResultCount(m, load.from, Conversations) <=
               InsightsPart!TotalQuestions(n, load.from, Conversations)
                 + InsightsPart!Cardinality({q \in InsightsPart!Asked(log) : q > n /\ q <= m})
      BY <1>i, <3>3, QuestionsOfReplies, SameInsightsCount
    <3> QED
      BY <1>1, <3>2, <3>4 DEF PairedRightly, InsightsPart!PairedRightly, InsightsPart!Asked
  <2> QED
    BY <1>4, <2>1, <2>2, Zenon DEF InsightsPart!GetSummaryMetrics
<1>5. ASSUME insights' \in InsightsPart!GetAnalyticsByWebsite PROVE PairedRightly'
  <2>1. PICK count : insights' = [panel |-> "number", shows |-> count]
    BY <1>5, SMT DEF InsightsPart!GetAnalyticsByWebsite
  <2>2. insights'.panel \notin {"recent", "gaps", "rate"}
    BY <2>1
  <2> QED
    BY <1>2, <2>2, Zenon
<1>6. ASSUME insights' \in InsightsPart!Engagement PROVE PairedRightly'
  <2>1. PICK bars : insights' = [panel |-> "chart", shows |-> bars]
    BY <1>6, Zenon DEF InsightsPart!Engagement
  <2>2. insights'.panel \notin {"recent", "gaps", "rate"}
    BY <2>1
  <2> QED
    BY <1>2, <2>2, Zenon
<1>7. ASSUME insights' \in InsightsPart!Recommended PROVE PairedRightly'
  <2>1. PICK shape, top : /\ shape \in {"topics", "resources"}
                          /\ insights' = [panel |-> shape, shows |-> top]
    BY <1>7, SMT DEF InsightsPart!Recommended
  <2>2. insights'.panel \notin {"recent", "gaps", "rate"}
    BY <2>1
  <2> QED
    BY <1>2, <2>2, Zenon
<1>8. ASSUME insights' \in InsightsPart!ContentGaps PROVE PairedRightly'
  <2>1. /\ insights'.panel = "gaps"
        /\ \A g \in insights'.gaps : log[g.latest].conversation \notin tangled =>
                                       answers[g.latest] = insights'.gapOf[g.latest]
    BY <1>1, <1>8, <1>i, GapsShown
  <2> QED
    BY <1>1, <2>1 DEF PairedRightly, InsightsPart!PairedRightly
<1>9. ASSUME insights' \in InsightsPart!RecentQuestions PROVE PairedRightly'
  <2>1. /\ insights'.panel = "recent"
        /\ \A g \in insights'.recent :
             LET q == g.latest
                 own == {r \in DOMAIN answers : answers[r] = q /\ r <= insights'.until}
             IN  log[q].conversation \notin tangled =>
                   insights'.outcomes[q] = IF own = {} THEN "pending"
                                           ELSE IF \E r \in own : log[r].type = "NO_RESULTS"
                                                THEN "no_match" ELSE "matched"
    BY <1>1, <1>9, <1>i, OutcomesShown
  <2> QED
    BY <1>1, <2>1 DEF PairedRightly, InsightsPart!PairedRightly
<1>10. PairedRightly'
  BY <1>1, <1>3, <1>4, <1>5, <1>6, <1>7, <1>8, <1>9
<1>11. ChatsLogged' /\ RepliesAnswer' /\ RepliesBetween'
  BY <1>1, <1>i DEF ChatsLogged, RepliesAnswer, RepliesBetween, InsightsPart!Asked,
     InsightsPart!Replied
<1>12. FirstRead'
  BY <1>1 DEF FirstRead, InsightsPart!NoLoad
<1> QED
  BY <1>10, <1>11, <1>12 DEF InsightsInv

(* Every step of chats and of the page.                                    *)
LEMMA InsightsStep == ASSUME InsightsInv, [InsightsPart!InsightsNext]_insightsVars PROVE InsightsInv'
<1>1. CASE \E c \in Conversations : InsightsPart!Ask(c)
  BY <1>1, QuestionComes
<1>2. CASE \E q \in answering : InsightsPart!Reply(q)
  BY <1>2, ReplyComes
<1>3. ASSUME /\ UNCHANGED <<log, answers, tangled, load>> /\ insights' = InsightsPart!NoPage
             /\ answering' \subseteq answering
             /\ today' \in 0..LastDay /\ catalogue' \subseteq catalogue
      PROVE  InsightsInv'
  <2>1. PairedRightly'
    BY <1>3 DEF PairedRightly, InsightsPart!PairedRightly, InsightsPart!NoPage
  <2>2. ChatsLogged' /\ RepliesAnswer' /\ RepliesBetween' /\ FirstRead'
    BY <1>3 DEF InsightsInv, ChatsLogged, RepliesAnswer, RepliesBetween, FirstRead,
       InsightsPart!Asked, InsightsPart!Replied
  <2> QED
    BY <2>1, <2>2 DEF InsightsInv
<1>4. CASE \E q \in answering : InsightsPart!ChatEnds(q)
  <2>1. /\ UNCHANGED <<log, answers, tangled, load, today, catalogue>>
        /\ insights' = InsightsPart!NoPage /\ answering' \subseteq answering
    BY <1>4 DEF InsightsPart!ChatEnds, InsightsPart!Unrendered
  <2> QED
    BY <1>3, <2>1 DEF InsightsInv, ChatsLogged
<1>5. CASE InsightsPart!DayPasses
  <2>1. /\ UNCHANGED <<log, answers, tangled, load, answering, catalogue>>
        /\ insights' = InsightsPart!NoPage /\ today < LastDay /\ today' = today + 1
    BY <1>5 DEF InsightsPart!DayPasses, InsightsPart!Unrendered
  <2>2. today' \in 0..LastDay
    BY <2>1, ChurchAssumption DEF InsightsInv, ChatsLogged
  <2> QED
    BY <1>3, <2>1, <2>2
<1>6. CASE InsightsPart!DeleteResource
  <2>1. /\ UNCHANGED <<log, answers, tangled, load, answering, today>>
        /\ insights' = InsightsPart!NoPage /\ catalogue' \subseteq catalogue
    BY <1>6 DEF InsightsPart!DeleteResource, InsightsPart!Unrendered
  <2> QED
    BY <1>3, <2>1 DEF InsightsInv, ChatsLogged
<1>7. CASE InsightsPart!StartPage
  BY <1>7, PageStarts
<1>8. CASE InsightsPart!RenderPage
  BY <1>8, PageShows
<1>9. CASE UNCHANGED insightsVars
  BY <1>9 DEF insightsVars, InsightsInv, ChatsLogged, RepliesAnswer, RepliesBetween, FirstRead,
     InsightsPart!Asked, InsightsPart!Replied, PairedRightly,
     InsightsPart!PairedRightly
<1> QED
  BY <1>1, <1>2, <1>4, <1>5, <1>6, <1>7, <1>8, <1>9 DEF InsightsPart!InsightsNext

(* The page pairs questions and replies as they were made.                 *)
THEOREM PairsAreRight == Spec => []PairedRightly
<1>1. Init => InsightsInv
  <2> SUFFICES ASSUME Init PROVE InsightsInv
    OBVIOUS
  <2>1. /\ log = << >> /\ answering = {} /\ today = 0 /\ catalogue = Recommendable
        /\ load = InsightsPart!NoLoad /\ insights = InsightsPart!NoPage
        /\ answers = << >>
    BY DEF Init, InsightsPart!InsightsInit
  <2>2. ChatsLogged
    BY <2>1, ChurchAssumption DEF ChatsLogged
  <2>3. RepliesAnswer /\ RepliesBetween
    BY <2>1 DEF RepliesAnswer, RepliesBetween, InsightsPart!Asked, InsightsPart!Replied
  <2>4. FirstRead /\ PairedRightly
    BY <2>1 DEF FirstRead, PairedRightly, InsightsPart!PairedRightly, InsightsPart!NoLoad,
       InsightsPart!NoPage
  <2> QED
    BY <2>2, <2>3, <2>4 DEF InsightsInv
<1>2. InsightsInv /\ [Next]_vars => InsightsInv'
  <2> SUFFICES ASSUME InsightsInv, [Next]_vars PROVE InsightsInv'
    OBVIOUS
  <2>1. [InsightsPart!InsightsNext]_insightsVars
    BY DEF Next, vars, OnTeam, OnUsage, OnRate, OnList, OnWall, OnSetup, InSetup, OnForms,
       OnDocuments, OnAccounts, OnDesk, OnInsights, OnLog, OnListing, OnPanels, OnTypes
  <2> QED
    BY <2>1, InsightsStep
<1>3. InsightsInv => PairedRightly
  BY DEF InsightsInv
<1> QED
  BY <1>1, <1>2, <1>3, PTL DEF Spec

-----------------------------------------------------------------------------
(* OrderedList: moving a row is what it says, whatever the numbers are.    *)

(* A list of each of these once.                                           *)
Enumerates(t, S) ==
  /\ t \in [1..Cardinality(S) -> S]
  /\ \A i, j \in 1..Cardinality(S) : t[i] = t[j] => i = j
  /\ \A x \in S : \E i \in 1..Cardinality(S) : t[i] = x

(* Rows that can be put in an order.                                       *)
Numbered(r) ==
  /\ IsFiniteSet(DOMAIN r) /\ DOMAIN r \subseteq Nat
  /\ \A id \in DOMAIN r : r[id].order \in Nat

Preceding(r, id) == {a \in DOMAIN r : ListPart!Precedes(r, a, id)}

(* What the instance counts.                                               *)
LEMMA SameListCount == \A S : ListPart!Cardinality(S) = Cardinality(S)
  BY DEF ListPart!Cardinality, Cardinality

(* Of two rows one precedes the other, and then more precede that other.   *)
LEMMA MorePrecede ==
  ASSUME NEW r, Numbered(r)
  PROVE  /\ \A a, b \in DOMAIN r :
              a # b => ListPart!Precedes(r, a, b) \/ ListPart!Precedes(r, b, a)
         /\ \A a, b \in DOMAIN r : ListPart!Precedes(r, a, b) =>
              Cardinality(Preceding(r, a)) < Cardinality(Preceding(r, b))
         /\ \A a \in DOMAIN r : Cardinality(Preceding(r, a)) \in 0..(Cardinality(DOMAIN r) - 1)
<1>1. \A a \in DOMAIN r : a \in Nat /\ r[a].order \in Nat
  BY DEF Numbered
<1>2. \A a, b \in DOMAIN r : a # b => ListPart!Precedes(r, a, b) \/ ListPart!Precedes(r, b, a)
  BY <1>1 DEF ListPart!Precedes
<1>3. \A a, b, c \in DOMAIN r :
        ListPart!Precedes(r, a, b) /\ ListPart!Precedes(r, b, c) => ListPart!Precedes(r, a, c)
  BY <1>1 DEF ListPart!Precedes
<1>4. \A a \in DOMAIN r : ~ListPart!Precedes(r, a, a)
  BY <1>1 DEF ListPart!Precedes
<1>5. IsFiniteSet(DOMAIN r) /\ Cardinality(DOMAIN r) \in Nat
  BY FS_CardinalityType DEF Numbered
<1>6. ASSUME NEW a \in DOMAIN r
      PROVE  /\ IsFiniteSet(Preceding(r, a)) /\ Cardinality(Preceding(r, a)) \in Nat
             /\ Cardinality(Preceding(r, a)) < Cardinality(DOMAIN r)
  <2>1. Preceding(r, a) \in SUBSET DOMAIN r /\ a \notin Preceding(r, a)
    BY <1>4 DEF Preceding
  <2>2. /\ IsFiniteSet(Preceding(r, a)) /\ Cardinality(Preceding(r, a)) \in Nat
        /\ Cardinality(Preceding(r, a)) <= Cardinality(DOMAIN r)
        /\ Cardinality(DOMAIN r) = Cardinality(Preceding(r, a)) => DOMAIN r = Preceding(r, a)
    BY <1>5, <2>1, FS_Subset, FS_CardinalityType
  <2> QED
    BY <1>5, <2>1, <2>2
<1>7. ASSUME NEW a \in DOMAIN r, NEW b \in DOMAIN r, ListPart!Precedes(r, a, b)
      PROVE  Cardinality(Preceding(r, a)) < Cardinality(Preceding(r, b))
  <2>1. Preceding(r, a) \in SUBSET Preceding(r, b) /\ a \notin Preceding(r, a)
        /\ a \in Preceding(r, b)
    BY <1>3, <1>4, <1>7, Zenon DEF Preceding
  <2>2. /\ Cardinality(Preceding(r, a)) <= Cardinality(Preceding(r, b))
        /\ Cardinality(Preceding(r, b)) = Cardinality(Preceding(r, a))
             => Preceding(r, b) = Preceding(r, a)
    BY <1>6, <2>1, FS_Subset
  <2>3. Cardinality(Preceding(r, a)) # Cardinality(Preceding(r, b))
    BY <2>1, <2>2
  <2> QED
    BY <1>6, <2>2, <2>3
<1> QED
  BY <1>2, <1>5, <1>6, <1>7

(* The listing has each row once, behind those that precede it.            *)
LEMMA ListingEnumerates ==
  ASSUME NEW r, Numbered(r)
  PROVE  /\ Enumerates(ListPart!Listing(r), DOMAIN r)
         /\ \A i \in 1..Cardinality(DOMAIN r) :
              Cardinality(Preceding(r, ListPart!Listing(r)[i])) = i - 1
<1> DEFINE D == DOMAIN r
           n == Cardinality(D)
           rank == [id \in D |-> Cardinality(Preceding(r, id))]
           list == ListPart!Listing(r)
<1>1. n \in Nat /\ IsFiniteSet(D)
  BY FS_CardinalityType DEF Numbered
<1>2. list = [place \in 1..n |-> CHOOSE id \in D : Cardinality(Preceding(r, id)) = place - 1]
  BY Zenon DEF ListPart!Listing, Preceding, ListPart!Cardinality, Cardinality
<1>3. rank \in [D -> 0..(n - 1)] /\ \A a, b \in D : rank[a] = rank[b] => a = b
  <2>1. \A a \in D : rank[a] \in 0..(n - 1) /\ rank[a] \in Nat
    BY <1>1, MorePrecede
  <2>2. \A a, b \in D : a # b => rank[a] < rank[b] \/ rank[b] < rank[a]
    BY MorePrecede
  <2> HIDE DEF D
  <2>3. rank \in [D -> 0..(n - 1)]
    BY <2>1
  <2> HIDE DEF rank
  <2> QED
    BY <2>1, <2>2, <2>3
<1>r. \A a \in D : rank[a] = Cardinality(Preceding(r, a))
  OBVIOUS
<1> HIDE DEF rank, D
<1>4. rank \in Surjection(D, 0..(n - 1))
  <2>1. rank \in Injection(D, 0..(n - 1))
    BY <1>3 DEF Injection, IsInjective
  <2>2. IsFiniteSet(0..(n - 1)) /\ Cardinality(0..(n - 1)) = n
    BY <1>1, FS_Interval
  <2> QED
    BY <2>1, <2>2, FS_Injection
<1>5. \A i \in 1..n : i - 1 \in 0..(n - 1)
  BY <1>1
<1>6. \A i \in 1..n : \E id \in D : rank[id] = i - 1
  BY <1>4, <1>5 DEF Surjection
<1>7. \A i \in 1..n : list[i] \in D /\ rank[list[i]] = i - 1
  <2> TAKE i \in 1..n
  <2>1. list[i] = CHOOSE id \in D : Cardinality(Preceding(r, id)) = i - 1
    BY <1>2
  <2>2. \E id \in D : Cardinality(Preceding(r, id)) = i - 1
    BY <1>6, <1>r
  <2> QED
    BY <1>r, <2>1, <2>2
<1> HIDE DEF list
<1>8. list \in [1..n -> D]
  BY <1>2, <1>7
<1>9. \A i, j \in 1..n : list[i] = list[j] => i = j
  <2> TAKE i \in 1..n, j \in 1..n
  <2> HAVE list[i] = list[j]
  <2>1. i - 1 = j - 1
    BY <1>7
  <2> QED
    BY <1>1, <2>1
<1>10. \A x \in D : \E i \in 1..n : list[i] = x
  <2> TAKE x \in D
  <2>1. rank[x] + 1 \in 1..n /\ (rank[x] + 1) - 1 = rank[x]
    BY <1>1, <1>3
  <2>2. list[rank[x] + 1] = x
    BY <1>3, <1>7, <2>1
  <2> QED
    BY <2>1, <2>2
<1> QED
  BY <1>7, <1>8, <1>9, <1>10, <1>r DEF Enumerates, list, D

(* A list in which each row precedes the next ones is the listing.         *)
LEMMA ListedInOrder ==
  ASSUME NEW r, Numbered(r), NEW t, Enumerates(t, DOMAIN r),
         \A i, j \in 1..Cardinality(DOMAIN r) : i < j => ListPart!Precedes(r, t[i], t[j])
  PROVE  ListPart!Listing(r) = t
<1> DEFINE D == DOMAIN r
           n == Cardinality(D)
           list == ListPart!Listing(r)
           rank(id) == Cardinality(Preceding(r, id))
<1>1. n \in Nat
  BY FS_CardinalityType DEF Numbered
<1>2. /\ list \in [1..n -> D] /\ \A i \in 1..n : rank(list[i]) = i - 1
      /\ \A x \in D : \E i \in 1..n : list[i] = x
  BY ListingEnumerates DEF Enumerates
<1>3. /\ t \in [1..n -> D] /\ \A i, j \in 1..n : i < j => rank(t[i]) < rank(t[j])
  BY MorePrecede DEF Enumerates
<1>4. \A i \in 1..n : rank(t[i]) \in 0..(n - 1)
  BY <1>3, MorePrecede
<1> HIDE DEF D, list, rank
<1>5. \A i \in 1..n : rank(t[i]) >= i - 1
  <2> DEFINE bad == {i \in 1..n : ~(rank(t[i]) >= i - 1)}
  <2> SUFFICES ASSUME bad # {} PROVE FALSE
    OBVIOUS
  <2>1. PICK i \in bad : \A k \in bad : i <= k
    <3>1. bad \in SUBSET Nat
      BY <1>1
    <3> QED
      BY <3>1, Least
  <2>2. i \in 1..n /\ rank(t[i]) \in Nat /\ ~(rank(t[i]) >= i - 1)
    BY <1>1, <1>4
  <2>3. i # 1 /\ i - 1 \in 1..n /\ i - 1 < i
    BY <1>1, <2>2
  <2>4. i - 1 \notin bad
    BY <1>1, <2>1, <2>3
  <2>5. rank(t[i - 1]) >= (i - 1) - 1 /\ rank(t[i - 1]) < rank(t[i])
        /\ rank(t[i - 1]) \in Nat
    BY <1>1, <1>3, <1>4, <2>2, <2>3, <2>4
  <2> QED
    BY <1>1, <2>2, <2>5
<1>6. \A i \in 1..n : rank(t[i]) <= i - 1
  <2> DEFINE bad == {m \in 0..(n - 1) : ~(rank(t[n - m]) <= (n - m) - 1)}
  <2>1. bad = {}
    <3> SUFFICES ASSUME bad # {} PROVE FALSE
      OBVIOUS
    <3>1. PICK m \in bad : \A k \in bad : m <= k
      <4>1. bad \in SUBSET Nat
        BY <1>1
      <4> QED
        BY <4>1, Least
    <3>2. /\ m \in 0..(n - 1) /\ n - m \in 1..n /\ rank(t[n - m]) \in 0..(n - 1)
          /\ ~(rank(t[n - m]) <= (n - m) - 1)
      BY <1>1, <1>4, <3>1
    <3>3. m # 0
      BY <1>1, <3>2
    <3>4. m - 1 \in 0..(n - 1) /\ m - 1 \notin bad /\ n - (m - 1) \in 1..n
          /\ n - m < n - (m - 1)
      BY <1>1, <3>1, <3>2, <3>3
    <3>5. rank(t[n - (m - 1)]) <= (n - (m - 1)) - 1
      BY <3>4
    <3>6. rank(t[n - m]) < rank(t[n - (m - 1)])
      BY <1>3, <3>2, <3>4
    <3>7. rank(t[n - (m - 1)]) \in 0..(n - 1)
      BY <1>4, <3>4
    <3> QED
      BY <1>1, <3>2, <3>5, <3>6, <3>7
  <2> SUFFICES ASSUME NEW i \in 1..n PROVE rank(t[i]) <= i - 1
    OBVIOUS
  <2>2. n - i \in 0..(n - 1) /\ n - (n - i) = i
    BY <1>1
  <2>3. n - i \notin bad
    BY <2>1
  <2> QED
    BY <2>2, <2>3
<1>7. \A i \in 1..n : t[i] = list[i]
  <2> TAKE i \in 1..n
  <2>1. PICK k \in 1..n : list[k] = t[i]
    BY <1>2, <1>3
  <2>2. rank(t[i]) = k - 1 /\ rank(t[i]) = i - 1
    <3>1. rank(t[i]) = k - 1
      BY <1>2, <2>1
    <3>2. rank(t[i]) \in Nat
      BY <1>1, <1>4
    <3> QED
      BY <1>1, <1>5, <1>6, <3>1, <3>2
  <2>3. k = i
    BY <1>1, <2>2
  <2> QED
    BY <2>1, <2>3
<1>8. list = t
  <2> HIDE DEF n
  <2>1. list \in [1..n -> D] /\ t \in [1..n -> D]
    BY <1>2, <1>3
  <2>2. \A i \in 1..n : list[i] = t[i]
    BY <1>7
  <2> HIDE DEF list, D
  <2>3. list = [i \in 1..n |-> list[i]] /\ t = [i \in 1..n |-> t[i]]
    BY <2>1
  <2>4. [i \in 1..n |-> list[i]] = [i \in 1..n |-> t[i]]
    BY <2>2
  <2> QED
    BY <2>3, <2>4
<1> QED
  BY <1>8 DEF list

(* In the listing a row precedes the next ones.                            *)
LEMMA ListingOrders ==
  ASSUME NEW r, Numbered(r)
  PROVE  \A i, j \in 1..Cardinality(DOMAIN r) :
           i < j => ListPart!Precedes(r, ListPart!Listing(r)[i], ListPart!Listing(r)[j])
<1> DEFINE n == Cardinality(DOMAIN r)
           list == ListPart!Listing(r)
<1>1. /\ \A i \in 1..n : list[i] \in DOMAIN r /\ Cardinality(Preceding(r, list[i])) = i - 1
      /\ \A i, j \in 1..n : list[i] = list[j] => i = j
  BY ListingEnumerates DEF Enumerates
<1>2. n \in Nat
  BY FS_CardinalityType DEF Numbered
<1> HIDE DEF list
<1>3. ASSUME NEW i \in 1..n, NEW j \in 1..n, i < j, ~ListPart!Precedes(r, list[i], list[j])
      PROVE  FALSE
  <2>1. list[i] # list[j]
    BY <1>1, <1>2, <1>3
  <2>2. ListPart!Precedes(r, list[j], list[i])
    BY <1>1, <1>3, <2>1, MorePrecede
  <2>3. Cardinality(Preceding(r, list[j])) < Cardinality(Preceding(r, list[i]))
    BY <1>1, <2>2, MorePrecede
  <2>4. j - 1 < i - 1
    BY <1>1, <2>3
  <2> QED
    BY <1>2, <1>3, <2>4
<1> QED
  BY <1>3 DEF list

(* Moving swaps two places, or none, of a list.                            *)
LEMMA MovedEnumerates ==
  ASSUME NEW S, NEW t, Enumerates(t, S), NEW id, NEW step
  PROVE  Enumerates(ListPart!Moved(t, id, step), S)
<1> DEFINE n == Cardinality(S)
           u == ListPart!Moved(t, id, step)
<1>1. /\ t \in [1..n -> S] /\ DOMAIN t = 1..n
      /\ \A i, j \in 1..n : t[i] = t[j] => i = j
      /\ \A x \in S : \E i \in 1..n : t[i] = x
  BY DEF Enumerates
<1> HIDE DEF n
<1>2. u = t \/ \E i, j \in 1..n : u = [t EXCEPT ![i] = t[j], ![j] = t[i]]
  <2>1. CASE \E i \in DOMAIN t : t[i] = id
    <3> DEFINE i == ListPart!Place(t, id)
               j == IF step = "up" THEN i - 1 ELSE i + 1
    <3>1. i \in DOMAIN t
      BY <2>1 DEF ListPart!Place
    <3>2. u = IF j \in DOMAIN t THEN [t EXCEPT ![i] = t[j], ![j] = t[i]] ELSE t
      BY <2>1, Zenon DEF ListPart!Moved
    <3> HIDE DEF i, j, u
    <3> QED
      BY <1>1, <3>1, <3>2
  <2>2. CASE ~\E i \in DOMAIN t : t[i] = id
    BY <2>2 DEF ListPart!Moved
  <2> QED
    BY <2>1, <2>2
<1> HIDE DEF u
<1>3. ASSUME NEW i \in 1..n, NEW j \in 1..n, u = [t EXCEPT ![i] = t[j], ![j] = t[i]]
      PROVE  /\ u \in [1..n -> S] /\ \A k, l \in 1..n : u[k] = u[l] => k = l
             /\ \A x \in S : \E k \in 1..n : u[k] = x
  <2>1. u \in [1..n -> S] /\ u[i] = t[j] /\ u[j] = t[i]
        /\ \A k \in 1..n : k # i /\ k # j => u[k] = t[k]
    BY <1>1, <1>3
  <2>2. \A x \in S : \E k \in 1..n : u[k] = x
    <3> TAKE x \in S
    <3>1. PICK k \in 1..n : t[k] = x
      BY <1>1
    <3> QED
      BY <2>1, <3>1
  <2>3. \A k, l \in 1..n : u[k] = u[l] => k = l
    BY <1>1, <2>1
  <2> QED
    BY <2>1, <2>2, <2>3
<1> QED
  BY <1>1, <1>2, <1>3 DEF Enumerates, n, u

(* The rows renumbered as the list has them are listed so.                 *)
LEMMA Renumbered ==
  ASSUME NEW t, IsFiniteSet(DOMAIN links), DOMAIN links \subseteq Nat,
         Enumerates(t, DOMAIN links), DOMAIN links' = DOMAIN links,
         \A id \in DOMAIN links : links'[id].order = ListPart!Place(t, id) - 1
  PROVE  Numbered(links') /\ ListPart!Listing(links') = t
<1> DEFINE n == Cardinality(DOMAIN links)
<1>1. n \in Nat
  BY FS_CardinalityType
<1>2. /\ t \in [1..n -> DOMAIN links] /\ DOMAIN t = 1..n
      /\ \A i, j \in 1..n : t[i] = t[j] => i = j
      /\ \A x \in DOMAIN links : \E i \in 1..n : t[i] = x
  BY DEF Enumerates
<1> HIDE DEF n
<1>3. \A i \in 1..n : ListPart!Place(t, t[i]) = i
  BY <1>2 DEF ListPart!Place
<1>4. \A i \in 1..n : t[i] \in DOMAIN links /\ links'[t[i]].order = i - 1
  BY <1>2, <1>3
<1>5. \A id \in DOMAIN links' : links'[id].order \in Nat
  <2> TAKE id \in DOMAIN links'
  <2>1. PICK i \in 1..n : t[i] = id
    BY <1>2
  <2> QED
    BY <1>1, <1>4, <2>1
<1>6. Numbered(links')
  BY <1>5 DEF Numbered
<1>7. \A i, j \in 1..n : i < j => ListPart!Precedes(links', t[i], t[j])
  <2> TAKE i \in 1..n, j \in 1..n
  <2>1. links'[t[i]].order = i - 1 /\ links'[t[j]].order = j - 1
    BY <1>4
  <2> QED
    BY <1>1, <2>1 DEF ListPart!Precedes
<1>8. ListPart!Listing(links') = t
  <2> DEFINE r == links'
  <2>1. DOMAIN r = DOMAIN links
    OBVIOUS
  <2>2. Enumerates(t, DOMAIN r) /\ Numbered(r)
        /\ \A i, j \in 1..Cardinality(DOMAIN r) : i < j => ListPart!Precedes(r, t[i], t[j])
    BY <1>6, <1>7, <2>1 DEF n
  <2> HIDE DEF r
  <2>3. ListPart!Listing(r) = t
    BY <2>2, ListedInOrder
  <2> QED
    BY <2>3 DEF r
<1> QED
  BY <1>6, <1>8

ListRows ==
  /\ IsFiniteSet(DOMAIN links) /\ DOMAIN links \subseteq Nat /\ created \in Nat
  /\ \A id \in DOMAIN links : links[id] \in ListPart!Row
  /\ DOMAIN request = Staff
  /\ \A s \in Staff :
       /\ request[s].at = "creating" => request[s].count \in Nat
       /\ request[s].at = "reordering" =>
            \E S : IsFiniteSet(S) /\ Enumerates(request[s].list, S)

(* What a transaction has read is the list, unless another has written.    *)
ReadStill ==
  \A s \in Staff : request[s].at = "reordering" /\ s \notin stale =>
    /\ request[s].list = ListPart!Listing(links)
    /\ request[s].orders = [id \in DOMAIN links |-> links[id].order]

ListInv == ListRows /\ ReadStill

(* The list is made of the rows' numbers alone.                            *)
LEMMA RowsAreNumbered == ListRows => Numbered(links)
  BY DEF ListRows, Numbered, ListPart!Row

(* An action writes and is done: whatever another one has read is past.    *)
LEMMA Crossed ==
  ASSUME ListInv, NEW s \in Staff, stale' = {other \in Staff \ {s} : ~ListPart!Idle(other)},
         \/ request' = request /\ ListPart!Idle(s)
         \/ request' = [request EXCEPT ![s] = ListPart!Done],
         IsFiniteSet(DOMAIN links'), DOMAIN links' \subseteq Nat, created' \in Nat,
         \A id \in DOMAIN links' : links'[id] \in ListPart!Row
  PROVE  ListInv'
<1>1. DOMAIN request' = Staff /\ request'[s].at # "reordering" /\ request'[s].at # "creating"
      /\ \A other \in Staff \ {s} : request'[other] = request[other]
  BY DEF ListInv, ListRows, ListPart!Idle, ListPart!Done
<1>2. ListRows'
  BY <1>1 DEF ListInv, ListRows, ListPart!Row
<1>3. ReadStill'
  BY <1>1 DEF ReadStill, ListPart!Idle
<1> QED
  BY <1>2, <1>3 DEF ListInv

(* A reordering that nothing has crossed leaves the list it has worked out. *)
LEMMA ReorderArranges ==
  ASSUME ListInv, NEW s \in Staff, ListPart!Reorder(s), s \notin stale
  PROVE  ListPart!Listing(links') =
           ListPart!Moved(ListPart!Listing(links), request[s].id, request[s].step)
<1> DEFINE list == ListPart!Listing(links)
           to == ListPart!Moved(list, request[s].id, request[s].step)
           Renumbers(id) == \/ links[id].order # ListPart!Place(list, id) - 1
                            \/ ListPart!Place(to, id) # ListPart!Place(list, id)
<1>1. /\ request[s].list = list
      /\ request[s].orders = [id \in DOMAIN links |-> links[id].order]
  BY DEF ListPart!Reorder, ListInv, ReadStill
<1>2. Enumerates(list, DOMAIN links) /\ Enumerates(to, DOMAIN links)
  BY RowsAreNumbered, ListingEnumerates, MovedEnumerates DEF ListInv
<1>3. \A id \in DOMAIN links : id \in ListPart!Range(list)
  BY <1>2 DEF ListPart!Range, Enumerates
<1>4. links' = [id \in DOMAIN links |->
                  IF Renumbers(id) THEN [links[id] EXCEPT !.order = ListPart!Place(to, id) - 1]
                  ELSE links[id]]
  <2>1. links' = [id \in DOMAIN links |->
                    IF /\ id \in ListPart!Range(list)
                       /\ \/ request[s].orders[id] # ListPart!Place(list, id) - 1
                          \/ ListPart!Place(to, id) # ListPart!Place(list, id)
                    THEN [links[id] EXCEPT !.order = ListPart!Place(to, id) - 1]
                    ELSE links[id]]
    BY <1>1, Zenon DEF ListPart!Reorder
  <2>2. \A id \in DOMAIN links : request[s].orders[id] = links[id].order
    BY <1>1
  <2> HIDE DEF list, to
  <2> QED
    BY <1>3, <2>1, <2>2
<1> HIDE DEF list, to
<1>5. \A id \in DOMAIN links : links[id] \in ListPart!Row
  BY DEF ListInv, ListRows
<1>6. ASSUME NEW id \in DOMAIN links
      PROVE  links'[id].order = ListPart!Place(to, id) - 1
  <2>1. CASE Renumbers(id)
    <3>1. links'[id] = [links[id] EXCEPT !.order = ListPart!Place(to, id) - 1]
      BY <1>4, <2>1
    <3> QED
      BY <1>5, <3>1 DEF ListPart!Row
  <2>2. CASE ~Renumbers(id)
    BY <1>4, <2>2
  <2> QED
    BY <2>1, <2>2
<1>7. DOMAIN links' = DOMAIN links /\ IsFiniteSet(DOMAIN links) /\ DOMAIN links \subseteq Nat
  BY <1>4 DEF ListInv, ListRows
<1> QED
  BY <1>2, <1>6, <1>7, Renumbered DEF to, list

(* Every step of the list.                                                 *)
LEMMA ListStep == ASSUME ListInv, [ListPart!ListNext]_listVars PROVE ListInv'
<1>i. /\ IsFiniteSet(DOMAIN links) /\ DOMAIN links \subseteq Nat /\ created \in Nat
      /\ \A id \in DOMAIN links : links[id] \in ListPart!Row
      /\ DOMAIN request = Staff
  BY DEF ListInv, ListRows
<1>1. ASSUME NEW s \in Staff, ListPart!StartCreate(s) PROVE ListInv'
  <2>1. request' = [request EXCEPT ![s] = [at |-> "creating",
                                           count |-> ListPart!Cardinality(DOMAIN links)]]
        /\ UNCHANGED <<links, created, stale>>
    BY <1>1 DEF ListPart!StartCreate
  <2>2. ListPart!Cardinality(DOMAIN links) \in Nat
    BY <1>i, SameListCount, FS_CardinalityType
  <2>3. /\ DOMAIN request' = Staff /\ \A o \in Staff \ {s} : request'[o] = request[o]
        /\ request'[s].at = "creating" /\ request'[s].count \in Nat
    BY <1>i, <2>1, <2>2
  <2> QED
    BY <2>1, <2>3 DEF ListInv, ListRows, ReadStill
<1>2. ASSUME NEW s \in Staff, ListPart!CreateRow(s) PROVE ListInv'
  <2> DEFINE new == [order |-> request[s].count, shown |-> TRUE]
  <2>1. /\ created' = created + 1
        /\ links' = [id \in DOMAIN links \cup {created + 1} |->
                       IF id \in DOMAIN links THEN links[id] ELSE new]
        /\ request' = [request EXCEPT ![s] = ListPart!Done]
        /\ stale' = {other \in Staff \ {s} : ~ListPart!Idle(other)}
    BY <1>2, Zenon DEF ListPart!CreateRow, ListPart!Crossing
  <2>2. new \in ListPart!Row
    BY <1>2 DEF ListPart!CreateRow, ListInv, ListRows, ListPart!Row
  <2> HIDE DEF new
  <2>3. DOMAIN links' = DOMAIN links \cup {created + 1} /\ created' \in Nat
        /\ \A id \in DOMAIN links' : links'[id] \in ListPart!Row
    BY <1>i, <2>1, <2>2
  <2>4. IsFiniteSet(DOMAIN links') /\ DOMAIN links' \subseteq Nat
    BY <1>i, <2>1, <2>3, FS_AddElement
  <2> QED
    BY <2>1, <2>3, <2>4, Crossed
<1>3. ASSUME NEW s \in Staff, ListPart!Reorder(s) PROVE ListInv'
  <2> DEFINE q == request[s]
             to == ListPart!Moved(q.list, q.id, q.step)
             Renumbers(id) == \/ q.orders[id] # ListPart!Place(q.list, id) - 1
                              \/ ListPart!Place(to, id) # ListPart!Place(q.list, id)
  <2>1. /\ links' = [id \in DOMAIN links |->
                       IF id \in ListPart!Range(q.list) /\ Renumbers(id)
                       THEN [links[id] EXCEPT !.order = ListPart!Place(to, id) - 1]
                       ELSE links[id]]
        /\ request' = [request EXCEPT ![s] = ListPart!Done]
        /\ stale' = {other \in Staff \ {s} : ~ListPart!Idle(other)}
        /\ created' = created
    BY <1>3, Zenon DEF ListPart!Reorder, ListPart!Crossing
  <2>2. ASSUME NEW id \in ListPart!Range(q.list) PROVE ListPart!Place(to, id) - 1 \in Nat
    <3>1. PICK S : IsFiniteSet(S) /\ Enumerates(q.list, S)
      BY <1>3, Zenon DEF ListPart!Reorder, ListInv, ListRows
    <3>2. Enumerates(to, S)
      BY <3>1, MovedEnumerates
    <3> HIDE DEF q, to
    <3>3. id \in S
      <4> DEFINE f == q.list
      <4>1. id \in {f[x] : x \in DOMAIN f}
        BY <2>2, Zenon DEF ListPart!Range
      <4>2. f \in [1..Cardinality(S) -> S]
        BY <3>1, Zenon DEF Enumerates
      <4> HIDE DEF f
      <4> QED
        BY <4>1, <4>2
    <3>4. Cardinality(S) \in Nat /\ DOMAIN to = 1..Cardinality(S)
      BY <3>1, <3>2, FS_CardinalityType DEF Enumerates
    <3>5. ListPart!Place(to, id) \in 1..Cardinality(S)
      BY <3>2, <3>3, <3>4 DEF Enumerates, ListPart!Place
    <3> QED
      BY <3>4, <3>5
  <2> HIDE DEF to, q, Renumbers
  <2>3. DOMAIN links' = DOMAIN links /\ \A id \in DOMAIN links' : links'[id] \in ListPart!Row
    <3>1. ASSUME NEW id \in DOMAIN links PROVE links'[id] \in ListPart!Row
      <4>1. CASE id \in ListPart!Range(q.list) /\ Renumbers(id)
        <5>1. links'[id] = [links[id] EXCEPT !.order = ListPart!Place(to, id) - 1]
          BY <2>1, <4>1
        <5> QED
          BY <1>i, <2>2, <4>1, <5>1 DEF ListPart!Row
      <4>2. CASE ~(id \in ListPart!Range(q.list) /\ Renumbers(id))
        BY <1>i, <2>1, <4>2
      <4> QED
        BY <4>1, <4>2
    <3> QED
      BY <2>1, <3>1
  <2> QED
    BY <1>i, <2>1, <2>3, Crossed
<1>4. ASSUME NEW s \in Staff, ListPart!RequestThrows(s) PROVE ListInv'
  <2>1. /\ request' = [request EXCEPT ![s] = ListPart!NoRequest]
        /\ stale' = stale \ {s} /\ UNCHANGED <<links, created>>
    BY <1>4 DEF ListPart!RequestThrows
  <2>2. /\ DOMAIN request' = Staff /\ \A o \in Staff \ {s} : request'[o] = request[o]
        /\ request'[s].at = "no"
    BY <1>i, <2>1 DEF ListPart!NoRequest
  <2> QED
    BY <2>1, <2>2 DEF ListInv, ListRows, ReadStill
<1>5. ASSUME NEW s \in Staff, NEW id, ListPart!Toggle(s, id) PROVE ListInv'
  <2>1. /\ id \in DOMAIN links /\ links' = [links EXCEPT ![id].shown = ~links[id].shown]
        /\ UNCHANGED <<created, request, stale>>
    BY <1>5 DEF ListPart!Toggle
  <2>2. /\ DOMAIN links' = DOMAIN links
        /\ \A i \in DOMAIN links : links'[i] \in ListPart!Row /\ links'[i].order = links[i].order
    BY <1>i, <2>1 DEF ListPart!Row
  <2>3. ListPart!Listing(links') = ListPart!Listing(links)
    <3> DEFINE t == ListPart!Listing(links)
           n == Cardinality(DOMAIN links)
           r == links'
    <3>1. \A a, b \in DOMAIN links : ListPart!Precedes(links', a, b) <=> ListPart!Precedes(links, a, b)
      BY <2>2 DEF ListPart!Precedes
    <3>2. Numbered(links) /\ Enumerates(t, DOMAIN links)
      BY RowsAreNumbered, ListingEnumerates DEF ListInv
    <3>3. \A i, j \in 1..n : i < j => ListPart!Precedes(links, t[i], t[j])
      BY <3>2, ListingOrders
    <3> HIDE DEF t
    <3>4. \A i, j \in 1..n : i < j => ListPart!Precedes(links', t[i], t[j])
      BY <3>1, <3>2, <3>3 DEF Enumerates
    <3>5. /\ Numbered(r) /\ Enumerates(t, DOMAIN r)
          /\ \A i, j \in 1..Cardinality(DOMAIN r) : i < j => ListPart!Precedes(r, t[i], t[j])
      BY <2>2, <3>2, <3>4 DEF Numbered
    <3> HIDE DEF r
    <3>6. ListPart!Listing(r) = t
      BY <3>5, ListedInOrder
    <3> QED
      BY <3>6 DEF t, r
  <2>4. [i \in DOMAIN links' |-> links'[i].order] = [i \in DOMAIN links |-> links[i].order]
    BY <2>2
  <2>5. ListRows'
    BY <2>1, <2>2 DEF ListInv, ListRows, ListPart!Row
  <2>6. ReadStill'
    BY <2>1, <2>3, <2>4 DEF ListInv, ReadStill
  <2> QED
    BY <2>5, <2>6 DEF ListInv
<1>6. ASSUME NEW s \in Staff, NEW id, ListPart!Delete(s, id) PROVE ListInv'
  <2>1. /\ ListPart!Idle(s) /\ links' = [i \in DOMAIN links \ {id} |-> links[i]]
        /\ stale' = {other \in Staff \ {s} : ~ListPart!Idle(other)}
        /\ UNCHANGED <<created, request>>
    BY <1>6 DEF ListPart!Delete, ListPart!Crossing
  <2>2. IsFiniteSet(DOMAIN links')
    BY <1>i, <2>1, FS_RemoveElement
  <2>3. DOMAIN links' \subseteq Nat /\ \A i \in DOMAIN links' : links'[i] \in ListPart!Row
    BY <1>i, <2>1
  <2> QED
    BY <1>i, <2>1, <2>2, <2>3, Crossed
<1>7. ASSUME NEW s \in Staff, NEW id, NEW step, ListPart!StartReorder(s, id, step) PROVE ListInv'
  <2> DEFINE k == [at |-> "reordering", id |-> id, step |-> step, list |-> ListPart!Listing(links),
                   orders |-> [i \in DOMAIN links |-> links[i].order]]
  <2>1. request' = [request EXCEPT ![s] = k] /\ UNCHANGED <<links, created, stale>>
    BY <1>7 DEF ListPart!StartReorder
  <2>2. /\ k.at = "reordering" /\ k.list = ListPart!Listing(links)
        /\ k.orders = [i \in DOMAIN links |-> links[i].order]
    OBVIOUS
  <2>4. Enumerates(ListPart!Listing(links), DOMAIN links)
    BY RowsAreNumbered, ListingEnumerates DEF ListInv
  <2> HIDE DEF k
  <2>3. /\ DOMAIN request' = Staff /\ \A o \in Staff \ {s} : request'[o] = request[o]
        /\ request'[s] = k
    BY <1>i, <2>1
  <2> QED
    BY <1>i, <2>1, <2>2, <2>3, <2>4 DEF ListInv, ListRows, ReadStill
<1>8. CASE UNCHANGED listVars
  BY <1>8 DEF listVars, ListInv, ListRows, ReadStill
<1> QED
  BY <1>1, <1>2, <1>3, <1>4, <1>5, <1>6, <1>7, <1>8 DEF ListPart!ListNext

(* A reordering is done by writing alone.                                  *)
LEMMA OnlyReorderEnds ==
  ASSUME ListInv, [ListPart!ListNext]_listVars, NEW s \in Staff,
         request[s].at = "reordering", request'[s] = ListPart!Done
  PROVE  ListPart!Reorder(s)
<1>1. DOMAIN request = Staff
  BY DEF ListInv, ListRows
<1>2. request'[s].at = "done" /\ request'[s] # request[s]
  BY DEF ListPart!Done
<1>3. PICK o \in Staff :
        \/ ListPart!StartCreate(o) \/ ListPart!CreateRow(o) \/ ListPart!Reorder(o)
        \/ ListPart!RequestThrows(o)
        \/ \E id \in ListPart!Ids :
             \/ ListPart!Toggle(o, id) \/ ListPart!Delete(o, id)
             \/ \E step \in {"up", "down"} : ListPart!StartReorder(o, id, step)
  BY <1>2 DEF listVars, ListPart!ListNext
<1>4. \/ ListPart!Reorder(o) \/ request' = request
      \/ ListPart!Idle(o) /\ \E k : request' = [request EXCEPT ![o] = k]
      \/ request[o].at = "creating" /\ \E k : request' = [request EXCEPT ![o] = k]
      \/ request' = [request EXCEPT ![o] = ListPart!NoRequest]
  BY <1>3, Zenon DEF ListPart!StartCreate, ListPart!CreateRow, ListPart!RequestThrows, ListPart!Toggle,
     ListPart!Delete, ListPart!StartReorder
<1>5. CASE ListPart!Reorder(o)
  <2>1. request' = [request EXCEPT ![o] = ListPart!Done]
    BY <1>5, Zenon DEF ListPart!Reorder
  <2> QED
    BY <1>1, <1>2, <1>5, <2>1
<1> QED
  BY <1>1, <1>2, <1>4, <1>5 DEF ListPart!Idle, ListPart!NoRequest

(* Moving a row swaps it with its neighbour.                               *)
THEOREM MovesAreSwaps == Spec => ArrangedAsAsked
<1>1. Init => ListInv
  <2> SUFFICES ASSUME Init PROVE ListInv
    OBVIOUS
  <2>1. /\ links = << >> /\ created = 0 /\ stale = {}
        /\ request = [s \in Staff |-> ListPart!NoRequest]
    BY DEF Init, ListPart!ListInit
  <2>2. DOMAIN links = {}
    BY <2>1
  <2>3. IsFiniteSet(DOMAIN links)
    BY <2>2, FS_EmptySet
  <2> QED
    BY <2>1, <2>2, <2>3 DEF ListInv, ListRows, ReadStill, ListPart!NoRequest
<1>2. [Next]_vars => [ListPart!ListNext]_listVars
  BY DEF Next, vars, OnTeam, OnUsage, OnRate, OnList, OnWall, OnSetup, InSetup, OnForms,
     OnDocuments, OnAccounts, OnDesk, OnInsights, OnLog, OnListing, OnPanels, OnTypes
<1>3. ListInv /\ [Next]_vars => ListInv'
  BY <1>2, ListStep
<1>4. ListInv /\ [Next]_vars =>
        [\A s \in Staff :
           request[s].at = "reordering" /\ request'[s] = ListPart!Done /\ s \notin stale =>
             ListPart!Listing(links') =
               ListPart!Moved(ListPart!Listing(links), request[s].id, request[s].step)]_(ListPart!listVars)
  BY <1>2, OnlyReorderEnds, ReorderArranges
<1> QED
  BY <1>1, <1>3, <1>4, PTL DEF Spec, ArrangedAsAsked, ListPart!ArrangedAsAsked

-----------------------------------------------------------------------------
(* MessageTypes: a type stays until it is unticked, and has one spelling.  *)

(* What the instance filters.                                              *)
LEMMA SameTypesFilter == \A seq, S : TypesPart!Where(seq, S) = Where(seq, S)
  BY DEF TypesPart!Where, Where

(* The types of a list by their places.                                    *)
LEMMA TypesByPlace ==
  ASSUME NEW A, NEW seq \in Seq(A)
  PROVE  /\ \A x : x \in TypesPart!ToSet(seq) <=> \E i \in 1..Len(seq) : seq[i] = x
         /\ \A k : k \in TypesPart!KeysOf(seq) <=> \E i \in 1..Len(seq) : KeyOf[seq[i]] = k
         /\ \A k : k \in TypesPart!KeysOf(seq) <=>
                     \E s \in TypesPart!ToSet(seq) : KeyOf[s] = k
         /\ TypesPart!EachKeyOnce(seq) <=>
              \A i, j \in 1..Len(seq) : KeyOf[seq[i]] = KeyOf[seq[j]] => i = j
<1>1. DOMAIN seq = 1..Len(seq)
  OBVIOUS
<1>2. \A x : x \in TypesPart!ToSet(seq) <=> \E i \in 1..Len(seq) : seq[i] = x
  BY <1>1, Zenon DEF TypesPart!ToSet
<1>3. \A k : k \in TypesPart!KeysOf(seq) <=> \E s \in TypesPart!ToSet(seq) : KeyOf[s] = k
  BY Zenon DEF TypesPart!KeysOf, TypesPart!KeysIn
<1>4. \A k : k \in TypesPart!KeysOf(seq) <=> \E i \in 1..Len(seq) : KeyOf[seq[i]] = k
  BY <1>2, <1>3, Zenon
<1> QED
  BY <1>1, <1>2, <1>3, <1>4, Zenon DEF TypesPart!EachKeyOnce

(* What a filter keeps, as a set.                                          *)
LEMMA TypesKept ==
  ASSUME NEW A, NEW seq \in Seq(A), NEW S
  PROVE  /\ TypesPart!Where(seq, S) \in Seq(A)
         /\ TypesPart!ToSet(TypesPart!Where(seq, S)) = TypesPart!ToSet(seq) \cap S
<1> DEFINE t == Where(seq, S)
<1>1. /\ t \in Seq(A) /\ Len(t) \in Nat /\ Len(seq) \in Nat
      /\ \A k \in 1..Len(t) : t[k] \in S /\ \E m \in 1..Len(seq) : seq[m] = t[k]
      /\ \A m \in 1..Len(seq) : seq[m] \in S => \E k \in 1..Len(t) : t[k] = seq[m]
  BY WhereKeeps
<1> HIDE DEF t
<1>2. \A x : x \in TypesPart!ToSet(t) <=> \E i \in 1..Len(t) : t[i] = x
  BY <1>1, TypesByPlace
<1>3. \A x : x \in TypesPart!ToSet(seq) <=> \E i \in 1..Len(seq) : seq[i] = x
  BY TypesByPlace
<1>4. \A x : x \in TypesPart!ToSet(t) <=> x \in TypesPart!ToSet(seq) /\ x \in S
  BY <1>1, <1>2, <1>3, Zenon
<1>5. TypesPart!Where(seq, S) = t
  BY SameTypesFilter DEF t
<1> QED
  BY <1>1, <1>4, <1>5

(* One list after another, as sets.                                        *)
LEMMA TypesJoined ==
  ASSUME NEW A, NEW a \in Seq(A), NEW b \in Seq(A)
  PROVE  /\ a \o b \in Seq(A)
         /\ TypesPart!ToSet(a \o b) = TypesPart!ToSet(a) \cup TypesPart!ToSet(b)
<1> DEFINE c == a \o b
<1>1. /\ c \in Seq(A) /\ Len(c) = Len(a) + Len(b) /\ Len(a) \in Nat /\ Len(b) \in Nat
      /\ \A i \in 1..Len(a) : c[i] = a[i]
      /\ \A i \in 1..Len(b) : c[Len(a) + i] = b[i]
      /\ \A i \in 1..Len(c) : i \notin 1..Len(a) => i - Len(a) \in 1..Len(b) /\ c[i] = b[i - Len(a)]
  OBVIOUS
<1> HIDE DEF c
<1>2. \A x : x \in TypesPart!ToSet(c) <=> \E i \in 1..Len(c) : c[i] = x
  BY <1>1, TypesByPlace
<1>3. \A x : x \in TypesPart!ToSet(a) <=> \E i \in 1..Len(a) : a[i] = x
  BY TypesByPlace
<1>4. \A x : x \in TypesPart!ToSet(b) <=> \E i \in 1..Len(b) : b[i] = x
  BY TypesByPlace
<1>5. \A i \in 1..Len(a) : i \in 1..Len(c)
  BY <1>1
<1>6. \A i \in 1..Len(b) : Len(a) + i \in 1..Len(c)
  BY <1>1
<1>7. \A x : x \in TypesPart!ToSet(c) <=> x \in TypesPart!ToSet(a) \/ x \in TypesPart!ToSet(b)
  <2> TAKE x
  <2>1. ASSUME x \in TypesPart!ToSet(c) PROVE x \in TypesPart!ToSet(a) \/ x \in TypesPart!ToSet(b)
    <3>1. PICK i \in 1..Len(c) : c[i] = x
      BY <1>2, <2>1
    <3>2. CASE i \in 1..Len(a)
      BY <1>1, <1>3, <3>1, <3>2
    <3>3. CASE i \notin 1..Len(a)
      BY <1>1, <1>4, <3>1, <3>3
    <3> QED
      BY <3>2, <3>3
  <2>2. ASSUME x \in TypesPart!ToSet(a) PROVE x \in TypesPart!ToSet(c)
    BY <1>1, <1>2, <1>3, <1>5, <2>2
  <2>3. ASSUME x \in TypesPart!ToSet(b) PROVE x \in TypesPart!ToSet(c)
    BY <1>1, <1>2, <1>4, <1>6, <2>3
  <2> QED
    BY <2>1, <2>2, <2>3
<1> QED
  BY <1>1, <1>7 DEF c

(* The function that FirstOfEachKey is defined by.                         *)
Collecting(f, raw, m) ==
  f = [n \in 0..m |-> IF n = 0 THEN << >>
        ELSE IF KeyOf[raw[n]] \in TypesPart!KeysOf(f[n - 1]) THEN f[n - 1]
        ELSE Append(f[n - 1], raw[n])]

(* There is such a function for every length.                              *)
LEMMA CollectingExists ==
  ASSUME NEW raw, NEW m \in Nat
  PROVE  \E f : Collecting(f, raw, m)
<1> DEFINE bad == {k \in Nat : ~\E f : Collecting(f, raw, k)}
<1>1. SUFFICES bad = {}
  OBVIOUS
<1>2. SUFFICES ASSUME bad # {} PROVE FALSE
  OBVIOUS
<1>3. PICK n \in bad : \A k \in bad : n <= k
  BY <1>2, Least
<1>4. n # 0
  <2> DEFINE g == [k \in 0..0 |-> << >>]
  <2>1. g = [k \in 0..0 |-> IF k = 0 THEN << >>
               ELSE IF KeyOf[raw[k]] \in TypesPart!KeysOf(g[k - 1]) THEN g[k - 1]
               ELSE Append(g[k - 1], raw[k])]
    OBVIOUS
  <2> QED
    BY <2>1 DEF Collecting
<1>5. n - 1 \in Nat /\ n - 1 \notin bad
  BY <1>3, <1>4
<1>6. PICK f : Collecting(f, raw, n - 1)
  BY <1>5
<1> DEFINE last == IF KeyOf[raw[n]] \in TypesPart!KeysOf(f[n - 1]) THEN f[n - 1]
                   ELSE Append(f[n - 1], raw[n])
           g == [k \in 0..n |-> IF k = n THEN last ELSE f[k]]
<1>7. \A k \in 0..n : g[k] = IF k = 0 THEN << >>
          ELSE IF KeyOf[raw[k]] \in TypesPart!KeysOf(g[k - 1]) THEN g[k - 1]
          ELSE Append(g[k - 1], raw[k])
  <2> TAKE k \in 0..n
  <2>1. CASE k = n
    <3>1. g[k] = last /\ g[n - 1] = f[n - 1] /\ k # 0
      BY <1>4, <1>5, <2>1
    <3> HIDE DEF g
    <3> QED
      BY <2>1, <3>1
  <2>2. CASE k < n
    <3>1. /\ k \in 0..(n - 1) /\ g[k] = f[k]
          /\ k # 0 => k - 1 \in 0..n /\ k - 1 # n /\ g[k - 1] = f[k - 1]
      BY <2>2
    <3> HIDE DEF g, last
    <3> QED
      BY <3>1, <1>6 DEF Collecting
  <2> QED
    BY <2>1, <2>2
<1>8. Collecting(g, raw, n)
  <2>1. g = [k \in 0..n |-> g[k]]
    OBVIOUS
  <2> HIDE DEF g, last
  <2> QED
    BY <1>7, <2>1 DEF Collecting
<1> QED
  BY <1>3, <1>8

(* What is collected of the first n: each key of theirs, once.             *)
Collected(t, raw, A, n) ==
  /\ t \in Seq(A)
  /\ TypesPart!EachKeyOnce(t)
  /\ TypesPart!KeysOf(t) = {KeyOf[raw[i]] : i \in 1..n}

(* The next one is collected unless its key has been.                      *)
LEMMA CollectedGoesOn ==
  ASSUME NEW A, NEW raw \in Seq(A), NEW n \in 1..Len(raw), NEW t, Collected(t, raw, A, n - 1)
  PROVE  Collected(IF KeyOf[raw[n]] \in TypesPart!KeysOf(t) THEN t ELSE Append(t, raw[n]),
                   raw, A, n)
<1>1. /\ n \in Nat /\ raw[n] \in A /\ t \in Seq(A) /\ Len(t) \in Nat
      /\ TypesPart!KeysOf(t) = {KeyOf[raw[i]] : i \in 1..(n - 1)}
      /\ TypesPart!EachKeyOnce(t)
  BY DEF Collected
<1>2. {KeyOf[raw[i]] : i \in 1..n} = {KeyOf[raw[i]] : i \in 1..(n - 1)} \cup {KeyOf[raw[n]]}
  BY <1>1
<1>3. CASE KeyOf[raw[n]] \in TypesPart!KeysOf(t)
  BY <1>1, <1>2, <1>3 DEF Collected
<1>4. CASE KeyOf[raw[n]] \notin TypesPart!KeysOf(t)
  <2> DEFINE u == Append(t, raw[n])
             e == raw[n]
  <2>1. /\ u \in Seq(A) /\ Len(u) = Len(t) + 1 /\ u[Len(t) + 1] = e
        /\ \A k \in 1..Len(t) : u[k] = t[k]
    BY <1>1
  <2> HIDE DEF u, e
  <2>2. \A k : k \in TypesPart!KeysOf(t) <=> \E i \in 1..Len(t) : KeyOf[t[i]] = k
    <3>1. t \in Seq(A)
      BY <1>1
    <3> QED
      BY <3>1, TypesByPlace
  <2>3. \A k : k \in TypesPart!KeysOf(u) <=> \E i \in 1..Len(u) : KeyOf[u[i]] = k
    BY <2>1, TypesByPlace
  <2>4. \A i, j \in 1..Len(t) : KeyOf[t[i]] = KeyOf[t[j]] => i = j
    BY <1>1, TypesByPlace
  <2>5. 1..Len(u) = 1..Len(t) \cup {Len(t) + 1}
    BY <1>1, <2>1
  <2>6. \A k : k \in TypesPart!KeysOf(u) <=> k \in TypesPart!KeysOf(t) \/ k = KeyOf[e]
    BY <2>1, <2>2, <2>3, <2>5
  <2>7. \A i \in 1..Len(t) : KeyOf[t[i]] # KeyOf[e]
    BY <1>4, <2>2 DEF e
  <2>8. \A i, j \in 1..Len(u) : KeyOf[u[i]] = KeyOf[u[j]] => i = j
    BY <2>1, <2>4, <2>5, <2>7
  <2>9. TypesPart!EachKeyOnce(u)
    BY <2>1, <2>8, TypesByPlace
  <2>10. TypesPart!KeysOf(u) = TypesPart!KeysOf(t) \cup {KeyOf[e]}
    BY <2>6
  <2>11. Collected(u, raw, A, n)
    BY <1>1, <1>2, <2>1, <2>9, <2>10 DEF Collected, e
  <2> QED
    BY <1>4, <2>11 DEF u
<1> QED
  BY <1>3, <1>4

(* Each key of a list is collected, once.                                  *)
LEMMA AllAreCollected ==
  ASSUME NEW A, NEW raw \in Seq(A)
  PROVE  /\ TypesPart!FirstOfEachKey(raw) \in Seq(A)
         /\ TypesPart!EachKeyOnce(TypesPart!FirstOfEachKey(raw))
         /\ TypesPart!KeysOf(TypesPart!FirstOfEachKey(raw)) = TypesPart!KeysOf(raw)
<1> DEFINE g == CHOOSE f : Collecting(f, raw, Len(raw))
<1>0. Len(raw) \in Nat
  OBVIOUS
<1>1. Collecting(g, raw, Len(raw))
  BY <1>0, CollectingExists
<1>2. TypesPart!FirstOfEachKey(raw) = g[Len(raw)]
  BY Zenon DEF TypesPart!FirstOfEachKey, Collecting
<1> HIDE DEF g
<1> DEFINE bad == {n \in 0..Len(raw) : ~Collected(g[n], raw, A, n)}
<1>3. bad = {}
  <2> SUFFICES ASSUME bad # {} PROVE FALSE
    OBVIOUS
  <2>1. PICK n \in bad : \A k \in bad : n <= k
    <3>1. bad \in SUBSET Nat
      OBVIOUS
    <3> QED
      BY <3>1, Least
  <2>2. CASE n = 0
    <3>1. g[0] = << >>
      BY <1>0, <1>1 DEF Collecting
    <3>2. << >> \in Seq(A) /\ 1..0 = {} /\ 1..Len(<< >>) = {}
      OBVIOUS
    <3>3. TypesPart!EachKeyOnce(<< >>) /\ TypesPart!KeysOf(<< >>) = {}
      BY <3>2, TypesByPlace
    <3>4. Collected(<< >>, raw, A, 0)
      BY <3>2, <3>3, Zenon DEF Collected
    <3> QED
      BY <2>1, <2>2, <3>1, <3>4
  <2>3. CASE n # 0
    <3>1. n \in 1..Len(raw) /\ n - 1 \in 0..Len(raw) /\ n - 1 \notin bad
      BY <2>1, <2>3
    <3>2. Collected(g[n - 1], raw, A, n - 1)
      BY <3>1
    <3>3. g[n] = IF KeyOf[raw[n]] \in TypesPart!KeysOf(g[n - 1]) THEN g[n - 1]
                 ELSE Append(g[n - 1], raw[n])
      BY <1>1, <2>3, <3>1 DEF Collecting
    <3>4. Collected(g[n], raw, A, n)
      BY <3>1, <3>2, <3>3, CollectedGoesOn
    <3> QED
      BY <2>1, <3>4
  <2> QED
    BY <2>2, <2>3
<1>4. Collected(g[Len(raw)], raw, A, Len(raw))
  BY <1>0, <1>3
<1>5. TypesPart!KeysOf(raw) = {KeyOf[raw[i]] : i \in 1..Len(raw)}
  <2>1. \A k : k \in TypesPart!KeysOf(raw) <=> \E i \in 1..Len(raw) : KeyOf[raw[i]] = k
    BY TypesByPlace
  <2> QED
    BY <2>1
<1> QED
  BY <1>2, <1>4, <1>5 DEF Collected

(* What is dropped is the end.                                             *)
LEMMA CappedKeeps ==
  ASSUME MaxTypes \in Nat, NEW A, NEW t \in Seq(A), TypesPart!EachKeyOnce(t)
  PROVE  /\ TypesPart!Capped(t) \in Seq(A) /\ TypesPart!EachKeyOnce(TypesPart!Capped(t))
         /\ TypesPart!KeysOf(TypesPart!Capped(t)) \subseteq TypesPart!KeysOf(t)
<1> DEFINE n == IF Len(t) < MaxTypes THEN Len(t) ELSE MaxTypes
           u == SubSeq(t, 1, n)
<1>1. n \in 0..Len(t) /\ Len(t) \in Nat
  OBVIOUS
<1> HIDE DEF n
<1>2. u \in Seq(A) /\ Len(u) = n /\ \A i \in 1..n : u[i] = t[i]
  BY <1>1, Beginning
<1>3. TypesPart!Capped(t) = u
  BY Zenon DEF TypesPart!Capped, n
<1> HIDE DEF u
<1>4. \A i, j \in 1..Len(t) : KeyOf[t[i]] = KeyOf[t[j]] => i = j
  BY TypesByPlace
<1>5. \A k : k \in TypesPart!KeysOf(t) <=> \E i \in 1..Len(t) : KeyOf[t[i]] = k
  BY TypesByPlace
<1>6. \A k : k \in TypesPart!KeysOf(u) <=> \E i \in 1..Len(u) : KeyOf[u[i]] = k
  BY <1>2, TypesByPlace
<1>7. \A i \in 1..Len(u) : i \in 1..Len(t) /\ u[i] = t[i]
  BY <1>1, <1>2
<1>8. TypesPart!EachKeyOnce(u)
  <2>1. \A i, j \in 1..Len(u) : KeyOf[u[i]] = KeyOf[u[j]] => i = j
    BY <1>4, <1>7
  <2> QED
    BY <1>2, <2>1, TypesByPlace
<1>9. TypesPart!KeysOf(u) \subseteq TypesPart!KeysOf(t)
  BY <1>5, <1>6, <1>7
<1> QED
  BY <1>2, <1>3, <1>8, <1>9

TagsRows ==
  /\ tags \in [Tagged -> Seq(DOMAIN KeyOf)]
  /\ given = [r \in Tagged |-> given[r]]

(* What the page has read is what there is, unless a colleague has written. *)
SheetReads ==
  /\ sheet.at \in {"rendering", "open"} =>
       /\ sheet.of \in Tagged /\ sheet.own \in Seq(DOMAIN KeyOf)
       /\ TypesPart!EachKeyOnce(sheet.own)
       /\ ~outdated => sheet.own = tags[sheet.of]
  /\ sheet.at = "rendering" => sheet = TypesPart!Rendering(sheet.of, sheet.own)

(* There is a box for each type of the resource's, and one for each key.   *)
BoxesShow ==
  sheet.at = "open" =>
    /\ sheet.boxes \in Seq(DOMAIN KeyOf)
    /\ \A s, t \in TypesPart!ToSet(sheet.boxes) : KeyOf[s] = KeyOf[t] => s = t
    /\ TypesPart!KeysOf(sheet.own) \subseteq TypesPart!KeysOf(sheet.boxes)

TagsInv == TagsRows /\ SheetReads /\ BoxesShow /\ TypesPart!TagsKept

(* The page reads what there is, or the tab goes away.                     *)
LEMMA SheetStarts ==
  ASSUME NEW r \in Tagged, tags' \in [Tagged -> Seq(DOMAIN KeyOf)],
         TypesPart!EachKeyOnce(tags'[r]),
         sheet' \in {TypesPart!Rendering(r, tags'[r]), TypesPart!Away}
  PROVE  SheetReads' /\ BoxesShow'
<1>1. CASE sheet' = TypesPart!Away
  BY <1>1 DEF SheetReads, BoxesShow, TypesPart!Away
<1>2. CASE sheet' = TypesPart!Rendering(r, tags'[r])
  <2>1. sheet'.at = "rendering" /\ sheet'.of = r /\ sheet'.own = tags'[r]
    BY <1>2 DEF TypesPart!Rendering
  <2>2. sheet' = TypesPart!Rendering(sheet'.of, sheet'.own)
    BY <1>2, <2>1
  <2>3. SheetReads'
    BY <2>1, <2>2 DEF SheetReads
  <2> QED
    BY <2>1, <2>3 DEF BoxesShow
<1> QED
  BY <1>1, <1>2

(* Somebody writes the types of one resource.                              *)
LEMMA TypesWritten ==
  ASSUME TagsInv, NEW r \in Tagged, NEW list \in Seq(DOMAIN KeyOf), TypesPart!EachKeyOnce(list),
         tags' = [tags EXCEPT ![r] = list],
         given' = [given EXCEPT ![r] = TypesPart!KeysOf(list)]
  PROVE  TagsRows' /\ TypesPart!TagsKept'
<1>1. /\ tags' \in [Tagged -> Seq(DOMAIN KeyOf)]
      /\ \A o \in Tagged : tags'[o] = IF o = r THEN list ELSE tags[o]
  BY DEF TagsInv, TagsRows
<1>2. /\ given' = [o \in Tagged |-> given'[o]]
      /\ \A o \in Tagged : given'[o] = IF o = r THEN TypesPart!KeysOf(list) ELSE given[o]
  BY DEF TagsInv, TagsRows
<1>3. TypesPart!TagsKept'
  BY <1>1, <1>2, Zenon DEF TagsInv, TypesPart!TagsKept
<1> QED
  BY <1>1, <1>2, <1>3 DEF TagsRows

(* The boxes are shown.                                                    *)
LEMMA SheetRenders == ASSUME TagsInv, TypesPart!RenderSheet PROVE TagsInv'
<1> DEFINE own == sheet.own
<1>0. /\ sheet.at = "rendering" /\ UNCHANGED <<tags, given, outdated>>
      /\ sheet = [at |-> "rendering", of |-> sheet.of, own |-> own, boxes |-> << >>]
      /\ sheet.of \in Tagged /\ own \in Seq(DOMAIN KeyOf) /\ TypesPart!EachKeyOnce(own)
      /\ ~outdated => own = tags[sheet.of]
  BY DEF TypesPart!RenderSheet, TagsInv, SheetReads, TypesPart!Rendering
<1>1. PICK options \in TypesPart!MessageTypeOptions :
        sheet' = [sheet EXCEPT
          !.at = "open",
          !.boxes = options \o TypesPart!Where(own,
                      {s \in TypesPart!ToSet(own) : KeyOf[s] \notin TypesPart!KeysOf(options)})]
  BY Zenon DEF TypesPart!RenderSheet
<1>2. PICK o : /\ options = TypesPart!Where(Alphabetical, o)
               /\ \A s, t \in o : KeyOf[s] = KeyOf[t] => s = t
  BY DEF TypesPart!MessageTypeOptions
<1> DEFINE apart == {s \in TypesPart!ToSet(own) : KeyOf[s] \notin TypesPart!KeysOf(options)}
           rest == TypesPart!Where(own, apart)
           boxes == options \o rest
<1>3. /\ sheet'.at = "open" /\ sheet'.of = sheet.of /\ sheet'.own = own /\ sheet'.boxes = boxes
  BY <1>0, <1>1
<1> HIDE DEF own
<1>4. /\ options \in Seq(DOMAIN KeyOf)
      /\ TypesPart!ToSet(options) \subseteq o
  <2>1. Alphabetical \in Seq(DOMAIN KeyOf)
    BY ChurchAssumption
  <2> QED
    BY <1>2, <2>1, TypesKept
<1>5. rest \in Seq(DOMAIN KeyOf) /\ TypesPart!ToSet(rest) = apart
  BY <1>0, TypesKept
<1> HIDE DEF rest
<1>6. /\ boxes \in Seq(DOMAIN KeyOf)
      /\ TypesPart!ToSet(boxes) = TypesPart!ToSet(options) \cup apart
  BY <1>4, <1>5, TypesJoined
<1> HIDE DEF boxes
<1>7. \A k : k \in TypesPart!KeysOf(options) <=>
               \E s \in TypesPart!ToSet(options) : KeyOf[s] = k
  BY <1>4, TypesByPlace
<1>8. \A k : k \in TypesPart!KeysOf(own) <=> \E s \in TypesPart!ToSet(own) : KeyOf[s] = k
  BY <1>0, TypesByPlace
<1>9. \A k : k \in TypesPart!KeysOf(boxes) <=> \E s \in TypesPart!ToSet(boxes) : KeyOf[s] = k
  BY <1>6, TypesByPlace
<1>10. \A s, t \in TypesPart!ToSet(own) : KeyOf[s] = KeyOf[t] => s = t
  <2>1. \A x : x \in TypesPart!ToSet(own) <=> \E i \in 1..Len(own) : own[i] = x
    BY <1>0, TypesByPlace
  <2>2. \A i, j \in 1..Len(own) : KeyOf[own[i]] = KeyOf[own[j]] => i = j
    BY <1>0, TypesByPlace
  <2> TAKE s \in TypesPart!ToSet(own), t \in TypesPart!ToSet(own)
  <2>3. PICK i \in 1..Len(own) : own[i] = s
    BY <2>1, Zenon
  <2>4. PICK j \in 1..Len(own) : own[j] = t
    BY <2>1, Zenon
  <2>5. KeyOf[own[i]] = KeyOf[own[j]] => i = j
    BY <2>2, Zenon
  <2> QED
    BY <2>3, <2>4, <2>5
<1>11. \A s, t \in TypesPart!ToSet(boxes) : KeyOf[s] = KeyOf[t] => s = t
  <2> SUFFICES ASSUME NEW s \in TypesPart!ToSet(boxes), NEW t \in TypesPart!ToSet(boxes),
                      KeyOf[s] = KeyOf[t]
               PROVE  s = t
    OBVIOUS
  <2>1. CASE s \in TypesPart!ToSet(options) /\ t \in TypesPart!ToSet(options)
    BY <1>2, <1>4, <2>1
  <2>2. CASE s \in apart /\ t \in apart
    BY <1>10, <2>2
  <2>3. CASE s \in TypesPart!ToSet(options) /\ t \in apart
    BY <1>7, <2>3
  <2>4. CASE s \in apart /\ t \in TypesPart!ToSet(options)
    BY <1>7, <2>4
  <2> QED
    BY <1>6, <2>1, <2>2, <2>3, <2>4
<1>12. TypesPart!KeysOf(own) \subseteq TypesPart!KeysOf(boxes)
  <2> SUFFICES ASSUME NEW k \in TypesPart!KeysOf(own) PROVE k \in TypesPart!KeysOf(boxes)
    OBVIOUS
  <2>1. PICK s \in TypesPart!ToSet(own) : KeyOf[s] = k
    BY <1>8
  <2>2. CASE k \in TypesPart!KeysOf(options)
    BY <1>6, <1>7, <1>9, <2>2
  <2>3. CASE k \notin TypesPart!KeysOf(options)
    BY <1>6, <1>9, <2>1, <2>3
  <2> QED
    BY <2>2, <2>3
<1>13. SheetReads'
  BY <1>0, <1>3 DEF SheetReads
<1>14. BoxesShow'
  BY <1>3, <1>6, <1>11, <1>12 DEF BoxesShow
<1>15. TagsRows' /\ TypesPart!TagsKept'
  BY <1>0 DEF TagsInv, TagsRows, TypesPart!TagsKept
<1> QED
  BY <1>13, <1>14, <1>15 DEF TagsInv

(* The form is sent.                                                       *)
LEMMA TypesSaved == ASSUME TagsInv, TypesPart!SaveMessageTypes PROVE TagsInv'
<1> DEFINE r == sheet.of
           boxes == TypesPart!ToSet(sheet.boxes)
           owned == TypesPart!KeysOf(sheet.own)
<1>1. /\ sheet.at = "open" /\ r \in Tagged /\ sheet.boxes \in Seq(DOMAIN KeyOf)
      /\ \A s, t \in boxes : KeyOf[s] = KeyOf[t] => s = t
      /\ owned \subseteq TypesPart!KeysOf(sheet.boxes)
      /\ ~outdated => sheet.own = tags[r]
      /\ outdated' = FALSE
  BY DEF TypesPart!SaveMessageTypes, TagsInv, SheetReads, BoxesShow
<1> DEFINE ticked == TypesPart!Ticked
<1>2. PICK toggled \in SUBSET boxes, typed \in Typed :
        LET off      == toggled \cap ticked
            on       == toggled \ ticked
            left     == (ticked \ off) \cup on
            gathered == TypesPart!FirstOfEachKey(TypesPart!Where(sheet.boxes, left) \o typed)
            saved    == TypesPart!Capped(gathered)
        IN  /\ tags' = [tags EXCEPT ![r] = saved]
            /\ given' = [given EXCEPT ![r] =
                 IF outdated THEN TypesPart!KeysOf(saved)
                 ELSE ((given[r] \ TypesPart!KeysIn(off)) \cup TypesPart!KeysIn(on)
                         \cup TypesPart!KeysOf(typed))
                        \ (TypesPart!KeysOf(gathered) \ TypesPart!KeysOf(saved))]
            /\ sheet' \in {TypesPart!Rendering(r, saved), TypesPart!Away}
  BY Zenon DEF TypesPart!SaveMessageTypes
<1> DEFINE off      == toggled \cap ticked
           on       == toggled \ ticked
           left     == (ticked \ off) \cup on
           kept     == TypesPart!Where(sheet.boxes, left)
           raw      == kept \o typed
           gathered == TypesPart!FirstOfEachKey(raw)
           saved    == TypesPart!Capped(gathered)
           offKeys  == TypesPart!KeysIn(off)
           onKeys   == TypesPart!KeysIn(on)
<1>3. /\ tags' = [tags EXCEPT ![r] = saved]
      /\ given' = [given EXCEPT ![r] =
           IF outdated THEN TypesPart!KeysOf(saved)
           ELSE ((given[r] \ offKeys) \cup onKeys \cup TypesPart!KeysOf(typed))
                  \ (TypesPart!KeysOf(gathered) \ TypesPart!KeysOf(saved))]
      /\ sheet' \in {TypesPart!Rendering(r, saved), TypesPart!Away}
  BY <1>2
<1>4. ticked = {s \in boxes : KeyOf[s] \in owned}
  BY DEF TypesPart!Ticked
<1> HIDE DEF ticked
<1>5. /\ typed \in Seq(DOMAIN KeyOf) /\ MaxTypes \in Nat
  BY ChurchAssumption
<1>6. left \subseteq boxes
  BY <1>4
<1>7. kept \in Seq(DOMAIN KeyOf) /\ TypesPart!ToSet(kept) = left
  <2>1. kept \in Seq(DOMAIN KeyOf) /\ TypesPart!ToSet(kept) = boxes \cap left
    BY <1>1, TypesKept
  <2> QED
    BY <1>6, <2>1
<1> HIDE DEF kept
<1>8. /\ raw \in Seq(DOMAIN KeyOf)
      /\ TypesPart!ToSet(raw) = left \cup TypesPart!ToSet(typed)
  BY <1>5, <1>7, TypesJoined
<1> HIDE DEF raw
<1>9. /\ gathered \in Seq(DOMAIN KeyOf) /\ TypesPart!EachKeyOnce(gathered)
      /\ TypesPart!KeysOf(gathered) = TypesPart!KeysOf(raw)
  BY <1>8, AllAreCollected
<1> HIDE DEF gathered
<1>10. /\ saved \in Seq(DOMAIN KeyOf) /\ TypesPart!EachKeyOnce(saved)
       /\ TypesPart!KeysOf(saved) \subseteq TypesPart!KeysOf(gathered)
  BY <1>5, <1>9, CappedKeeps
<1> HIDE DEF saved
<1>11. TypesPart!KeysOf(raw) = TypesPart!KeysIn(left) \cup TypesPart!KeysOf(typed)
  BY <1>8 DEF TypesPart!KeysOf, TypesPart!KeysIn
<1>12. TypesPart!KeysIn(left) = (owned \ offKeys) \cup onKeys
  <2>1. \A k \in owned : \E s \in boxes : KeyOf[s] = k
    BY <1>1 DEF TypesPart!KeysOf, TypesPart!KeysIn
  <2>2. \A s, t \in boxes : KeyOf[s] = KeyOf[t] => s = t
    BY <1>1
  <2>3. /\ offKeys = {KeyOf[s] : s \in off} /\ onKeys = {KeyOf[s] : s \in on}
        /\ TypesPart!KeysIn(left) = {KeyOf[s] : s \in left}
    BY DEF TypesPart!KeysIn
  <2> HIDE DEF owned, boxes, offKeys, onKeys
  <2>4. ASSUME NEW s \in left PROVE KeyOf[s] \in (owned \ offKeys) \cup onKeys
    <3>1. CASE s \in on
      BY <2>3, <3>1
    <3>2. CASE s \in ticked \ off
      <4>1. \A u \in off : KeyOf[u] # KeyOf[s]
        BY <1>4, <2>2, <3>2
      <4> QED
        BY <1>4, <2>3, <3>2, <4>1
    <3> QED
      BY <2>4, <3>1, <3>2
  <2>5. ASSUME NEW k \in owned \ offKeys PROVE \E s \in left : k = KeyOf[s]
    <3>1. PICK s \in boxes : KeyOf[s] = k
      BY <2>1, <2>5
    <3>2. s \in ticked /\ s \notin off
      BY <1>4, <2>3, <2>5, <3>1
    <3> QED
      BY <3>1, <3>2
  <2>6. \A k \in onKeys : \E s \in left : k = KeyOf[s]
    BY <2>3
  <2> HIDE DEF left
  <2> QED
    BY <2>3, <2>4, <2>5, <2>6
<1>13. ~outdated => given[r] = owned
  BY <1>1, Zenon DEF TagsInv, TypesPart!TagsKept
<1> HIDE DEF off, on, left, owned, boxes, offKeys, onKeys
<1>14. given' = [given EXCEPT ![r] = TypesPart!KeysOf(saved)]
  <2>1. CASE outdated
    BY <1>3, <2>1
  <2>2. CASE ~outdated
    <3>1. ((given[r] \ offKeys) \cup onKeys \cup TypesPart!KeysOf(typed))
            = TypesPart!KeysOf(gathered)
      BY <1>9, <1>11, <1>12, <1>13, <2>2
    <3>2. TypesPart!KeysOf(gathered) \ (TypesPart!KeysOf(gathered) \ TypesPart!KeysOf(saved))
            = TypesPart!KeysOf(saved)
      BY <1>10
    <3> QED
      BY <1>3, <2>2, <3>1, <3>2
  <2> QED
    BY <2>1, <2>2
<1> HIDE DEF r
<1>15. TagsRows' /\ TypesPart!TagsKept'
  BY <1>1, <1>3, <1>10, <1>14, TypesWritten
<1>16. /\ tags' \in [Tagged -> Seq(DOMAIN KeyOf)] /\ tags'[r] = saved
  BY <1>1, <1>3, <1>10 DEF TagsInv, TagsRows
<1>17. SheetReads' /\ BoxesShow'
  BY <1>1, <1>3, <1>10, <1>16, SheetStarts
<1> QED
  BY <1>15, <1>17 DEF TagsInv

(* Whatever is done, the types that were given are there.                  *)
LEMMA TagsStep == ASSUME TagsInv, [TypesPart!TagsNext]_tagVars PROVE TagsInv'
<1>1. ASSUME NEW r \in Tagged, TypesPart!OpenSheet(r) PROVE TagsInv'
  <2>1. /\ sheet' = TypesPart!Rendering(r, tags[r]) /\ UNCHANGED <<tags, given>>
    BY <1>1 DEF TypesPart!OpenSheet
  <2>2. SheetReads' /\ BoxesShow'
    BY <2>1, SheetStarts DEF TagsInv, TagsRows, TypesPart!TagsKept
  <2> QED
    BY <2>1, <2>2 DEF TagsInv, TagsRows, TypesPart!TagsKept
<1>2. ASSUME NEW r \in Tagged, TypesPart!SavedByColleague(r) PROVE TagsInv'
  <2>1. PICK list \in Elsewhere : /\ tags' = [tags EXCEPT ![r] = list]
                                  /\ given' = [given EXCEPT ![r] = TypesPart!KeysOf(list)]
    BY <1>2, Zenon DEF TypesPart!SavedByColleague
  <2>2. list \in Seq(DOMAIN KeyOf) /\ TypesPart!EachKeyOnce(list)
    BY ChurchAssumption DEF TypesPart!EachKeyOnce
  <2>3. TagsRows' /\ TypesPart!TagsKept'
    BY <2>1, <2>2, TypesWritten
  <2>4. /\ sheet' = sheet
        /\ outdated' = (outdated \/ (sheet # TypesPart!Away /\ sheet.of = r))
    BY <1>2 DEF TypesPart!SavedByColleague
  <2>5. sheet.at \in {"rendering", "open"} => sheet # TypesPart!Away
    BY DEF TypesPart!Away
  <2>6. \A o \in Tagged \ {r} : tags'[o] = tags[o]
    BY <2>1 DEF TagsInv, TagsRows
  <2>7. SheetReads'
    BY <2>4, <2>5, <2>6 DEF TagsInv, SheetReads
  <2> QED
    BY <2>3, <2>4, <2>7 DEF TagsInv, BoxesShow
<1>3. ASSUME TypesPart!SaveRefused PROVE TagsInv'
  <2>1. sheet' = TypesPart!Away /\ UNCHANGED <<tags, given, outdated>>
    BY <1>3 DEF TypesPart!SaveRefused
  <2> QED
    BY <2>1 DEF TagsInv, TagsRows, SheetReads, BoxesShow, TypesPart!TagsKept, TypesPart!Away
<1>4. ASSUME UNCHANGED tagVars PROVE TagsInv'
  BY <1>4 DEF tagVars, TagsInv, TagsRows, SheetReads, BoxesShow, TypesPart!TagsKept
<1> QED
  BY <1>1, <1>2, <1>3, <1>4, SheetRenders, TypesSaved DEF TypesPart!TagsNext

(* A form keeps what it does not show (prayer-wall/setup/page.tsx:42), and *)
(* a message type stays until it is unticked, saved over or one too many,  *)
(* in one spelling, for any resources, spellings and limits.               *)
THEOREM ChoicesStay == Spec => []ChoicesKept
<1>1. Init => TagsInv
  <2> SUFFICES ASSUME Init PROVE TagsInv
    OBVIOUS
  <2>1. /\ tags = [r \in Tagged |-> << >>] /\ given = [r \in Tagged |-> {}]
        /\ sheet = TypesPart!Away
    BY DEF Init, TypesPart!TagsInit
  <2>2. /\ << >> \in Seq(DOMAIN KeyOf) /\ TypesPart!EachKeyOnce(<< >>)
        /\ TypesPart!KeysOf(<< >>) = {}
    <3>1. << >> \in Seq(DOMAIN KeyOf) /\ 1..Len(<< >>) = {}
      OBVIOUS
    <3> QED
      BY <3>1, TypesByPlace
  <2>3. TagsRows /\ TypesPart!TagsKept
    BY <2>1, <2>2 DEF TagsRows, TypesPart!TagsKept
  <2> QED
    BY <2>1, <2>3 DEF TagsInv, SheetReads, BoxesShow, TypesPart!Away
<1>2. TagsInv /\ [Next]_vars => TagsInv'
  <2> SUFFICES ASSUME TagsInv, [Next]_vars PROVE TagsInv'
    OBVIOUS
  <2>1. [TypesPart!TagsNext]_tagVars
    BY DEF Next, vars, OnTeam, OnUsage, OnRate, OnList, OnWall, OnSetup, InSetup, OnForms,
       OnDocuments, OnAccounts, OnDesk, OnInsights, OnLog, OnListing, OnPanels, OnTypes
  <2> QED
    BY <2>1, TagsStep
<1>3. TagsInv => TypesPart!TagsKept
  BY DEF TagsInv
<1>4. Spec => []TypesPart!TagsKept
  BY <1>1, <1>2, <1>3, PTL DEF Spec
<1>5. FormsPart!ChoicesKept /\ TypesPart!TagsKept => ChoicesKept
  BY DEF ChoicesKept
<1> QED
  BY <1>4, <1>5, FormsKeepChoices, PTL

=============================================================================
