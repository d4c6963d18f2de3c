-------------------------------- MODULE Team --------------------------------
(***************************************************************************)
(* Who belongs to one organization, and as what. Two server actions run at *)
(* a time: each authorises its actor, reads, reads again and writes, with  *)
(* no transaction around it, and may throw between any two calls.          *)
(***************************************************************************)
EXTENDS Naturals, FiniteSets

CONSTANTS People,         \* the accounts considered
          Founder,        \* the one who signed up
          Calls,          \* slots for server actions under way
          MaxTeamMembers  \* the plan's cap

VARIABLES
  role,       \* each person's role in the organization, or why there is none
  call,       \* the server actions under way
  overlapped  \* history: has a call written while another was under way?

teamVars == <<role, call, overlapped>>

(* OTHER: the roles that may not manage the team. *)
Roles    == {"OWNER", "ADMIN", "OTHER"}
Outsider == {"none", "elsewhere"}  \* "elsewhere": a member of another organization

NoTeamCall == [at |-> "no", target |-> Founder, role |-> "none"]

(* role is the one asked for: "none" for a removal. *)
TeamCall == [at : {"no", "reading", "counting", "writing", "countingMembers", "joining"},
             target : People, role : Roles \cup {"none"}]

Members == {p \in People : role[p] \in Roles}
Owners  == {p \in People : role[p] = "OWNER"}

TeamTypeOK ==
  /\ role \in [People -> Roles \cup Outsider]
  /\ call \in [Calls -> TeamCall]
  /\ overlapped \in BOOLEAN

TeamInit ==
  /\ role \in {f \in [People -> Outsider \cup {"OWNER"}] :
                 \A p \in People : f[p] = "OWNER" <=> p = Founder}
  /\ call = [c \in Calls |-> NoTeamCall]
  /\ overlapped = FALSE

(* requireOrgRole, for somebody who may ask it of target: the page has no  *)
(* controls on one's own row.                                              *)
Authorised(target) == \E actor \in People \ {target} : role[actor] \in {"OWNER", "ADMIN"}

UnderWay(c) == \E d \in Calls \ {c} : call[d].at # "no"

Goto(c, at) == /\ call' = [call EXCEPT ![c].at = at]
               /\ UNCHANGED <<role, overlapped>>

Throw(c) == /\ call' = [call EXCEPT ![c] = NoTeamCall]
            /\ UNCHANGED <<role, overlapped>>

(* The one write of a call: nothing, to who is no member by then. *)
Put(c, p, r) ==
  /\ role' = [role EXCEPT ![p] = r]
  /\ call' = [call EXCEPT ![c] = NoTeamCall]
  /\ overlapped' = (overlapped \/ UnderWay(c))

-----------------------------------------------------------------------------

(* updateMemberRoleAction and removeMemberAction, up to the service's      *)
(* first read. Making an owner asks nothing.                               *)
UpdateMemberRole(c, p, r) ==
  /\ call[c].at = "no"
  /\ Authorised(p) /\ p \in Members
  /\ call' = [call EXCEPT ![c] = [at |-> IF r = "OWNER" THEN "writing" ELSE "reading",
                                  target |-> p, role |-> r]]
  /\ UNCHANGED <<role, overlapped>>

RemoveMember(c, p) ==
  /\ call[c].at = "no"
  /\ Authorised(p) /\ p \in Members
  /\ call' = [call EXCEPT ![c] = [at |-> "reading", target |-> p, role |-> "none"]]
  /\ UNCHANGED <<role, overlapped>>

(* assertNotLastOwner: the target's row, and then the owners. *)
ReadMembership(c) ==
  /\ call[c].at = "reading"
  /\ Goto(c, IF role[call[c].target] = "OWNER" THEN "counting" ELSE "writing")

(* Slip: counts who may manage the team. *)
CountManagers(c) ==
  /\ call[c].at = "counting"
  /\ IF Cardinality({p \in People : role[p] \in {"OWNER", "ADMIN"}}) <= 1
     THEN Throw(c) ELSE Goto(c, "writing")

CountOwners(c) ==
  /\ call[c].at = "counting"
  /\ IF Cardinality(Owners) <= 1 THEN Throw(c) ELSE Goto(c, "writing")

WriteMembership(c) ==
  /\ call[c].at = "writing"
  /\ LET p == call[c].target
     IN Put(c, p, IF p \in Members THEN call[c].role ELSE role[p])

(* inviteMemberAction: authorised, counted, and then created. *)
Invite(c, p, r) ==
  /\ call[c].at = "no"
  /\ Authorised(p)
  /\ call' = [call EXCEPT ![c] = [at |-> "countingMembers", target |-> p, role |-> r]]
  /\ UNCHANGED <<role, overlapped>>

AssertUnderCap(c) ==
  /\ call[c].at = "countingMembers"
  /\ IF Cardinality(Members) >= MaxTeamMembers THEN Throw(c) ELSE Goto(c, "joining")

(* A person has one membership at most, by a read and by the index. *)
InviteMember(c) ==
  /\ call[c].at = "joining"
  /\ LET p == call[c].target
     IN IF role[p] = "none" THEN Put(c, p, call[c].role) ELSE Throw(c)

(* The database throws, or the platform ends the action. *)
CallThrows(c) == call[c].at # "no" /\ Throw(c)

TeamNext ==
  \E c \in Calls :
    \/ ReadMembership(c) \/ CountOwners(c) \/ WriteMembership(c)
    \/ AssertUnderCap(c) \/ InviteMember(c) \/ CallThrows(c)
    \/ \E p \in People :
         \/ RemoveMember(c, p)
         \/ \E r \in Roles : UpdateMemberRole(c, p, r) \/ (r # "OWNER" /\ Invite(c, p, r))

TeamSpec == TeamInit /\ [][TeamNext]_teamVars

-----------------------------------------------------------------------------

(* As long as no call has written while another was under way, somebody    *)
(* owns the organization: "An organization must have at least one owner"   *)
(* (team-service.ts:65). Two that overlap can leave it with nobody.        *)
AnOwnerRemains == overlapped \/ Owners # {}

(* As long as calls do not overlap, the team is within the plan's cap.     *)
TeamCapHolds == overlapped \/ Cardinality(Members) <= MaxTeamMembers

=============================================================================
