----------------------------- MODULE PrayerWall -----------------------------
(***************************************************************************)
(* A church's public prayer wall: a member submits requests, which are     *)
(* classified, stored and forwarded by mail; the member and the staff show *)
(* and hide them; visitors pray for what they see; staff reply by mail.    *)
(* One server action is several awaited calls, and each of them may throw. *)
(***************************************************************************)
EXTENDS Naturals, FiniteSets

CONSTANTS Requests,    \* the requests considered, all by one member
          Addresses,   \* prayerRequestForwardingEmails, when there are any
          Marks,       \* what is edited by one statement and read by none of the
                       \* steps here: of "answered", "anonymous", "category", "note"
          MaxPrayers, MaxReplies  \* bounds on prayers and replies per request

VARIABLES
  wall,       \* prayerWallEnabled and the addresses, as the settings have them
  message,    \* frozen: what each request's text is, "ordinary" or "crisis"
  session,    \* the member's account, and a session that has not expired:
              \* "noAccount", "out" or "in"
  rows,       \* the requests stored
  submission, \* the server action that stores each of them
  testimony,  \* a testimony of the member's: "none", "shown", "hidden" or "gone"
  listed,     \* a visitor's tab: the requests on it
  prayedIds,  \* ... and those it shows as "Praying"
  pray,       \* the prayAction under way
  reply,      \* the sendReplyAction under way
  asked,      \* history: requests somebody made public after they were stored
  settled,    \* history: "Praying" cards per request whose call returned
  replied     \* history: replies mailed per request

prayerVars == <<wall, message, session, rows, submission, testimony, listed, prayedIds,
                pray, reply, asked, settled, replied>>

Row == [public : BOOLEAN, forwarded : BOOLEAN, marks : SUBSET Marks,
        prayerCount : 0..MaxPrayers, replies : 0..MaxReplies]

NoRow   == [status |-> "none"]     \* not submitted yet
Deleted == [status |-> "deleted"]
Exists(r) == rows[r] \in Row

NoSubmission == [at |-> "no", public |-> FALSE, to |-> {}, mailed |-> {}]
NoCall       == [at |-> "no"]

Wall == [on : BOOLEAN, emails : SUBSET Addresses]

Submission == [at : {"no", "classifying", "creating", "mailing", "done"}, public : BOOLEAN,
               to : SUBSET Addresses, mailed : SUBSET Addresses]

PrayerTypeOK ==
  /\ wall \in Wall
  /\ message \in [Requests -> {"ordinary", "crisis"}]
  /\ session \in {"noAccount", "out", "in"}
  /\ rows \in [Requests -> Row \cup {NoRow, Deleted}]
  /\ submission \in [Requests -> Submission]
  /\ testimony \in {"none", "shown", "hidden", "gone"}
  /\ listed \subseteq Requests /\ prayedIds \subseteq Requests /\ asked \subseteq Requests
  /\ settled \in [Requests -> Nat] /\ replied \in [Requests -> Nat]

PrayerInit ==
  /\ wall = [on |-> FALSE, emails |-> {}]
  /\ message \in [Requests -> {"ordinary", "crisis"}]
  /\ session = "noAccount"
  /\ rows = [r \in Requests |-> NoRow]
  /\ submission = [r \in Requests |-> NoSubmission]
  /\ testimony = "none"
  /\ listed = {} /\ prayedIds = {}
  /\ pray = NoCall /\ reply = NoCall
  /\ asked = {}
  /\ settled = [r \in Requests |-> 0]
  /\ replied = [r \in Requests |-> 0]

(* An updateMany of one request: nothing, when it has been deleted. *)
Updated(r, row) ==
  rows' = IF Exists(r) THEN [rows EXCEPT ![r] = row] ELSE rows

-----------------------------------------------------------------------------
(* The wall's settings, and the member's account on it. *)

EnablePrayerWall ==
  /\ wall' \in [on : BOOLEAN, emails : {{}, Addresses}]
  /\ UNCHANGED <<message, session, rows, submission, testimony, listed, prayedIds, pray, reply,
                 asked, settled, replied>>

SignUp ==
  /\ wall.on /\ session = "noAccount"
  /\ session' = "in"
  /\ UNCHANGED <<wall, message, rows, submission, testimony, listed, prayedIds, pray, reply,
                 asked, settled, replied>>

LogIn ==
  /\ wall.on /\ session = "out"
  /\ session' = "in"
  /\ UNCHANGED <<wall, message, rows, submission, testimony, listed, prayedIds, pray, reply,
                 asked, settled, replied>>

(* Or the session expires.                                                 *)
LogOut ==
  /\ session = "in"
  /\ session' = "out"
  /\ UNCHANGED <<wall, message, rows, submission, testimony, listed, prayedIds, pray, reply,
                 asked, settled, replied>>

(* What every action of the member's own pages checks first. *)
CurrentPrayerAccount == wall.on /\ session = "in"

-----------------------------------------------------------------------------
(* Submitting. The settings are read once, at the start. *)

Submitting(r, step) == submission' = [submission EXCEPT ![r] = step]

Submit(r) ==
  /\ CurrentPrayerAccount
  /\ rows[r] = NoRow /\ submission[r].at = "no"
  /\ \E public \in BOOLEAN :
       Submitting(r, [at |-> IF public THEN "classifying" ELSE "creating", public |-> public,
                      to |-> wall.emails, mailed |-> {}])
  /\ UNCHANGED <<wall, message, session, rows, testimony, listed, prayedIds, pray, reply,
                 asked, settled, replied>>

(* Slip: a classifier that cannot be reached classifies nothing. *)
ClassifySafetyOpen(r) ==
  /\ submission[r].at = "classifying"
  /\ \E throws \in BOOLEAN :
       Submitting(r, [submission[r] EXCEPT !.at = "creating",
                                           !.public = throws \/ message[r] = "ordinary"])
  /\ UNCHANGED <<wall, message, session, rows, testimony, listed, prayedIds, pray, reply,
                 asked, settled, replied>>

ClassifySafety(r) ==
  /\ submission[r].at = "classifying"
  /\ \E throws \in BOOLEAN :
       Submitting(r, [submission[r] EXCEPT !.at = "creating",
                                           !.public = ~throws /\ message[r] = "ordinary"])
  /\ UNCHANGED <<wall, message, session, rows, testimony, listed, prayedIds, pray, reply,
                 asked, settled, replied>>

CreatePrayerRequest(r) ==
  /\ submission[r].at = "creating"
  /\ rows' = [rows EXCEPT ![r] = [public |-> submission[r].public, forwarded |-> FALSE,
                                  marks |-> {}, prayerCount |-> 0, replies |-> 0]]
  /\ Submitting(r, [submission[r] EXCEPT !.at = IF submission[r].to = {} THEN "done" ELSE "mailing"])
  /\ UNCHANGED <<wall, message, session, testimony, listed, prayedIds, pray, reply,
                 asked, settled, replied>>

(* One of the mails of Promise.all has gone. *)
SendForward(r) ==
  /\ submission[r].at = "mailing"
  /\ \E a \in submission[r].to \ submission[r].mailed :
       Submitting(r, [submission[r] EXCEPT !.mailed = @ \cup {a}])
  /\ UNCHANGED <<wall, message, session, rows, testimony, listed, prayedIds, pray, reply,
                 asked, settled, replied>>

(* Slip: Promise.allSettled. *)
MarkForwardedSettled(r) ==
  /\ submission[r].at = "mailing"
  /\ Updated(r, [rows[r] EXCEPT !.forwarded = TRUE])
  /\ Submitting(r, [submission[r] EXCEPT !.at = "done"])
  /\ UNCHANGED <<wall, message, session, testimony, listed, prayedIds, pray, reply,
                 asked, settled, replied>>

MarkForwarded(r) ==
  /\ submission[r].at = "mailing" /\ submission[r].mailed = submission[r].to
  /\ Updated(r, [rows[r] EXCEPT !.forwarded = TRUE])
  /\ Submitting(r, [submission[r] EXCEPT !.at = "done"])
  /\ UNCHANGED <<wall, message, session, testimony, listed, prayedIds, pray, reply,
                 asked, settled, replied>>

(* A call of the action throws, or the platform kills it: before the row   *)
(* is there the member may submit again, after that forwarding is given up. *)
SubmissionEnds(r) ==
  /\ submission[r].at \in {"classifying", "creating", "mailing"}
  /\ Submitting(r, IF submission[r].at = "mailing" THEN [submission[r] EXCEPT !.at = "done"]
                   ELSE NoSubmission)
  /\ UNCHANGED <<wall, message, session, rows, testimony, listed, prayedIds, pray, reply,
                 asked, settled, replied>>

SubmissionStep(r) ==
  Submit(r) \/ ClassifySafety(r) \/ CreatePrayerRequest(r) \/ SendForward(r)
    \/ MarkForwarded(r) \/ SubmissionEnds(r)

-----------------------------------------------------------------------------
(* What the member and the staff do to a stored request, from pages that   *)
(* may be older than it.                                                   *)

OnRequest == UNCHANGED <<wall, message, session, submission, testimony, listed, prayedIds,
                          pray, reply, settled, replied>>

SetPublicVisibility(r) ==
  /\ CurrentPrayerAccount /\ Exists(r)
  /\ \E public \in BOOLEAN :
       /\ Updated(r, [rows[r] EXCEPT !.public = public])
       /\ asked' = IF public THEN asked \cup {r} ELSE asked
  /\ OnRequest

(* setAnonymous and markAnswered: an answered request stays so. *)
AuthorMarks(r) ==
  /\ CurrentPrayerAccount /\ Exists(r)
  /\ \E mark \in Marks \cap {"answered", "anonymous"} :
       Updated(r, [rows[r] EXCEPT !.marks = IF mark \in @ /\ mark # "answered"
                                          THEN @ \ {mark} ELSE @ \cup {mark}])
  /\ UNCHANGED asked /\ OnRequest

StaffSetPublicVisibility(r) ==
  /\ Exists(r)
  /\ \E public \in BOOLEAN :
       /\ Updated(r, [rows[r] EXCEPT !.public = public])
       /\ asked' = IF public THEN asked \cup {r} ELSE asked
  /\ OnRequest

(* staffMarkAnswered, setCategory and setInternalNotes. *)
StaffMarks(r) ==
  /\ Exists(r)
  /\ \E mark \in Marks \ {"anonymous"} :
       Updated(r, [rows[r] EXCEPT !.marks = IF mark \in @ /\ mark # "answered"
                                          THEN @ \ {mark} ELSE @ \cup {mark}])
  /\ UNCHANGED asked /\ OnRequest

DeletePrayerRequest(r) ==
  /\ Exists(r)
  /\ rows' = [rows EXCEPT ![r] = Deleted]
  /\ UNCHANGED asked /\ OnRequest

(* A member's testimony is public at once; staff hide, show and delete it. *)
SubmitTestimony ==
  /\ CurrentPrayerAccount /\ testimony = "none"
  /\ testimony' = "shown"
  /\ UNCHANGED <<wall, message, session, rows, submission, listed, prayedIds, pray, reply,
                 asked, settled, replied>>

ModerateTestimony ==
  /\ testimony \in {"shown", "hidden"}
  /\ testimony' \in {"shown", "hidden", "gone"}
  /\ UNCHANGED <<wall, message, session, rows, submission, listed, prayedIds, pray, reply,
                 asked, settled, replied>>

-----------------------------------------------------------------------------
(* Praying, on a visitor's tab. *)

PublicRequests == IF wall.on THEN {r \in Requests : Exists(r) /\ rows[r].public} ELSE {}

(* The page of a wall that is off is a 404; a fresh page has prayed for    *)
(* nothing. The call of the page before it runs on.                        *)
OpenWall ==
  /\ wall.on
  /\ listed' = PublicRequests /\ prayedIds' = {}
  /\ pray' = IF pray.at = "no" THEN pray ELSE [pray EXCEPT !.here = FALSE]
  /\ UNCHANGED <<wall, message, session, rows, submission, testimony, reply, asked, settled,
                 replied>>

ClickPray(r) ==
  /\ r \in listed \ prayedIds
  /\ pray.at = "no"
  /\ settled[r] < MaxPrayers
  /\ prayedIds' = prayedIds \cup {r}
  /\ pray' = [at |-> "asked", of |-> r, here |-> TRUE]
  /\ UNCHANGED <<wall, message, session, rows, submission, testimony, listed, reply, asked,
                 settled, replied>>

IncrementPrayerCount ==
  /\ pray.at = "asked" /\ wall.on
  /\ Exists(pray.of) => rows[pray.of].prayerCount < MaxPrayers
  /\ Updated(pray.of, [rows[pray.of] EXCEPT !.prayerCount = @ + 1])
  /\ pray' = [pray EXCEPT !.at = "counted"]
  /\ UNCHANGED <<wall, message, session, submission, testimony, listed, prayedIds, reply,
                 asked, settled, replied>>

(* Whatever becomes of the notification, the tab hears of success and is   *)
(* rendered anew, with what is public by now; a wall that has gone off     *)
(* keeps the list it has.                                                  *)
PrayReturns ==
  /\ pray.at = "counted"
  /\ listed' = IF pray.here /\ wall.on THEN PublicRequests ELSE listed
  /\ settled' = IF pray.here THEN [settled EXCEPT ![pray.of] = @ + 1] ELSE settled
  /\ pray' = NoCall
  /\ UNCHANGED <<wall, message, session, rows, submission, testimony, prayedIds, reply, asked,
                 replied>>

(* Slip: the increment is part of what may fail unnoticed. *)
PrayThrowsQuietly ==
  /\ pray.at \in {"asked", "counted"}
  /\ settled' = IF pray.here THEN [settled EXCEPT ![pray.of] = @ + 1] ELSE settled
  /\ pray' = NoCall
  /\ UNCHANGED <<wall, message, session, rows, submission, testimony, listed, prayedIds, reply,
                 asked, replied>>

(* The wall is off, the limiter refuses, the database throws, or the       *)
(* answer is lost, perhaps after the count: the card is put back.          *)
PrayThrows ==
  /\ pray.at \in {"asked", "counted"}
  /\ prayedIds' = IF pray.here THEN prayedIds \ {pray.of} ELSE prayedIds
  /\ pray' = NoCall
  /\ UNCHANGED <<wall, message, session, rows, submission, testimony, listed, reply, asked,
                 settled, replied>>

-----------------------------------------------------------------------------
(* Replying. *)

StartReply(r) ==
  /\ reply.at = "no" /\ Exists(r) /\ replied[r] < MaxReplies
  /\ reply' = [at |-> "read", of |-> r]
  /\ UNCHANGED <<wall, message, session, rows, submission, testimony, listed, prayedIds, pray,
                 asked, settled, replied>>

MailReply ==
  /\ reply.at = "read"
  /\ reply' = [reply EXCEPT !.at = "mailed"]
  /\ replied' = [replied EXCEPT ![reply.of] = @ + 1]
  /\ UNCHANGED <<wall, message, session, rows, submission, testimony, listed, prayedIds, pray,
                 asked, settled>>

(* The row, then the audit event. The foreign key refuses a reply to what  *)
(* has been deleted since.                                                 *)
RecordReply ==
  /\ reply.at = "mailed" /\ Exists(reply.of)
  /\ Updated(reply.of, [rows[reply.of] EXCEPT !.replies = @ + 1])
  /\ reply' = NoCall
  /\ UNCHANGED <<wall, message, session, submission, testimony, listed, prayedIds, pray,
                 asked, settled, replied>>

ReplyThrows ==
  /\ reply.at \in {"read", "mailed"}
  /\ reply' = NoCall
  /\ UNCHANGED <<wall, message, session, rows, submission, testimony, listed, prayedIds, pray,
                 asked, settled, replied>>

PrayerNext ==
  \/ EnablePrayerWall \/ SignUp \/ LogIn \/ LogOut \/ OpenWall
  \/ SubmitTestimony \/ ModerateTestimony
  \/ IncrementPrayerCount \/ PrayReturns \/ PrayThrows
  \/ MailReply \/ RecordReply \/ ReplyThrows
  \/ \E r \in Requests :
       \/ SubmissionStep(r) \/ ClickPray(r) \/ StartReply(r)
       \/ SetPublicVisibility(r) \/ AuthorMarks(r)
       \/ StaffSetPublicVisibility(r) \/ StaffMarks(r) \/ DeletePrayerRequest(r)

PrayerSpec == PrayerInit /\ [][PrayerNext]_prayerVars

-----------------------------------------------------------------------------

(* What reads as a crisis is on no visitor's tab until somebody, the       *)
(* member or the staff, has made the stored request public: "it just never *)
(* reaches the public, unauthenticated wall unreviewed" (submit/page.tsx:49), *)
(* but for the member's own switch, which nothing reviews.                 *)
CrisisHeld == \A r \in listed : message[r] = "crisis" => r \in asked

(* A request that stands has been counted for every card that was left     *)
(* saying "Praying" (PrayerWallList.tsx:82), and its stamps and replies     *)
(* are of mails that went out (prayer-service.ts:192, 252).                *)
PrayingIsCounted ==
  \A r \in Requests : Exists(r) =>
    rows[r].prayerCount >= settled[r]

MailedBeforeRecorded ==
  \A r \in Requests : Exists(r) =>
    /\ rows[r].forwarded => submission[r].to # {} /\ submission[r].mailed = submission[r].to
    /\ rows[r].replies <= replied[r]

=============================================================================
