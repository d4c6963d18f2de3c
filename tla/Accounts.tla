------------------------------ MODULE Accounts ------------------------------
(***************************************************************************)
(* One account, of a member of a prayer wall or of staff: signing up,      *)
(* logging in and out, and setting a new password through a mailed link.   *)
(* Both kinds have the same reset flow; a member's sessions are rows, a    *)
(* member of staff carries a signed cookie that no row stands behind. Each *)
(* call is several awaited reads and writes, and browsers call at once.    *)
(***************************************************************************)
EXTENDS Naturals, FiniteSets

CONSTANTS Browsers,
          Passwords,
          MaxLinks,    \* bound on the requests for a reset link
          MaxSessions  \* bound on the sessions opened

VARIABLES
  kind,      \* frozen: whose account it is
  wallOn,    \* the prayer wall is enabled: without it a member's pages are gone
  password,  \* the account's password, or NoAccount
  links,     \* the reset links stored, by the number of the request for each
  mailbox,   \* ... and those that were mailed
  sessions,  \* a member's sessions stored
  opened,    \* how many sessions were ever opened
  cookie,    \* each browser's: a session, Signed or NoCookie
  visit,     \* the call each browser waits for
  asked,     \* how many links were asked for
  rivals     \* history: for each request, those under way at the same time

accountVars == <<kind, wallOn, password, links, mailbox, sessions, opened, cookie, visit, asked,
                 rivals>>

NoAccount == "no_account"
NoCookie  == 0
Signed    == MaxSessions + 1
Link      == 1..MaxLinks

Quiet == [at |-> "idle", link |-> 0, password |-> NoAccount]

AccountsTypeOK ==
  /\ kind \in {"member", "staff"} /\ wallOn \in BOOLEAN
  /\ password \in Passwords \cup {NoAccount}
  /\ links \subseteq Link /\ mailbox \subseteq Link
  /\ opened \in 0..MaxSessions /\ sessions \subseteq 1..opened
  /\ cookie \in [Browsers -> 0..Signed]
  /\ visit \in [Browsers -> [at : {"idle", "creating", "opening", "clearing", "issuing",
                                   "mailing", "hashing", "spending"},
                             link : 0..MaxLinks, password : Passwords \cup {NoAccount}]]
  /\ asked \in 0..MaxLinks /\ rivals \in [Link -> SUBSET Link]

(* Staff are there already: their signup is Billing's.                     *)
AccountsInit ==
  /\ kind \in {"member", "staff"}
  /\ wallOn = TRUE
  /\ password \in (IF kind = "staff" THEN Passwords ELSE {NoAccount})
  /\ links = {} /\ mailbox = {} /\ sessions = {}
  /\ opened = 0 /\ asked = 0
  /\ cookie = [b \in Browsers |-> NoCookie]
  /\ visit = [b \in Browsers |-> Quiet]
  /\ rivals = [l \in Link |-> {}]

-----------------------------------------------------------------------------
(* What every page and action of a member's begins with.                   *)
Resolved == kind = "member" => wallOn

Begins(b, step)   == Resolved /\ visit[b] = Quiet /\ visit' = [visit EXCEPT ![b] = step]
GoesOn(b, step)   == visit' = [visit EXCEPT ![b] = step]
Finishes(b)       == GoesOn(b, Quiet)

EnableWall ==
  /\ kind = "member" /\ wallOn' \in BOOLEAN \ {wallOn}
  /\ UNCHANGED <<kind, password, links, mailbox, sessions, opened, cookie, visit, asked, rivals>>

-----------------------------------------------------------------------------
(* Signing up and logging in.                                              *)

(* Nobody has the address yet; of two that both read so, the index lets    *)
(* one in.                                                                 *)
StartSignUp(b) ==
  /\ kind = "member" /\ password = NoAccount
  /\ \E p \in Passwords : Begins(b, [Quiet EXCEPT !.at = "creating", !.password = p])
  /\ UNCHANGED <<kind, wallOn, password, links, mailbox, sessions, opened, cookie, asked, rivals>>

CreateAccount(b) ==
  /\ visit[b].at = "creating" /\ password = NoAccount
  /\ password' = visit[b].password
  /\ GoesOn(b, [visit[b] EXCEPT !.at = "opening"])
  /\ UNCHANGED <<kind, wallOn, links, mailbox, sessions, opened, cookie, asked, rivals>>

(* Any other password is refused.                                          *)
LogIn(b) ==
  /\ kind = "member" /\ password # NoAccount
  /\ Begins(b, [Quiet EXCEPT !.at = "opening", !.password = password])
  /\ UNCHANGED <<kind, wallOn, password, links, mailbox, sessions, opened, cookie, asked, rivals>>

(* The cookie replaces the browser's own, whose session stays stored.      *)
OpenSession(b) ==
  /\ visit[b].at = "opening" /\ opened < MaxSessions
  /\ opened' = opened + 1
  /\ sessions' = sessions \cup {opened'}
  /\ cookie' = [cookie EXCEPT ![b] = opened']
  /\ Finishes(b)
  /\ UNCHANGED <<kind, wallOn, password, links, mailbox, asked, rivals>>

Authorize(b) ==
  /\ kind = "staff" /\ visit[b] = Quiet
  /\ cookie' = [cookie EXCEPT ![b] = Signed]
  /\ UNCHANGED <<kind, wallOn, password, links, mailbox, sessions, opened, visit, asked, rivals>>

(* The member's row goes, and the cookie of either kind.                   *)
LogOut(b) ==
  /\ visit[b] = Quiet /\ cookie[b] # NoCookie
  /\ sessions' = sessions \ {cookie[b]}
  /\ cookie' = [cookie EXCEPT ![b] = NoCookie]
  /\ UNCHANGED <<kind, wallOn, password, links, mailbox, opened, visit, asked, rivals>>

(* After thirty days.                                                      *)
SessionExpires ==
  /\ \E s \in sessions : sessions' = sessions \ {s}
  /\ UNCHANGED <<kind, wallOn, password, links, mailbox, opened, cookie, visit, asked, rivals>>

-----------------------------------------------------------------------------
(* The mailed link. *)

UnderWay == {visit[b].link : b \in {c \in Browsers : visit[c].at \in {"clearing", "issuing", "mailing"}}}

AsksForLink(b) ==
  /\ password # NoAccount /\ asked < MaxLinks
  /\ asked' = asked + 1
  /\ Begins(b, [Quiet EXCEPT !.at = "clearing", !.link = asked'])
  /\ rivals' = [l \in Link |-> IF l = asked' THEN UnderWay
                               ELSE IF l \in UnderWay THEN rivals[l] \cup {asked'} ELSE rivals[l]]
  /\ UNCHANGED <<kind, wallOn, password, links, mailbox, sessions, opened, cookie>>

RequestReset(b)       == kind = "member" /\ AsksForLink(b)
RequestPasswordReset(b) == kind = "staff" /\ AsksForLink(b)

(* Slip: only links that were mailed are cleared before the next.          *)
DeleteMailedTokens(b) ==
  /\ visit[b].at = "clearing"
  /\ links' = links \ mailbox
  /\ GoesOn(b, [visit[b] EXCEPT !.at = "issuing"])
  /\ UNCHANGED <<kind, wallOn, password, mailbox, sessions, opened, cookie, asked, rivals>>

DeletePriorTokens(b) ==
  /\ visit[b].at = "clearing"
  /\ links' = {}
  /\ GoesOn(b, [visit[b] EXCEPT !.at = "issuing"])
  /\ UNCHANGED <<kind, wallOn, password, mailbox, sessions, opened, cookie, asked, rivals>>

CreateResetToken(b) ==
  /\ visit[b].at = "issuing"
  /\ links' = links \cup {visit[b].link}
  /\ GoesOn(b, [visit[b] EXCEPT !.at = "mailing"])
  /\ UNCHANGED <<kind, wallOn, password, mailbox, sessions, opened, cookie, asked, rivals>>

MailLink(b) ==
  /\ visit[b].at = "mailing"
  /\ mailbox' = mailbox \cup {visit[b].link}
  /\ Finishes(b)
  /\ UNCHANGED <<kind, wallOn, password, links, sessions, opened, cookie, asked, rivals>>

(* After an hour.                                                          *)
LinkExpires ==
  /\ \E l \in links : links' = links \ {l}
  /\ UNCHANGED <<kind, wallOn, password, mailbox, sessions, opened, cookie, visit, asked, rivals>>

(* The page shows the form for a link that is stored, and the action looks *)
(* again before it hashes.                                                 *)
Submits(b) ==
  /\ \E l \in mailbox \cap links, p \in Passwords :
       Begins(b, [at |-> "hashing", link |-> l, password |-> p])
  /\ UNCHANGED <<kind, wallOn, password, links, mailbox, sessions, opened, cookie, asked, rivals>>

ResetPassword(b)     == kind = "member" /\ Submits(b)
ResetUserPassword(b) == kind = "staff" /\ Submits(b)

UpdatePassword(b) ==
  /\ visit[b].at = "hashing"
  /\ password' = visit[b].password
  /\ GoesOn(b, [visit[b] EXCEPT !.at = "spending"])
  /\ UNCHANGED <<kind, wallOn, links, mailbox, sessions, opened, cookie, asked, rivals>>

(* Sessions that are open stay so.                                         *)
DeleteResetToken(b) ==
  /\ visit[b].at = "spending"
  /\ links' = links \ {visit[b].link}
  /\ Finishes(b)
  /\ UNCHANGED <<kind, wallOn, password, mailbox, sessions, opened, cookie, asked, rivals>>

VisitThrows(b) ==
  /\ visit[b] # Quiet
  /\ Finishes(b)
  /\ UNCHANGED <<kind, wallOn, password, links, mailbox, sessions, opened, cookie, asked, rivals>>

AccountsNext ==
  \/ EnableWall \/ SessionExpires \/ LinkExpires
  \/ \E b \in Browsers :
       \/ StartSignUp(b) \/ CreateAccount(b) \/ LogIn(b) \/ OpenSession(b) \/ Authorize(b)
       \/ LogOut(b) \/ RequestReset(b) \/ RequestPasswordReset(b) \/ DeletePriorTokens(b)
       \/ CreateResetToken(b) \/ MailLink(b) \/ ResetPassword(b) \/ ResetUserPassword(b)
       \/ UpdatePassword(b) \/ DeleteResetToken(b) \/ VisitThrows(b)

-----------------------------------------------------------------------------

(* "At most one valid reset link exists at a time, so an old email a user  *)
(* finds later can't still be used after they've already requested (or     *)
(* completed) a newer reset" (user-service.ts:51): two links are only ever *)
(* good together when the requests for them were under way together, and   *)
(* whatever a request was broken off in.                                   *)
OneLiveLink == \A l, m \in links : l < m => l \in rivals[m]

=============================================================================
