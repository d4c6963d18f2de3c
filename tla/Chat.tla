-------------------------------- MODULE Chat --------------------------------
(***************************************************************************)
(* A visitor's chat with the assistant, in the tabs of one browser, which  *)
(* share a session: the chat box of the widget or of the sermon library,   *)
(* the request that finds or creates the conversation and runs the         *)
(* pipeline over the catalogue while staff edit it, and the offer to       *)
(* forward an unanswered question to staff by email.                       *)
(* The language model is a choice among its possible verdicts; the rate    *)
(* limiter is one between admitting and refusing.                          *)
(***************************************************************************)
EXTENDS Naturals, Sequences, SequencesExt, FiniteSets, Selection

CONSTANTS
  Tabs, Resources,
  Elsewhere,           \* resources scoped to another campus
  Priority,            \* resources of the organization's priority content type
  Questions,           \* a question is the resources that match it, best first
  RetrievalLimit,      \* candidates a search returns (15)
  MaxRecommendations,  \* widget.maxRecommendations (3)
  MaxTranscript,       \* messages a forwarded transcript holds (30)
  MaxRequests, MaxForwards, MaxEdits   \* bounds

ASSUME ChatAssumption == 
  /\ Tabs # {}
  /\ Elsewhere \subseteq Resources /\ Priority \subseteq Resources
  /\ \A q \in Questions : q \in Seq(Resources) /\ IsInjective(q)
  /\ RetrievalLimit \in Nat /\ MaxRecommendations \in Nat \ {0} /\ MaxTranscript \in Nat
  /\ MaxRequests \in Nat /\ MaxForwards \in Nat /\ MaxEdits \in Nat

VARIABLES
  place,       \* frozen: where the chat box is, "widget" or "library"
  tabs,        \* per tab: the log, whether it waits, each offer's form
  reqs,        \* the chat requests
  convs,       \* the session's conversations in the database, oldest first
  active,      \* the resources with status ACTIVE
  edits,       \* how often staff have approved or withdrawn one
  recipients,  \* are there addresses to forward questions to?
  fwds,        \* the forward requests
  mails        \* the transcripts that were sent to staff

vars == <<place, tabs, reqs, convs, active, edits, recipients, fwds, mails>>

Reqs  == 1..MaxRequests
NoReq == 0
Kinds == {"ERROR", "GREETING", "SAFETY_RESPONSE", "SOLICITATION", "ACTION_RESPONSE",
          "RESOURCE_RECOMMENDATION", "NO_RESULTS"}
FormStates == {"idle", "open", "sending", "sent"}

AnyTab == CHOOSE t \in Tabs : TRUE

NewRequest == [stage |-> "none", tab |-> AnyTab, waiting |-> FALSE, question |-> << >>, conv |-> 0,
               forwardable |-> FALSE, concern |-> FALSE, list |-> << >>, kind |-> "none",
               steady |-> {}, since |-> {}]
NewTab     == [log |-> << >>, loading |-> FALSE, forms |-> [i \in Reqs |-> "idle"]]
NewForward == [stage |-> "none", tab |-> AnyTab, offer |-> NoReq,
               waiting |-> FALSE, conv |-> 0]

Message == [role : {"USER", "ASSISTANT"}, req : Reqs]
Thanks  == [role |-> "ASSISTANT", req |-> NoReq]  \* "I've forwarded our conversation"

TypeOK ==
  /\ place \in {"widget", "library"}
  /\ \A t \in Tabs :
       /\ tabs[t].log \in Seq(Message \cup {Thanks})
       /\ tabs[t].loading \in BOOLEAN
       /\ tabs[t].forms \in [Reqs -> FormStates]
  /\ \A i \in Reqs :
       /\ reqs[i].stage \in {"none", "sent", "absent", "found", "asked", "search",
                             "searched", "validated", "answered", "refused"}
       /\ reqs[i].kind \in Kinds \cup {"none"}
       /\ reqs[i].conv \in 0..Len(convs)
       /\ reqs[i].stage = "answered" => reqs[i].kind \in Kinds
       /\ Len(reqs[i].list) <= RetrievalLimit
       /\ reqs[i].stage \in {"validated", "answered"} => Len(reqs[i].list) <= MaxRecommendations
  /\ \A c \in 1..Len(convs) : convs[c] \in Seq(Message)
  /\ active \subseteq Resources
  /\ edits \in Nat /\ recipients \in BOOLEAN
  /\ \A m \in 1..Len(mails) : mails[m].transcript \in Seq(Message)

Init ==
  /\ place \in {"widget", "library"}
  /\ tabs = [t \in Tabs |-> NewTab]
  /\ reqs = [i \in Reqs |-> NewRequest]
  /\ convs = << >>
  /\ active = Resources
  /\ edits = 0
  /\ recipients = TRUE
  /\ fwds = [k \in 1..MaxForwards |-> NewForward]
  /\ mails = << >>

-----------------------------------------------------------------------------
(* The tab *)

First(used, n) == ~used[n] /\ \A j \in 1..(n - 1) : used[j]

(* Slip: does not look whether an answer is still waited for. *)
AskAnyTime(t, i, q) ==
  /\ First([j \in Reqs |-> reqs[j].stage # "none"], i)
  /\ tabs' = [tabs EXCEPT ![t].log = Append(@, [role |-> "USER", req |-> i]),
                          ![t].loading = TRUE]
  /\ reqs' = [reqs EXCEPT ![i] = [NewRequest EXCEPT !.stage = "sent", !.tab = t,
                                     !.waiting = TRUE, !.question = q, !.steady = active]]
  /\ UNCHANGED <<place, convs, active, edits, recipients, fwds, mails>>

(* The box, a suggested prompt or a follow-up question: sendMessage, ask.  *)
Ask(t, i, q) ==
  /\ ~tabs[t].loading
  /\ First([j \in Reqs |-> reqs[j].stage # "none"], i)
  /\ tabs' = [tabs EXCEPT ![t].log = Append(@, [role |-> "USER", req |-> i]),
                          ![t].loading = TRUE]
  /\ reqs' = [reqs EXCEPT ![i] = [NewRequest EXCEPT !.stage = "sent", !.tab = t,
                                     !.waiting = TRUE, !.question = q, !.steady = active]]
  /\ UNCHANGED <<place, convs, active, edits, recipients, fwds, mails>>

(* The widget appends the answer at the end; the library settles its turn. *)
WithAnswer(log, i) ==
  LET a == [role |-> "ASSISTANT", req |-> i]
      q == SelectInSeq(log, LAMBDA m : m.req = i) IN
  IF place = "widget" THEN Append(log, a) ELSE InsertAt(log, q + 1, a)

ShowAnswer(i) == tabs' = [tabs EXCEPT ![reqs[i].tab].log = WithAnswer(@, i),
                                      ![reqs[i].tab].loading = FALSE]

(* Slip: an error returns before loading is reset. *)
DeliverLoading(i) ==
  /\ reqs[i].waiting /\ reqs[i].stage \in {"answered", "refused"}
  /\ reqs' = [reqs EXCEPT ![i].waiting = FALSE]
  /\ tabs' = [tabs EXCEPT ![reqs[i].tab].log = WithAnswer(@, i),
                          ![reqs[i].tab].loading = reqs[i].stage = "refused"]
  /\ UNCHANGED <<place, convs, active, edits, recipients, fwds, mails>>

(* The reply arrives: the answer, or a text in its place for a refusal.    *)
Deliver(i) ==
  /\ reqs[i].waiting /\ reqs[i].stage \in {"answered", "refused"}
  /\ reqs' = [reqs EXCEPT ![i].waiting = FALSE]
  /\ ShowAnswer(i)
  /\ UNCHANGED <<place, convs, active, edits, recipients, fwds, mails>>

(* fetch throws: the tab says so and the request goes on unwatched.        *)
LoseConnection(i) ==
  /\ reqs[i].waiting
  /\ reqs' = [reqs EXCEPT ![i].waiting = FALSE]
  /\ ShowAnswer(i)
  /\ UNCHANGED <<place, convs, active, edits, recipients, fwds, mails>>

Reload(t) ==
  /\ tabs[t] # NewTab
  /\ tabs' = [tabs EXCEPT ![t] = NewTab]
  /\ reqs' = [i \in Reqs |-> IF reqs[i].tab = t
                              THEN [reqs[i] EXCEPT !.waiting = FALSE] ELSE reqs[i]]
  /\ fwds' = [k \in DOMAIN fwds |-> IF fwds[k].tab = t
                                     THEN [fwds[k] EXCEPT !.waiting = FALSE] ELSE fwds[k]]
  /\ UNCHANGED <<place, convs, active, edits, recipients, mails>>

-----------------------------------------------------------------------------
(* The chat request *)

At(i, stage) == reqs[i].stage = stage

Step(i, request) ==
  /\ reqs' = [reqs EXCEPT ![i] = request]
  /\ UNCHANGED <<place, tabs, active, edits, recipients, fwds, mails>>

(* An unknown widget or domain, a bad body, too many messages, or an       *)
(* exception at any await: what has been stored by then stays.             *)
Refuse(i) ==
  /\ reqs[i].stage \notin {"none", "answered", "refused"}
  /\ Step(i, [reqs[i] EXCEPT !.stage = "refused"])
  /\ UNCHANGED convs

(* getOrCreateConversation: the newest one, or else...                     *)
FindConversation(i) ==
  /\ At(i, "sent")
  /\ Step(i, [reqs[i] EXCEPT !.stage = IF convs = << >> THEN "absent" ELSE "found",
                             !.conv = Len(convs)])
  /\ UNCHANGED convs

(* ...a new one, whoever created one meanwhile.                            *)
CreateConversation(i) ==
  /\ At(i, "absent")
  /\ convs' = Append(convs, << >>)
  /\ Step(i, [reqs[i] EXCEPT !.stage = "found", !.conv = Len(convs')])

(* The question is stored; then the organization and its forwarding        *)
(* addresses are read.                                                     *)
AppendQuestion(i) ==
  /\ At(i, "found")
  /\ convs' = [convs EXCEPT ![reqs[i].conv] = Append(@, [role |-> "USER", req |-> i])]
  /\ Step(i, [reqs[i] EXCEPT !.stage = "asked", !.forwardable = recipients])

(* The end of respond and the message that stores it.                      *)
Reply(i, kind, list) ==
  /\ convs' = [convs EXCEPT ![reqs[i].conv] = Append(@, [role |-> "ASSISTANT", req |-> i])]
  /\ Step(i, [reqs[i] EXCEPT !.stage = "answered", !.kind = kind, !.list = list])

(* Steps 1 to 2: a blank message, small talk, acute danger.                *)
Dismiss(i) ==
  /\ At(i, "asked")
  /\ \E kind \in {"ERROR", "GREETING", "SAFETY_RESPONSE"} : Reply(i, kind, << >>)

(* Steps 2.3 and 2.5, for ordinary messages only.                          *)
Redirect(i) ==
  /\ At(i, "asked")
  /\ \E kind \in {"SOLICITATION", "ACTION_RESPONSE"} : Reply(i, kind, << >>)

Proceed(i) ==
  /\ At(i, "asked")
  /\ \E concern \in BOOLEAN : Step(i, [reqs[i] EXCEPT !.stage = "search", !.concern = concern])
  /\ UNCHANGED convs

Firsts(seq, n) == SubSeq(seq, 1, IF n < Len(seq) THEN n ELSE Len(seq))

(* Slip: retrieves no more than will be shown. *)
RetrieveFew(i) ==
  /\ At(i, "search")
  /\ Step(i, [reqs[i] EXCEPT
       !.stage = "searched", !.since = active,
       !.list  = Firsts(Where(reqs[i].question, active),
                        MaxRecommendations)])
  /\ UNCHANGED convs

(* Steps 3 to 5: the best ACTIVE matches, of all campuses and types.       *)
Retrieve(i) ==
  /\ At(i, "search")
  /\ Step(i, [reqs[i] EXCEPT
       !.stage = "searched", !.since = active,
       !.list  = Firsts(Where(reqs[i].question, active), RetrievalLimit)])
  /\ UNCHANGED convs

(* Slip: step 6 left to the retrieval provider. *)
ValidNothingAsked(list) == list

(* getResourcesByIds *)
Valid(list) == Where(list, active \ Elsewhere)

(* Step 7: the priority type first, then as retrieved.                     *)
Ranked(list) == Where(list, Priority) \o Where(list, Resources \ Priority)

Validate(i) ==
  /\ At(i, "searched")
  /\ Step(i, [reqs[i] EXCEPT !.stage = "validated",
                             !.list = Firsts(Ranked(Valid(@)), MaxRecommendations)])
  /\ UNCHANGED convs

(* Steps 8 and 9.                                                          *)
Conclude(i) ==
  /\ At(i, "validated")
  /\ Reply(i, CASE reqs[i].concern        -> "SAFETY_RESPONSE"
                [] ~reqs[i].concern /\ reqs[i].list = << >> -> "NO_RESULTS"
                [] OTHER                  -> "RESOURCE_RECOMMENDATION", reqs[i].list)

Serve(i) ==
  \/ FindConversation(i) \/ CreateConversation(i) \/ AppendQuestion(i)
  \/ Dismiss(i) \/ Redirect(i) \/ Proceed(i)
  \/ Retrieve(i) \/ Validate(i) \/ Conclude(i)
  \/ Refuse(i)

-----------------------------------------------------------------------------
(* Staff *)

(* approveResource, archiveResource, deleteResources                       *)
SetStatus(r) ==
  /\ edits < MaxEdits
  /\ edits' = edits + 1
  /\ active' = IF r \in active THEN active \ {r} ELSE active \cup {r}
  /\ reqs' = [i \in Reqs |-> [reqs[i] EXCEPT !.steady = @ \cap active',
                                !.since = IF At(i, "searched") THEN @ \cup active' ELSE @]]
  /\ UNCHANGED <<place, tabs, convs, recipients, fwds, mails>>

(* setQuestionForwardingEmails *)
EditRecipients ==
  /\ edits < MaxEdits
  /\ edits' = edits + 1
  /\ recipients' = ~recipients
  /\ UNCHANGED <<place, tabs, reqs, convs, active, fwds, mails>>

-----------------------------------------------------------------------------
(* Forwarding *)

(* The widget has one form, the library one for each offer.                *)
WithForm(forms, i, state) ==
  IF place = "widget" THEN [j \in Reqs |-> IF j = i THEN state ELSE "idle"]
  ELSE [forms EXCEPT ![i] = state]

SetForm(t, i, state) == tabs' = [tabs EXCEPT ![t].forms = WithForm(@, i, state)]

(* A sent form hides the widget's other offers.                            *)
Offered(t, i) ==
  /\ \E k \in 1..Len(tabs[t].log) : tabs[t].log[k] = [role |-> "ASSISTANT", req |-> i]
  /\ reqs[i].kind = "NO_RESULTS" /\ reqs[i].forwardable
  /\ place = "widget" => \A j \in Reqs : tabs[t].forms[j] # "sent"

OpenForm(t, i) ==
  /\ Offered(t, i) /\ tabs[t].forms[i] = "idle"
  /\ SetForm(t, i, "open")
  /\ UNCHANGED <<place, reqs, convs, active, edits, recipients, fwds, mails>>

CancelForm(t, i) ==
  /\ tabs[t].forms[i] \in {"open", "sending"}
  /\ SetForm(t, i, "idle")
  /\ UNCHANGED <<place, reqs, convs, active, edits, recipients, fwds, mails>>

SubmitForm(t, i, k) ==
  /\ tabs[t].forms[i] = "open"
  /\ First([j \in 1..MaxForwards |-> fwds[j].stage # "none"], k)
  /\ SetForm(t, i, "sending")
  /\ fwds' = [fwds EXCEPT ![k] = [stage |-> "sent", tab |-> t, offer |-> i,
                                  waiting |-> TRUE, conv |-> 0]]
  /\ UNCHANGED <<place, reqs, convs, active, edits, recipients, mails>>

(* Not too often, there are addresses, and the newest conversation is      *)
(* read, with its messages.                                                *)
ForwardRefused(k) ==
  /\ fwds[k].stage \in {"sent", "read"}
  /\ fwds' = [fwds EXCEPT ![k].stage = "refused"]
  /\ UNCHANGED <<place, tabs, reqs, convs, active, edits, recipients, mails>>

Lasts(seq, n) == SubSeq(seq, IF Len(seq) > n THEN Len(seq) - n + 1 ELSE 1, Len(seq))

(* Slip: cuts the end off instead of the beginning. *)
ForwardFirsts(k) ==
  /\ fwds[k].stage = "sent" /\ recipients /\ convs # << >> /\ Last(convs) # << >>
  /\ mails' = Append(mails, [conv |-> Len(convs), offer |-> fwds[k].offer,
                             whole |-> Last(convs),
                             transcript |-> Firsts(Last(convs), MaxTranscript)])
  /\ fwds' = [fwds EXCEPT ![k].stage = "mailed"]
  /\ UNCHANGED <<place, tabs, reqs, convs, active, edits, recipients>>

(* getSessionTranscript, and the email. *)
Forward(k) ==
  /\ fwds[k].stage = "sent" /\ recipients /\ convs # << >> /\ Last(convs) # << >>
  /\ mails' = Append(mails, [conv |-> Len(convs), offer |-> fwds[k].offer,
                             whole |-> Last(convs),
                             transcript |-> Lasts(Last(convs), MaxTranscript)])
  /\ fwds' = [fwds EXCEPT ![k].stage = "mailed"]
  /\ UNCHANGED <<place, tabs, reqs, convs, active, edits, recipients>>

(* The form of that offer shows it, whatever has been opened since, and    *)
(* the widget says so at the end of its log, whatever stands there by now. *)
ShowForwarded(t, i) ==
  tabs' = [tabs EXCEPT ![t].forms = WithForm(@, i, "sent"),
                       ![t].log = IF place = "widget" THEN Append(@, Thanks) ELSE @]

(* The answer, or its loss. *)
ForwardAnswered(k) ==
  /\ fwds[k].waiting
  /\ \/ fwds[k].stage = "mailed" /\ ShowForwarded(fwds[k].tab, fwds[k].offer)
     \/ fwds[k].stage # "none" /\ SetForm(fwds[k].tab, fwds[k].offer, "open")
  /\ fwds' = [fwds EXCEPT ![k].waiting = FALSE]
  /\ UNCHANGED <<place, reqs, convs, active, edits, recipients, mails>>

-----------------------------------------------------------------------------

Next ==
  \/ \E t \in Tabs, i \in Reqs : \E q \in Questions : Ask(t, i, q)
  \/ \E t \in Tabs : Reload(t)
  \/ \E i \in Reqs : Serve(i) \/ Deliver(i) \/ LoseConnection(i)
  \/ \E r \in Resources : SetStatus(r)
  \/ EditRecipients
  \/ \E t \in Tabs, i \in Reqs :
       \/ OpenForm(t, i) \/ CancelForm(t, i)
       \/ \E k \in 1..MaxForwards : SubmitForm(t, i, k)
  \/ \E k \in 1..MaxForwards : ForwardRefused(k) \/ Forward(k) \/ ForwardAnswered(k)

(* A request ends, if only at the platform's limit, and its answer comes.  *)
Fairness == \A i \in Reqs : WF_vars(Serve(i)) /\ WF_vars(Deliver(i))

Spec == Init /\ [][Next]_vars /\ Fairness

-----------------------------------------------------------------------------

Shown(i) == ToSet(reqs[i].list)

(* A card a visitor is shown is of this campus, and was published at some  *)
(* moment after the search had returned it: what is withdrawn while a      *)
(* candidate waits for validation does not come through                    *)
(* (ChatPipeline.ts:426).                                                  *)
OnlyApprovedShown ==
  \A i \in Reqs : reqs[i].stage \in {"validated", "answered"} =>
    Shown(i) \cap Elsewhere = {} /\ Shown(i) \subseteq reqs[i].since

(* "Nothing found" is true, however staff edit meanwhile: a resource of    *)
(* this campus that matches and has been published since before the        *)
(* question was missed only if the search was full without it.             *)
NothingFoundIsTrue ==
  \A i \in Reqs : reqs[i].stage = "answered" /\ reqs[i].kind = "NO_RESULTS" =>
    \A n \in 1..Len(reqs[i].question) :
      reqs[i].question[n] \in reqs[i].steady \ Elsewhere => n > RetrievalLimit

(* The question stands above, and nothing but thanks between.              *)
Under(log, n) ==
  \E m \in 1..(n - 1) : /\ log[m] = [role |-> "USER", req |-> log[n].req]
                        /\ \A k \in (m + 1)..(n - 1) : log[k] = Thanks

(* In the log of a tab an answer stands under the question it answers,     *)
(* whatever is clicked while it is waited for, and whichever tabs ask: no  *)
(* other question or answer comes between them, and nothing but the note   *)
(* that an earlier question was forwarded, which the widget appends when   *)
(* it hears of it, also while an answer is waited for                      *)
(* (ChatWidget.tsx:191-200).                                               *)
AnswerUnderItsQuestion ==
  \A t \in Tabs : LET log == tabs[t].log IN
    \A n \in 1..Len(log) : log[n].role = "ASSISTANT" /\ log[n] # Thanks => Under(log, n)

(* What is mailed to staff contains the question that the offer was made   *)
(* under, unless a second conversation has come into being or it lies      *)
(* further back than a transcript goes.                                    *)
ForwardCarriesQuestion ==
  \A m \in ToSet(mails) :
    LET q == [role |-> "USER", req |-> m.offer] IN
    \/ m.conv # reqs[m.offer].conv
    \/ q \in ToSet(m.transcript)
    \/ \E n \in 1..(Len(m.whole) - MaxTranscript) : m.whole[n] = q

(* A tab does not wait for ever: the answer, a refusal or an error ends    *)
(* the wait and lets the visitor ask again.                                *)
EveryQuestionAnswered ==
  \A t \in Tabs : tabs[t].loading ~> ~tabs[t].loading

=============================================================================
