----------------------------- MODULE Moderation -----------------------------
(***************************************************************************)
(* One item on a staff member's moderation page: a prayer request, a       *)
(* visitor's testimony, or a featured one. The tab has what it was last    *)
(* rendered with, drafts, and calls that the server takes one after the    *)
(* other; colleagues and the item's author write meanwhile. How a reply is *)
(* mailed and recorded is PrayerWall's, how the featured are arranged and  *)
(* capped OrderedList's.                                                   *)
(***************************************************************************)
EXTENDS Naturals, Sequences

CONSTANTS NoteTexts,  \* what staff type: a request's notes, a featured story
          MaxCalls    \* bound on the calls a tab has under way

VARIABLES
  what,       \* frozen: "request", "testimony" or "featured"
  item,       \* its row
  page,       \* the tab: where it is, and the row it was rendered with
  noteDraft,  \* notesDraft, or what has been typed into the story
  replyDraft, \* whether there is one
  picked,     \* the category's Select shows one
  asking,     \* the ConfirmDialog is open
  calls,      \* the tab's server actions, the first of them at the server
  seen,       \* the item is on a tab of the public testimonies page
  said,       \* history: what the last click to reach the row asked, "public" or not
  unseen,     \* history: the row has changed since the tab was rendered,
              \* elsewhere or by a call that threw
  drifted     \* history: so has its category, since the page was loaded

moderationVars == <<what, item, page, noteDraft, replyDraft, picked, asking, calls, seen, said,
                    unseen, drifted>>

Row == [public : BOOLEAN, marks : SUBSET {"answered", "category"},
        note : NoteTexts \cup {""}, video : BOOLEAN]

NotYet == [gone |-> FALSE]
Gone   == [gone |-> TRUE]

Untouched == "untouched"

ModerationTypeOK ==
  /\ what \in {"request", "testimony", "featured"}
  /\ item \in Row \cup {NotYet, Gone}
  /\ page.at \in {"closed", "rendered", "error"} /\ page.row \in Row \cup {NotYet, Gone}
  /\ noteDraft \in NoteTexts \cup {"", Untouched}
  /\ {replyDraft, picked, asking, seen, said, unseen, drifted} \subseteq BOOLEAN
  /\ Len(calls) <= MaxCalls

ModerationInit ==
  /\ what \in {"request", "testimony", "featured"}
  /\ item = NotYet
  /\ page = [at |-> "closed", row |-> NotYet]
  /\ noteDraft = Untouched /\ replyDraft = FALSE /\ picked = FALSE
  /\ asking = FALSE /\ calls = <<>>
  /\ seen = FALSE /\ said = FALSE /\ unseen = FALSE /\ drifted = FALSE

NewRow(public, text, video) == [public |-> public, marks |-> {}, note |-> text, video |-> video]

(* createFeaturedTestimony: public, like a visitor's. *)
Featured(c) == NewRow(TRUE, c.text, c.video)

(* Slip: the server turns the switch from where it finds it. *)
ToggledOver(c) == [item EXCEPT !.public = ~@]

Toggled(c) == [item EXCEPT !.public = c.public]

MarkedAnswered == [item EXCEPT !.marks = @ \cup {"answered"}]

Categorized(c) ==
  [item EXCEPT !.marks = IF c.set THEN @ \cup {"category"} ELSE @ \ {"category"}]

Noted(c) == [item EXCEPT !.note = c.text]

(* The whole form: with no url, the video goes. *)
Saved(c) == [item EXCEPT !.note = c.text, !.video = c.video]

(* The row with c carried out: an updateMany or a deleteMany of what is    *)
(* gone changes nothing, and a reply changes nothing here.                 *)
Written(c) ==
  IF c.do = "add" THEN Featured(c)
  ELSE IF item \notin Row THEN item
  ELSE CASE c.do = "toggle"   -> Toggled(c)
         [] c.do = "answered" -> MarkedAnswered
         [] c.do = "category" -> Categorized(c)
         [] c.do = "note"     -> Noted(c)
         [] c.do = "save"     -> Saved(c)
         [] c.do = "delete"   -> Gone
         [] c.do = "reply"    -> item

-----------------------------------------------------------------------------
(* Members and colleagues. *)

(* A request comes with what its author and the classifier decided, a      *)
(* visitor's testimony is public at once.                                  *)
Arrives ==
  /\ item = NotYet /\ what # "featured"
  /\ \E public \in IF what = "request" THEN BOOLEAN ELSE {TRUE} :
       item' = NewRow(public, "", FALSE) /\ said' = public
  /\ unseen' = (page.at # "closed") /\ drifted' = unseen'
  /\ UNCHANGED <<what, page, noteDraft, replyDraft, picked, asking, calls, seen>>

(* From a page of any age, the author's own switch included, or by a call  *)
(* that this tab made before it was loaded anew.                           *)
WrittenElsewhere ==
  /\ item \in Row
  /\ \/ /\ what # "featured"
        /\ \E public \in BOOLEAN : item' = [item EXCEPT !.public = public] /\ said' = public
        /\ UNCHANGED drifted
     \/ /\ what # "testimony"
        /\ \E text \in NoteTexts : item' = Noted([text |-> text])
        /\ UNCHANGED <<said, drifted>>
     \/ /\ what = "request"
        /\ \E set \in BOOLEAN : item' = Categorized([set |-> set])
        /\ drifted' = TRUE
        /\ UNCHANGED said
     \/ what = "request" /\ item' = MarkedAnswered /\ UNCHANGED <<said, drifted>>
     \/ item' = Gone /\ UNCHANGED <<said, drifted>>
  /\ unseen' = TRUE
  /\ UNCHANGED <<what, page, noteDraft, replyDraft, picked, asking, calls, seen>>

ListPublicTestimonies == item \in Row /\ item.public

(* The public page: what it lists stays on the tab until it is loaded anew. *)
OpenTestimonies ==
  /\ what # "request"
  /\ seen' = ListPublicTestimonies
  /\ UNCHANGED <<what, item, page, noteDraft, replyDraft, picked, asking, calls, said, unseen,
                 drifted>>

-----------------------------------------------------------------------------
(* The tab. *)

(* The page's own query, featured, submitted or requests: every one, public *)
(* or not.                                                                 *)
ListForModeration == item

(* What the category's Select is mounted with: its defaultValue.           *)
HasCategory(r) == "category" \in r.marks
Mounted(r) == what = "request" /\ r \in Row /\ HasCategory(r)

OpenPage ==
  /\ page' = [at |-> "rendered", row |-> ListForModeration]
  /\ noteDraft' = Untouched /\ replyDraft' = FALSE
  /\ picked' = Mounted(ListForModeration)
  /\ asking' = FALSE /\ calls' = <<>> /\ unseen' = FALSE /\ drifted' = FALSE
  /\ UNCHANGED <<what, item, seen, said>>

(* "Try again" renders what the tab has, with new state. *)
TryAgain ==
  /\ page.at = "error"
  /\ page' = [page EXCEPT !.at = "rendered"]
  /\ noteDraft' = Untouched /\ replyDraft' = FALSE /\ asking' = FALSE
  /\ picked' = Mounted(page.row)
  /\ UNCHANGED <<what, item, calls, seen, said, unseen, drifted>>

OnItem == page.at = "rendered" /\ page.row \in Row /\ ~asking

Call(c) == calls' = Append(calls, [at |-> "asked", asks |-> c])

OnPage == UNCHANGED <<what, item, page, seen, said, unseen, drifted>>
OnDesk == OnPage /\ UNCHANGED picked

(* PrayerModerationList: isPending disables every button of the list, and  *)
(* no textarea.                                                            *)
OnRequest == OnItem /\ what = "request"
Enabled   == OnRequest /\ calls = <<>>

(* Bound to what the page shows. *)
ClickToggle ==
  /\ Enabled
  /\ Call([do |-> "toggle", public |-> ~page.row.public])
  /\ UNCHANGED <<noteDraft, replyDraft, asking>> /\ OnDesk

ClickMarkAnswered ==
  /\ Enabled /\ "answered" \notin page.row.marks
  /\ Call([do |-> "answered"])
  /\ UNCHANGED <<noteDraft, replyDraft, asking>> /\ OnDesk

(* What the Select does not show. It is uncontrolled: no re-render moves   *)
(* it from what it was mounted with or what was chosen in it.              *)
ChooseCategory ==
  /\ Enabled
  /\ picked' = ~picked
  /\ Call([do |-> "category", set |-> ~picked])
  /\ UNCHANGED <<noteDraft, replyDraft, asking>> /\ OnPage

TypeNote ==
  /\ OnRequest
  /\ noteDraft' \in NoteTexts \cup {""}
  /\ UNCHANGED <<replyDraft, asking, calls>> /\ OnDesk

Displayed == IF noteDraft = Untouched THEN page.row.note ELSE noteDraft

ClickSaveNote ==
  /\ Enabled
  /\ Call([do |-> "note", text |-> Displayed])
  /\ UNCHANGED <<noteDraft, replyDraft, asking>> /\ OnDesk

TypeReply ==
  /\ OnRequest
  /\ replyDraft' \in BOOLEAN
  /\ UNCHANGED <<noteDraft, asking, calls>> /\ OnDesk

ClickSendReply ==
  /\ Enabled /\ replyDraft
  /\ Call([do |-> "reply"])
  /\ UNCHANGED <<noteDraft, replyDraft, asking>> /\ OnDesk

ClickDelete ==
  /\ Enabled
  /\ asking' = TRUE
  /\ UNCHANGED <<noteDraft, replyDraft, calls>> /\ OnDesk

AnswerDialog ==
  /\ asking
  /\ asking' = FALSE
  /\ Call([do |-> "delete"]) \/ UNCHANGED calls
  /\ UNCHANGED <<noteDraft, replyDraft>> /\ OnDesk

(* The testimonies' page is forms; those that save disable their button.   *)
OnForms == page.at = "rendered" /\ Len(calls) < MaxCalls
Submitting(do) == \E i \in DOMAIN calls : calls[i].asks.do = do

SubmitToggle ==
  /\ OnItem /\ OnForms /\ what = "testimony"
  /\ Call([do |-> "toggle", public |-> ~page.row.public])
  /\ UNCHANGED <<noteDraft, replyDraft, asking>> /\ OnDesk

SubmitDelete ==
  /\ OnItem /\ OnForms /\ what # "request"
  /\ Call([do |-> "delete"])
  /\ UNCHANGED <<noteDraft, replyDraft, asking>> /\ OnDesk

(* A story is required. *)
TypeStory ==
  /\ OnItem /\ what = "featured"
  /\ noteDraft' \in NoteTexts
  /\ UNCHANGED <<replyDraft, asking, calls>> /\ OnDesk

(* No row has a youtubeUrl, so its field is rendered empty: a video stays  *)
(* only if its url is typed again.                                         *)
SubmitFeatured ==
  /\ OnItem /\ OnForms /\ what = "featured" /\ ~Submitting("save")
  /\ \E video \in BOOLEAN : Call([do |-> "save", text |-> Displayed, video |-> video])
  /\ UNCHANGED <<noteDraft, replyDraft, asking>> /\ OnDesk

(* The first one added is the item. *)
AddFeatured ==
  /\ OnForms /\ what = "featured" /\ item = NotYet /\ ~Submitting("add")
  /\ \E video \in BOOLEAN, text \in NoteTexts :
       Call([do |-> "add", text |-> text, video |-> video])
  /\ UNCHANGED <<noteDraft, replyDraft, asking>> /\ OnDesk

-----------------------------------------------------------------------------
(* The server. *)

First == Head(calls).asks

(* The action writes; a reply has been mailed and recorded. *)
Serve ==
  /\ calls # <<>> /\ Head(calls).at = "asked"
  /\ First.do = "reply" => item \in Row
  /\ item' = Written(First)
  /\ said' = CASE First.do = "toggle" /\ item \in Row -> First.public
               [] First.do = "add" -> TRUE
               [] OTHER -> said
  /\ calls' = [calls EXCEPT ![1].at = "written"]
  /\ UNCHANGED <<what, page, noteDraft, replyDraft, picked, asking, seen, unseen, drifted>>

(* The answer brings the page rendered anew. A reply's draft is cleared,   *)
(* what has been typed since included; a form that was saved is reset; the *)
(* draft of a note stays.                                                  *)
Answered ==
  /\ calls # <<>> /\ Head(calls).at = "written"
  /\ page' = [page EXCEPT !.row = ListForModeration]
  /\ unseen' = FALSE
  /\ replyDraft' = (replyDraft /\ First.do # "reply")
  /\ noteDraft' = IF First.do = "save" THEN Untouched ELSE noteDraft
  /\ calls' = Tail(calls)
  /\ UNCHANGED <<what, item, picked, asking, seen, said, drifted>>

(* The session, the database, the mailer, the audit event or the network:  *)
(* a reply's toast, which leaves its draft, or the error page.             *)
CallThrows ==
  /\ calls # <<>>
  /\ page' = IF First.do = "reply" THEN page ELSE [page EXCEPT !.at = "error"]
  /\ unseen' = (unseen \/ Head(calls).at = "written")
  /\ drifted' = (drifted \/ (Head(calls).at = "written" /\ First.do = "category"))
  /\ calls' = Tail(calls)
  /\ asking' = (asking /\ First.do = "reply")
  /\ UNCHANGED <<what, item, noteDraft, replyDraft, picked, seen, said>>

ModerationNext ==
  \/ Arrives \/ WrittenElsewhere \/ OpenTestimonies
  \/ OpenPage \/ TryAgain
  \/ ClickToggle \/ ClickMarkAnswered \/ ChooseCategory \/ TypeNote \/ ClickSaveNote
  \/ TypeReply \/ ClickSendReply \/ ClickDelete \/ AnswerDialog
  \/ SubmitToggle \/ SubmitDelete \/ TypeStory \/ SubmitFeatured \/ AddFeatured
  \/ Serve \/ Answered \/ CallThrows

-----------------------------------------------------------------------------

(* Pressing "Make public" on a page however old makes the item public and  *)
(* "Make private" private (PrayerModerationList.tsx:146), whatever others  *)
(* have pressed; and a page whose calls have been answered, with nothing   *)
(* written elsewhere since, was rendered with what is stored               *)
(* (prayer-wall/page.tsx:26). Its Select shows the stored category too,    *)
(* unless that was written elsewhere, or by a call that threw, since the   *)
(* page was loaded (PrayerModerationList.tsx:165).                         *)
SwitchIsTrue ==
  /\ item \in Row => item.public = said
  /\ page.at = "rendered" /\ calls = <<>> /\ ~unseen =>
       /\ page.row = item
       /\ what = "request" /\ item \in Row /\ ~drifted => picked = HasCategory(item)

=============================================================================
