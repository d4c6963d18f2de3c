-------------------------- MODULE ConversationLog --------------------------
(***************************************************************************)
(* The dashboard's log of conversations: a staff member's tab goes from    *)
(* page to page, filters by widget and searches the page it has, while     *)
(* visitors start conversations and go on with older ones. A page's rows   *)
(* and its number of pages are two statements, run at once: each sees a    *)
(* moment of its own, which is how many conversations there are then.      *)
(***************************************************************************)
EXTENDS Naturals, Sequences, FiniteSets, SequencesExt, Selection

CONSTANTS
  ChatWidgets,      \* an organization's widgets
  Previews,         \* last messages, as the search tells them apart
  LogPageSize,      \* PAGE_SIZE
  MaxConversations, MaxTurns  \* bounds on the conversations and the messages

VARIABLES
  conversations, \* in the order they were created
  turns,         \* how many messages there have been: the time
  logTab,        \* the page rendered in the tab, or none
  logAsked,      \* the page asked for, or none
  query,         \* what is typed into the search, kept from page to page
  due,           \* history: the conversations there when page 1 was asked for, or
                 \* what is not counted: the tab has gone another way since
  met,           \* history: those displayed since, while it is counted
  uncounted      \* history: of the page shown, those that were started after its
                 \* pages were counted and before its rows were read

logVars == <<conversations, turns, logTab, logAsked, query, due, met, uncounted>>

Id == 1..MaxConversations
Conversation == [widget : ChatWidgets, lastMessage : Previews, lastAt : 1..MaxTurns]

NoTab  == [at |-> "none"]
Tab    == [at : {"shown"}, filter : ChatWidgets \cup {"all"}, page : Nat \ {0}, rows : Seq(Id),
           totalPages : Nat \ {0}]
NoPage == [way |-> "none"]
Asked  == [way : {"anew", "next", "previous"}, filter : ChatWidgets \cup {"all"}, page : Nat \ {0},
           since : 0..MaxConversations]

NotCounted == 0

LogTypeOK ==
  /\ conversations \in Seq(Conversation) /\ Len(conversations) <= MaxConversations
  /\ turns \in 0..MaxTurns
  /\ logTab = NoTab \/ logTab \in Tab
  /\ logAsked = NoPage \/ logAsked \in Asked
  /\ query \in ChatWidgets \cup Previews \cup {""}
  /\ (due = {NotCounted} \/ due \subseteq Id) /\ met \subseteq Id /\ uncounted \subseteq Id

LogInit ==
  /\ conversations = <<>> /\ turns = 0
  /\ logTab = NoTab /\ logAsked = NoPage /\ query = ""
  /\ due = {NotCounted} /\ met = {} /\ uncounted = {}

-----------------------------------------------------------------------------
(* Visitors: getOrCreateConversation and appendMessage. *)

StartConversation ==
  /\ Len(conversations) < MaxConversations /\ turns < MaxTurns
  /\ \E w \in ChatWidgets, text \in Previews :
       conversations' = Append(conversations,
                               [widget |-> w, lastMessage |-> text, lastAt |-> turns + 1])
  /\ turns' = turns + 1
  /\ UNCHANGED <<logTab, logAsked, query, due, met, uncounted>>

(* A message is a row of its own: the conversation's updatedAt stays what  *)
(* it was when the row was created.                                        *)
AppendToConversation ==
  /\ turns < MaxTurns
  /\ \E id \in DOMAIN conversations, text \in Previews :
       conversations' = [conversations EXCEPT ![id].lastMessage = text,
                                             ![id].lastAt = turns + 1]
  /\ turns' = turns + 1
  /\ UNCHANGED <<logTab, logAsked, query, due, met, uncounted>>

-----------------------------------------------------------------------------
(* The page. *)

Filtered(filter) ==
  {id \in DOMAIN conversations : filter = "all" \/ conversations[id].widget = filter}

SeenAt(n, filter) == Filtered(filter) \cap (1..n)

(* Slip: by the last message, as the comment has it. *)
ByLastMessage(n, filter) ==
  SetToSortSeq(SeenAt(n, filter), LAMBDA a, b : conversations[a].lastAt > conversations[b].lastAt)

(* orderBy updatedAt desc, which is the order they were created in. *)
ByUpdatedAt(n, filter) ==
  Where(Reverse([id \in DOMAIN conversations |-> id]), SeenAt(n, filter))

ListConversations(filter, page, readAt, countedAt) ==
  LET list  == ByUpdatedAt(readAt, filter)
      first == (page - 1) * LogPageSize
      last  == IF page * LogPageSize < Len(list) THEN page * LogPageSize ELSE Len(list)
      pages == (Cardinality(SeenAt(countedAt, filter)) + LogPageSize - 1) \div LogPageSize
  IN [at |-> "shown", filter |-> filter, page |-> page, rows |-> SubSeq(list, first + 1, last),
      totalPages |-> IF pages = 0 THEN 1 ELSE pages]

(* The search is over the page's rows alone. *)
Displayed(rows, q) ==
  {id \in ToSet(rows) : q \in {"", conversations[id].widget, conversations[id].lastMessage}}

(* The tab keeps what it shows until the page is there, and goes where it  *)
(* was last asked to.                                                      *)
AskFor(way, filter, page) ==
  /\ logAsked' = [way |-> way, filter |-> filter, page |-> page, since |-> Len(conversations)]
  /\ UNCHANGED <<conversations, turns, logTab, query, due, met, uncounted>>

OpenLog ==
  \E page \in 1..MaxConversations, filter \in ChatWidgets \cup {"all"} :
    AskFor("anew", filter, page)

(* The select submits its form: page 1 of that widget. It is there when    *)
(* there are several widgets.                                              *)
FilterByWidget ==
  /\ logTab.at = "shown" /\ Cardinality(ChatWidgets) > 1
  /\ \E filter \in ChatWidgets \cup {"all"} : AskFor("anew", filter, 1)

(* A page that has no rows has no links. *)
NextPage ==
  /\ logTab.at = "shown" /\ logTab.rows # <<>> /\ logTab.page < logTab.totalPages
  /\ AskFor("next", logTab.filter, logTab.page + 1)

Previous ==
  /\ logTab.at = "shown" /\ logTab.rows # <<>> /\ logTab.page > 1
  /\ AskFor("previous", logTab.filter, logTab.page - 1)

(* Loaded anew, it begins with an empty search; a page beyond the last     *)
(* says that there are no conversations. A link keeps the list mounted,    *)
(* and what is typed into its search.                                      *)
RenderLog ==
  /\ logAsked # NoPage
  /\ query' = IF logAsked.way = "anew" THEN "" ELSE query
  /\ due' = IF logAsked.way = "anew" /\ logAsked.page = 1
              THEN SeenAt(logAsked.since, logAsked.filter)
              ELSE IF logAsked.way = "next" THEN due ELSE {NotCounted}
  /\ \E readAt, countedAt \in logAsked.since..Len(conversations) :
       LET tab   == ListConversations(logAsked.filter, logAsked.page, readAt, countedAt)
           shown == Displayed(tab.rows, query')
       IN /\ logTab' = tab
          /\ met' = IF due' = {NotCounted} THEN {}
                    ELSE IF logAsked.way = "anew" THEN shown ELSE met \cup shown
          /\ uncounted' = IF due' = {NotCounted} THEN {}
                     ELSE SeenAt(readAt, logAsked.filter) \ SeenAt(countedAt, logAsked.filter)
  /\ logAsked' = NoPage
  /\ UNCHANGED <<conversations, turns>>

(* The list's rows do not change by it; a page without rows has no search. *)
TypeQuery ==
  /\ logTab.at = "shown" /\ logTab.rows # <<>>
  /\ query' \in ChatWidgets \cup Previews \cup {""}
  /\ IF query' = "" THEN UNCHANGED <<due, met, uncounted>>
     ELSE due' = {NotCounted} /\ met' = {} /\ uncounted' = {}
  /\ UNCHANGED <<conversations, turns, logTab, logAsked>>

LogNext ==
  \/ StartConversation \/ AppendToConversation
  \/ OpenLog \/ FilterByWidget \/ NextPage \/ Previous \/ RenderLog \/ TypeQuery

-----------------------------------------------------------------------------

(* Whoever opens the log at page 1 and presses Next to the end has seen    *)
(* every conversation that was there at the start, "every conversation     *)
(* visitors have had" (conversations/page.tsx:47), whoever has come or gone *)
(* on meanwhile: all but as many as were started between the two           *)
(* statements of the last page, if its pages were counted before its rows  *)
(* were read (conversation-service.ts:76). It holds because a message does *)
(* not bring its conversation up the list.                                 *)
PagingMeetsAll ==
  logTab.at = "shown" /\ logTab.page >= logTab.totalPages /\ due # {NotCounted} =>
    Cardinality(due \ met) <= Cardinality(uncounted)

=============================================================================
