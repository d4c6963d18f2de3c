------------------------------ MODULE Insights ------------------------------
(***************************************************************************)
(* What the dashboard tells staff of the questions visitors ask. A chat    *)
(* stores the question when it comes and the reply when there is one, and  *)
(* nothing that ties the two; the analytics page pairs them by time. Its   *)
(* statements run at once, and each sees a moment of its own. A message's  *)
(* place in the log is its createdAt, so a moment is a length of the log.  *)
(***************************************************************************)
EXTENDS Naturals, Sequences, FiniteSets, FiniteSetsExt

CONSTANTS
  Conversations, CampusOf,  \* and the website of the widget each is on
  Questions,                \* texts, as groupRepeatedText tells them apart
  Recommendable, TopicsOf,  \* resources, and the topics of each
  WindowDays,               \* WINDOW_DAYS
  RecentLimit, GapLimit,    \* how many questions and gaps are shown
  LastDay, MaxMessages,     \* bounds on the days, on the messages,
  MaxMeanwhile              \* and on those that come while a page is rendered

VARIABLES
  log,       \* the conversationMessages
  answering, \* questions whose chat request is under way
  today,
  catalogue, \* the recommendable resources that exist
  load,      \* the page being rendered: when it was asked for
  insights,  \* a panel of the page, as it is rendered: no later step reads it
  answers,   \* history: reply -> the question it was made for
  tangled    \* history: conversations that had a question asked before the one
             \* before it had its reply

insightsVars == <<log, answering, today, catalogue, load, insights, answers, tangled>>

Types   == {"NO_RESULTS", "OTHER", "RESOURCE_RECOMMENDATION"}
Outcome == {"matched", "no_match", "pending"}

Message == [role : {"USER"}, conversation : Conversations, day : 0..LastDay, text : Questions]
             \cup [role : {"ASSISTANT"}, conversation : Conversations, day : 0..LastDay,
                   type : Types, recommended : SUBSET Recommendable]

NoLoad == [at |-> "no"]
NoPage == [panel |-> "none"]

InsightsTypeOK ==
  /\ log \in Seq(Message) /\ Len(log) <= MaxMessages
  /\ answering \subseteq DOMAIN log
  /\ today \in 0..LastDay
  /\ catalogue \subseteq Recommendable
  /\ DOMAIN answers \subseteq DOMAIN log
  /\ tangled \subseteq Conversations

InsightsInit ==
  /\ log = <<>> /\ answering = {} /\ today = 0
  /\ catalogue = Recommendable
  /\ load = NoLoad /\ insights = NoPage
  /\ answers = <<>> /\ tangled = {}

-----------------------------------------------------------------------------
(* Chats. *)

Unrendered == insights' = NoPage

AppendMessage(m) ==
  /\ Len(log) < MaxMessages
  /\ load.at = "read" => Len(log) < load.upTo + MaxMeanwhile
  /\ log' = Append(log, m)

Asked(l)    == {i \in DOMAIN l : l[i].role = "USER"}
Replied(l)  == {i \in DOMAIN l : l[i].role = "ASSISTANT"}
Of(l, c)    == {i \in DOMAIN l : l[i].conversation = c}

(* The tab waits for its reply, but there may be another, or the same one  *)
(* after a lost connection.                                                *)
Ask(c) ==
  /\ \E text \in Questions :
       AppendMessage([role |-> "USER", conversation |-> c, day |-> today, text |-> text])
  /\ answering' = answering \cup {Len(log) + 1}
  /\ tangled' = IF \E q \in Asked(log) \cap Of(log, c) : \A r \in DOMAIN answers : answers[r] # q
                THEN tangled \cup {c} ELSE tangled
  /\ UNCHANGED <<today, catalogue, load, answers>> /\ Unrendered

Reply(q) ==
  /\ q \in answering
  /\ \E type \in Types, recommended \in SUBSET catalogue :
       /\ (recommended # {}) = (type = "RESOURCE_RECOMMENDATION")
       /\ AppendMessage([role |-> "ASSISTANT", conversation |-> log[q].conversation,
                         day |-> today, type |-> type, recommended |-> recommended])
  /\ answers' = [r \in DOMAIN answers \cup {Len(log) + 1} |->
                   IF r \in DOMAIN answers THEN answers[r] ELSE q]
  /\ answering' = answering \ {q}
  /\ UNCHANGED <<today, catalogue, load, tangled>> /\ Unrendered

(* The provider throws or the platform kills the request: no reply. *)
ChatEnds(q) ==
  /\ q \in answering
  /\ answering' = answering \ {q}
  /\ UNCHANGED <<log, today, catalogue, load, answers, tangled>> /\ Unrendered

DayPasses ==
  /\ today < LastDay
  /\ today' = today + 1
  /\ UNCHANGED <<log, answering, catalogue, load, answers, tangled>> /\ Unrendered

DeleteResource ==
  /\ \E r \in catalogue : catalogue' = catalogue \ {r}
  /\ UNCHANGED <<log, answering, today, load, answers, tangled>> /\ Unrendered

-----------------------------------------------------------------------------
(* What the page works out. l is what a statement sees, from the place its *)
(* window starts at.                                                       *)

SeenAt(n) == SubSeq(log, 1, n)

(* The n latest of a set of places. *)
Latest(set, n) == {i \in set : Cardinality({j \in set : j > i}) < n}

(* The window of a day starts at this time of it, WindowDays ago. *)
StartsWindow(from, day) ==
  \A i \in DOMAIN log : /\ log[i].day + WindowDays < day => i < from
                        /\ log[i].day + WindowDays > day => i >= from

(* A conversation is created with its first question. *)
Started(l, from, conversations) ==
  {c \in conversations : Of(l, c) # {} /\ Min(Of(l, c)) >= from}

(* The three counts, each with what it sees. *)
TotalConversations(n, from, conversations) ==
  Cardinality(Started(SeenAt(n), from, conversations))

Among(n, from, conversations) == {i \in from..n : log[i].conversation \in conversations}

TotalQuestions(n, from, conversations) ==
  Cardinality(Among(n, from, conversations) \cap Asked(log))

NoResultCount(n, from, conversations) ==
  Cardinality({i \in Among(n, from, conversations) \cap Replied(log) : log[i].type = "NO_RESULTS"})

(* The days of the chart, of either series: the oldest of the window has   *)
(* no bar.                                                                 *)
GetEngagementOverTime(n, from, day) ==
  LET bars == {d \in 0..day : d + WindowDays > day}
      Bars(places) == [d \in bars |-> Cardinality({i \in places : log[i].day = d})]
  IN {Bars({Min(Of(log, c)) : c \in Started(SeenAt(n), from, Conversations)}),
      Bars((from..n) \cap Asked(log))}

(* Once per reply, from the resources there still are. *)
GetTopTopics(l, from, existing) ==
  LET Has(i, topic) == \E r \in l[i].recommended \cap existing : topic \in TopicsOf[r]
      topics == UNION {TopicsOf[r] : r \in existing}
  IN [t \in {t \in topics : \E i \in (from..Len(l)) \cap Replied(l) : Has(i, t)} |->
        Cardinality({i \in (from..Len(l)) \cap Replied(l) : Has(i, t)})]

GetTopResources(l, from, existing) ==
  LET Times(r) == Cardinality({i \in (from..Len(l)) \cap Replied(l) : r \in l[i].recommended})
  IN [r \in {r \in existing : Times(r) > 0} |-> Times(r)]

(* Slip: the latest reply of the conversation. *)
LastReply(l, q) ==
  LET replies == {r \in Replied(l) \cap Of(l, l[q].conversation) : r > q}
  IN IF replies = {} THEN 0 ELSE Max(replies)

(* The earliest reply at or after the question, or none. *)
EarliestReply(l, q) ==
  LET replies == {r \in Replied(l) \cap Of(l, l[q].conversation) : r > q}
  IN IF replies = {} THEN 0 ELSE Min(replies)

(* The questions were read first, the replies from l. *)
GetRecentQuestions(questions, l) ==
  [q \in questions |->
     LET r == EarliestReply(l, q)
     IN IF r = 0 THEN "pending" ELSE IF l[r].type = "NO_RESULTS" THEN "no_match" ELSE "matched"]

(* The last question before each reply that had nothing to recommend; the  *)
(* replies were read first. A reply always has a question before it.       *)
GetContentGaps(replies, l) ==
  [r \in replies |-> Max({q \in Asked(l) \cap Of(l, l[r].conversation) : q < r})]

(* Places whose questions read the same: each by its latest, with how many. *)
GroupRepeatedText(places, TextOf) ==
  {[latest |-> i, count |-> Cardinality({j \in places : TextOf[j] = TextOf[i]})] :
     i \in {i \in places : \A j \in places : TextOf[j] = TextOf[i] => j <= i}}

-----------------------------------------------------------------------------
(* The page. *)

StartPage ==
  /\ load = NoLoad
  /\ \E from \in 1..(Len(log) + 1) :
       /\ StartsWindow(from, today)
       /\ load' = [at |-> "read", from |-> from, upTo |-> Len(log), day |-> today,
                   existing |-> catalogue]
  /\ UNCHANGED <<log, answering, today, catalogue, answers, tangled>> /\ Unrendered

(* When a statement may run.                                               *)
Moments == load.upTo..Len(log)

(* What each panel may show. No two read the same statement, so one is     *)
(* rendered, any; of the numbers on it one, and of the summary the two that *)
(* make the rate.                                                          *)
GetSummaryMetrics ==
  {[panel |-> "number", shows |-> TotalConversations(n, load.from, Conversations)] :
     n \in Moments}
  \cup
  {[panel |-> "rate", from |-> load.from, countedAt |-> at,
    totalQuestions |-> TotalQuestions(at[1], load.from, Conversations),
    noResultCount  |-> NoResultCount(at[2], load.from, Conversations)] :
     at \in Moments \X Moments}

(* Every campus by itself, on plans that show it: its counts wait for the  *)
(* list of websites, and its window starts then.                           *)
GetAnalyticsByWebsite ==
  LET At(w)  == {c \in Conversations : CampusOf[c] = w}
      starts == {from \in load.from..(Len(log) + 1) :
                   \E day \in load.day..today : StartsWindow(from, day)}
      Counts(n, from, conversations) ==
        {TotalConversations(n, from, conversations), TotalQuestions(n, from, conversations),
         NoResultCount(n, from, conversations)}
  IN {[panel |-> "number", shows |-> count] :
        count \in UNION {Counts(n, from, At(CampusOf[c])) :
                           n \in Moments, from \in starts, c \in Conversations}}

(* The days are those of when both statements have been answered. *)
Engagement ==
  LET Days(n) == {day \in load.day..today : \A i \in 1..n : log[i].day <= day}
  IN {[panel |-> "chart", shows |-> bars] :
        bars \in UNION {UNION {GetEngagementOverTime(n, load.from, day) : day \in Days(n)} :
                          n \in Moments}}

(* The resources are read after the replies: those not yet deleted.        *)
Recommended ==
  LET found == {e \in SUBSET load.existing : catalogue \subseteq e}
  IN {[panel |-> "topics", shows |-> GetTopTopics(SeenAt(n), load.from, e)] :
        n \in Moments, e \in found}
     \cup
     {[panel |-> "resources", shows |-> GetTopResources(SeenAt(n), load.from, e)] :
        n \in Moments, e \in found}

(* When two statements may run, the second waiting for the first. *)
InTurn == {at \in Moments \X Moments : at[1] <= at[2]}

(* The replies first, then the questions of their conversations.           *)
ContentGaps ==
  LET Replies(n) == Latest({i \in (load.from..n) \cap Replied(log) : log[i].type = "NO_RESULTS"},
                           GapLimit * 3)
      Shown(at) ==
        LET gaps == GetContentGaps(Replies(at[1]), SeenAt(at[2]))
        IN [panel |-> "gaps", gapOf |-> gaps,
            gaps |-> GroupRepeatedText(Latest(DOMAIN gaps, GapLimit),
                                       [i \in DOMAIN gaps |-> log[gaps[i]].text])]
  IN {Shown(at) : at \in InTurn}

(* The questions first, then the replies of their conversations.           *)
RecentQuestions ==
  LET Recent(n) == Latest((load.from..n) \cap Asked(log), RecentLimit)
      Shown(at) ==
        LET outcomes == GetRecentQuestions(Recent(at[1]), SeenAt(at[2]))
        IN [panel |-> "recent", until |-> at[2], outcomes |-> outcomes,
            recent |-> GroupRepeatedText(DOMAIN outcomes, [q \in DOMAIN outcomes |-> log[q].text])]
  IN {Shown(at) : at \in InTurn}

(* With no conversation started in the window the page says there are      *)
(* none, whatever older ones have been asked.                              *)
RenderPage ==
  /\ load.at = "read"
  /\ LET None(n) == Started(SeenAt(n), load.from, Conversations) = {} IN
     \/ /\ \E n \in Moments : None(n)
        /\ insights' = NoPage
     \/ /\ \E n \in Moments : ~None(n)
        /\ insights' \in GetSummaryMetrics \cup GetAnalyticsByWebsite \cup Engagement
                          \cup Recommended \cup ContentGaps \cup RecentQuestions
  /\ load' = NoLoad
  /\ UNCHANGED <<log, answering, today, catalogue, answers, tangled>>

InsightsNext ==
  \/ \E c \in Conversations : Ask(c)
  \/ \E q \in answering : Reply(q) \/ ChatEnds(q)
  \/ DayPasses \/ DeleteResource
  \/ StartPage \/ RenderPage

-----------------------------------------------------------------------------

(* In a conversation whose questions have waited for their replies, the    *)
(* outcome beside a question is that of its own reply, "pending" only if   *)
(* none had come (analytics-service.ts:194), and a content gap is a        *)
(* question that was answered with nothing (analytics-service.ts:136). The *)
(* questions without a match outnumber all questions by no more than were  *)
(* asked between the two counts, unless a reply is in the window and its   *)
(* question is not.                                                        *)
PairedRightly ==
  /\ insights.panel = "recent" =>
       \A g \in insights.recent :
         LET q == g.latest
             own == {r \in DOMAIN answers : answers[r] = q /\ r <= insights.until}
         IN log[q].conversation \notin tangled =>
              insights.outcomes[q] =
                IF own = {} THEN "pending"
                ELSE IF \E r \in own : log[r].type = "NO_RESULTS" THEN "no_match" ELSE "matched"
  /\ insights.panel = "gaps" =>
       \A g \in insights.gaps :
         log[g.latest].conversation \notin tangled =>
           answers[g.latest] = insights.gapOf[g.latest]
  /\ insights.panel = "rate"
       /\ (\A r \in DOMAIN answers : r >= insights.from => answers[r] >= insights.from) =>
         insights.noResultCount <=
           insights.totalQuestions
             + Cardinality({q \in Asked(log) : /\ q > insights.countedAt[1]
                                             /\ q <= insights.countedAt[2]})

=============================================================================
