---------------------------- MODULE VisitorProofs ----------------------------
(***************************************************************************)
(* What the visitor of a church's pages is promised, for all values of the *)
(* constants. Of Chat: what is shown was published, "nothing found" is     *)
(* true, answers stand under their questions, and staff are mailed the     *)
(* question. Of VisitorPage: closing a panel gives the page its scroll     *)
(* back, and a dropdown of the library counts what choosing leads to.      *)
(***************************************************************************)
EXTENDS Chat, VisitorPage, ListLemmas

Stages == {"none", "sent", "absent", "found", "asked", "search", "searched", "validated",
           "answered", "refused"}

Request == [stage : Stages, tab : Tabs, waiting : BOOLEAN, question : Seq(Resources),
            conv : Nat, forwardable : BOOLEAN, concern : BOOLEAN, list : Seq(Resources),
            kind : Kinds \cup {"none"}, steady : SUBSET Resources, since : SUBSET Resources]
Entry   == Message \cup {Thanks}
Tab     == [log : Seq(Entry), loading : BOOLEAN, forms : [Reqs -> FormStates]]
Forwarding == [stage : {"none", "sent", "read", "refused", "mailed"}, tab : Tabs,
               offer : Reqs \cup {NoReq}, waiting : BOOLEAN, conv : Nat]
Mail    == [conv : Nat, offer : Reqs \cup {NoReq}, whole : Seq(Message), transcript : Seq(Message)]

Types ==
  /\ place \in {"widget", "library"}
  /\ tabs \in [Tabs -> Tab]
  /\ reqs \in [Reqs -> Request]
  /\ convs \in Seq(Seq(Message))
  /\ active \in SUBSET Resources
  /\ edits \in Nat
  /\ recipients \in BOOLEAN
  /\ fwds \in [1..MaxForwards -> Forwarding]
  /\ mails \in Seq(Mail)

-----------------------------------------------------------------------------
(* Answers under their questions *)

(* In a log are the messages of requests that were made, and thanks, which  *)
(* are the widget's.                                                       *)
MadeOf(log) ==
  \A n \in 1..Len(log) :
    IF log[n] = Thanks THEN place = "widget" ELSE reqs[log[n].req].stage # "none"

InOrder(log) ==
  \A n \in 1..Len(log) : log[n].role = "ASSISTANT" /\ log[n] # Thanks => Under(log, n)

(* A question that is waited for is the last message but thanks, and a new  *)
(* one.                                                                    *)
EndsWith(log, i) ==
  \E m \in 1..Len(log) :
    /\ log[m] = [role |-> "USER", req |-> i]
    /\ \A n \in (m + 1)..Len(log) : log[n] = Thanks
    /\ \A n \in 1..(m - 1) : log[n].req # i

Awaited(i) ==
  reqs[i].waiting =>
    reqs[i].stage # "none" /\ tabs[reqs[i].tab].loading /\ EndsWith(tabs[reqs[i].tab].log, i)

LogInv ==
  /\ \A t \in Tabs : InOrder(tabs[t].log) /\ MadeOf(tabs[t].log)
  /\ \A i \in Reqs : Awaited(i)

-----------------------------------------------------------------------------
(* What is found *)

(* Nothing that has always been published and matched is missing.          *)
NoneMissed(r) ==
  \A n \in 1..Len(r.question) : r.question[n] \in r.steady \ Elsewhere => n > RetrievalLimit

Found(r) ==
  /\ r.steady \subseteq active
  /\ r.stage \in {"searched", "validated", "answered"} => Len(r.list) <= RetrievalLimit
  /\ r.stage = "searched" =>
       /\ active \subseteq r.since
       /\ \A n \in 1..Len(r.question) :
            r.question[n] \in r.steady \ Elsewhere /\ n <= RetrievalLimit =>
              \E k \in 1..Len(r.list) : r.list[k] = r.question[n]
  /\ r.stage \in {"validated", "answered"} =>
       \A k \in 1..Len(r.list) : r.list[k] \in r.since \ Elsewhere
  /\ r.stage = "validated" /\ r.list = << >> => NoneMissed(r)
  /\ r.stage = "answered" /\ r.kind = "NO_RESULTS" => NoneMissed(r)

FoundInv == \A i \in Reqs : Found(reqs[i])

-----------------------------------------------------------------------------
(* What is mailed *)

(* The conversation of a request holds its question.                       *)
Stored(i, c, all) ==
  /\ c \in 1..Len(all)
  /\ \E n \in 1..Len(all[c]) : all[c][n] = [role |-> "USER", req |-> i]

Carried(m) ==
  \/ m.conv # reqs[m.offer].conv
  \/ \E n \in 1..Len(m.transcript) : m.transcript[n] = [role |-> "USER", req |-> m.offer]
  \/ \E n \in 1..(Len(m.whole) - MaxTranscript) : m.whole[n] = [role |-> "USER", req |-> m.offer]

Answered(i) == i \in Reqs /\ reqs[i].stage = "answered"

StoredAt(i, r, all) ==
  /\ r.stage = "found" => r.conv \in 1..Len(all)
  /\ r.stage \in {"asked", "search", "searched", "validated", "answered"} => Stored(i, r.conv, all)
  /\ r.kind # "none" => r.stage = "answered"

StoredInv == \A i \in Reqs : StoredAt(i, reqs[i], convs)

OffersInv ==
  /\ \A t \in Tabs, i \in Reqs : tabs[t].forms[i] # "idle" => Answered(i)
  /\ \A k \in 1..MaxForwards : fwds[k].stage # "none" => Answered(fwds[k].offer)
  /\ \A n \in 1..Len(mails) : Answered(mails[n].offer) /\ Carried(mails[n])

-----------------------------------------------------------------------------
(* Beginnings and ends of sequences *)

(* The first n elements are elements, in their places.                     *)
LEMMA FirstsAreIn ==
  ASSUME NEW A, NEW seq \in Seq(A), NEW n \in Nat
  PROVE  /\ Firsts(seq, n) \in Seq(A) /\ Len(Firsts(seq, n)) <= n
         /\ Len(Firsts(seq, n)) <= Len(seq)
         /\ \A k \in 1..Len(Firsts(seq, n)) : k \in 1..Len(seq) /\ Firsts(seq, n)[k] = seq[k]
         /\ \A k \in 1..Len(seq) :
              k <= n => k \in 1..Len(Firsts(seq, n)) /\ Firsts(seq, n)[k] = seq[k]
<1> DEFINE m == IF n < Len(seq) THEN n ELSE Len(seq)
<1>1. Len(seq) \in Nat /\ m \in 0..Len(seq) /\ m <= n /\ (\A k \in 1..Len(seq) : k <= n => k <= m)
  OBVIOUS
<1>2. Firsts(seq, n) = SubSeq(seq, 1, m)
  BY DEF Firsts
<1>3. /\ SubSeq(seq, 1, m) \in Seq(A) /\ Len(SubSeq(seq, 1, m)) = m
      /\ \A k \in 1..m : SubSeq(seq, 1, m)[k] = seq[k]
  BY <1>1
<1> HIDE DEF m
<1> QED
  BY <1>1, <1>2, <1>3

(* An element is among the last n, or has at least n behind it.            *)
LEMMA LastsAreIn ==
  ASSUME NEW A, NEW seq \in Seq(A), NEW n \in Nat
  PROVE  /\ Lasts(seq, n) \in Seq(A)
         /\ \A p \in 1..Len(seq) : \/ p \in 1..(Len(seq) - n)
                                   \/ \E k \in 1..Len(Lasts(seq, n)) : Lasts(seq, n)[k] = seq[p]
<1> DEFINE b == IF Len(seq) > n THEN Len(seq) - n + 1 ELSE 1
<1>1. Len(seq) \in Nat /\ b \in 1..(Len(seq) + 1) /\ b - 1 \in Nat
      /\ \A p \in 1..Len(seq) : p \in 1..(Len(seq) - n) \/ p >= b
  OBVIOUS
<1>2. Lasts(seq, n) = SubSeq(seq, b, Len(seq))
  BY DEF Lasts
<1>3. /\ SubSeq(seq, b, Len(seq)) \in Seq(A) /\ Len(SubSeq(seq, b, Len(seq))) = Len(seq) - b + 1
      /\ \A k \in 1..(Len(seq) - b + 1) : SubSeq(seq, b, Len(seq))[k] = seq[b + k - 1]
  <2> HIDE DEF b
  <2> QED
    BY <1>1, SubSeqProperties
<1> HIDE DEF b
<1>4. ASSUME NEW p \in 1..Len(seq), p >= b
      PROVE  \E k \in 1..Len(Lasts(seq, n)) : Lasts(seq, n)[k] = seq[p]
  <2>1. p - b + 1 \in 1..(Len(seq) - b + 1) /\ b + (p - b + 1) - 1 = p
    BY <1>1, <1>4
  <2> QED
    BY <1>2, <1>3, <2>1
<1> QED
  BY <1>1, <1>2, <1>3, <1>4

(* What is there stays there when a message is appended.                   *)
LEMMA AppendKeeps ==
  ASSUME NEW A, NEW seq \in Seq(A), NEW e \in A
  PROVE  /\ Append(seq, e) \in Seq(A) /\ Len(Append(seq, e)) = Len(seq) + 1
         /\ Append(seq, e)[Len(seq) + 1] = e
         /\ \A n \in 1..Len(seq) : Append(seq, e)[n] = seq[n]
  OBVIOUS

-----------------------------------------------------------------------------
(* The search and the validation *)

(* A search returns published resources, and every match that has been     *)
(* published and is not beyond the limit.                                  *)
LEMMA RetrievalFinds ==
  ASSUME NEW q \in Seq(Resources), NEW S \in SUBSET Resources, RetrievalLimit \in Nat
  PROVE  LET found == Firsts(Where(q, S), RetrievalLimit) IN
         /\ found \in Seq(Resources) /\ Len(found) <= RetrievalLimit
         /\ \A n \in 1..Len(q) : q[n] \in S /\ n <= RetrievalLimit =>
              \E k \in 1..Len(found) : found[k] = q[n]
<1> DEFINE w == Where(q, S)
           found == Firsts(w, RetrievalLimit)
<1>1. /\ w \in Seq(Resources) /\ Len(w) \in Nat
      /\ \A n \in 1..Len(q) : q[n] \in S => \E k \in 1..Len(w) : k <= n /\ w[k] = q[n]
  BY WhereKeeps
<1> HIDE DEF w
<1>2. /\ found \in Seq(Resources) /\ Len(found) <= RetrievalLimit
      /\ \A k \in 1..Len(w) :
           k <= RetrievalLimit => k \in 1..Len(found) /\ found[k] = w[k]
  BY <1>1, FirstsAreIn
<1>3. ASSUME NEW n \in 1..Len(q), q[n] \in S, n <= RetrievalLimit
      PROVE  \E k \in 1..Len(found) : found[k] = q[n]
  <2>1. PICK k \in 1..Len(w) : k <= n /\ w[k] = q[n]
    BY <1>1, <1>3
  <2>2. k <= RetrievalLimit
    BY <1>3, <2>1
  <2> QED
    BY <1>2, <2>1, <2>2
<1> QED
  BY <1>2, <1>3 DEF w

(* What is validated is published and of this campus; and nothing is left  *)
(* only if nothing was.                                                    *)
LEMMA ValidationFinds ==
  ASSUME NEW list \in Seq(Resources), active \in SUBSET Resources,
         MaxRecommendations \in Nat \ {0}
  PROVE  LET shown == Firsts(Ranked(Valid(list)), MaxRecommendations) IN
         /\ shown \in Seq(Resources) /\ Len(shown) <= Len(list)
         /\ Len(shown) <= MaxRecommendations
         /\ \A k \in 1..Len(shown) : shown[k] \in active \ Elsewhere
         /\ shown = << >> => \A k \in 1..Len(list) : list[k] \notin active \ Elsewhere
<1> DEFINE v == Valid(list)
           a == Where(v, Priority)
           b == Where(v, Resources \ Priority)
           r == a \o b
           shown == Firsts(r, MaxRecommendations)
<1>1. /\ v \in Seq(Resources) /\ Len(v) \in Nat /\ Len(v) <= Len(list)
      /\ \A k \in 1..Len(v) : v[k] \in active \ Elsewhere
      /\ \A n \in 1..Len(list) : list[n] \in active \ Elsewhere =>
           \E k \in 1..Len(v) : v[k] = list[n]
  <2> DEFINE S == active \ Elsewhere
  <2>1. v = Where(list, S)
    BY DEF Valid
  <2> HIDE DEF S, v
  <2>2. /\ v \in Seq(Resources) /\ Len(v) \in Nat /\ Len(v) <= Len(list)
        /\ \A k \in 1..Len(v) : v[k] \in S
        /\ \A n \in 1..Len(list) : list[n] \in S => \E k \in 1..Len(v) : v[k] = list[n]
    BY <2>1, WhereKeeps
  <2> QED
    BY <2>2 DEF S
<1> HIDE DEF v
<1>2. /\ a \in Seq(Resources) /\ Len(a) \in Nat
      /\ \A k \in 1..Len(a) : \E m \in 1..Len(v) : v[m] = a[k]
  BY <1>1, WhereKeeps
<1>3. /\ b \in Seq(Resources) /\ Len(b) \in Nat
      /\ \A k \in 1..Len(b) : \E m \in 1..Len(v) : v[m] = b[k]
  <2> DEFINE S == Resources \ Priority
  <2>1. b = Where(v, S)
    OBVIOUS
  <2> HIDE DEF S, b
  <2> QED
    BY <1>1, <2>1, WhereKeeps
<1>4. Len(a) + Len(b) = Len(v)
  BY <1>1, WhereSplits
<1> HIDE DEF a, b
<1>5. r \in Seq(Resources) /\ Len(r) = Len(v) /\ \A k \in 1..Len(r) : r[k] \in active \ Elsewhere
  <2>1. /\ r \in Seq(Resources) /\ Len(r) = Len(a) + Len(b)
        /\ \A k \in 1..Len(r) : r[k] = IF k <= Len(a) THEN a[k] ELSE b[k - Len(a)]
    BY <1>2, <1>3
  <2> HIDE DEF r
  <2>2. ASSUME NEW k \in 1..Len(r) PROVE \E m \in 1..Len(v) : v[m] = r[k]
    <3>1. CASE k <= Len(a)
      BY <1>2, <2>1, <3>1
    <3>2. CASE k > Len(a)
      <4>1. k - Len(a) \in 1..Len(b) /\ r[k] = b[k - Len(a)]
        BY <1>2, <1>3, <2>1, <3>2
      <4> QED
        BY <1>3, <4>1
    <3> QED
      BY <1>2, <3>1, <3>2
  <2> QED
    BY <1>1, <1>4, <2>1, <2>2
<1> HIDE DEF r
<1>6. /\ shown \in Seq(Resources) /\ Len(shown) <= MaxRecommendations /\ Len(shown) <= Len(r)
      /\ \A k \in 1..Len(shown) : k \in 1..Len(r) /\ shown[k] = r[k]
      /\ \A k \in 1..Len(r) : k <= MaxRecommendations => k \in 1..Len(shown)
  BY <1>5, FirstsAreIn
<1>7. ASSUME shown = << >>, NEW k \in 1..Len(list), list[k] \in active \ Elsewhere PROVE FALSE
  <2>1. Len(r) # 0
    BY <1>1, <1>5, <1>7
  <2>2. 1 \in 1..Len(shown)
    BY <1>5, <1>6, <2>1, 1 <= MaxRecommendations
  <2> QED
    BY <1>7, <2>2
<1>8. Ranked(Valid(list)) = r
  BY DEF Ranked, r, a, b, v
<1> HIDE DEF shown
<1>9. /\ shown \in Seq(Resources) /\ Len(shown) <= Len(list) /\ Len(shown) <= MaxRecommendations
      /\ \A k \in 1..Len(shown) : shown[k] \in active \ Elsewhere
      /\ shown = << >> => \A k \in 1..Len(list) : list[k] \notin active \ Elsewhere
  <2>1. Len(shown) \in Nat /\ Len(shown) <= Len(list)
    BY <1>1, <1>5, <1>6
  <2>2. \A k \in 1..Len(shown) : shown[k] \in active \ Elsewhere
    BY <1>5, <1>6
  <2> HIDE DEF shown
  <2>3. shown = << >> => \A k \in 1..Len(list) : list[k] \notin active \ Elsewhere
    BY <1>7
  <2> QED
    BY <1>6, <2>1, <2>2, <2>3
<1> QED
  BY <1>8, <1>9 DEF shown

-----------------------------------------------------------------------------
(* Types *)

(* What Init and a reload put there has its type.                          *)
LEMMA NewOnes ==
  /\ NewRequest \in Request /\ NewTab \in Tab /\ NewForward \in Forwarding
  /\ NewRequest.stage = "none" /\ ~NewRequest.waiting /\ NewRequest.kind = "none"
  /\ NewTab.log = << >> /\ ~NewTab.loading /\ \A i \in Reqs : NewTab.forms[i] = "idle"
  /\ NewForward.stage = "none"
<1>1. AnyTab \in Tabs
  BY ChatAssumption DEF AnyTab
<1>2. << >> \in Seq(Resources) /\ << >> \in Seq(Entry) /\ 0 \in Nat
  OBVIOUS
<1>3. NewRequest \in Request
  BY <1>1, <1>2 DEF NewRequest, Request, Stages
<1>4. NewTab \in Tab
  BY <1>2 DEF NewTab, Tab, FormStates
<1>5. NewForward \in Forwarding
  BY <1>1, <1>2 DEF NewForward, Forwarding
<1> QED
  BY <1>3, <1>4, <1>5 DEF NewRequest, NewTab, NewForward

(* A step of the server rewrites one request, which is under way, and only *)
(* adds to the conversations.                                              *)
Grown(all, now) ==
  /\ now \in Seq(Seq(Message)) /\ Len(all) <= Len(now)
  /\ \A c \in 1..Len(all) : /\ Len(all[c]) <= Len(now[c])
                            /\ \A n \in 1..Len(all[c]) : now[c][n] = all[c][n]

Served(i, k) ==
  /\ Step(i, k) /\ k \in Request
  /\ reqs[i].stage \notin {"none", "answered"} /\ k.stage # "none"
  /\ k.tab = reqs[i].tab /\ k.waiting = reqs[i].waiting
  /\ Grown(convs, convs')

(* Leaving the conversations alone is growing by nothing.                  *)
LEMMA GrownByNone == ASSUME Types PROVE Grown(convs, convs)
<1>1. convs \in Seq(Seq(Message)) /\ \A c \in 1..Len(convs) : convs[c] \in Seq(Message)
  BY DEF Types
<1>2. Len(convs) <= Len(convs) /\ \A c \in 1..Len(convs) : Len(convs[c]) <= Len(convs[c])
  BY <1>1
<1> QED
  BY <1>1, <1>2 DEF Grown

(* Storing a message makes its conversation longer by one.                 *)
LEMMA GrownByMessage ==
  ASSUME Types, NEW c \in 1..Len(convs), NEW m \in Message
  PROVE  /\ Grown(convs, [convs EXCEPT ![c] = Append(@, m)])
         /\ Len([convs EXCEPT ![c] = Append(@, m)]) = Len(convs)
         /\ Len([convs EXCEPT ![c] = Append(@, m)][c]) = Len(convs[c]) + 1
         /\ [convs EXCEPT ![c] = Append(@, m)][c][Len(convs[c]) + 1] = m
<1> DEFINE now == [convs EXCEPT ![c] = Append(@, m)]
<1>1. convs \in Seq(Seq(Message)) /\ \A d \in 1..Len(convs) : convs[d] \in Seq(Message)
  BY DEF Types
<1>2. /\ Append(convs[c], m) \in Seq(Message) /\ Len(Append(convs[c], m)) = Len(convs[c]) + 1
      /\ Append(convs[c], m)[Len(convs[c]) + 1] = m
      /\ \A n \in 1..Len(convs[c]) : Append(convs[c], m)[n] = convs[c][n]
  BY <1>1, AppendKeeps
<1>3. /\ now \in Seq(Seq(Message)) /\ Len(now) = Len(convs) /\ now[c] = Append(convs[c], m)
      /\ \A d \in 1..Len(convs) : d # c => now[d] = convs[d]
  BY <1>1, <1>2
<1> HIDE DEF now
<1>4. \A d \in 1..Len(convs) : /\ Len(convs[d]) <= Len(now[d])
                               /\ \A n \in 1..Len(convs[d]) : now[d][n] = convs[d][n]
  <2> TAKE d \in 1..Len(convs)
  <2>1. CASE d = c
    <3>1. Len(convs[c]) \in Nat /\ now[d] = Append(convs[c], m)
      BY <1>1, <1>3, <2>1
    <3>2. Len(now[d]) = Len(convs[d]) + 1 /\ \A n \in 1..Len(convs[d]) : now[d][n] = convs[d][n]
      BY <1>2, <2>1, <3>1
    <3> QED
      BY <2>1, <3>1, <3>2
  <2>2. CASE d # c
    <3>1. Len(convs[d]) \in Nat
      BY <1>1
    <3> QED
      BY <1>3, <2>2, <3>1
  <2> QED
    BY <2>1, <2>2
<1>5. Len(convs) <= Len(now)
  BY <1>1, <1>3
<1> QED
  BY <1>2, <1>3, <1>4, <1>5 DEF Grown, now

(* Creating a conversation leaves the others as they are.                  *)
LEMMA GrownByConversation ==
  ASSUME Types
  PROVE  Grown(convs, Append(convs, << >>)) /\ Len(Append(convs, << >>)) = Len(convs) + 1
<1>1. convs \in Seq(Seq(Message)) /\ << >> \in Seq(Message)
      /\ \A d \in 1..Len(convs) : convs[d] \in Seq(Message)
  BY DEF Types
<1>2. /\ Append(convs, << >>) \in Seq(Seq(Message)) /\ Len(Append(convs, << >>)) = Len(convs) + 1
      /\ \A n \in 1..Len(convs) : Append(convs, << >>)[n] = convs[n]
  BY <1>1
<1>3. \A d \in 1..Len(convs) : Len(convs[d]) <= Len(convs[d])
  BY <1>1
<1> QED
  BY <1>1, <1>2, <1>3 DEF Grown

(* Every step of the server is one.                                        *)
LEMMA ServeServes ==
  ASSUME Types, StoredInv, NEW i \in Reqs, Serve(i)
  PROVE  \E k : Served(i, k)
<1>t. reqs[i] \in Request /\ Grown(convs, convs) /\ convs \in Seq(Seq(Message)) /\ Len(convs) \in Nat
  BY GrownByNone DEF Types
<1>m. \A role \in {"USER", "ASSISTANT"} : [role |-> role, req |-> i] \in Message
  BY DEF Message
<1>e. << >> \in Seq(Resources)
  OBVIOUS
<1>1. ASSUME NEW k, Step(i, k), UNCHANGED convs, k \in Request,
             reqs[i].stage \notin {"none", "answered"}, k.stage # "none",
             k.tab = reqs[i].tab, k.waiting = reqs[i].waiting
      PROVE  Served(i, k)
  BY <1>1, <1>t DEF Served
<1>2. CASE FindConversation(i)
  <2> DEFINE k == [reqs[i] EXCEPT !.stage = IF convs = << >> THEN "absent" ELSE "found",
                                  !.conv = Len(convs)]
  <2>1. k \in Request /\ k.stage # "none" /\ k.tab = reqs[i].tab /\ k.waiting = reqs[i].waiting
    BY <1>t DEF Request, Stages
  <2>2. Step(i, k) /\ UNCHANGED convs /\ reqs[i].stage \notin {"none", "answered"}
    BY <1>2 DEF FindConversation, At
  <2> HIDE DEF k
  <2> QED
    BY <1>1, <2>1, <2>2
<1>3. CASE CreateConversation(i)
  <2> DEFINE k == [reqs[i] EXCEPT !.stage = "found", !.conv = Len(convs')]
  <2>1. Grown(convs, convs') /\ Len(convs') \in Nat
    BY <1>3, <1>t, GrownByConversation DEF CreateConversation
  <2>2. k \in Request /\ k.stage # "none" /\ k.tab = reqs[i].tab /\ k.waiting = reqs[i].waiting
    BY <1>t, <2>1 DEF Request, Stages
  <2>3. Step(i, k) /\ reqs[i].stage \notin {"none", "answered"}
    BY <1>3 DEF CreateConversation, At
  <2> HIDE DEF k
  <2> QED
    BY <2>1, <2>2, <2>3 DEF Served
<1>4. CASE AppendQuestion(i)
  <2> DEFINE k == [reqs[i] EXCEPT !.stage = "asked", !.forwardable = recipients]
  <2>1. reqs[i].conv \in 1..Len(convs)
    BY <1>4 DEF StoredInv, StoredAt, AppendQuestion, At
  <2>2. Grown(convs, convs')
    BY <1>4, <1>m, <2>1, GrownByMessage DEF AppendQuestion
  <2>3. k \in Request /\ k.stage # "none" /\ k.tab = reqs[i].tab /\ k.waiting = reqs[i].waiting
    BY <1>t DEF Request, Stages, Types
  <2>4. Step(i, k) /\ reqs[i].stage \notin {"none", "answered"}
    BY <1>4 DEF AppendQuestion, At
  <2> HIDE DEF k
  <2> QED
    BY <2>2, <2>3, <2>4 DEF Served
<1>5. ASSUME NEW kind \in Kinds, NEW list \in Seq(Resources), Reply(i, kind, list),
             reqs[i].stage \in {"asked", "validated"}
      PROVE  \E k : Served(i, k)
  <2> DEFINE k == [reqs[i] EXCEPT !.stage = "answered", !.kind = kind, !.list = list]
  <2>1. reqs[i].conv \in 1..Len(convs)
    BY <1>5 DEF StoredInv, StoredAt, Stored
  <2>2. Grown(convs, convs')
    BY <1>5, <1>m, <2>1, GrownByMessage DEF Reply
  <2>3. k \in Request /\ k.stage # "none" /\ k.tab = reqs[i].tab /\ k.waiting = reqs[i].waiting
    BY <1>t, <1>5 DEF Request, Stages
  <2>4. Step(i, k) /\ reqs[i].stage \notin {"none", "answered"}
    BY <1>5 DEF Reply
  <2> HIDE DEF k
  <2> QED
    BY <2>2, <2>3, <2>4 DEF Served
<1>6. CASE Dismiss(i)
  BY <1>5, <1>6, <1>e DEF Dismiss, At, Kinds
<1>7. CASE Redirect(i)
  BY <1>5, <1>7, <1>e DEF Redirect, At, Kinds
<1>8. CASE Proceed(i)
  <2>1. PICK concern \in BOOLEAN :
          Step(i, [reqs[i] EXCEPT !.stage = "search", !.concern = concern])
    BY <1>8 DEF Proceed
  <2> DEFINE k == [reqs[i] EXCEPT !.stage = "search", !.concern = concern]
  <2>2. k \in Request /\ k.stage # "none" /\ k.tab = reqs[i].tab /\ k.waiting = reqs[i].waiting
    BY <1>t DEF Request, Stages
  <2>3. UNCHANGED convs /\ reqs[i].stage \notin {"none", "answered"}
    BY <1>8 DEF Proceed, At
  <2> HIDE DEF k
  <2> QED
    BY <1>1, <2>1, <2>2, <2>3 DEF k
<1>9. CASE Retrieve(i)
  <2> DEFINE found == Firsts(Where(reqs[i].question, active), RetrievalLimit)
             k == [reqs[i] EXCEPT !.stage = "searched", !.since = active, !.list = found]
  <2>1. found \in Seq(Resources)
    BY <1>t, RetrievalFinds, ChatAssumption DEF Request, Types
  <2>2. Step(i, k) /\ UNCHANGED convs /\ reqs[i].stage \notin {"none", "answered"}
    BY <1>9 DEF Retrieve, At
  <2> HIDE DEF found
  <2>3. k \in Request /\ k.stage # "none" /\ k.tab = reqs[i].tab /\ k.waiting = reqs[i].waiting
    BY <1>t, <2>1 DEF Request, Stages, Types
  <2> HIDE DEF k
  <2> QED
    BY <1>1, <2>2, <2>3
<1>10. CASE Validate(i)
  <2> DEFINE shown == Firsts(Ranked(Valid(reqs[i].list)), MaxRecommendations)
             k == [reqs[i] EXCEPT !.stage = "validated", !.list = shown]
  <2>1. shown \in Seq(Resources)
    BY <1>t, ValidationFinds, ChatAssumption DEF Request, Types
  <2>2. Step(i, k) /\ UNCHANGED convs /\ reqs[i].stage \notin {"none", "answered"}
    BY <1>10 DEF Validate, At
  <2> HIDE DEF shown
  <2>3. k \in Request /\ k.stage # "none" /\ k.tab = reqs[i].tab /\ k.waiting = reqs[i].waiting
    BY <1>t, <2>1 DEF Request, Stages
  <2> HIDE DEF k
  <2> QED
    BY <1>1, <2>2, <2>3
<1>11. CASE Conclude(i)
  <2> DEFINE kind == CASE reqs[i].concern -> "SAFETY_RESPONSE"
                       [] ~reqs[i].concern /\ reqs[i].list = << >> -> "NO_RESULTS"
                       [] OTHER -> "RESOURCE_RECOMMENDATION"
  <2>1. kind \in Kinds /\ reqs[i].list \in Seq(Resources)
    BY <1>t DEF Kinds, Request
  <2>2. Reply(i, kind, reqs[i].list) /\ reqs[i].stage = "validated"
    BY <1>11 DEF Conclude, At
  <2> HIDE DEF kind
  <2> QED
    BY <1>5, <2>1, <2>2
<1>12. CASE Refuse(i)
  <2> DEFINE k == [reqs[i] EXCEPT !.stage = "refused"]
  <2>1. k \in Request /\ k.stage # "none" /\ k.tab = reqs[i].tab /\ k.waiting = reqs[i].waiting
    BY <1>t DEF Request, Stages
  <2>2. Step(i, k) /\ UNCHANGED convs /\ reqs[i].stage \notin {"none", "answered"}
    BY <1>12 DEF Refuse
  <2> HIDE DEF k
  <2> QED
    BY <1>1, <2>1, <2>2
<1> QED
  BY <1>2, <1>3, <1>4, <1>6, <1>7, <1>8, <1>9, <1>10, <1>11, <1>12 DEF Serve

(* A tab is rewritten: its log, its wait or its forms.                     *)
LEMMA TabRewritten ==
  ASSUME Types, NEW t \in Tabs, NEW log \in Seq(Entry), NEW loading \in BOOLEAN,
         tabs' = [tabs EXCEPT ![t].log = log, ![t].loading = loading]
  PROVE  /\ tabs' \in [Tabs -> Tab]
         /\ tabs'[t].log = log /\ tabs'[t].loading = loading /\ tabs'[t].forms = tabs[t].forms
         /\ \A u \in Tabs : u # t => tabs'[u] = tabs[u]
  BY DEF Types, Tab

(* Setting the state of a forwarding form closes others at most.           *)
LEMMA FormChosen ==
  ASSUME NEW forms \in [Reqs -> FormStates], NEW i, NEW state \in FormStates
  PROVE  /\ WithForm(forms, i, state) \in [Reqs -> FormStates]
         /\ \A j \in Reqs : WithForm(forms, i, state)[j] # "idle" =>
              forms[j] # "idle" \/ (j = i /\ state # "idle")
  BY DEF WithForm, FormStates

(* Setting the state of a forwarding form leaves the rest of the tabs.     *)
LEMMA FormSet ==
  ASSUME Types, NEW t \in Tabs, NEW i, NEW state \in FormStates, SetForm(t, i, state)
  PROVE  /\ tabs' \in [Tabs -> Tab]
         /\ \A u \in Tabs : tabs'[u].log = tabs[u].log /\ tabs'[u].loading = tabs[u].loading
         /\ \A u \in Tabs, j \in Reqs : tabs'[u].forms[j] # "idle" =>
              \/ tabs[u].forms[j] # "idle"
              \/ j = i /\ state # "idle"
<1> DEFINE forms == WithForm(tabs[t].forms, i, state)
<1>1. tabs[t] \in Tab /\ tabs[t].forms \in [Reqs -> FormStates]
  BY DEF Types, Tab
<1>2. /\ forms \in [Reqs -> FormStates]
      /\ \A j \in Reqs : forms[j] # "idle" => tabs[t].forms[j] # "idle" \/ (j = i /\ state # "idle")
  BY <1>1, FormChosen
<1>3. tabs' = [tabs EXCEPT ![t].forms = forms]
  BY DEF SetForm, Types
<1> HIDE DEF forms
<1> QED
  BY <1>1, <1>2, <1>3 DEF Types, Tab

(* What a log becomes when a question of it has been forwarded.            *)
Thanked(log) == IF place = "widget" THEN Append(log, Thanks) ELSE log

(* A forwarded question shows in its form, and in the widget's log.        *)
LEMMA ForwardShown ==
  ASSUME Types, NEW t \in Tabs, NEW i, ShowForwarded(t, i)
  PROVE  /\ tabs' \in [Tabs -> Tab]
         /\ \A u \in Tabs : /\ tabs'[u].loading = tabs[u].loading
                             /\ tabs'[u].log = IF u = t THEN Thanked(tabs[u].log)
                                                       ELSE tabs[u].log
         /\ \A u \in Tabs, j \in Reqs : tabs'[u].forms[j] # "idle" =>
              tabs[u].forms[j] # "idle" \/ j = i
<1> DEFINE forms == WithForm(tabs[t].forms, i, "sent")
           log   == Thanked(tabs[t].log)
<1>1. /\ tabs[t] \in Tab /\ tabs[t].forms \in [Reqs -> FormStates]
      /\ tabs[t].log \in Seq(Entry) /\ "sent" \in FormStates
  BY DEF Types, Tab, FormStates
<1>2. /\ forms \in [Reqs -> FormStates]
      /\ \A j \in Reqs : forms[j] # "idle" => tabs[t].forms[j] # "idle" \/ j = i
  BY <1>1, FormChosen
<1>3. log \in Seq(Entry)
  BY <1>1, AppendKeeps DEF Thanked, Entry
<1>4. tabs' = [tabs EXCEPT ![t].forms = forms, ![t].log = log]
  BY <1>1 DEF ShowForwarded, Types, Tab, Thanked
<1>5. \A u \in Tabs : tabs'[u].log = IF u = t THEN log ELSE tabs[u].log
  <2> HIDE DEF forms, log
  <2> QED
    BY <1>1, <1>4 DEF Types, Tab
<1>6. \A u \in Tabs : tabs'[u].log = IF u = t THEN Thanked(tabs[u].log) ELSE tabs[u].log
  BY <1>5
<1> HIDE DEF forms, log
<1> QED
  BY <1>1, <1>2, <1>3, <1>4, <1>6 DEF Types, Tab

(* The answer goes to the end of the log: in the library, where there are   *)
(* no thanks, it settles the turn of its question, which is the last.       *)
LEMMA AnswerGoesLast ==
  ASSUME Types, NEW i \in Reqs, NEW log \in Seq(Entry), EndsWith(log, i),
         \A n \in 1..Len(log) : log[n] = Thanks => place = "widget"
  PROVE  WithAnswer(log, i) = Append(log, [role |-> "ASSISTANT", req |-> i])
<1>1. CASE place = "widget"
  BY <1>1 DEF WithAnswer
<1>2. CASE place # "widget"
  <2> DEFINE a == [role |-> "ASSISTANT", req |-> i]
             at == {n \in 1..Len(log) : log[n].req = i}
  <2>1. /\ Len(log) \in Nat \ {0} /\ log[Len(log)].req = i
        /\ \A n \in 1..(Len(log) - 1) : log[n].req # i
    <3>1. PICK m \in 1..Len(log) : /\ log[m] = [role |-> "USER", req |-> i]
                                   /\ \A n \in (m + 1)..Len(log) : log[n] = Thanks
                                   /\ \A n \in 1..(m - 1) : log[n].req # i
      BY DEF EndsWith
    <3>2. Len(log) \in Nat /\ m \in Nat
      OBVIOUS
    <3>3. m = Len(log)
      <4>1. Len(log) \in (m + 1)..Len(log) => FALSE
        BY <1>2, <3>1, <3>2
      <4> QED
        BY <3>1, <3>2, <4>1
    <3> QED
      BY <3>1, <3>2, <3>3
  <2>2. at = {Len(log)}
    BY <2>1
  <2>3. SelectInSeq(log, LAMBDA m : m.req = i) = IF at # {} THEN Min(at) ELSE 0
    BY DEF SelectInSeq
  <2>4. Min(at) = Len(log)
    BY <2>1, <2>2 DEF Min
  <2>5. SelectInSeq(log, LAMBDA m : m.req = i) = Len(log)
    BY <2>2, <2>3, <2>4
  <2> HIDE DEF at
  <2>6. InsertAt(log, Len(log) + 1, a) = Append(log, a)
    <3>1. a \in Entry
      BY DEF Entry, Message
    <3> HIDE DEF a
    <3> QED
      BY <3>1, InsertedLast
  <2> QED
    BY <1>2, <2>5, <2>6 DEF WithAnswer
<1> QED
  BY <1>1, <1>2

(* A step of the tabs or of staff that rewrites requests leaves their      *)
(* stage, kind and conversation.                                           *)
SameRequests ==
  /\ reqs' \in [Reqs -> Request]
  /\ \A i \in Reqs : /\ reqs'[i].stage = reqs[i].stage /\ reqs'[i].kind = reqs[i].kind
                     /\ reqs'[i].conv = reqs[i].conv /\ reqs'[i].tab = reqs[i].tab
                     /\ reqs'[i].waiting => reqs[i].waiting

(* An answer arrives, or the tab is told that none will.                   *)
Arrives(i) ==
  /\ reqs[i].waiting
  /\ reqs' = [reqs EXCEPT ![i].waiting = FALSE]
  /\ ShowAnswer(i)
  /\ UNCHANGED <<place, convs, active, edits, recipients, fwds, mails>>

(* An answer that arrives is put at the end of its tab's log.              *)
LEMMA ArrivalShown ==
  ASSUME Types, LogInv, NEW i \in Reqs, Arrives(i)
  PROVE  LET t == reqs[i].tab IN
         /\ t \in Tabs /\ tabs' \in [Tabs -> Tab]
         /\ tabs'[t].log = Append(tabs[t].log, [role |-> "ASSISTANT", req |-> i])
         /\ ~tabs'[t].loading /\ tabs'[t].forms = tabs[t].forms
         /\ \A u \in Tabs : u # t => tabs'[u] = tabs[u]
         /\ SameRequests /\ ~reqs'[i].waiting
         /\ \A j \in Reqs : j # i => reqs'[j] = reqs[j]
<1> DEFINE t == reqs[i].tab
           log == Append(tabs[t].log, [role |-> "ASSISTANT", req |-> i])
<1>1. /\ t \in Tabs /\ tabs[t] \in Tab /\ reqs \in [Reqs -> Request] /\ tabs \in [Tabs -> Tab]
      /\ tabs[t].log \in Seq(Entry)
  BY DEF Types, Request, Tab
<1>2. /\ EndsWith(tabs[t].log, i)
      /\ \A n \in 1..Len(tabs[t].log) : tabs[t].log[n] = Thanks => place = "widget"
  BY <1>1 DEF LogInv, Awaited, Arrives, MadeOf
<1>3. WithAnswer(tabs[t].log, i) = log
  BY <1>1, <1>2, AnswerGoesLast
<1>4. log \in Seq(Entry) /\ FALSE \in BOOLEAN
  BY <1>1, AppendKeeps DEF Entry, Message
<1>5. tabs' = [tabs EXCEPT ![t].log = log, ![t].loading = FALSE]
  BY <1>1, <1>3 DEF Arrives, ShowAnswer
<1>6. SameRequests /\ ~reqs'[i].waiting /\ \A j \in Reqs : j # i => reqs'[j] = reqs[j]
  BY <1>1 DEF Arrives, SameRequests, Request
<1> HIDE DEF t, log
<1>7. /\ tabs' \in [Tabs -> Tab]
      /\ tabs'[t].log = log /\ tabs'[t].loading = FALSE /\ tabs'[t].forms = tabs[t].forms
      /\ \A u \in Tabs : u # t => tabs'[u] = tabs[u]
  BY <1>1, <1>4, <1>5, TabRewritten
<1> QED
  BY <1>1, <1>6, <1>7 DEF t, log

(* The request that a question makes.                                      *)
Made(t, q) == [NewRequest EXCEPT !.stage = "sent", !.tab = t, !.waiting = TRUE,
                                 !.question = q, !.steady = active]

(* What a question's request knows when it is sent.                        *)
LEMMA MadeIsNew ==
  ASSUME Types, NEW t \in Tabs, NEW q \in Questions
  PROVE  /\ Made(t, q) \in Request
         /\ Made(t, q).stage = "sent" /\ Made(t, q).tab = t /\ Made(t, q).kind = "none"
         /\ Made(t, q).steady = active
<1>1. Made(t, q) \in Request
  BY NewOnes, ChatAssumption DEF Request, Types, Stages, Made
<1> QED
  BY <1>1 DEF Made, NewRequest

(* The first request that was not made is made.                            *)
LEMMA Asking ==
  ASSUME Types, NEW t \in Tabs, NEW i \in Reqs, NEW q \in Questions, Ask(t, i, q)
  PROVE  /\ tabs' \in [Tabs -> Tab]
         /\ tabs'[t].log = Append(tabs[t].log, [role |-> "USER", req |-> i])
         /\ ~tabs[t].loading /\ tabs'[t].loading /\ tabs'[t].forms = tabs[t].forms
         /\ \A u \in Tabs : u # t => tabs'[u] = tabs[u]
         /\ reqs' \in [Reqs -> Request] /\ reqs[i].stage = "none"
         /\ \A j \in Reqs : j # i => reqs'[j] = reqs[j]
         /\ reqs'[i] = Made(t, q)
<1> DEFINE log == Append(tabs[t].log, [role |-> "USER", req |-> i])
           k == Made(t, q)
<1>1. tabs[t].log \in Seq(Entry) /\ [role |-> "USER", req |-> i] \in Entry
  BY DEF Types, Tab, Entry, Message
<1>2. log \in Seq(Entry) /\ TRUE \in BOOLEAN
  BY <1>1, AppendKeeps
<1>3. k \in Request
  BY MadeIsNew
<1>4. /\ tabs' = [tabs EXCEPT ![t].log = log, ![t].loading = TRUE]
      /\ reqs' = [reqs EXCEPT ![i] = k] /\ ~tabs[t].loading
  BY DEF Ask, Types, Tab, Made
<1>5. reqs[i].stage = "none"
  BY DEF Ask, First
<1> HIDE DEF log, k
<1>6. /\ tabs' \in [Tabs -> Tab]
      /\ tabs'[t].log = log /\ tabs'[t].loading = TRUE /\ tabs'[t].forms = tabs[t].forms
      /\ \A u \in Tabs : u # t => tabs'[u] = tabs[u]
  BY <1>2, <1>4, TabRewritten
<1>7. /\ reqs' \in [Reqs -> Request] /\ reqs'[i] = k
      /\ \A j \in Reqs : j # i => reqs'[j] = reqs[j]
  BY <1>3, <1>4 DEF Types
<1> QED
  BY <1>4, <1>5, <1>6, <1>7 DEF log, k

(* A reload empties its tab and nothing else.                              *)
LEMMA Reloading ==
  ASSUME Types, NEW t \in Tabs, Reload(t)
  PROVE  /\ tabs' \in [Tabs -> Tab] /\ tabs'[t] = NewTab
         /\ \A u \in Tabs : u # t => tabs'[u] = tabs[u]
         /\ SameRequests
         /\ \A i \in Reqs : IF reqs[i].tab = t THEN ~reqs'[i].waiting ELSE reqs'[i] = reqs[i]
         /\ \A i \in Reqs : reqs'[i] = [reqs[i] EXCEPT !.waiting = reqs'[i].waiting]
         /\ fwds' \in [1..MaxForwards -> Forwarding]
         /\ \A k \in 1..MaxForwards : fwds'[k].stage = fwds[k].stage /\ fwds'[k].offer = fwds[k].offer
<1>1. tabs' \in [Tabs -> Tab] /\ tabs'[t] = NewTab /\ \A u \in Tabs : u # t => tabs'[u] = tabs[u]
  BY NewOnes DEF Reload, Types
<1>2. reqs' = [i \in Reqs |-> IF reqs[i].tab = t THEN [reqs[i] EXCEPT !.waiting = FALSE]
                                                 ELSE reqs[i]]
  BY DEF Reload
<1>3. \A i \in Reqs : reqs[i] \in Request /\ [reqs[i] EXCEPT !.waiting = FALSE] \in Request
  BY DEF Types, Request
<1>4. /\ SameRequests
      /\ \A i \in Reqs : IF reqs[i].tab = t THEN ~reqs'[i].waiting ELSE reqs'[i] = reqs[i]
      /\ \A i \in Reqs : reqs'[i] = [reqs[i] EXCEPT !.waiting = reqs'[i].waiting]
  BY <1>2, <1>3 DEF SameRequests, Request
<1>5. /\ fwds' \in [1..MaxForwards -> Forwarding]
      /\ \A k \in 1..MaxForwards : fwds'[k].stage = fwds[k].stage /\ fwds'[k].offer = fwds[k].offer
  BY DEF Reload, Types, Forwarding
<1> QED
  BY <1>1, <1>4, <1>5

(* Publishing or withdrawing a resource.                                   *)
LEMMA Publishing ==
  ASSUME Types, NEW r \in Resources, SetStatus(r)
  PROVE  /\ active' \in SUBSET Resources /\ edits' \in Nat /\ SameRequests
         /\ \A i \in Reqs :
              reqs'[i] = [reqs[i] EXCEPT !.steady = @ \cap active',
                            !.since = IF reqs[i].stage = "searched" THEN @ \cup active' ELSE @]
<1>1. active' \in SUBSET Resources /\ edits' \in Nat
  <2>1. active \ {r} \in SUBSET Resources /\ active \cup {r} \in SUBSET Resources
    BY DEF Types
  <2>2. active' = IF r \in active THEN active \ {r} ELSE active \cup {r}
    BY DEF SetStatus
  <2>3. edits' \in Nat
    <3>1. edits' = edits + 1
      BY Zenon DEF SetStatus
    <3> QED
      BY <3>1 DEF Types
  <2> QED
    BY <2>1, <2>2, <2>3, Zenon
<1>2. \A i \in Reqs :
        reqs'[i] = [reqs[i] EXCEPT !.steady = @ \cap active',
                      !.since = IF reqs[i].stage = "searched" THEN @ \cup active' ELSE @]
  BY DEF SetStatus, At
<1>3. \A i \in Reqs : reqs[i] \in Request /\ reqs'[i] \in Request
  <2> TAKE i \in Reqs
  <2>1. reqs[i] \in Request
    BY DEF Types
  <2>2. /\ reqs[i].steady \cap active' \in SUBSET Resources
        /\ reqs[i].since \cup active' \in SUBSET Resources
    BY <1>1, <2>1 DEF Request
  <2> DEFINE since == IF reqs[i].stage = "searched" THEN reqs[i].since \cup active'
                                                   ELSE reqs[i].since
             steady == reqs[i].steady \cap active'
  <2>3. since \in SUBSET Resources /\ steady \in SUBSET Resources
    BY <2>1, <2>2 DEF Request
  <2>4. reqs'[i] = [reqs[i] EXCEPT !.steady = steady, !.since = since]
    BY <1>2
  <2> HIDE DEF since, steady
  <2> QED
    BY <2>1, <2>3, <2>4 DEF Request
<1>4. SameRequests
  <2>1. reqs' \in [Reqs -> Request]
    BY <1>3 DEF SetStatus
  <2>2. \A i \in Reqs :
          /\ reqs'[i].stage = reqs[i].stage /\ reqs'[i].kind = reqs[i].kind
          /\ reqs'[i].conv = reqs[i].conv /\ reqs'[i].tab = reqs[i].tab
          /\ reqs'[i].waiting = reqs[i].waiting
    BY <1>2, <1>3 DEF Request
  <2> QED
    BY <2>1, <2>2 DEF SameRequests
<1> QED
  BY <1>1, <1>2, <1>4

-----------------------------------------------------------------------------
(* Types: each step *)

LEMMA TypesStep ==
  ASSUME Types, LogInv, StoredInv, [Next]_vars
  PROVE  Types'
<1>1. ASSUME NEW t \in Tabs, NEW i \in Reqs, NEW q \in Questions, Ask(t, i, q) PROVE Types'
  <2>1. UNCHANGED <<place, convs, active, edits, recipients, fwds, mails>>
    BY <1>1 DEF Ask
  <2> QED
    BY <1>1, <2>1, Asking DEF Types
<1>2. ASSUME NEW t \in Tabs, Reload(t) PROVE Types'
  <2>1. UNCHANGED <<place, convs, active, edits, recipients, mails>>
    BY <1>2 DEF Reload
  <2> QED
    BY <1>2, <2>1, Reloading DEF Types, SameRequests
<1>3. ASSUME NEW i \in Reqs, Serve(i) PROVE Types'
  <2>1. PICK k : Served(i, k)
    BY <1>3, ServeServes
  <2>2. reqs' \in [Reqs -> Request] /\ convs' \in Seq(Seq(Message))
    BY <2>1 DEF Served, Step, Types, Grown
  <2>3. UNCHANGED <<place, tabs, active, edits, recipients, fwds, mails>>
    BY <2>1 DEF Served, Step
  <2> QED
    BY <2>2, <2>3 DEF Types
<1>4. ASSUME NEW i \in Reqs, Deliver(i) \/ LoseConnection(i) PROVE Types'
  <2>1. Arrives(i)
    BY <1>4 DEF Deliver, LoseConnection, Arrives
  <2>2. UNCHANGED <<place, convs, active, edits, recipients, fwds, mails>>
    BY <2>1 DEF Arrives
  <2> QED
    BY <2>1, <2>2, ArrivalShown DEF Types, SameRequests
<1>5. ASSUME NEW r \in Resources, SetStatus(r) PROVE Types'
  <2>1. UNCHANGED <<place, tabs, convs, recipients, fwds, mails>>
    BY <1>5 DEF SetStatus
  <2> QED
    BY <1>5, <2>1, Publishing DEF Types, SameRequests
<1>6. CASE EditRecipients
  BY <1>6 DEF EditRecipients, Types
<1>7. ASSUME NEW t \in Tabs, NEW i \in Reqs, OpenForm(t, i) \/ CancelForm(t, i) PROVE Types'
  <2>1. PICK state \in FormStates : SetForm(t, i, state)
    BY <1>7 DEF OpenForm, CancelForm, FormStates
  <2>2. UNCHANGED <<place, reqs, convs, active, edits, recipients, fwds, mails>>
    BY <1>7 DEF OpenForm, CancelForm
  <2> QED
    BY <2>1, <2>2, FormSet DEF Types
<1>8. ASSUME NEW t \in Tabs, NEW i \in Reqs, NEW k \in 1..MaxForwards, SubmitForm(t, i, k)
      PROVE  Types'
  <2>1. SetForm(t, i, "sending") /\ "sending" \in FormStates
    BY <1>8 DEF SubmitForm, FormStates
  <2>2. fwds' \in [1..MaxForwards -> Forwarding]
    BY <1>8 DEF SubmitForm, Types, Forwarding
  <2>3. UNCHANGED <<place, reqs, convs, active, edits, recipients, mails>>
    BY <1>8 DEF SubmitForm
  <2> QED
    BY <2>1, <2>2, <2>3, FormSet DEF Types
<1>9. ASSUME NEW k \in 1..MaxForwards, ForwardRefused(k) PROVE Types'
  BY <1>9 DEF ForwardRefused, Types, Forwarding
<1>10. ASSUME NEW k \in 1..MaxForwards, Forward(k) PROVE Types'
  <2> DEFINE m == [conv |-> Len(convs), offer |-> fwds[k].offer, whole |-> Last(convs),
                   transcript |-> Lasts(Last(convs), MaxTranscript)]
  <2>1. Len(convs) \in Nat \ {0} /\ Last(convs) \in Seq(Message)
    BY <1>10 DEF Forward, Types, Last
  <2>2. Lasts(Last(convs), MaxTranscript) \in Seq(Message)
    BY <2>1, LastsAreIn, ChatAssumption
  <2>3. m \in Mail
    BY <2>1, <2>2 DEF Mail, Types, Forwarding
  <2>4. mails' = Append(mails, m)
    BY <1>10 DEF Forward
  <2> HIDE DEF m
  <2>5. mails' \in Seq(Mail)
    BY <2>3, <2>4 DEF Types
  <2>6. fwds' \in [1..MaxForwards -> Forwarding]
    BY <1>10 DEF Forward, Types, Forwarding
  <2>7. UNCHANGED <<place, tabs, reqs, convs, active, edits, recipients>>
    BY <1>10 DEF Forward
  <2> QED
    BY <2>5, <2>6, <2>7 DEF Types
<1>11. ASSUME NEW k \in 1..MaxForwards, ForwardAnswered(k) PROVE Types'
  <2>1. \/ ShowForwarded(fwds[k].tab, fwds[k].offer)
        \/ SetForm(fwds[k].tab, fwds[k].offer, "open") /\ "open" \in FormStates
    BY <1>11 DEF ForwardAnswered, FormStates
  <2>2. fwds' \in [1..MaxForwards -> Forwarding] /\ fwds[k].tab \in Tabs
    BY <1>11 DEF ForwardAnswered, Types, Forwarding
  <2>3. UNCHANGED <<place, reqs, convs, active, edits, recipients, mails>>
    BY <1>11 DEF ForwardAnswered
  <2> QED
    BY <2>1, <2>2, <2>3, FormSet, ForwardShown DEF Types
<1>12. CASE UNCHANGED vars
  BY <1>12 DEF vars, Types
<1> QED
  BY <1>1, <1>2, <1>3, <1>4, <1>5, <1>6, <1>7, <1>8, <1>9, <1>10, <1>11, <1>12 DEF Next

-----------------------------------------------------------------------------
(* Answers under their questions: each step *)

(* A log stays in order when what is added is no answer, or the answer to  *)
(* the question it ends with.                                              *)
LEMMA AddedInOrder ==
  ASSUME NEW log \in Seq(Entry), NEW e \in Entry, InOrder(log),
         e.role = "ASSISTANT" /\ e # Thanks => EndsWith(log, e.req)
  PROVE  InOrder(Append(log, e))
<1> DEFINE new == Append(log, e)
<1>1. /\ new \in Seq(Entry) /\ Len(log) \in Nat /\ Len(new) = Len(log) + 1
      /\ new[Len(log) + 1] = e /\ \A n \in 1..Len(log) : new[n] = log[n]
  BY AppendKeeps
<1> HIDE DEF new
<1>2. ASSUME NEW n \in 1..Len(new), new[n].role = "ASSISTANT", new[n] # Thanks
      PROVE  Under(new, n)
  <2>1. CASE n \in 1..Len(log)
    <3>1. PICK m \in 1..(n - 1) : /\ log[m] = [role |-> "USER", req |-> log[n].req]
                                  /\ \A k \in (m + 1)..(n - 1) : log[k] = Thanks
      BY <1>1, <1>2, <2>1 DEF InOrder, Under
    <3>2. /\ m \in 1..Len(log)
          /\ \A k \in (m + 1)..(n - 1) : k \in 1..Len(log)
      BY <1>1, <2>1
    <3>3. new[m] = log[m] /\ new[n] = log[n] /\ \A k \in (m + 1)..(n - 1) : new[k] = log[k]
      BY <1>1, <2>1, <3>2
    <3> QED
      BY <3>1, <3>3 DEF Under
  <2>2. CASE n = Len(log) + 1
    <3>1. PICK m \in 1..Len(log) : /\ log[m] = [role |-> "USER", req |-> e.req]
                                   /\ \A k \in (m + 1)..Len(log) : log[k] = Thanks
      BY <1>1, <1>2, <2>2 DEF EndsWith
    <3>2. n - 1 = Len(log) /\ \A k \in (m + 1)..Len(log) : k \in 1..Len(log)
      BY <1>1, <2>2
    <3>3. new[m] = log[m] /\ new[n] = e /\ \A k \in (m + 1)..(n - 1) : new[k] = log[k]
      BY <1>1, <2>2, <3>2
    <3> QED
      BY <3>1, <3>2, <3>3 DEF Under
  <2> QED
    BY <1>1, <2>1, <2>2
<1> QED
  BY <1>2 DEF InOrder, new

(* Thanks leave the question waited for where it is.                       *)
LEMMA ThanksKeepTheEnd ==
  ASSUME NEW log \in Seq(Entry), NEW i, EndsWith(log, i)
  PROVE  EndsWith(Append(log, Thanks), i)
<1> DEFINE new == Append(log, Thanks)
<1>1. /\ Len(log) \in Nat /\ Len(new) = Len(log) + 1
      /\ new[Len(log) + 1] = Thanks /\ \A n \in 1..Len(log) : new[n] = log[n]
  BY AppendKeeps DEF Entry
<1> HIDE DEF new
<1>2. PICK m \in 1..Len(log) : /\ log[m] = [role |-> "USER", req |-> i]
                               /\ \A n \in (m + 1)..Len(log) : log[n] = Thanks
                               /\ \A n \in 1..(m - 1) : log[n].req # i
  BY DEF EndsWith
<1>3. m \in 1..Len(new) /\ new[m] = log[m]
  BY <1>1
<1>4. \A n \in (m + 1)..Len(new) : new[n] = Thanks
  <2> TAKE n \in (m + 1)..Len(new)
  <2>1. n \in (m + 1)..Len(log) \/ n = Len(log) + 1
    BY <1>1
  <2>2. n \in (m + 1)..Len(log) => n \in 1..Len(log)
    BY <1>1
  <2> QED
    BY <1>1, <1>2, <2>1, <2>2
<1>5. \A n \in 1..(m - 1) : n \in 1..Len(log) /\ new[n] = log[n]
  BY <1>1
<1> QED
  BY <1>2, <1>3, <1>4, <1>5 DEF EndsWith, new

(* A log ends with one question.                                           *)
LEMMA OneEnd ==
  ASSUME NEW log \in Seq(Entry), NEW i \in Reqs, NEW j \in Reqs, EndsWith(log, i), EndsWith(log, j)
  PROVE  i = j
<1> DEFINE q(k) == [role |-> "USER", req |-> k]
<1>1. PICK m \in 1..Len(log) : log[m] = q(i) /\ \A n \in (m + 1)..Len(log) : log[n] = Thanks
  BY DEF EndsWith
<1>2. PICK h \in 1..Len(log) : log[h] = q(j) /\ \A n \in (h + 1)..Len(log) : log[n] = Thanks
  BY DEF EndsWith
<1>3. q(i).req = i /\ q(j).req = j /\ Thanks.req = NoReq /\ NoReq \notin Reqs
  BY DEF Thanks, NoReq, Reqs
<1> HIDE DEF q
<1>4. log[m] # Thanks /\ log[h] # Thanks
  BY <1>1, <1>2, <1>3
<1>5. Len(log) \in Nat
  OBVIOUS
<1>6. ~(h \in (m + 1)..Len(log)) /\ ~(m \in (h + 1)..Len(log))
  BY <1>1, <1>2, <1>4
<1>7. m = h
  BY <1>5, <1>6
<1> QED
  BY <1>1, <1>2, <1>3, <1>7

(* A step that adds one entry that fits to one of the logs leaves them in  *)
(* order.                                                                  *)
LEMMA LogsGrow ==
  ASSUME Types, LogInv, Types', UNCHANGED place,
         \A i \in Reqs : reqs[i].stage # "none" => reqs'[i].stage # "none",
         NEW t \in Tabs, NEW e \in Entry,
         \A u \in Tabs : u # t => tabs'[u].log = tabs[u].log,
         tabs'[t].log = Append(tabs[t].log, e),
         e.role = "ASSISTANT" /\ e # Thanks => EndsWith(tabs[t].log, e.req),
         IF e = Thanks THEN place = "widget" ELSE reqs'[e.req].stage # "none"
  PROVE  \A u \in Tabs : (InOrder(tabs[u].log) /\ MadeOf(tabs[u].log))'
<1> TAKE u \in Tabs
<1>0. tabs[u].log \in Seq(Entry) /\ \A n \in 1..Len(tabs[u].log) : tabs[u].log[n] \in Entry
  <2>1. tabs[u].log \in Seq(Entry)
    BY DEF Types, Tab
  <2> QED
    BY <2>1
<1>1. \A n \in 1..Len(tabs[u].log) :
        IF tabs[u].log[n] = Thanks THEN place = "widget"
        ELSE reqs'[tabs[u].log[n].req].stage # "none"
  BY <1>0 DEF LogInv, MadeOf, Entry, Message
<1>2. CASE u # t
  BY <1>1, <1>2 DEF LogInv, MadeOf, InOrder, Under
<1>3. CASE u = t
  <2> DEFINE old == tabs[t].log
             new == Append(old, e)
  <2>1. InOrder(new)
    BY <1>0, <1>3, AddedInOrder DEF LogInv
  <2>2. /\ Len(old) \in Nat /\ Len(new) = Len(old) + 1
        /\ new[Len(old) + 1] = e /\ \A n \in 1..Len(old) : new[n] = old[n]
    BY <1>0, <1>3, AppendKeeps
  <2>3. \A n \in 1..Len(old) : IF old[n] = Thanks THEN place = "widget"
                               ELSE reqs'[old[n].req].stage # "none"
    BY <1>1, <1>3
  <2>4. tabs'[u].log = new
    BY <1>3
  <2> HIDE DEF old, new
  <2>5. \A n \in 1..Len(new) : IF new[n] = Thanks THEN place = "widget"
                               ELSE reqs'[new[n].req].stage # "none"
    <3> TAKE n \in 1..Len(new)
    <3>1. n \in 1..Len(old) \/ n = Len(old) + 1
      BY <2>2
    <3> QED
      BY <2>2, <2>3, <3>1
  <2>6. InOrder(tabs[u].log)'
    BY <2>1, <2>4 DEF InOrder, Under
  <2>7. MadeOf(tabs[u].log)'
    BY <2>4, <2>5 DEF MadeOf
  <2> QED
    BY <2>6, <2>7
<1> QED
  BY <1>2, <1>3

(* A step that leaves the logs and the waits, and only rewrites requests,  *)
(* leaves them in order.                                                   *)
LEMMA LogsStay ==
  ASSUME Types, LogInv, Types', UNCHANGED place,
         \A t \in Tabs : tabs'[t].log = tabs[t].log /\ tabs'[t].loading = tabs[t].loading,
         \A i \in Reqs : /\ reqs[i].stage # "none" => reqs'[i].stage # "none"
                         /\ reqs'[i].waiting => reqs[i].waiting /\ reqs'[i].tab = reqs[i].tab
  PROVE  LogInv'
<1>1. \A t \in Tabs : \A n \in 1..Len(tabs[t].log) : tabs[t].log[n] \in Entry
  <2> TAKE t \in Tabs
  <2>1. tabs[t].log \in Seq(Entry)
    BY DEF Types, Tab
  <2> QED
    BY <2>1
<1>2. \A i \in Reqs : reqs'[i].tab \in Tabs
  BY DEF Types, Request
<1>3. \A t \in Tabs : InOrder(tabs[t].log)'
  BY DEF LogInv, InOrder, Under
<1>4. \A t \in Tabs : MadeOf(tabs[t].log)'
  BY <1>1 DEF LogInv, MadeOf, Entry, Message
<1>5. \A i \in Reqs : Awaited(i)'
  <2> TAKE i \in Reqs
  <2>1. SUFFICES ASSUME reqs'[i].waiting PROVE Awaited(i)'
    BY DEF Awaited
  <2>2. /\ reqs[i].stage # "none" /\ tabs[reqs[i].tab].loading
        /\ EndsWith(tabs[reqs[i].tab].log, i)
    BY <2>1 DEF LogInv, Awaited
  <2>3. tabs'[reqs'[i].tab].log = tabs[reqs[i].tab].log /\ tabs'[reqs'[i].tab].loading
    BY <1>2, <2>1, <2>2
  <2> QED
    BY <2>1, <2>2, <2>3 DEF Awaited, EndsWith
<1> QED
  BY <1>3, <1>4, <1>5 DEF LogInv

(* Every step keeps the logs in order: LogInv is inductive with the rest.  *)
LEMMA LogStep ==
  ASSUME Types, LogInv, StoredInv, [Next]_vars, Types'
  PROVE  LogInv'
<1>0. \A t \in Tabs : /\ tabs[t].log \in Seq(Entry) /\ Len(tabs[t].log) \in Nat
                      /\ \A n \in 1..Len(tabs[t].log) : tabs[t].log[n] \in Entry
  <2> TAKE t \in Tabs
  <2>1. tabs[t].log \in Seq(Entry)
    BY DEF Types, Tab
  <2> QED
    BY <2>1
<1>1. ASSUME NEW t \in Tabs, NEW i \in Reqs, NEW q \in Questions, Ask(t, i, q) PROVE LogInv'
  <2> DEFINE m == [role |-> "USER", req |-> i]
             old == tabs[t].log
             log == Append(old, m)
  <2>1. /\ tabs'[t].log = log /\ ~tabs[t].loading /\ tabs'[t].loading
        /\ \A u \in Tabs : u # t => tabs'[u] = tabs[u]
        /\ reqs[i].stage = "none" /\ \A j \in Reqs : j # i => reqs'[j] = reqs[j]
        /\ reqs'[i].stage = "sent" /\ reqs'[i].tab = t
    BY <1>1, Asking, MadeIsNew
  <2>p. place' = place
    BY <1>1 DEF Ask
  <2>2. m \in Entry /\ m.req = i /\ m.role = "USER" /\ m # Thanks
    <3>1. m \in Entry /\ m.req = i /\ m.role = "USER"
      BY DEF Entry, Message
    <3>2. Thanks.role = "ASSISTANT"
      BY DEF Thanks
    <3> QED
      BY <3>1, <3>2
  <2>3. /\ old \in Seq(Entry) /\ Len(old) \in Nat
        /\ Len(log) = Len(old) + 1 /\ log[Len(old) + 1] = m
        /\ \A n \in 1..Len(old) : log[n] = old[n] /\ old[n] \in Entry
    BY <1>0, <2>2, AppendKeeps
  <2>4. \A n \in 1..Len(old) : old[n].req # i
    <3> TAKE n \in 1..Len(old)
    <3>1. CASE old[n] = Thanks
      BY <3>1 DEF Thanks, NoReq, Reqs
    <3>2. CASE old[n] # Thanks
      BY <2>1, <3>2 DEF LogInv, MadeOf
    <3> QED
      BY <3>1, <3>2
  <2>5. \A u \in Tabs : (InOrder(tabs[u].log) /\ MadeOf(tabs[u].log))'
    <3>1. \A j \in Reqs : reqs[j].stage # "none" => reqs'[j].stage # "none"
      BY <2>1
    <3>2. m.role # "ASSISTANT" /\ reqs'[m.req].stage # "none"
      BY <2>1, <2>2
    <3>3. tabs'[t].log = Append(tabs[t].log, m)
      BY <2>1
    <3>4. \A u \in Tabs : u # t => tabs'[u].log = tabs[u].log
      BY <2>1
    <3> HIDE DEF m
    <3> QED
      BY <2>p, <2>2, <3>1, <3>2, <3>3, <3>4, LogsGrow
  <2>6. ASSUME NEW j \in Reqs PROVE Awaited(j)'
    <3>1. CASE j = i
      <4>1. EndsWith(log, i)
        <5> HIDE DEF old, log
        <5>1. Len(log) \in 1..Len(log) /\ log[Len(log)] = m /\ (Len(log) + 1)..Len(log) = {}
          BY <2>3
        <5>2. \A n \in 1..(Len(log) - 1) : log[n].req # i
          BY <2>3, <2>4
        <5> QED
          BY <5>1, <5>2 DEF EndsWith
      <4>2. /\ tabs'[t].loading /\ EndsWith(tabs'[t].log, i)
            /\ reqs'[i].stage # "none" /\ reqs'[i].tab = t
        BY <2>1, <4>1
      <4> HIDE DEF old, log, m
      <4> QED
        BY <3>1, <4>2 DEF Awaited, EndsWith
    <3>2. CASE j # i
      <4>1. reqs[j].tab \in Tabs /\ reqs'[j] = reqs[j]
        BY <2>1, <3>2 DEF Types, Request
      <4>2. reqs[j].waiting => tabs'[reqs[j].tab] = tabs[reqs[j].tab]
        BY <2>1, <4>1 DEF LogInv, Awaited
      <4> QED
        BY <4>1, <4>2 DEF LogInv, Awaited, EndsWith
    <3> QED
      BY <3>1, <3>2
  <2> QED
    BY <2>5, <2>6 DEF LogInv
<1>2. ASSUME NEW t \in Tabs, Reload(t) PROVE LogInv'
  <2>1. /\ tabs'[t].log = << >> /\ \A u \in Tabs : u # t => tabs'[u] = tabs[u]
        /\ \A i \in Reqs : IF reqs[i].tab = t THEN ~reqs'[i].waiting ELSE reqs'[i] = reqs[i]
        /\ \A i \in Reqs : reqs'[i].stage = reqs[i].stage
        /\ place' = place
    BY <1>2, Reloading, NewOnes DEF SameRequests, Reload
  <2>2. 1..Len(tabs'[t].log) = {}
    BY <2>1
  <2>3. \A u \in Tabs : InOrder(tabs[u].log)'
    BY <2>1, <2>2 DEF LogInv, InOrder, Under
  <2>4. \A u \in Tabs : MadeOf(tabs[u].log)'
    <3> TAKE u \in Tabs
    <3>1. CASE u # t
      BY <1>0, <2>1, <3>1 DEF LogInv, MadeOf, Entry, Message
    <3>2. CASE u = t
      BY <2>2, <3>2 DEF MadeOf
    <3> QED
      BY <3>1, <3>2
  <2>5. \A i \in Reqs : Awaited(i)'
    <3> TAKE i \in Reqs
    <3>1. CASE reqs[i].tab = t
      BY <2>1, <3>1 DEF Awaited
    <3>2. CASE reqs[i].tab # t
      <4>1. reqs'[i] = reqs[i] /\ reqs[i].tab \in Tabs
        BY <2>1, <3>2 DEF Types, Request
      <4>2. tabs'[reqs[i].tab] = tabs[reqs[i].tab]
        BY <2>1, <3>2, <4>1
      <4> QED
        BY <4>1, <4>2 DEF LogInv, Awaited, EndsWith
    <3> QED
      BY <3>1, <3>2
  <2> QED
    BY <2>3, <2>4, <2>5 DEF LogInv
<1>3. ASSUME NEW i \in Reqs, Serve(i) PROVE LogInv'
  <2>1. PICK k : Served(i, k)
    BY <1>3, ServeServes
  <2>2. /\ tabs' = tabs /\ place' = place
        /\ \A j \in Reqs : /\ reqs[j].stage # "none" => reqs'[j].stage # "none"
                           /\ reqs'[j].waiting => reqs[j].waiting /\ reqs'[j].tab = reqs[j].tab
    BY <2>1 DEF Served, Step, Types
  <2> QED
    BY <2>2, LogsStay
<1>4. ASSUME NEW i \in Reqs, Deliver(i) \/ LoseConnection(i) PROVE LogInv'
  <2> DEFINE t == reqs[i].tab
             m == [role |-> "ASSISTANT", req |-> i]
  <2>0. Arrives(i)
    BY <1>4 DEF Deliver, LoseConnection, Arrives
  <2>1. /\ t \in Tabs /\ tabs'[t].log = Append(tabs[t].log, m)
        /\ \A u \in Tabs : u # t => tabs'[u] = tabs[u]
        /\ ~reqs'[i].waiting /\ \A j \in Reqs : j # i => reqs'[j] = reqs[j]
        /\ \A j \in Reqs : reqs'[j].stage = reqs[j].stage
    BY <2>0, ArrivalShown DEF SameRequests
  <2>2. m \in Entry /\ m.req = i /\ m # Thanks
    <3>1. m \in Entry /\ m.req = i
      BY DEF Entry, Message
    <3>2. Thanks.req # i
      BY DEF Thanks, NoReq, Reqs
    <3> QED
      BY <3>1, <3>2
  <2>3. EndsWith(tabs[t].log, i) /\ reqs[i].stage # "none" /\ place' = place
    BY <2>0 DEF Arrives, LogInv, Awaited
  <2>4. \A u \in Tabs : (InOrder(tabs[u].log) /\ MadeOf(tabs[u].log))'
    <3>1. \A j \in Reqs : reqs[j].stage # "none" => reqs'[j].stage # "none"
      BY <2>1
    <3>2. EndsWith(tabs[t].log, m.req) /\ reqs'[m.req].stage # "none"
      BY <2>1, <2>2, <2>3
    <3>4. \A u \in Tabs : u # t => tabs'[u].log = tabs[u].log
      BY <2>1
    <3> HIDE DEF m, t
    <3> QED
      BY <2>1, <2>2, <2>3, <3>1, <3>2, <3>4, LogsGrow
  <2>5. ASSUME NEW j \in Reqs PROVE Awaited(j)'
    <3>1. CASE j = i
      BY <2>1, <3>1 DEF Awaited
    <3>2. CASE j # i /\ reqs[j].waiting
      <4>1. reqs[j].tab \in Tabs /\ reqs'[j] = reqs[j] /\ EndsWith(tabs[reqs[j].tab].log, j)
        BY <2>1, <3>2 DEF Types, Request, LogInv, Awaited
      <4>2. reqs[j].tab # t
        <5> SUFFICES ASSUME reqs[j].tab = t PROVE FALSE
          OBVIOUS
        <5>1. EndsWith(tabs[t].log, j) /\ EndsWith(tabs[t].log, i)
          BY <2>3, <4>1
        <5> QED
          BY <1>0, <2>1, <3>2, <5>1, OneEnd
      <4>3. tabs'[reqs[j].tab] = tabs[reqs[j].tab]
        BY <2>1, <4>1, <4>2
      <4> QED
        BY <4>1, <4>3 DEF LogInv, Awaited, EndsWith
    <3>3. CASE j # i /\ ~reqs[j].waiting
      BY <2>1, <3>3 DEF Awaited
    <3> QED
      BY <3>1, <3>2, <3>3
  <2> QED
    BY <2>4, <2>5 DEF LogInv
<1>5. ASSUME NEW r \in Resources, SetStatus(r) PROVE LogInv'
  <2>1. tabs' = tabs /\ place' = place
    BY <1>5 DEF SetStatus
  <2> QED
    BY <1>5, <2>1, Publishing, LogsStay DEF SameRequests
<1>6. CASE EditRecipients
  BY <1>6, LogsStay DEF EditRecipients
<1>7. ASSUME NEW t \in Tabs, NEW i \in Reqs,
             OpenForm(t, i) \/ CancelForm(t, i) \/ \E k \in 1..MaxForwards : SubmitForm(t, i, k)
      PROVE  LogInv'
  <2>1. PICK state \in FormStates : SetForm(t, i, state)
    BY <1>7 DEF OpenForm, CancelForm, SubmitForm, FormStates
  <2>2. UNCHANGED <<place, reqs>>
    BY <1>7 DEF OpenForm, CancelForm, SubmitForm
  <2> QED
    BY <2>1, <2>2, FormSet, LogsStay
<1>8. ASSUME NEW k \in 1..MaxForwards, ForwardRefused(k) \/ Forward(k) PROVE LogInv'
  <2>1. UNCHANGED <<place, tabs, reqs>>
    BY <1>8 DEF ForwardRefused, Forward
  <2> QED
    BY <2>1, LogsStay
<1>9. ASSUME NEW k \in 1..MaxForwards, ForwardAnswered(k) PROVE LogInv'
  <2> DEFINE t == fwds[k].tab
             i == fwds[k].offer
  <2>1. UNCHANGED <<place, reqs>> /\ t \in Tabs
    BY <1>9 DEF ForwardAnswered, Types, Forwarding
  <2>2. CASE SetForm(t, i, "open")
    <3>1. "open" \in FormStates
      BY DEF FormStates
    <3> HIDE DEF t, i
    <3> QED
      BY <2>1, <2>2, <3>1, FormSet, LogsStay
  <2>3. CASE ShowForwarded(t, i)
    <3> HIDE DEF t, i
    <3>1. \A u \in Tabs : /\ tabs'[u].loading = tabs[u].loading
                          /\ tabs'[u].log = IF u = t THEN Thanked(tabs[u].log)
                                                    ELSE tabs[u].log
      BY <2>1, <2>3, ForwardShown
    <3>2. CASE place # "widget"
      BY <2>1, <3>1, <3>2, LogsStay DEF Thanked
    <3>3. CASE place = "widget"
      <4>1. tabs'[t].log = Append(tabs[t].log, Thanks) /\ Thanks \in Entry
        BY <2>1, <3>1, <3>3 DEF Thanked, Entry
      <4>2. \A u \in Tabs : (InOrder(tabs[u].log) /\ MadeOf(tabs[u].log))'
        <5>1. \A u \in Tabs : u # t => tabs'[u].log = tabs[u].log
          BY <3>1
        <5> QED
          BY <2>1, <3>3, <4>1, <5>1, LogsGrow
      <4>3. ASSUME NEW j \in Reqs PROVE Awaited(j)'
        <5>1. SUFFICES ASSUME reqs[j].waiting PROVE Awaited(j)'
          BY <2>1 DEF Awaited
        <5>2. /\ reqs[j].stage # "none" /\ tabs[reqs[j].tab].loading /\ reqs[j].tab \in Tabs
              /\ EndsWith(tabs[reqs[j].tab].log, j)
          BY <5>1 DEF LogInv, Awaited, Types, Request
        <5>3. EndsWith(tabs'[reqs[j].tab].log, j)
          <6>1. CASE reqs[j].tab = t
            BY <1>0, <4>1, <5>2, <6>1, ThanksKeepTheEnd
          <6>2. CASE reqs[j].tab # t
            BY <3>1, <5>2, <6>2
          <6> QED
            BY <6>1, <6>2
        <5> QED
          BY <2>1, <3>1, <5>2, <5>3 DEF Awaited, EndsWith
      <4> QED
        BY <4>2, <4>3 DEF LogInv
    <3> QED
      BY <3>2, <3>3
  <2> QED
    BY <1>9, <2>2, <2>3 DEF ForwardAnswered
<1>10. CASE UNCHANGED vars
  BY <1>10, LogsStay DEF vars
<1> QED
  BY <1>1, <1>2, <1>3, <1>4, <1>5, <1>6, <1>7, <1>8, <1>9, <1>10 DEF Next

-----------------------------------------------------------------------------
(* What is found and stored: each step *)

(* What is stored stays.                                                   *)
LEMMA StoredStays ==
  ASSUME Types, NEW i \in Reqs, NEW r \in Request, NEW all, Grown(convs, all),
         StoredAt(i, r, convs)
  PROVE  StoredAt(i, r, all)
<1>1. /\ Len(convs) \in Nat /\ Len(all) \in Nat /\ Len(convs) <= Len(all)
      /\ \A c \in 1..Len(convs) :
           /\ Len(convs[c]) \in Nat /\ Len(all[c]) \in Nat /\ Len(convs[c]) <= Len(all[c])
           /\ \A n \in 1..Len(convs[c]) : all[c][n] = convs[c][n]
  <2>1. convs \in Seq(Seq(Message)) /\ all \in Seq(Seq(Message)) /\ Len(convs) <= Len(all)
    BY DEF Types, Grown
  <2>2. \A c \in 1..Len(convs) : c \in 1..Len(all)
    BY <2>1
  <2>3. \A c \in 1..Len(convs) : convs[c] \in Seq(Message) /\ all[c] \in Seq(Message)
    BY <2>1, <2>2
  <2> QED
    BY <2>1, <2>3 DEF Grown
<1>2. \A c \in 1..Len(convs) : c \in 1..Len(all)
  BY <1>1
<1>3. ASSUME Stored(i, r.conv, convs) PROVE Stored(i, r.conv, all)
  <2>1. PICK n \in 1..Len(convs[r.conv]) : convs[r.conv][n] = [role |-> "USER", req |-> i]
    BY <1>3 DEF Stored
  <2>2. r.conv \in 1..Len(convs)
    BY <1>3 DEF Stored
  <2>3. n \in 1..Len(all[r.conv]) /\ all[r.conv][n] = convs[r.conv][n]
    BY <1>1, <2>1, <2>2
  <2> QED
    BY <1>2, <2>1, <2>2, <2>3 DEF Stored
<1> QED
  BY <1>2, <1>3 DEF StoredAt

(* What a step of the server makes of its request.                         *)
LEMMA ServedWell ==
  ASSUME Types, FoundInv, StoredInv, NEW i \in Reqs, Serve(i)
  PROVE  Found(reqs[i])' /\ StoredAt(i, reqs[i], convs)'
<1> DEFINE r == reqs[i]
<1>t. /\ r \in Request /\ convs \in Seq(Seq(Message)) /\ Len(convs) \in Nat
      /\ reqs \in [Reqs -> Request]
  BY DEF Types
<1>m. \A role \in {"USER", "ASSISTANT"} : [role |-> role, req |-> i] \in Message
  BY DEF Message
<1>f. Found(r) /\ StoredAt(i, r, convs)
  BY DEF FoundInv, StoredInv
<1>1. PICK k : Served(i, k)
  BY ServeServes
<1>2. active' = active /\ Grown(convs, convs') /\ reqs' \in [Reqs -> Request]
  BY <1>1, <1>t DEF Served, Step
<1>3. StoredAt(i, r, convs')
  BY <1>2, <1>f, <1>t, StoredStays
<1>4. CASE FindConversation(i)
  <2>1. reqs'[i] = [r EXCEPT !.stage = IF convs = << >> THEN "absent" ELSE "found",
                             !.conv = Len(convs)]
    BY <1>4, <1>t DEF FindConversation, Step
  <2>2. /\ reqs'[i].stage = (IF convs = << >> THEN "absent" ELSE "found")
        /\ reqs'[i].conv = Len(convs) /\ reqs'[i].kind = r.kind /\ reqs'[i].steady = r.steady
    BY <1>t, <2>1 DEF Request
  <2>3. convs # << >> => Len(convs) \in 1..Len(convs)
    BY <1>t
  <2>4. convs' = convs /\ r.stage = "sent"
    BY <1>4 DEF FindConversation, At
  <2> QED
    BY <1>2, <1>f, <2>2, <2>3, <2>4 DEF Found, StoredAt
<1>5. CASE CreateConversation(i)
  <2>1. reqs'[i] = [r EXCEPT !.stage = "found", !.conv = Len(convs')]
    BY <1>5, <1>t DEF CreateConversation, Step
  <2>2. /\ reqs'[i].stage = "found" /\ reqs'[i].conv = Len(convs')
        /\ reqs'[i].kind = r.kind /\ reqs'[i].steady = r.steady
    BY <1>t, <2>1 DEF Request
  <2>3. Len(convs') \in 1..Len(convs')
    BY <1>5, <1>t, GrownByConversation DEF CreateConversation
  <2>4. r.stage = "absent"
    BY <1>5 DEF CreateConversation, At
  <2> QED
    BY <1>2, <1>f, <2>2, <2>3, <2>4 DEF Found, StoredAt
<1>6. CASE AppendQuestion(i)
  <2>1. reqs'[i] = [r EXCEPT !.stage = "asked", !.forwardable = recipients]
    BY <1>6, <1>t DEF AppendQuestion, Step
  <2>2. /\ reqs'[i].stage = "asked" /\ reqs'[i].conv = r.conv
        /\ reqs'[i].kind = r.kind /\ reqs'[i].steady = r.steady
    BY <1>t, <2>1 DEF Request
  <2>3. r.stage = "found" /\ r.conv \in 1..Len(convs)
    BY <1>6, <1>f DEF AppendQuestion, At, StoredAt
  <2> DEFINE q == [role |-> "USER", req |-> i]
  <2>4. /\ Len(convs') = Len(convs) /\ Len(convs'[r.conv]) = Len(convs[r.conv]) + 1
        /\ convs'[r.conv][Len(convs[r.conv]) + 1] = q
    BY <1>6, <1>m, <2>3, GrownByMessage DEF AppendQuestion
  <2>5. Len(convs[r.conv]) \in Nat
    BY <1>t, <2>3
  <2>6. Stored(i, r.conv, convs')
    BY <2>3, <2>4, <2>5 DEF Stored
  <2> QED
    BY <1>2, <1>f, <2>2, <2>3, <2>6 DEF Found, StoredAt
<1>7. ASSUME NEW kind \in Kinds, NEW list \in Seq(Resources), Reply(i, kind, list),
             r.stage \in {"asked", "validated"}, Len(list) <= RetrievalLimit,
             \A n \in 1..Len(list) : list[n] \in r.since \ Elsewhere,
             kind = "NO_RESULTS" => NoneMissed(r)
      PROVE  Found(reqs[i])' /\ StoredAt(i, reqs[i], convs)'
  <2>1. reqs'[i] = [r EXCEPT !.stage = "answered", !.kind = kind, !.list = list]
    BY <1>7, <1>t DEF Reply, Step
  <2>2. /\ reqs'[i].stage = "answered" /\ reqs'[i].kind = kind /\ reqs'[i].list = list
        /\ reqs'[i].conv = r.conv /\ reqs'[i].steady = r.steady /\ reqs'[i].since = r.since
        /\ reqs'[i].question = r.question
    BY <1>t, <2>1 DEF Request
  <2>3. Stored(i, r.conv, convs')
    BY <1>3, <1>7 DEF StoredAt
  <2> QED
    BY <1>2, <1>7, <1>f, <2>2, <2>3 DEF Found, StoredAt, NoneMissed
<1>8. CASE Dismiss(i) \/ Redirect(i)
  <2>1. PICK kind \in Kinds \ {"NO_RESULTS"} : Reply(i, kind, << >>) /\ r.stage = "asked"
    BY <1>8 DEF Dismiss, Redirect, At, Kinds
  <2>2. << >> \in Seq(Resources) /\ Len(<< >>) <= RetrievalLimit /\ 1..Len(<< >>) = {}
    BY ChatAssumption
  <2> HIDE DEF r
  <2> QED
    BY <1>7, <2>1, <2>2
<1>9. CASE Proceed(i)
  <2>1. PICK concern \in BOOLEAN : reqs'[i] = [r EXCEPT !.stage = "search", !.concern = concern]
    BY <1>9, <1>t DEF Proceed, Step
  <2>2. /\ reqs'[i].stage = "search" /\ reqs'[i].conv = r.conv
        /\ reqs'[i].kind = r.kind /\ reqs'[i].steady = r.steady
    BY <1>t, <2>1 DEF Request
  <2>3. r.stage = "asked"
    BY <1>9 DEF Proceed, At
  <2> QED
    BY <1>2, <1>3, <1>f, <2>2, <2>3 DEF Found, StoredAt
<1>10. CASE Retrieve(i)
  <2> DEFINE found == Firsts(Where(r.question, active), RetrievalLimit)
  <2>1. reqs'[i] = [r EXCEPT !.stage = "searched", !.since = active, !.list = found]
    BY <1>10, <1>t DEF Retrieve, Step
  <2>2. /\ Len(found) <= RetrievalLimit
        /\ \A n \in 1..Len(r.question) : r.question[n] \in active /\ n <= RetrievalLimit =>
             \E h \in 1..Len(found) : found[h] = r.question[n]
    BY <1>t, RetrievalFinds, ChatAssumption DEF Request, Types
  <2>3. r.stage = "search"
    BY <1>10 DEF Retrieve, At
  <2> HIDE DEF found
  <2>4. /\ reqs'[i].stage = "searched" /\ reqs'[i].conv = r.conv /\ reqs'[i].list = found
        /\ reqs'[i].kind = r.kind /\ reqs'[i].steady = r.steady /\ reqs'[i].since = active
        /\ reqs'[i].question = r.question
    BY <1>t, <2>1 DEF Request
  <2>5. r.steady \subseteq active
    BY <1>f DEF Found
  <2>6. Found(reqs[i])'
    BY <1>2, <2>2, <2>4, <2>5 DEF Found
  <2> QED
    BY <1>3, <2>3, <2>4, <2>6 DEF StoredAt
<1>11. CASE Validate(i)
  <2> DEFINE shown == Firsts(Ranked(Valid(r.list)), MaxRecommendations)
  <2>1. reqs'[i] = [r EXCEPT !.stage = "validated", !.list = shown]
    BY <1>11, <1>t DEF Validate, Step
  <2>2. /\ shown \in Seq(Resources) /\ Len(shown) <= Len(r.list) /\ r.list \in Seq(Resources)
        /\ \A n \in 1..Len(shown) : shown[n] \in active \ Elsewhere
        /\ shown = << >> => \A n \in 1..Len(r.list) : r.list[n] \notin active \ Elsewhere
    BY <1>t, ValidationFinds, ChatAssumption DEF Request, Types
  <2>3. r.stage = "searched"
    BY <1>11 DEF Validate, At
  <2> HIDE DEF shown
  <2>4. /\ reqs'[i].stage = "validated" /\ reqs'[i].conv = r.conv /\ reqs'[i].list = shown
        /\ reqs'[i].kind = r.kind /\ reqs'[i].steady = r.steady /\ reqs'[i].since = r.since
        /\ reqs'[i].question = r.question
    BY <1>t, <2>1 DEF Request
  <2>5. /\ r.steady \subseteq active /\ active \subseteq r.since /\ Len(r.list) <= RetrievalLimit
        /\ \A n \in 1..Len(r.question) : r.question[n] \in r.steady \ Elsewhere /\ n <= RetrievalLimit =>
             \E h \in 1..Len(r.list) : r.list[h] = r.question[n]
    BY <1>f, <2>3 DEF Found
  <2>6. Len(shown) <= RetrievalLimit
    BY <2>2, <2>5, ChatAssumption
  <2>7. ASSUME shown = << >>, NEW n \in 1..Len(r.question), r.question[n] \in r.steady \ Elsewhere
        PROVE  n > RetrievalLimit
    <3>1. ~(n <= RetrievalLimit)
      BY <2>2, <2>5, <2>7
    <3>2. n \in Nat /\ RetrievalLimit \in Nat
      BY <1>t, ChatAssumption DEF Request
    <3> QED
      BY <3>1, <3>2
  <2>8. Found(reqs[i])'
    BY <1>2, <2>2, <2>4, <2>5, <2>6, <2>7 DEF Found, NoneMissed
  <2> QED
    BY <1>3, <2>3, <2>4, <2>8 DEF StoredAt
<1>12. CASE Conclude(i)
  <2> DEFINE kind == CASE r.concern -> "SAFETY_RESPONSE"
                       [] ~r.concern /\ r.list = << >> -> "NO_RESULTS"
                       [] OTHER -> "RESOURCE_RECOMMENDATION"
  <2>1. kind \in Kinds /\ (kind = "NO_RESULTS" => r.list = << >>)
    BY <1>t DEF Kinds, Request
  <2>2. Reply(i, kind, r.list) /\ r.stage = "validated" /\ r.list \in Seq(Resources)
    BY <1>12, <1>t DEF Conclude, At, Request
  <2> HIDE DEF kind
  <2>3. /\ Len(r.list) <= RetrievalLimit /\ (r.list = << >> => NoneMissed(r))
        /\ \A n \in 1..Len(r.list) : r.list[n] \in r.since \ Elsewhere
    BY <1>f, <2>2 DEF Found
  <2> HIDE DEF r
  <2> QED
    BY <1>7, <2>1, <2>2, <2>3
<1>13. CASE Refuse(i)
  <2>1. reqs'[i] = [r EXCEPT !.stage = "refused"]
    BY <1>13, <1>t DEF Refuse, Step
  <2>2. /\ reqs'[i].stage = "refused" /\ reqs'[i].kind = r.kind /\ reqs'[i].steady = r.steady
    BY <1>t, <2>1 DEF Request
  <2>3. r.stage # "answered"
    BY <1>13 DEF Refuse
  <2> QED
    BY <1>2, <1>f, <2>2, <2>3 DEF Found, StoredAt
<1> QED
  BY <1>4, <1>5, <1>6, <1>8, <1>9, <1>10, <1>11, <1>12, <1>13 DEF Serve

(* Every step keeps what requests have found and what is stored.           *)
LEMMA FoundStep ==
  ASSUME Types, LogInv, FoundInv, StoredInv, [Next]_vars
  PROVE  FoundInv' /\ StoredInv'
<1>t. reqs \in [Reqs -> Request] /\ Grown(convs, convs)
  BY GrownByNone DEF Types
<1>1. ASSUME NEW t \in Tabs, NEW i \in Reqs, NEW q \in Questions, Ask(t, i, q)
      PROVE  FoundInv' /\ StoredInv'
  <2>1. /\ \A j \in Reqs : j # i => reqs'[j] = reqs[j]
        /\ reqs'[i].stage = "sent" /\ reqs'[i].kind = "none" /\ reqs'[i].steady = active
    <3>1. (\A j \in Reqs : j # i => reqs'[j] = reqs[j]) /\ reqs'[i] = Made(t, q)
      BY <1>1, Asking
    <3> QED
      BY <3>1, MadeIsNew
  <2>2. active' = active /\ convs' = convs
    BY <1>1 DEF Ask
  <2> QED
    BY <2>1, <2>2 DEF FoundInv, StoredInv, Found, StoredAt, NoneMissed
<1>2. ASSUME \A i \in Reqs : \E waiting \in BOOLEAN : reqs'[i] = [reqs[i] EXCEPT !.waiting = waiting],
             active' = active, convs' = convs
      PROVE  FoundInv' /\ StoredInv'
  <2> SUFFICES ASSUME NEW i \in Reqs PROVE Found(reqs[i])' /\ StoredAt(i, reqs[i], convs)'
    BY DEF FoundInv, StoredInv
  <2>1. /\ reqs'[i].stage = reqs[i].stage /\ reqs'[i].conv = reqs[i].conv
        /\ reqs'[i].list = reqs[i].list /\ reqs'[i].kind = reqs[i].kind
        /\ reqs'[i].steady = reqs[i].steady /\ reqs'[i].since = reqs[i].since
        /\ reqs'[i].question = reqs[i].question
    BY <1>2, <1>t DEF Request
  <2> QED
    BY <1>2, <2>1 DEF FoundInv, StoredInv, Found, StoredAt, NoneMissed
<1>3. ASSUME NEW t \in Tabs, Reload(t) PROVE FoundInv' /\ StoredInv'
  <2>1. \A i \in Reqs : reqs'[i] = [reqs[i] EXCEPT !.waiting = reqs'[i].waiting]
                        /\ reqs'[i].waiting \in BOOLEAN
    BY <1>3, Reloading DEF SameRequests, Request
  <2> QED
    BY <1>2, <1>3, <2>1 DEF Reload
<1>4. ASSUME NEW i \in Reqs, Deliver(i) \/ LoseConnection(i) PROVE FoundInv' /\ StoredInv'
  <2>1. /\ reqs' = [reqs EXCEPT ![i].waiting = FALSE] /\ active' = active /\ convs' = convs
    BY <1>4 DEF Deliver, LoseConnection
  <2>2. \A j \in Reqs : j # i => reqs[j] = [reqs[j] EXCEPT !.waiting = reqs[j].waiting]
                                 /\ reqs[j].waiting \in BOOLEAN
    BY <1>t DEF Request
  <2>3. \A j \in Reqs : \E waiting \in BOOLEAN : reqs'[j] = [reqs[j] EXCEPT !.waiting = waiting]
    BY <1>t, <2>1, <2>2
  <2> QED
    BY <1>2, <2>1, <2>3
<1>5. ASSUME NEW i \in Reqs, Serve(i) PROVE FoundInv' /\ StoredInv'
  <2>1. PICK k : Served(i, k)
    BY <1>5, ServeServes
  <2>2. active' = active /\ Grown(convs, convs') /\ \A j \in Reqs : j # i => reqs'[j] = reqs[j]
    BY <1>t, <2>1 DEF Served, Step
  <2>3. ASSUME NEW j \in Reqs PROVE Found(reqs[j])' /\ StoredAt(j, reqs[j], convs)'
    <3>1. CASE j = i
      BY <1>5, <3>1, ServedWell
    <3>2. CASE j # i
      <4>1. reqs[j] \in Request /\ StoredAt(j, reqs[j], convs')
        BY <1>t, <2>2, StoredStays DEF StoredInv
      <4> QED
        BY <2>2, <3>2, <4>1 DEF FoundInv, Found, NoneMissed
    <3> QED
      BY <3>1, <3>2
  <2> QED
    BY <2>3 DEF FoundInv, StoredInv
<1>6. ASSUME NEW r \in Resources, SetStatus(r) PROVE FoundInv' /\ StoredInv'
  <2> SUFFICES ASSUME NEW i \in Reqs PROVE Found(reqs[i])' /\ StoredAt(i, reqs[i], convs)'
    BY DEF FoundInv, StoredInv
  <2>1. reqs'[i] = [reqs[i] EXCEPT !.steady = @ \cap active',
                      !.since = IF reqs[i].stage = "searched" THEN @ \cup active' ELSE @]
    BY <1>6, Publishing
  <2>2. /\ reqs'[i].stage = reqs[i].stage /\ reqs'[i].conv = reqs[i].conv
        /\ reqs'[i].list = reqs[i].list /\ reqs'[i].kind = reqs[i].kind
        /\ reqs'[i].question = reqs[i].question
        /\ reqs'[i].steady = reqs[i].steady \cap active'
        /\ reqs'[i].since = IF reqs[i].stage = "searched" THEN reqs[i].since \cup active'
                                                          ELSE reqs[i].since
    BY <1>t, <2>1 DEF Request
  <2>3. convs' = convs
    BY <1>6 DEF SetStatus
  <2>4. Found(reqs[i]) /\ StoredAt(i, reqs[i], convs)
    BY DEF FoundInv, StoredInv
  <2>5. StoredAt(i, reqs[i], convs)'
    BY <2>2, <2>3, <2>4 DEF StoredAt
  <2>6. NoneMissed(reqs[i]) => NoneMissed(reqs[i])'
    BY <2>2 DEF NoneMissed
  <2>7. Found(reqs[i])'
    BY <2>2, <2>4, <2>6 DEF Found
  <2> QED
    BY <2>5, <2>7
<1>7. ASSUME UNCHANGED <<reqs, convs, active>> PROVE FoundInv' /\ StoredInv'
  BY <1>7 DEF FoundInv, StoredInv, Found, StoredAt, NoneMissed
<1>8. CASE EditRecipients
  BY <1>7, <1>8 DEF EditRecipients
<1>9. ASSUME NEW t \in Tabs, NEW i \in Reqs,
             OpenForm(t, i) \/ CancelForm(t, i) \/ \E k \in 1..MaxForwards : SubmitForm(t, i, k)
      PROVE  FoundInv' /\ StoredInv'
  BY <1>7, <1>9 DEF OpenForm, CancelForm, SubmitForm
<1>10. ASSUME NEW k \in 1..MaxForwards, ForwardRefused(k) \/ Forward(k) \/ ForwardAnswered(k)
       PROVE  FoundInv' /\ StoredInv'
  BY <1>7, <1>10 DEF ForwardRefused, Forward, ForwardAnswered
<1>11. CASE UNCHANGED vars
  BY <1>7, <1>11 DEF vars
<1> QED
  BY <1>1, <1>3, <1>4, <1>5, <1>6, <1>8, <1>9, <1>10, <1>11 DEF Next

-----------------------------------------------------------------------------
(* What is mailed: each step *)

(* Requests that were answered stay so, in their conversations.            *)
AnswersStay ==
  \A i \in Reqs : reqs[i].stage = "answered" =>
    reqs'[i].stage = "answered" /\ reqs'[i].conv = reqs[i].conv

LEMMA OffersStay ==
  ASSUME Types, OffersInv, AnswersStay,
         \A t \in Tabs, i \in Reqs :
           tabs'[t].forms[i] # "idle" => tabs[t].forms[i] # "idle" \/ Answered(i),
         \A k \in 1..MaxForwards : fwds'[k].stage # "none" => Answered(fwds'[k].offer),
         UNCHANGED mails
  PROVE  OffersInv'
<1>1. \A i : Answered(i) => Answered(i)' /\ reqs'[i].conv = reqs[i].conv
  BY DEF AnswersStay, Answered
<1>2. (\A n \in 1..Len(mails) : Answered(mails[n].offer) /\ Carried(mails[n]))'
  BY <1>1 DEF OffersInv, Carried
<1>3. (\A t \in Tabs, i \in Reqs : tabs[t].forms[i] # "idle" => Answered(i))'
  BY <1>1 DEF OffersInv
<1>4. (\A k \in 1..MaxForwards : fwds[k].stage # "none" => Answered(fwds[k].offer))'
  BY <1>1
<1> QED
  BY <1>2, <1>3, <1>4 DEF OffersInv

(* Every step keeps the forms and the forwarding requests.                 *)
LEMMA OffersStep ==
  ASSUME Types, LogInv, FoundInv, StoredInv, OffersInv, [Next]_vars
  PROVE  OffersInv'
<1>t. reqs \in [Reqs -> Request] /\ fwds \in [1..MaxForwards -> Forwarding]
  BY DEF Types
<1>f. \A k \in 1..MaxForwards : fwds[k].stage # "none" => Answered(fwds[k].offer)
  BY DEF OffersInv
<1>1. ASSUME NEW t \in Tabs, NEW i \in Reqs, NEW q \in Questions, Ask(t, i, q) PROVE OffersInv'
  <2>1. /\ tabs'[t].forms = tabs[t].forms /\ \A u \in Tabs : u # t => tabs'[u] = tabs[u]
        /\ reqs[i].stage = "none" /\ \A j \in Reqs : j # i => reqs'[j] = reqs[j]
    BY <1>1, Asking
  <2>2. AnswersStay
    BY <2>1 DEF AnswersStay
  <2>3. UNCHANGED <<fwds, mails>>
    BY <1>1 DEF Ask
  <2> QED
    BY <1>f, <2>1, <2>2, <2>3, OffersStay
<1>2. ASSUME NEW t \in Tabs, Reload(t) PROVE OffersInv'
  <2>1. /\ \A i \in Reqs : tabs'[t].forms[i] = "idle"
        /\ \A u \in Tabs : u # t => tabs'[u] = tabs[u]
        /\ SameRequests
        /\ \A k \in 1..MaxForwards : fwds'[k].stage = fwds[k].stage /\ fwds'[k].offer = fwds[k].offer
    BY <1>2, Reloading, NewOnes
  <2>2. AnswersStay /\ UNCHANGED mails
    BY <1>2, <2>1 DEF AnswersStay, SameRequests, Reload
  <2> QED
    BY <1>f, <2>1, <2>2, OffersStay
<1>3. ASSUME NEW i \in Reqs, Serve(i) PROVE OffersInv'
  <2>1. PICK k : Served(i, k)
    BY <1>3, ServeServes
  <2>2. UNCHANGED <<tabs, fwds, mails>> /\ AnswersStay
    BY <1>t, <2>1 DEF Served, Step, AnswersStay
  <2> QED
    BY <1>f, <2>2, OffersStay
<1>4. ASSUME NEW i \in Reqs, Deliver(i) \/ LoseConnection(i) PROVE OffersInv'
  <2>1. Arrives(i)
    BY <1>4 DEF Deliver, LoseConnection, Arrives
  <2>2. /\ SameRequests /\ \A u \in Tabs : tabs'[u].forms = tabs[u].forms
    BY <2>1, ArrivalShown
  <2>3. AnswersStay /\ UNCHANGED <<fwds, mails>>
    BY <2>1, <2>2 DEF AnswersStay, SameRequests, Arrives
  <2> QED
    BY <1>f, <2>2, <2>3, OffersStay
<1>5. ASSUME NEW r \in Resources, SetStatus(r) PROVE OffersInv'
  <2>1. AnswersStay /\ UNCHANGED <<tabs, fwds, mails>>
    BY <1>5, Publishing DEF AnswersStay, SameRequests, SetStatus
  <2> QED
    BY <1>f, <2>1, OffersStay
<1>6. ASSUME UNCHANGED <<tabs, reqs, fwds, mails>> PROVE OffersInv'
  BY <1>f, <1>6, OffersStay DEF AnswersStay
<1>7. CASE EditRecipients
  BY <1>6, <1>7 DEF EditRecipients
<1>8. ASSUME NEW t \in Tabs, NEW i \in Reqs, OpenForm(t, i) \/ CancelForm(t, i) PROVE OffersInv'
  <2>1. PICK state \in FormStates : SetForm(t, i, state) /\ (state # "idle" => OpenForm(t, i))
    BY <1>8 DEF OpenForm, CancelForm, FormStates
  <2>2. OpenForm(t, i) => Answered(i)
    BY DEF OpenForm, Offered, StoredInv, StoredAt, Answered
  <2>3. AnswersStay /\ UNCHANGED <<fwds, mails>>
    BY <1>8 DEF OpenForm, CancelForm, AnswersStay
  <2>4. \A u \in Tabs, j \in Reqs :
          tabs'[u].forms[j] # "idle" => tabs[u].forms[j] # "idle" \/ Answered(j)
    BY <2>1, <2>2, FormSet
  <2> QED
    BY <1>f, <2>3, <2>4, OffersStay
<1>9. ASSUME NEW t \in Tabs, NEW i \in Reqs, NEW k \in 1..MaxForwards, SubmitForm(t, i, k)
      PROVE  OffersInv'
  <2>1. Answered(i) /\ SetForm(t, i, "sending") /\ "sending" \in FormStates
    BY <1>9 DEF SubmitForm, OffersInv, FormStates
  <2>2. \A u \in Tabs, j \in Reqs :
          tabs'[u].forms[j] # "idle" => tabs[u].forms[j] # "idle" \/ Answered(j)
    BY <2>1, FormSet
  <2>3. \A h \in 1..MaxForwards : fwds'[h].stage # "none" => Answered(fwds'[h].offer)
    BY <1>9, <1>t, <1>f, <2>1 DEF SubmitForm
  <2>4. AnswersStay /\ UNCHANGED mails
    BY <1>9 DEF SubmitForm, AnswersStay
  <2> QED
    BY <2>2, <2>3, <2>4, OffersStay
<1>10. ASSUME NEW k \in 1..MaxForwards, ForwardRefused(k) PROVE OffersInv'
  <2>1. \A h \in 1..MaxForwards : fwds'[h].stage # "none" => Answered(fwds'[h].offer)
    BY <1>10, <1>t, <1>f DEF ForwardRefused, Forwarding
  <2>2. AnswersStay /\ UNCHANGED <<tabs, mails>>
    BY <1>10 DEF ForwardRefused, AnswersStay
  <2> QED
    BY <2>1, <2>2, OffersStay
<1>11. ASSUME NEW k \in 1..MaxForwards, Forward(k) PROVE OffersInv'
  <2> DEFINE o == fwds[k].offer
             whole == Last(convs)
             m == [conv |-> Len(convs), offer |-> o, whole |-> whole,
                   transcript |-> Lasts(whole, MaxTranscript)]
             q == [role |-> "USER", req |-> o]
  <2>1. Answered(o)
    BY <1>11, <1>f DEF Forward
  <2>2. /\ Len(convs) \in Nat \ {0} /\ whole = convs[Len(convs)] /\ whole \in Seq(Message)
    BY <1>11 DEF Forward, Types, Last
  <2>3. Carried(m)
    <3>1. SUFFICES ASSUME Len(convs) = reqs[o].conv
                   PROVE  \/ \E n \in 1..Len(m.transcript) : m.transcript[n] = q
                          \/ \E n \in 1..(Len(m.whole) - MaxTranscript) : m.whole[n] = q
      BY DEF Carried
    <3>2. PICK p \in 1..Len(whole) : whole[p] = q
      <4>1. Stored(o, reqs[o].conv, convs)
        BY <2>1 DEF StoredInv, StoredAt, Answered
      <4> QED
        BY <2>2, <3>1, <4>1 DEF Stored
    <3>3. \/ p \in 1..(Len(whole) - MaxTranscript)
          \/ \E n \in 1..Len(Lasts(whole, MaxTranscript)) : Lasts(whole, MaxTranscript)[n] = whole[p]
      BY <2>2, LastsAreIn, ChatAssumption
    <3> QED
      BY <3>2, <3>3
  <2>4. mails' = Append(mails, m)
    BY <1>11 DEF Forward
  <2>5. UNCHANGED <<tabs, reqs>>
    BY <1>11 DEF Forward
  <2>6. \A h \in 1..MaxForwards : fwds'[h].stage # "none" => Answered(fwds'[h].offer)
    BY <1>11, <1>t, <1>f DEF Forward, Forwarding
  <2>7. m.offer = o
    OBVIOUS
  <2> HIDE DEF m, o, whole
  <2>8. \A n \in 1..Len(mails') : Answered(mails'[n].offer) /\ Carried(mails'[n])
    <3>1. mails \in Seq(Mail) /\ Len(mails) \in Nat
      BY DEF Types
    <3>2. /\ \A n \in 1..Len(mails) : mails'[n] = mails[n]
          /\ mails'[Len(mails) + 1] = m /\ Len(mails') = Len(mails) + 1
      BY <2>4, <3>1
    <3>3. \A n \in 1..Len(mails') : n \in 1..Len(mails) \/ n = Len(mails) + 1
      BY <3>1, <3>2
    <3> QED
      BY <2>1, <2>3, <2>7, <3>2, <3>3 DEF OffersInv
  <2>9. (\A t \in Tabs, i \in Reqs : tabs[t].forms[i] # "idle" => Answered(i))'
    BY <2>5 DEF OffersInv, Answered
  <2>10. (\A h \in 1..MaxForwards : fwds[h].stage # "none" => Answered(fwds[h].offer))'
    BY <2>5, <2>6 DEF Answered
  <2>11. (\A n \in 1..Len(mails) : Answered(mails[n].offer) /\ Carried(mails[n]))'
    BY <2>5, <2>8 DEF Answered, Carried
  <2> QED
    BY <2>9, <2>10, <2>11 DEF OffersInv
<1>12. ASSUME NEW k \in 1..MaxForwards, ForwardAnswered(k) PROVE OffersInv'
  <2>1. \/ ShowForwarded(fwds[k].tab, fwds[k].offer)
        \/ SetForm(fwds[k].tab, fwds[k].offer, "open") /\ "open" \in FormStates
    BY <1>12 DEF ForwardAnswered, FormStates
  <2>2. Answered(fwds[k].offer) /\ fwds[k].tab \in Tabs
    BY <1>12, <1>f, <1>t DEF ForwardAnswered, Forwarding
  <2>3. \A u \in Tabs, j \in Reqs :
          tabs'[u].forms[j] # "idle" => tabs[u].forms[j] # "idle" \/ Answered(j)
    BY <2>1, <2>2, FormSet, ForwardShown
  <2>4. \A h \in 1..MaxForwards : fwds'[h].stage # "none" => Answered(fwds'[h].offer)
    BY <1>12, <1>t, <1>f DEF ForwardAnswered, Forwarding
  <2>5. AnswersStay /\ UNCHANGED mails
    BY <1>12 DEF ForwardAnswered, AnswersStay
  <2> QED
    BY <2>3, <2>4, <2>5, OffersStay
<1>13. CASE UNCHANGED vars
  BY <1>6, <1>13 DEF vars
<1> QED
  BY <1>1, <1>2, <1>3, <1>4, <1>5, <1>7, <1>8, <1>9, <1>10, <1>11, <1>12, <1>13 DEF Next

-----------------------------------------------------------------------------
(* The theorems *)

ChatInv == Types /\ LogInv /\ FoundInv /\ StoredInv /\ OffersInv

(* The invariant holds at the start.                                       *)
LEMMA ChatInit == ASSUME Init PROVE ChatInv
<1>1. /\ tabs = [t \in Tabs |-> NewTab] /\ reqs = [i \in Reqs |-> NewRequest]
      /\ fwds = [k \in 1..MaxForwards |-> NewForward] /\ convs = << >> /\ mails = << >>
      /\ active = Resources
  BY DEF Init
<1>2. << >> \in Seq(Seq(Message)) /\ << >> \in Seq(Mail) /\ 1..Len(<< >>) = {}
  OBVIOUS
<1>3. Types
  BY <1>1, <1>2, NewOnes DEF Types, Init
<1>4. \A i \in Reqs : reqs[i] = NewRequest /\ reqs[i].steady = {}
  BY <1>1 DEF NewRequest
<1>5. \A t \in Tabs : tabs[t].log = << >> /\ 1..Len(tabs[t].log) = {}
  BY <1>1, <1>2, NewOnes
<1>6. LogInv
  BY <1>4, <1>5, NewOnes DEF LogInv, InOrder, MadeOf, Awaited
<1>7. FoundInv /\ StoredInv
  BY <1>4, NewOnes DEF FoundInv, StoredInv, Found, StoredAt
<1>8. OffersInv
  BY <1>1, <1>2, NewOnes DEF OffersInv
<1> QED
  BY <1>3, <1>6, <1>7, <1>8 DEF ChatInv

(* The invariant of the chat.                                              *)
THEOREM ChatInvariance == Spec => []ChatInv
<1>1. Init => ChatInv
  BY ChatInit
<1>2. ChatInv /\ [Next]_vars => ChatInv'
  BY TypesStep, LogStep, FoundStep, OffersStep DEF ChatInv
<1> QED
  BY <1>1, <1>2, PTL DEF Spec

(* What a visitor is shown is of the campus of the widget, and was         *)
(* published after the search had returned it: getResourcesByIds looks     *)
(* again (ChatPipeline.ts:426).                                            *)
THEOREM ShownWasPublished == Spec => []OnlyApprovedShown
<1>1. ChatInv => OnlyApprovedShown
  <2> SUFFICES ASSUME ChatInv, NEW i \in Reqs, reqs[i].stage \in {"validated", "answered"}
               PROVE  Shown(i) \cap Elsewhere = {} /\ Shown(i) \subseteq reqs[i].since
    BY DEF OnlyApprovedShown
  <2>1. reqs[i].list \in Seq(Resources)
    BY DEF ChatInv, Types, Request
  <2>2. Shown(i) = {reqs[i].list[n] : n \in 1..Len(reqs[i].list)}
    BY <2>1 DEF Shown, ToSet
  <2>3. \A n \in 1..Len(reqs[i].list) : reqs[i].list[n] \in reqs[i].since \ Elsewhere
    BY DEF ChatInv, FoundInv, Found
  <2> QED
    BY <2>2, <2>3
<1> QED
  BY <1>1, ChatInvariance, PTL

(* When the assistant says that nothing was found, nothing that had been   *)
(* published since the question was asked has been missed, but beyond the  *)
(* limit of the search (ChatPipeline.ts:482).                              *)
THEOREM NothingWasMissed == Spec => []NothingFoundIsTrue
<1>1. ChatInv => NothingFoundIsTrue
  BY DEF ChatInv, FoundInv, Found, NoneMissed, NothingFoundIsTrue
<1> QED
  BY <1>1, ChatInvariance, PTL

(* Answers stand under their questions in every tab, with nothing between   *)
(* them but the widget's notes that a question has been forwarded           *)
(* (ChatWidget.tsx:131, :191-200).                                          *)
THEOREM AnswersInPlace == Spec => []AnswerUnderItsQuestion
<1>1. ChatInv => AnswerUnderItsQuestion
  BY DEF ChatInv, LogInv, InOrder, AnswerUnderItsQuestion
<1> QED
  BY <1>1, ChatInvariance, PTL

(* The transcript that staff are mailed holds the question that the        *)
(* visitor forwarded, with the two exceptions the property names.          *)
THEOREM QuestionIsMailed == Spec => []ForwardCarriesQuestion
<1>1. ChatInv => ForwardCarriesQuestion
  <2> SUFFICES ASSUME ChatInv, NEW m \in ToSet(mails)
               PROVE  LET q == [role |-> "USER", req |-> m.offer] IN
                      \/ m.conv # reqs[m.offer].conv
                      \/ q \in ToSet(m.transcript)
                      \/ \E n \in 1..(Len(m.whole) - MaxTranscript) : m.whole[n] = q
    BY DEF ForwardCarriesQuestion
  <2>1. mails \in Seq(Mail)
    BY DEF ChatInv, Types
  <2>2. PICK n \in 1..Len(mails) : m = mails[n]
    BY <2>1 DEF ToSet
  <2>3. Carried(m) /\ m \in Mail
    BY <2>1, <2>2 DEF ChatInv, OffersInv
  <2>4. m.transcript \in Seq(Message)
    BY <2>3 DEF Mail
  <2>5. \A h \in 1..Len(m.transcript) : m.transcript[h] \in ToSet(m.transcript)
    BY <2>4 DEF ToSet
  <2> QED
    BY <2>3, <2>5 DEF Carried
<1> QED
  BY <1>1, ChatInvariance, PTL

-----------------------------------------------------------------------------
(* The page the widgets are on, and the library *)

(* What the page around the widgets, and what is read of the library, is.  *)
ScrollInv == open \in [Widgets -> BOOLEAN]
             /\ (locked /\ ~turned => phone /\ \E w \in Widgets : open[w])

ItemsInv ==
  /\ published \subseteq Items /\ page \subseteq Items
  /\ cache \in [state : {"none", "fresh", "expired"}, items : SUBSET Items]
  /\ fill \in [reading : BOOLEAN, items : SUBSET Items]

(* Opening or closing a panel on a phone locks the page or frees it.       *)
LEMMA PanelSet ==
  ASSUME ScrollInv, NEW w \in Widgets, NEW next \in BOOLEAN, Host!SetOpen(w, next),
         UNCHANGED <<phone, turned>>
  PROVE  ScrollInv'
<1>1. /\ open' \in [Widgets -> BOOLEAN] /\ open'[w] = next
      /\ locked' = IF phone THEN next ELSE locked
      /\ phone' = phone /\ turned' = turned
  BY DEF ScrollInv, Host!SetOpen, Host!LockMobileScroll
<1> QED
  BY <1>1 DEF ScrollInv

(* Every step of the loader leaves the lock to an open panel.              *)
LEMMA ScrollStep == ASSUME ScrollInv, Host!HostNext PROVE ScrollInv'
<1>1. ASSUME NEW w \in Widgets, Host!Mount(w) PROVE ScrollInv'
  BY <1>1 DEF ScrollInv, Host!Mount
<1>2. ASSUME NEW w \in Widgets, Host!ClickLauncher(w) PROVE ScrollInv'
  BY <1>2, PanelSet DEF Host!ClickLauncher, ScrollInv
<1>3. ASSUME NEW w \in Widgets, Host!ClickScrim(w) PROVE ScrollInv'
  BY <1>3, PanelSet DEF Host!ClickScrim
<1>4. CASE Host!CloseMessage
  <2> DEFINE hearing == {w \in Widgets : Host!Mounted(w) /\ ~Host!Inline(w)}
  <2>1. /\ open' = [w \in Widgets |-> open[w] /\ w \notin hearing]
        /\ phone' = phone /\ turned' = turned
        /\ hearing = {} => locked' = locked
        /\ hearing # {} => locked' = IF phone THEN FALSE ELSE locked
    BY <1>4 DEF Host!CloseMessage, Host!LockMobileScroll
  <2> HIDE DEF hearing
  <2>2. open' \in [Widgets -> BOOLEAN]
    BY <2>1 DEF ScrollInv
  <2>3. CASE hearing = {}
    <3>1. \A w \in Widgets : open'[w] = open[w]
      BY <2>1, <2>3 DEF ScrollInv
    <3>2. open' = open
      BY <2>2, <3>1 DEF ScrollInv
    <3> QED
      BY <2>1, <2>3, <3>2 DEF ScrollInv
  <2>4. CASE hearing # {}
    <3>1. ~(locked' /\ ~turned')
      BY <2>1, <2>4 DEF ScrollInv
    <3> QED
      BY <2>2, <3>1 DEF ScrollInv
  <2> QED
    BY <2>3, <2>4
<1>5. CASE Host!Turn
  BY <1>5 DEF ScrollInv, Host!Turn
<1> QED
  BY <1>1, <1>2, <1>3, <1>4, <1>5 DEF Host!HostNext

(* The catalogue, its copies and the page show items.                      *)
LEMMA ItemsStep == ASSUME ItemsInv, Library!LibraryNext PROVE ItemsInv'
<1>1. CASE Library!Visitor
  BY <1>1 DEF ItemsInv, Library!Visitor, Library!ClearFilter, Library!Choose, Library!PickFromCard,
     Library!FilterByScripture, Library!Search, Library!ClearAll, Library!LoadMore, Library!Update
<1>2. CASE Library!LoadPage
  <2>1. cache.state \in {"none", "fresh", "expired"} /\ cache.items \subseteq Items
    BY DEF ItemsInv
  <2>2. /\ published' = published /\ cache' = cache
        /\ page' = page \/ page' = cache.items
        /\ fill' = fill \/ fill' = [reading |-> TRUE, items |-> published]
    BY <1>2, <2>1 DEF Library!LoadPage, Library!StartFill, Library!Show
  <2>3. fill' \in [reading : BOOLEAN, items : SUBSET Items]
    <3>1. published \in SUBSET Items /\ TRUE \in BOOLEAN
          /\ fill \in [reading : BOOLEAN, items : SUBSET Items]
      BY DEF ItemsInv
    <3>2. [reading |-> TRUE, items |-> published] \in [reading : BOOLEAN, items : SUBSET Items]
      BY <3>1
    <3> QED
      BY <2>2, <3>1, <3>2
  <2>4. published' \subseteq Items /\ page' \subseteq Items
    BY <2>1, <2>2 DEF ItemsInv
  <2> QED
    BY <2>2, <2>3, <2>4 DEF ItemsInv
<1>3. CASE Library!FinishFill
  BY <1>3 DEF ItemsInv, Library!FinishFill, Library!Show
<1>4. CASE Library!Expire
  BY <1>4 DEF ItemsInv, Library!Expire
<1>5. ASSUME NEW i \in Items, Library!Edit(i) PROVE ItemsInv'
  BY <1>5 DEF ItemsInv, Library!Edit
<1>6. CASE Library!InvalidateLibraryCatalog
  BY <1>6 DEF ItemsInv, Library!InvalidateLibraryCatalog
<1> QED
  BY <1>1, <1>2, <1>3, <1>4, <1>5, <1>6 DEF Library!LibraryNext

PageInv == ScrollInv /\ ItemsInv

(* The invariant of the visitor's page.                                    *)
THEOREM PageInvariance == PageSpec => []PageInv
<1>1. PageInit => PageInv
  BY DEF PageInit, PageInv, ScrollInv, ItemsInv, Host!HostInit, Library!LibraryInit
<1>2. PageInv /\ [PageNext]_pageVars => PageInv'
  <2> SUFFICES ASSUME PageInv, [PageNext]_pageVars PROVE PageInv'
    OBVIOUS
  <2> USE DEF PageInv
  <2>1. UNCHANGED hostVars => ScrollInv'
    BY DEF hostVars, ScrollInv
  <2>2. UNCHANGED libraryVars => ItemsInv'
    BY DEF libraryVars, ItemsInv
  <2>3. CASE OnHostPage
    BY <2>2, <2>3, ScrollStep DEF OnHostPage
  <2>4. CASE OnLibrary
    BY <2>1, <2>4, ItemsStep DEF OnLibrary, InFrame
  <2>5. CASE ReportHeight
    BY <2>1, <2>2, <2>5 DEF ReportHeight, InFrame
  <2>6. CASE UNCHANGED pageVars
    BY <2>1, <2>2, <2>6 DEF pageVars
  <2> QED
    BY <2>3, <2>4, <2>5, <2>6 DEF PageNext
<1> QED
  BY <1>1, <1>2, PTL DEF PageSpec

(* Closing gives the page its scroll back.                                 *)
THEOREM ScrollIsGivenBack == PageSpec => []ScrollComesBack
<1>1. PageInv => ScrollComesBack
  BY DEF PageInv, ScrollInv, ScrollComesBack, Host!ScrollComesBack
<1> QED
  BY <1>1, PageInvariance, PTL

(* The items of C with a label of key v, by themselves and with the label. *)
With(C, L, v)  == {i \in C : \E l \in L[i] : Key[l] = v}
Pairs(C, L, v) == {p \in C \X UNION {L[j] : j \in C} : p[2] \in L[p[1]] /\ Key[p[2]] = v}

(* The pairs of an item and its label with a key are no fewer than the     *)
(* items, and as many if none of these has two such labels.                *)
LEMMA CountedOnce ==
  ASSUME NEW C, IsFiniteSet(C), NEW L, NEW v, IsFiniteSet(UNION {L[j] : j \in C})
  PROVE  /\ Cardinality(Pairs(C, L, v)) >= Cardinality(With(C, L, v))
         /\ (\A i \in With(C, L, v) : Library!OneSpelling(L[i], v)) =>
              Cardinality(Pairs(C, L, v)) = Cardinality(With(C, L, v))
<1> DEFINE A == With(C, L, v)
           P == Pairs(C, L, v)
           f == [i \in A |-> <<i, CHOOSE l \in L[i] : Key[l] = v>>]
<1>1. IsFiniteSet(P) /\ IsFiniteSet(A)
  <2>1. IsFiniteSet(C \X UNION {L[j] : j \in C})
    BY FS_Product
  <2> QED
    BY <2>1, FS_Subset DEF Pairs, With
<1>2. \A i \in A : f[i] \in P /\ f[i][1] = i
  BY DEF With, Pairs
<1>3. f \in [A -> P]
  BY <1>2
<1>4. ASSUME \A i \in A : Library!OneSpelling(L[i], v), NEW p \in P
      PROVE  p[1] \in A /\ f[p[1]] = p
  <2>1. p = <<p[1], p[2]>> /\ p[1] \in C /\ p[2] \in L[p[1]] /\ Key[p[2]] = v
    BY DEF Pairs
  <2>2. p[1] \in A
    BY <2>1 DEF With
  <2>3. (CHOOSE l \in L[p[1]] : Key[l] = v) = p[2]
    BY <1>4, <2>1, <2>2 DEF Library!OneSpelling
  <2> QED
    BY <2>1, <2>2, <2>3
<1> HIDE DEF A, P, f
<1>5. f \in Injection(A, P)
  BY <1>2, <1>3 DEF Injection, IsInjective
<1>6. /\ Cardinality(A) \in Nat /\ Cardinality(P) \in Nat
      /\ Cardinality(A) <= Cardinality(P)
      /\ f \in Surjection(A, P) => Cardinality(A) = Cardinality(P)
  BY <1>1, <1>5, FS_Injection, FS_CardinalityType
<1>7. (\A i \in A : Library!OneSpelling(L[i], v)) => f \in Surjection(A, P)
  BY <1>3, <1>4 DEF Surjection
<1> QED
  BY <1>6, <1>7 DEF A, P

(* The library's module counts with the same operator.                     *)
LEMMA SameCardinality == \A S : Library!Cardinality(S) = Cardinality(S)
  BY DEF Library!Cardinality, Library!IsFiniteSet, Cardinality, IsFiniteSet

(* A function takes finitely many arguments to finitely many values.       *)
LEMMA FiniteImage ==
  ASSUME NEW S, IsFiniteSet(S), NEW f
  PROVE  IsFiniteSet({f[x] : x \in S})
<1> DEFINE T == {f[x] : x \in S}
           g == [x \in S |-> f[x]]
<1>1. g \in Surjection(S, T)
  BY DEF Surjection
<1> QED
  BY <1>1, FS_Surjection

(* The labels that the messages of a page are counted under are finitely   *)
(* many.                                                                   *)
LEMMA LabelsFinite ==
  ASSUME NEW k \in Library!FilterKeys, NEW C \in SUBSET Items
  PROVE  IsFiniteSet(UNION {Library!Counted(i, k) : i \in C})
<1>1. IsFiniteSet(C)
  BY FS_Subset, VisitorPageAssumption
<1>2. ASSUME NEW i \in C PROVE IsFiniteSet(Library!LabelsOf(i, k))
  <2>1. k \in Library!Sets \cup {"verse"} => Library!LabelsOf(i, k) = Labels[i][k]
    BY DEF Library!LabelsOf, Library!Sets
  <2>2. IsFiniteSet({Library!LibraryFormat(i)})
    BY FS_Singleton
  <2>3. IsFiniteSet(Library!Books(i))
    <3> DEFINE books == {BookOf[v] : v \in Labels[i]["verse"]}
    <3>1. IsFiniteSet(Labels[i]["verse"])
      BY VisitorPageAssumption
    <3>2. IsFiniteSet(books)
      BY <3>1, FiniteImage
    <3> QED
      BY <3>2, FS_Subset DEF Library!Books
  <2> QED
    BY <2>1, <2>2, <2>3, VisitorPageAssumption
    DEF Library!FilterKeys, Library!Sets, Library!LabelsOf
<1>3. ASSUME NEW i \in C PROVE IsFiniteSet(Library!Counted(i, k))
  BY <1>2, FS_Subset DEF Library!Counted
<1> DEFINE counted == [i \in C |-> Library!Counted(i, k)]
           S == {counted[i] : i \in C}
<1>4. IsFiniteSet(S)
  <2> HIDE DEF counted
  <2> QED
    BY <1>1, FiniteImage
<1>5. \A T \in S : IsFiniteSet(T)
  BY <1>3
<1>6. S = {Library!Counted(i, k) : i \in C}
  OBVIOUS
<1> HIDE DEF S
<1>7. IsFiniteSet(UNION S)
  BY <1>4, <1>5, FS_UNION
<1> QED
  BY <1>6, <1>7

(* What a dropdown counts is what choosing leads to, a message once for    *)
(* each of its spellings.                                                  *)
LEMMA CountedIsReached ==
  ASSUME ItemsInv, NEW k \in Library!FilterKeys,
         k = "book" => filters["verse"] = Library!Any
  PROVE  /\ {o.value : o \in Library!Options(k)} =
              {v \in {Key[l] : l \in UNION {Library!Counted(i, k) : i \in page}} :
                 Library!Left(k, v) # {}}
         /\ \A o \in Library!Options(k) :
              /\ o.count >= Library!Cardinality(Library!Left(k, o.value))
              /\ (\A i \in Library!Left(k, o.value) :
                    Library!OneSpelling(Library!Counted(i, k), o.value)) =>
                   o.count = Library!Cardinality(Library!Left(k, o.value))
<1> DEFINE counting == {i \in page : Library!MatchesAll(i, filters, {k})}
           L == [i \in page |-> Library!Counted(i, k)]
           values == {Key[l] : l \in UNION {Library!Counted(i, k) : i \in counting}}
<1>0. counting \subseteq page
  OBVIOUS
<1>1. ASSUME NEW v PROVE Library!Left(k, v) = With(counting, L, v)
  <2> DEFINE fs == Library!Updated(filters, Library!Patch(k, v))
  <2>1. \A j \in Library!FilterKeys : fs[j] = IF j = k THEN v ELSE filters[j]
    BY DEF Library!Updated, Library!Patch
  <2> HIDE DEF fs
  <2>2. \A i \in page : \A l \in Library!Counted(i, k) : l \in Library!LabelsOf(i, k)
    BY DEF Library!Counted
  <2>3. \A i \in page : (\E l \in Library!Counted(i, k) : Key[l] = v) =>
          (Library!MatchesAll(i, fs, {}) <=> Library!MatchesAll(i, filters, {k}))
    BY <2>1, <2>2 DEF Library!MatchesAll, Library!MatchesFilter
  <2> QED
    BY <2>3 DEF Library!Left, Library!Filtered, With, fs
<1>2. ASSUME NEW v
      PROVE  /\ Cardinality(Pairs(counting, L, v)) >= Cardinality(Library!Left(k, v))
             /\ (\A i \in Library!Left(k, v) : Library!OneSpelling(Library!Counted(i, k), v)) =>
                  Cardinality(Pairs(counting, L, v)) = Cardinality(Library!Left(k, v))
  <2>1. IsFiniteSet(counting)
    BY FS_Subset, VisitorPageAssumption DEF ItemsInv
  <2>2. IsFiniteSet(UNION {L[j] : j \in counting})
    <3>1. IsFiniteSet(UNION {Library!Counted(i, k) : i \in counting})
      BY LabelsFinite DEF ItemsInv
    <3>2. {L[j] : j \in counting} = {Library!Counted(i, k) : i \in counting}
      BY <1>0
    <3> QED
      BY <3>1, <3>2
  <2>3. \A i \in With(counting, L, v) : L[i] = Library!Counted(i, k)
    BY <1>0 DEF With
  <2> HIDE DEF counting, L
  <2> QED
    BY <1>1, <2>1, <2>2, <2>3, CountedOnce
<1>3. ASSUME NEW v PROVE Pairs(counting, L, v)
        = {p \in counting \X UNION {Library!Counted(j, k) : j \in counting} :
             p[2] \in Library!Counted(p[1], k) /\ Key[p[2]] = v}
  <2>1. UNION {L[j] : j \in counting} = UNION {Library!Counted(j, k) : j \in counting}
    BY <1>0
  <2> HIDE DEF counting
  <2> QED
    BY <1>0, <2>1 DEF Pairs
<1>4. values = {w \in {Key[l] : l \in UNION {Library!Counted(i, k) : i \in page}} :
                  Library!Left(k, w) # {}}
  <2> HIDE DEF counting
  <2>1. ASSUME NEW v
        PROVE  Library!Left(k, v) = {i \in counting : \E l \in Library!Counted(i, k) : Key[l] = v}
    BY <1>0, <1>1 DEF With
  <2> QED
    BY <1>0, <2>1
<1>5. Library!Options(k) =
        {[value |-> v, count |-> Cardinality(Pairs(counting, L, v))] : v \in values}
  <2> HIDE DEF L
  <2> QED
    BY <1>3, SameCardinality DEF Library!Options
<1> HIDE DEF counting, L, values
<1>6. {o.value : o \in Library!Options(k)} = values
  <2> DEFINE option == [v \in values |-> [value |-> v, count |-> Cardinality(Pairs(counting, L, v))]]
  <2>1. Library!Options(k) = {option[v] : v \in values} /\ \A v \in values : option[v].value = v
    BY <1>5
  <2> HIDE DEF option
  <2>2. {o.value : o \in {option[v] : v \in values}} = values
    BY <2>1
  <2> QED
    BY <2>1, <2>2
<1>7. \A o \in Library!Options(k) :
        o.value \in values /\ o.count = Cardinality(Pairs(counting, L, o.value))
  BY <1>5
<1> QED
  BY <1>2, <1>4, <1>6, <1>7, SameCardinality

(* Dropdowns tell what choosing leads to, whatever the spellings.          *)
THEOREM OptionsAreReached == PageSpec => []OptionsReflectReach
<1>1. PageInv => OptionsReflectReach
  BY CountedIsReached DEF PageInv, OptionsReflectReach, Library!OptionsReflectReach
<1> QED
  BY <1>1, PageInvariance, PTL

=============================================================================
