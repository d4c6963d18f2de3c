--------------------------- MODULE BillingProofs ---------------------------
(***************************************************************************)
(* An account comes to one organization, on a plan it has bought, for any  *)
(* plans, statuses of Stripe's, checkouts and deliveries, whatever order   *)
(* the events come in, however often, and whatever throws.                 *)
(***************************************************************************)
EXTENDS Billing, ListLemmas

(* Nothing has come to an account that has not been created yet: a payment *)
(* needs a checkout session, and that a user.                              *)
NothingBefore ==
  account # "exists" =>
    /\ member = "nobody"
    /\ mail = << >>
    /\ \A h \in Hooks : hook[h] = Idle
    /\ \A s \in Subs : subs[s].stage = "none"

(* A plan is bought when a subscription's checkout is paid, and whatever    *)
(* speaks of a paid subscription, Stripe's own record, an event on its way, *)
(* a handler or the billing page, speaks of a plan that was bought.        *)
Sold(e) == subs[e.sub].stage = "paid" /\ e.got.plan \in bought

PlansAreSold ==
  /\ bought \subseteq Plans
  /\ \A s \in Subs : /\ subs[s].stage # "none" => subs[s].plan \in Plans
                     /\ subs[s].stage = "paid" => subs[s].plan \in bought
  /\ \A k \in 1..Len(mail) : Sold(mail[k])
  /\ \A h \in Hooks : hook[h] # Idle => Sold(hook[h].event) /\ hook[h].got.plan \in bought
  /\ desk # Idle => desk.got.plan \in bought

(* The row's own plan.                                                     *)
RowIsSold == /\ org.plan # "free" => org.plan \in bought
             /\ org.rows = 1 /\ org.plan = "free" => code = "ours"

BillingInv == TypeOK /\ OneOrganization /\ NothingBefore /\ PlansAreSold /\ RowIsSold

-----------------------------------------------------------------------------

(* What is still to be answered was to be answered before.                 *)
LEMMA WithoutIsOld ==
  ASSUME mail \in Seq(Event), NEW e
  PROVE  /\ Without(e) \in Seq(Event)
         /\ \A i \in 1..Len(Without(e)) : \E h \in 1..Len(mail) : Without(e)[i] = mail[h]
  <1> DEFINE at == {k \in 1..Len(mail) : mail[k] = e}
  <1>1. CASE at = {}
    BY <1>1 DEF Without
  <1>2. CASE at # {}
    <2>1. PICK n \in at : \A m \in at : n <= m
      <3>1. at \in SUBSET Nat
        OBVIOUS
      <3> QED
        BY <1>2, <3>1, Least, Zenon
    <2> DEFINE k == CHOOSE k \in at : \A j \in at : k <= j
    <2>2. k \in 1..Len(mail)
      BY <2>1
    <2>3. Without(e) = RemoveAt(mail, k)
      BY <1>2 DEF Without
    <2> HIDE DEF k
    <2> QED
      BY <2>2, <2>3, OneLess
  <1> QED
    BY <1>1, <1>2

(* An answered event is gone, or comes again: no event is new.             *)
LEMMA AnswerIsOld ==
  ASSUME mail \in Seq(Event), NEW h \in Hooks, NEW e, Answer(h, e)
  PROVE  /\ mail' \in Seq(Event)
         /\ \A i \in 1..Len(mail') : \E k \in 1..Len(mail) : mail'[i] = mail[k]
  BY WithoutIsOld DEF Answer

(* What Stripe says of a subscription is something the row can hold.       *)
LEMMA FieldsAreBilled ==
  ASSUME NEW s, s.plan \in AllPlans, s.cancel \in BOOLEAN
  PROVE  Fields(s) \in Billed
  BY DEF Fields, Billed, MapSubscriptionStatus, Statuses

(* The initial state.                                                      *)
LEMMA InitHolds == Init => BillingInv
  BY DEF Init, BillingInv, TypeOK, OneOrganization, NothingBefore, PlansAreSold, RowIsSold,
         NoOrg, Organization, Subscription, AllPlans, Statuses, Subs, NoSub

(* Stripe's and the billing page's changes of one subscription.            *)
LEMMA AnnounceTypes ==
  ASSUME TypeOK, NEW s \in Subs, NEW type \in {"checkout", "updated", "deleted"},
         subs'[s].plan \in AllPlans, subs'[s].cancel \in BOOLEAN, Announce(type, s)
  PROVE  mail' \in Seq(Event)
  <1>1. Fields(subs'[s]) \in Billed
    BY FieldsAreBilled
  <1>2. [type |-> type, sub |-> s, got |-> Fields(subs'[s])] \in Event
    BY <1>1 DEF Event
  <1> QED
    BY <1>2 DEF Announce, TypeOK

(* Every step keeps the types.                                             *)
LEMMA TypeStep == TypeOK /\ [Next]_vars => TypeOK'
  <1> SUFFICES ASSUME TypeOK, [Next]_vars PROVE TypeOK'
    OBVIOUS
  <1> USE BillingAssumption DEF TypeOK
  <1>1. ASSUME NEW withCode \in BOOLEAN, SignUp(withCode) PROVE TypeOK'
    BY <1>1 DEF SignUp
  <1>2. CASE OtherRedeems \/ Invited
    BY <1>2 DEF OtherRedeems, Invited
  <1>3. CASE CreateOrganizationFromAccessCode
    <2>1. org.rows + 1 \in Nat
      BY DEF Organization
    <2>2. org' \in Organization
      BY <1>3, <2>1 DEF CreateOrganizationFromAccessCode, Organization
    <2> QED
      BY <1>3, <2>2 DEF CreateOrganizationFromAccessCode
  <1>4. ASSUME NEW s \in Subs, NEW p \in Plans, Subscribe(s, p) \/ UpgradeCheckout(s, p)
        PROVE  TypeOK'
    <2>1. PICK flow \in {"signup", "upgrade"} : OpenCheckout(s, p, flow)
      BY <1>4 DEF Subscribe, UpgradeCheckout
    <2>2. subs' = [subs EXCEPT ![s] = [@ EXCEPT !.stage = "open", !.flow = flow, !.plan = p]]
      BY <2>1 DEF OpenCheckout
    <2>3. subs' \in [Subs -> Subscription]
      BY <2>2 DEF Subscription, AllPlans
    <2> QED
      BY <2>1, <2>3 DEF OpenCheckout
  <1>5. ASSUME NEW s \in Subs, Pay(s) PROVE TypeOK'
    <2>1. /\ subs' = [subs EXCEPT ![s].stage = "paid"] /\ subs'[s].plan \in AllPlans
          /\ subs'[s].cancel \in BOOLEAN
      BY <1>5 DEF Pay, Subscription
    <2>2. mail' \in Seq(Event)
      BY <1>5, <2>1, AnnounceTypes DEF Pay
    <2> QED
      BY <1>5, <2>1, <2>2 DEF Pay, Subscription
  <1>6. ASSUME NEW s \in Subs, StripeChanges(s) PROVE TypeOK'
    <2>1. PICK status \in Live \cup {"active", "canceled"}, type \in {"updated", "deleted"} :
            subs' = [subs EXCEPT ![s].status = status] /\ Announce(type, s)
      BY <1>6 DEF StripeChanges
    <2>2. mail' \in Seq(Event)
      BY <2>1, AnnounceTypes DEF Subscription
    <2>3. subs' \in [Subs -> Subscription]
      BY <2>1 DEF Subscription
    <2>4. changes' \in Nat
      BY <1>6 DEF StripeChanges
    <2> QED
      BY <1>6, <2>2, <2>3, <2>4 DEF StripeChanges
  <1>7. ASSUME NEW h \in Hooks, NEW k \in 1..Len(mail), Receive(h, k) PROVE TypeOK'
    <2>1. mail[k] \in Event
      OBVIOUS
    <2>2. Fields(subs[mail[k].sub]) \in Billed
      BY <2>1, FieldsAreBilled DEF Event, Subscription
    <2>3. mail' \in Seq(Event)
      BY <1>7, AnswerIsOld DEF Receive
    <2>4. hook' \in [Hooks -> {Idle} \cup Handling]
      BY <1>7, <2>1, <2>2 DEF Receive, Answer, Event, Handling
    <2> QED
      BY <1>7, <2>3, <2>4 DEF Receive
  <1>8. ASSUME NEW h \in Hooks, Decide(h) PROVE TypeOK'
    <2>1. hook[h] \in Handling
      BY <1>8 DEF Decide, Idle
    <2>2. mail' \in Seq(Event)
      BY <1>8, AnswerIsOld DEF Decide
    <2>3. hook' \in [Hooks -> {Idle} \cup Handling]
      BY <1>8, <2>1 DEF Decide, Answer, Handling
    <2> QED
      BY <1>8, <2>2, <2>3 DEF Decide
  <1>9. ASSUME NEW h \in Hooks, CreateOrganizationFromCheckout(h) PROVE TypeOK'
    <2>1. hook[h] \in Handling
      BY <1>9 DEF CreateOrganizationFromCheckout, Idle
    <2>2. mail' \in Seq(Event)
      BY <1>9, AnswerIsOld DEF CreateOrganizationFromCheckout
    <2>3. org' \in Organization
      <3>1. org.rows + 1 \in Nat
        BY DEF Organization
      <3>2. /\ hook[h].event.sub \in Subs
            /\ hook[h].got.plan \in AllPlans /\ hook[h].got.status \in Statuses
        BY <2>1 DEF Handling, Event, Billed
      <3>3. [rows |-> org.rows + 1, sub |-> hook[h].event.sub, plan |-> hook[h].got.plan,
             status |-> hook[h].got.status, cancel |-> FALSE] \in Organization
        BY <3>1, <3>2 DEF Organization
      <3> QED
        BY <1>9, <3>3 DEF CreateOrganizationFromCheckout
    <2> QED
      BY <1>9, <2>2, <2>3 DEF CreateOrganizationFromCheckout, Answer
  <1>10. ASSUME NEW h \in Hooks, Apply(h) PROVE TypeOK'
    <2>1. hook[h] \in Handling
      BY <1>10 DEF Apply, Idle
    <2>2. mail' \in Seq(Event)
      BY <1>10, AnswerIsOld DEF Apply
    <2>3. org' \in Organization
      BY <1>10, <2>1 DEF Apply, Applied, Handling, Event, Billed, Statuses, Organization
    <2> QED
      BY <1>10, <2>2, <2>3 DEF Apply, Answer
  <1>11. ASSUME NEW h \in Hooks, HandlerThrows(h) \/ HandlerDies(h) PROVE TypeOK'
    <2>1. mail' \in Seq(Event)
      BY <1>11, AnswerIsOld DEF HandlerThrows, HandlerDies
    <2> QED
      BY <1>11, <2>1 DEF HandlerThrows, HandlerDies, Answer
  <1>12. ASSUME NEW kind \in {"change", "cancel", "resume"}, NEW p \in Plans, AskStripe(kind, p)
         PROVE  TypeOK'
    <2>1. org.sub \in Subs
      BY <1>12 DEF AskStripe, Organization
    <2>2. PICK q \in AllPlans, c \in BOOLEAN :
            subs' = [subs EXCEPT ![org.sub].cancel = c, ![org.sub].plan = q]
      <3> DEFINE q == IF kind = "change" THEN p ELSE subs[org.sub].plan
                 c == (kind = "cancel")
      <3>1. q \in AllPlans /\ c \in BOOLEAN
        BY <2>1 DEF AllPlans, Subscription
      <3>2. subs' = [subs EXCEPT ![org.sub].cancel = c, ![org.sub].plan = q]
        BY <1>12, <2>1 DEF AskStripe, Subscription
      <3> QED
        BY <3>1, <3>2
    <2>3. subs'[org.sub].plan \in AllPlans /\ subs'[org.sub].cancel \in BOOLEAN
      BY <2>1, <2>2 DEF Subscription
    <2>4. mail' \in Seq(Event)
      BY <1>12, <2>1, <2>3, AnnounceTypes DEF AskStripe
    <2>5. desk' \in AtDesk
      BY <1>12, <2>3, FieldsAreBilled DEF AskStripe, AtDesk
    <2>6. subs' \in [Subs -> Subscription]
      BY <2>1, <2>2 DEF Subscription
    <2>7. changes' \in Nat /\ bought' \subseteq AllPlans
      <3>1. changes' = changes + 1 /\ bought' = bought \cup {subs'[org.sub].plan}
        BY <1>12 DEF AskStripe
      <3> QED
        BY <2>3, <3>1
    <2>8. UNCHANGED <<code, account, member, org, hook, crossed>>
      BY <1>12 DEF AskStripe
    <2> QED
      BY <2>4, <2>5, <2>6, <2>7, <2>8
  <1>13. CASE DeskApplies \/ DeskDies
    BY <1>13 DEF DeskApplies, DeskDies, AtDesk, Billed, Organization
  <1>14. CASE UNCHANGED vars
    BY <1>14 DEF vars
  <1> QED
    BY <1>1, <1>2, <1>3, <1>4, <1>5, <1>6, <1>7, <1>8, <1>9, <1>10, <1>11, <1>12, <1>13, <1>14
    DEF Next, Handle

(* A payment needs a user, and so does an invitation.                      *)
LEMMA NothingStep == TypeOK /\ NothingBefore /\ [Next]_vars => NothingBefore'
  <1> SUFFICES ASSUME TypeOK, NothingBefore, [Next]_vars, account' # "exists"
               PROVE  NothingBefore'
    BY DEF NothingBefore
  <1>1. CASE account = "exists"
    BY <1>1 DEF Next, vars, SignUp, OtherRedeems, CreateOrganizationFromAccessCode, Invited,
       Subscribe, UpgradeCheckout, OpenCheckout, Pay, StripeChanges, Handle, Receive, Decide,
       CreateOrganizationFromCheckout, Apply, HandlerThrows, HandlerDies, AskStripe,
       DeskApplies, DeskDies
  <1>2. CASE account # "exists"
    <2>1. /\ member = "nobody" /\ mail = << >> /\ Len(mail) = 0
          /\ \A h \in Hooks : hook[h] = Idle
          /\ \A s \in Subs : subs[s].stage = "none"
      BY <1>2 DEF NothingBefore
    <2>2. UNCHANGED <<member, mail, hook, subs>>
      BY <1>2, <2>1 DEF Next, vars, SignUp, OtherRedeems, CreateOrganizationFromAccessCode,
         Invited, Subscribe, UpgradeCheckout, Pay, StripeChanges, Running, Handle, Decide, Idle,
         CreateOrganizationFromCheckout, Apply, HandlerThrows, HandlerDies, AskStripe,
         DeskApplies, DeskDies
    <2> QED
      BY <2>1, <2>2 DEF NothingBefore
  <1> QED
    BY <1>1, <1>2

(* Organization and membership come together, or not at all.               *)
LEMMA OneStep ==
  TypeOK /\ NothingBefore /\ OneOrganization /\ [Next]_vars => OneOrganization'
  <1> SUFFICES ASSUME TypeOK, NothingBefore, OneOrganization, [Next]_vars
               PROVE  OneOrganization'
    OBVIOUS
  <1>1. org \in Organization /\ org.rows \in Nat
    BY DEF TypeOK, Organization
  <1>2. CASE UNCHANGED <<org, member>>
    BY <1>2 DEF OneOrganization
  <1>3. CASE CreateOrganizationFromAccessCode
    <2>1. member = "nobody"
      BY <1>3 DEF CreateOrganizationFromAccessCode, NothingBefore
    <2> QED
      BY <1>1, <1>3, <2>1 DEF CreateOrganizationFromAccessCode, OneOrganization, Organization
  <1>4. CASE Invited
    BY <1>4 DEF Invited, OneOrganization
  <1>5. ASSUME NEW h \in Hooks, CreateOrganizationFromCheckout(h) PROVE OneOrganization'
    BY <1>1, <1>5 DEF CreateOrganizationFromCheckout, OneOrganization
  <1>6. ASSUME NEW h \in Hooks, Apply(h) PROVE OneOrganization'
    <2>1. org'.rows = org.rows /\ member' = member
      <3>1. hook[h] \in Handling
        BY <1>6 DEF Apply, Idle, TypeOK
      <3> QED
        BY <1>1, <1>6, <3>1 DEF Apply, Applied, Handling, Event, Organization
    <2> QED
      BY <2>1 DEF OneOrganization
  <1>7. CASE DeskApplies
    BY <1>1, <1>7 DEF DeskApplies, OneOrganization, Organization
  <1> QED
    BY <1>2, <1>3, <1>4, <1>5, <1>6, <1>7 DEF Next, vars, SignUp, OtherRedeems, Subscribe,
       UpgradeCheckout, OpenCheckout, Pay, StripeChanges, Handle, Receive, Decide, HandlerThrows,
       HandlerDies, AskStripe, DeskDies

-----------------------------------------------------------------------------

(* What has been paid has been paid.                                       *)
Lasting == /\ bought \subseteq bought'
           /\ \A s \in Subs : subs[s].stage = "paid" => subs'[s].stage = "paid"

(* What was sold stays sold.                                               *)
LEMMA SoldOn ==
  ASSUME Lasting, NEW e \in Event, Sold(e)
  PROVE  Sold(e)'
  BY DEF Lasting, Sold, Event

(* Events that were on their way still speak of sold plans.                *)
LEMMA MailSold ==
  ASSUME TypeOK, PlansAreSold, Lasting,
         NEW i \in 1..Len(mail'), \E k \in 1..Len(mail) : mail'[i] = mail[k]
  PROVE  Sold(mail[i])'
  <1>1. PICK e \in Event : mail'[i] = e /\ Sold(e)
    BY DEF TypeOK, PlansAreSold
  <1>2. Sold(e)'
    BY <1>1, SoldOn
  <1> QED
    BY <1>1, <1>2 DEF Sold

(* So do the handlers that go on, and those that are over.                 *)
LEMMA HooksSold ==
  ASSUME TypeOK, PlansAreSold, Lasting, NEW h \in Hooks,
         \/ hook'[h] = Idle
         \/ hook[h] # Idle /\ hook'[h].event = hook[h].event /\ hook'[h].got = hook[h].got
  PROVE  (hook[h] # Idle => Sold(hook[h].event) /\ hook[h].got.plan \in bought)'
  <1> SUFFICES ASSUME hook'[h] # Idle
               PROVE  Sold(hook[h].event)' /\ hook'[h].got.plan \in bought'
    OBVIOUS
  <1>1. hook[h] \in Handling
    BY DEF TypeOK
  <1>2. PICK e \in Event : hook[h].event = e /\ Sold(e) /\ hook[h].got.plan \in bought
    BY <1>1 DEF Handling, PlansAreSold
  <1>3. Sold(e)'
    BY <1>2, SoldOn
  <1> QED
    BY <1>2, <1>3 DEF Sold, Lasting

(* A new event speaks of a subscription that is paid.                      *)
LEMMA AnnounceSold ==
  ASSUME TypeOK, PlansAreSold, Lasting, NEW s \in Subs, NEW type, Announce(type, s),
         subs'[s].stage = "paid", subs'[s].plan \in bought'
  PROVE  \A i \in 1..Len(mail') : Sold(mail[i])'
  <1> SUFFICES ASSUME NEW i \in 1..Len(mail') PROVE Sold(mail[i])'
    OBVIOUS
  <1>1. mail \in Seq(Event)
    BY DEF TypeOK
  <1>2. CASE i \in 1..Len(mail)
    <2>1. mail'[i] = mail[i]
      BY <1>1, <1>2 DEF Announce
    <2> QED
      BY <1>2, <2>1, MailSold
  <1>3. CASE i = Len(mail) + 1
    <2>1. mail'[i] = [type |-> type, sub |-> s, got |-> Fields(subs'[s])]
      BY <1>1, <1>3 DEF Announce
    <2> QED
      BY <2>1 DEF Sold, Fields
  <1> QED
    BY <1>1, <1>2, <1>3 DEF Announce

(* Every step keeps to plans that were sold.                               *)
LEMMA SoldStep == TypeOK /\ PlansAreSold /\ [Next]_vars => PlansAreSold'
  <1> SUFFICES ASSUME TypeOK, PlansAreSold, [Next]_vars PROVE PlansAreSold'
    OBVIOUS
  <1> DEFINE SubsOf == \A s \in Subs : /\ subs[s].stage # "none" => subs[s].plan \in Plans
                                       /\ subs[s].stage = "paid" => subs[s].plan \in bought
             HookOf(h) == hook[h] # Idle => Sold(hook[h].event) /\ hook[h].got.plan \in bought
  <1>1. ASSUME UNCHANGED <<subs, bought>>,
               \A i \in 1..Len(mail') : \E k \in 1..Len(mail) : mail'[i] = mail[k],
               desk' # Idle => desk' = desk,
               \A h \in Hooks : HookOf(h)'
        PROVE  PlansAreSold'
    <2>1. Lasting
      BY <1>1 DEF Lasting
    <2>2. \A i \in 1..Len(mail') : Sold(mail[i])'
      BY <1>1, <2>1, MailSold
    <2>3. (bought \subseteq Plans)' /\ SubsOf' /\ (desk # Idle => desk.got.plan \in bought)'
      BY <1>1 DEF PlansAreSold
    <2> QED
      BY <1>1, <2>2, <2>3 DEF PlansAreSold
  <1>2. ASSUME UNCHANGED <<subs, bought, hook>>,
               \A i \in 1..Len(mail') : \E k \in 1..Len(mail) : mail'[i] = mail[k],
               desk' # Idle => desk' = desk
        PROVE  PlansAreSold'
    <2>1. Lasting
      BY <1>2 DEF Lasting
    <2>2. ASSUME NEW h \in Hooks PROVE HookOf(h)'
      BY <1>2, <2>1, HooksSold
    <2> QED
      BY <1>1, <1>2, <2>2
  <1>3. CASE \/ \E withCode \in BOOLEAN : SignUp(withCode)
             \/ OtherRedeems \/ CreateOrganizationFromAccessCode \/ Invited
             \/ DeskApplies \/ DeskDies \/ UNCHANGED vars
    BY <1>2, <1>3 DEF SignUp, OtherRedeems, CreateOrganizationFromAccessCode, Invited,
       DeskApplies, DeskDies, vars
  <1>4. ASSUME NEW s \in Subs, NEW p \in Plans, Subscribe(s, p) \/ UpgradeCheckout(s, p)
        PROVE  PlansAreSold'
    <2>1. PICK flow \in {"signup", "upgrade"} : OpenCheckout(s, p, flow)
      BY <1>4 DEF Subscribe, UpgradeCheckout
    <2>2. \A r \in Subs : /\ r # s => subs'[r] = subs[r]
                          /\ r = s => subs'[r].stage = "open" /\ subs'[r].plan = p
      BY <2>1 DEF OpenCheckout, TypeOK, Subscription
    <2>3. Lasting
      BY <2>1, <2>2 DEF OpenCheckout, Lasting
    <2>4. SubsOf' /\ (bought \subseteq Plans)' /\ (desk # Idle => desk.got.plan \in bought)'
      <3>1. UNCHANGED <<bought, desk>>
        BY <2>1 DEF OpenCheckout
      <3>2. SubsOf'
        BY <2>2, <3>1 DEF PlansAreSold
      <3> QED
        BY <3>1, <3>2 DEF PlansAreSold
    <2>5. \A i \in 1..Len(mail') : Sold(mail[i])'
      BY <2>1, <2>3, MailSold DEF OpenCheckout
    <2>6. \A h \in Hooks : HookOf(h)'
      BY <2>1, <2>3, HooksSold DEF OpenCheckout
    <2> QED
      BY <2>4, <2>5, <2>6 DEF PlansAreSold
  <1>5. ASSUME NEW s \in Subs, NEW type, Announce(type, s),
               subs'[s].stage = "paid", subs'[s].plan \in Plans,
               bought' = bought \cup {subs'[s].plan},
               \A r \in Subs : r # s => subs'[r] = subs[r],
               hook' = hook, desk' # Idle => desk' = desk \/ desk'.got.plan = subs'[s].plan
        PROVE  PlansAreSold'
    <2>1. Lasting
      BY <1>5 DEF Lasting
    <2>2. SubsOf' /\ (bought \subseteq Plans)' /\ (desk # Idle => desk.got.plan \in bought)'
      BY <1>5 DEF PlansAreSold
    <2>3. \A i \in 1..Len(mail') : Sold(mail[i])'
      BY <1>5, <2>1, AnnounceSold
    <2>4. \A h \in Hooks : HookOf(h)'
      BY <1>5, <2>1, HooksSold
    <2> QED
      BY <2>2, <2>3, <2>4 DEF PlansAreSold
  <1>6. ASSUME NEW s \in Subs, Pay(s) PROVE PlansAreSold'
    <2>1. /\ subs'[s].stage = "paid" /\ subs'[s].plan = subs[s].plan
          /\ \A r \in Subs : r # s => subs'[r] = subs[r]
      BY <1>6 DEF Pay, TypeOK, Subscription
    <2>2. subs[s].plan \in Plans
      BY <1>6 DEF Pay, PlansAreSold
    <2> QED
      BY <1>5, <1>6, <2>1, <2>2 DEF Pay
  <1>7. ASSUME NEW s \in Subs, StripeChanges(s) PROVE PlansAreSold'
    <2>1. PICK status, type :
            subs' = [subs EXCEPT ![s].status = status] /\ Announce(type, s)
      BY <1>7 DEF StripeChanges
    <2>2. /\ subs'[s].stage = "paid" /\ subs'[s].plan = subs[s].plan
          /\ \A r \in Subs : r # s => subs'[r] = subs[r]
      BY <1>7, <2>1 DEF StripeChanges, Running, TypeOK, Subscription
    <2>3. subs[s].plan \in Plans /\ bought' = bought \cup {subs'[s].plan}
      BY <1>7, <2>2 DEF StripeChanges, Running, PlansAreSold
    <2> QED
      BY <1>5, <1>7, <2>1, <2>2, <2>3 DEF StripeChanges
  <1>8. ASSUME NEW kind \in {"change", "cancel", "resume"}, NEW p \in Plans, AskStripe(kind, p)
        PROVE  PlansAreSold'
    <2>1. org.sub \in Subs /\ subs[org.sub].stage = "paid" /\ subs[org.sub].plan \in Plans
      BY <1>8 DEF AskStripe, Running, PlansAreSold, TypeOK, Organization
    <2>2. /\ subs'[org.sub].stage = "paid" /\ subs'[org.sub].plan \in Plans
          /\ \A r \in Subs : r # org.sub => subs'[r] = subs[r]
      BY <1>8, <2>1 DEF AskStripe, TypeOK, Subscription
    <2>3. desk'.got.plan = subs'[org.sub].plan
      BY <1>8 DEF AskStripe, Fields
    <2> QED
      BY <1>5, <1>8, <2>1, <2>2, <2>3 DEF AskStripe
  <1>9. ASSUME NEW h \in Hooks,
               \/ Decide(h) \/ CreateOrganizationFromCheckout(h) \/ Apply(h)
               \/ HandlerThrows(h) \/ HandlerDies(h)
        PROVE  PlansAreSold'
    <2>1. UNCHANGED <<subs, bought, desk>>
      BY <1>9 DEF Decide, CreateOrganizationFromCheckout, Apply, HandlerThrows, HandlerDies
    <2>2. \A i \in 1..Len(mail') : \E k \in 1..Len(mail) : mail'[i] = mail[k]
      BY <1>9, AnswerIsOld DEF TypeOK, Decide, CreateOrganizationFromCheckout, Apply,
         HandlerThrows, HandlerDies
    <2>3. ASSUME NEW g \in Hooks
          PROVE  \/ hook'[g] = Idle
                 \/ hook[g] # Idle /\ hook'[g].event = hook[g].event /\ hook'[g].got = hook[g].got
      BY <1>9 DEF Decide, CreateOrganizationFromCheckout, Apply, HandlerThrows, HandlerDies,
         Answer, TypeOK, Handling, Idle
    <2>4. Lasting
      BY <2>1 DEF Lasting
    <2>5. ASSUME NEW g \in Hooks PROVE HookOf(g)'
      BY <2>3, <2>4, HooksSold
    <2> QED
      BY <1>1, <2>1, <2>2, <2>5
  <1>10. ASSUME NEW h \in Hooks, NEW k \in 1..Len(mail), Receive(h, k) PROVE PlansAreSold'
    <2>1. UNCHANGED <<subs, bought, desk>> /\ Lasting
      BY <1>10 DEF Receive, Lasting
    <2>2. \A i \in 1..Len(mail') : \E j \in 1..Len(mail) : mail'[i] = mail[j]
      BY <1>10, AnswerIsOld DEF TypeOK, Receive
    <2>3. PICK e \in Event : e = mail[k] /\ Sold(e)
      BY DEF TypeOK, PlansAreSold
    <2>4. Fields(subs[e.sub]).plan \in bought
      BY <2>3 DEF Sold, Fields, PlansAreSold, Event
    <2>5. ASSUME NEW g \in Hooks PROVE HookOf(g)'
      <3>1. CASE g # h \/ hook'[g] = Idle
        <4>1. hook'[g] = Idle \/ hook'[g] = hook[g]
          BY <1>10, <3>1 DEF Receive, Answer, TypeOK
        <4> QED
          BY <2>1, <4>1, HooksSold
      <3>2. CASE g = h /\ hook'[g] # Idle
        <4>1. /\ hook'[g].event = e
              /\ hook'[g].got = Fields(subs[e.sub]) \/ hook'[g].got = e.got
          BY <1>10, <2>3, <3>2 DEF Receive, Answer, TypeOK
        <4>2. Sold(e)'
          BY <2>1, <2>3, SoldOn
        <4> QED
          BY <2>1, <2>3, <2>4, <4>1, <4>2 DEF Sold
      <3> QED
        BY <3>1, <3>2
    <2> QED
      BY <1>1, <2>1, <2>2, <2>5
  <1> QED
    BY <1>3, <1>4, <1>6, <1>7, <1>8, <1>9, <1>10 DEF Next, Handle

(* The row takes over nothing that was not sold.                           *)
LEMMA RowStep == BillingInv /\ [Next]_vars => RowIsSold'
  <1> SUFFICES ASSUME BillingInv, [Next]_vars PROVE RowIsSold'
    OBVIOUS
  <1> USE DEF BillingInv
  <1>1. org \in Organization /\ "free" \notin bought
    BY BillingAssumption DEF TypeOK, PlansAreSold
  <1>2. bought \subseteq bought'
    BY DEF Next, vars, SignUp, OtherRedeems, CreateOrganizationFromAccessCode, Invited,
       Subscribe, UpgradeCheckout, OpenCheckout, Pay, StripeChanges, Handle, Receive, Decide,
       CreateOrganizationFromCheckout, Apply, HandlerThrows, HandlerDies, AskStripe,
       DeskApplies, DeskDies
  <1>3. CASE CreateOrganizationFromAccessCode
    BY <1>1, <1>2, <1>3 DEF CreateOrganizationFromAccessCode, RowIsSold, Organization
  <1>4. ASSUME NEW h \in Hooks, CreateOrganizationFromCheckout(h) PROVE RowIsSold'
    <2>1. hook[h].got.plan \in bought
      BY <1>4 DEF CreateOrganizationFromCheckout, Idle, PlansAreSold
    <2> QED
      BY <1>1, <1>2, <1>4, <2>1 DEF CreateOrganizationFromCheckout, RowIsSold
  <1>5. ASSUME NEW h \in Hooks, Apply(h) PROVE RowIsSold'
    <2>1. hook[h] \in Handling /\ hook[h].got.plan \in bought
      BY <1>5 DEF Apply, Idle, TypeOK, PlansAreSold
    <2>2. /\ org'.rows = org.rows /\ code' = code
          /\ org'.plan = org.plan \/ org'.plan = hook[h].got.plan
      BY <1>1, <1>5, <2>1 DEF Apply, Applied, Handling, Event, Organization
    <2> QED
      BY <1>1, <1>2, <2>1, <2>2 DEF RowIsSold
  <1>6. CASE DeskApplies
    <2>1. desk.got.plan \in bought
      BY <1>6 DEF DeskApplies, PlansAreSold
    <2> QED
      BY <1>1, <1>2, <1>6, <2>1 DEF DeskApplies, RowIsSold, Organization
  <1>7. CASE OtherRedeems
    BY <1>7 DEF OtherRedeems, RowIsSold
  <1>8. CASE UNCHANGED <<org, code>>
    BY <1>2, <1>8 DEF RowIsSold
  <1> QED
    BY <1>3, <1>4, <1>5, <1>6, <1>7, <1>8 DEF Next, vars, SignUp, Invited, Subscribe,
       UpgradeCheckout, OpenCheckout, Pay, StripeChanges, Handle, Receive, Decide, HandlerThrows,
       HandlerDies, AskStripe, DeskDies

-----------------------------------------------------------------------------

(* The inductive invariant.                                                *)
THEOREM BillingInvariance == Spec => []BillingInv
  <1>1. BillingInv /\ [Next]_vars => BillingInv'
    BY TypeStep, OneStep, NothingStep, SoldStep, RowStep DEF BillingInv
  <1> QED
    BY InitHolds, <1>1, PTL DEF Spec

(* However often the event of a payment is delivered and handled, and      *)
(* whoever redeems the code or invites the account meanwhile, an account   *)
(* comes to at most one organization, and owns it (webhook/route.ts:31).   *)
THEOREM OrganizationIsOne == Spec => []OneOrganization
  BY BillingInvariance, PTL DEF BillingInv

(* The row's plan was sold to this account, or is the free one by an       *)
(* access code that nobody else has redeemed (webhook/route.ts:90).        *)
THEOREM PlanIsBought == Spec => []OnlyBoughtPlans
  <1>1. BillingInv => OnlyBoughtPlans
    BY DEF BillingInv, RowIsSold, OnlyBoughtPlans
  <1> QED
    BY <1>1, BillingInvariance, PTL

=============================================================================
