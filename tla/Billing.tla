------------------------------ MODULE Billing ------------------------------
(***************************************************************************)
(* How one church comes by its organization and its plan: signing up with  *)
(* an access code or through Stripe Checkout, the webhook that turns       *)
(* Stripe's events into writes of the Organization row, and the billing    *)
(* page, which changes the subscription in Stripe and then the row.        *)
(* Stripe delivers an event until it is answered, in any order; every      *)
(* handler is answered with 200, also when it has thrown.                  *)
(***************************************************************************)
EXTENDS Naturals, Sequences, SequencesExt

CONSTANTS
  Plans,       \* the paid plans that have a Stripe price
  Live,        \* Stripe's statuses a running subscription may come to have
  MaxSubs,     \* bound: checkout sessions opened
  MaxChanges,  \* bound: changes of a subscription, while all goes smoothly
  MaxRough,    \* bound: changes of a subscription otherwise
  MaxHooks     \* bound: webhook deliveries being handled at the same time

ASSUME BillingAssumption ==
  /\ "free" \notin Plans
  /\ MaxSubs \in Nat /\ MaxChanges \in Nat /\ MaxRough \in Nat /\ MaxHooks \in Nat

Subs  == 1..MaxSubs
Hooks == 1..MaxHooks
NoSub == 0

MapSubscriptionStatus(status) ==
  CASE status = "trialing"                           -> "TRIALING"
    [] status = "active"                             -> "ACTIVE"
    [] status \in {"past_due", "paused"}             -> "PAST_DUE"
    [] status \in {"canceled", "incomplete_expired"} -> "CANCELED"
    [] status = "unpaid"                             -> "UNPAID"
    [] OTHER                                         -> "INCOMPLETE"

VARIABLES
  smooth,   \* frozen: nothing throws, and events come one by one in order
  code,     \* the access code: "unused", or who redeemed it
  account,  \* the User row: "none", "coded" (signing up with the code) or "exists"
  member,   \* its OrganizationMember row: "nobody", "owner" or "elsewhere"
  org,      \* Organization: how many rows there are, and the church's own
  subs,     \* Stripe's subscriptions, from their checkout session on
  changes,  \* how often one has been changed
  mail,     \* Stripe's events that have not been answered, oldest first
  hook,     \* what each webhook invocation is doing
  desk,     \* the billing page's server action under way
  bought,   \* history: the plans Stripe has confirmed
  crossed   \* history: the webhook "met" the billing page between Stripe's answer and
            \* the page's write, or was even written "over" by it

vars == <<smooth, code, account, member, org, subs, changes, mail, hook, desk, bought,
          crossed>>

AllPlans == Plans \cup {"free"}
Statuses == {"INCOMPLETE", "TRIALING", "ACTIVE", "PAST_DUE", "CANCELED", "UNPAID"}
Billed   == [plan : AllPlans, status : Statuses, cancel : BOOLEAN]
Event    == [type : {"checkout", "updated", "deleted"}, sub : Subs, got : Billed]
Organization == [rows : Nat, sub : Subs \cup {NoSub}, plan : AllPlans, status : Statuses,
                 cancel : BOOLEAN]
Subscription == [stage : {"none", "open", "paid"}, flow : {"signup", "upgrade"}, plan : AllPlans,
                 status : Live \cup {"active", "canceled"}, cancel : BOOLEAN]
NoOrg    == [rows |-> 0, sub |-> NoSub, plan |-> "free", status |-> "INCOMPLETE",
             cancel |-> FALSE]
Idle     == [stage |-> "idle"]  \* of a webhook invocation and of the desk
Handling == [stage : {"retrieved", "create", "apply"}, event : Event, got : Billed]
AtDesk   == [kind : {"change", "cancel", "resume"}, got : Billed]

TypeOK ==
  /\ code \in {"unused", "ours", "others"}
  /\ account \in {"none", "coded", "exists"}
  /\ member \in {"nobody", "owner", "elsewhere"}
  /\ org \in Organization
  /\ subs \in [Subs -> Subscription]
  /\ changes \in Nat
  /\ mail \in Seq(Event)
  /\ hook \in [Hooks -> {Idle} \cup Handling]
  /\ desk \in {Idle} \cup AtDesk
  /\ bought \subseteq AllPlans
  /\ crossed \in {"no", "met", "over"}

Init ==
  /\ smooth \in BOOLEAN
  /\ code = "unused"
  /\ account = "none"
  /\ member = "nobody"
  /\ org = NoOrg
  /\ subs = [s \in Subs |-> [stage |-> "none", flow |-> "signup", plan |-> "free",
                             status |-> "active", cancel |-> FALSE]]
  /\ changes = 0
  /\ mail = << >>
  /\ hook = [h \in Hooks |-> Idle]
  /\ desk = Idle
  /\ bought = {}
  /\ crossed = "no"

-----------------------------------------------------------------------------
(* Signing up *)

SignUp(withCode) ==
  /\ account = "none"
  /\ withCode => code = "unused"      \* getValidAccessCode
  /\ account' = IF withCode THEN "coded" ELSE "exists"
  /\ UNCHANGED <<smooth, code, member, org, subs, changes, mail, hook, desk, bought, crossed>>

(* Somebody else redeems the code in between.                              *)
OtherRedeems ==
  /\ code = "unused" /\ account = "coded"
  /\ code' = "others"
  /\ UNCHANGED <<smooth, account, member, org, subs, changes, mail, hook, desk, bought, crossed>>

(* Slip: does not test usedAt again in the transaction. *)
CreateOrganizationAnyway ==
  /\ account = "coded"
  /\ account' = "exists"
  /\ member' = "owner"
  /\ org' = [org EXCEPT !.rows = @ + 1]
  /\ UNCHANGED <<smooth, code, subs, changes, mail, hook, desk, bought, crossed>>

(* The user is created, then organization, membership and code in one      *)
(* transaction, rolled back when the code has been claimed meanwhile.      *)
CreateOrganizationFromAccessCode ==
  /\ account = "coded"
  /\ account' = "exists"
  /\ \/ /\ code = "unused"
        /\ code' = "ours"
        /\ member' = "owner"
        /\ org' = [org EXCEPT !.rows = @ + 1]
     \/ UNCHANGED <<code, member, org>>
  /\ UNCHANGED <<smooth, subs, changes, mail, hook, desk, bought, crossed>>

(* Another organization invites the account (inviteMember). *)
Invited ==
  /\ account = "exists" /\ member = "nobody"
  /\ member' = "elsewhere"
  /\ UNCHANGED <<smooth, code, account, org, subs, changes, mail, hook, desk, bought, crossed>>

OpenCheckout(s, p, flow) ==
  /\ subs[s].stage = "none" /\ \A r \in 1..(s - 1) : subs[r].stage # "none"
  /\ subs' = [subs EXCEPT ![s].stage = "open", ![s].flow = flow, ![s].plan = p]
  /\ UNCHANGED <<smooth, code, account, member, org, changes, mail, hook, desk, bought, crossed>>

(* The plan page of the signup asks for a user, whatever they belong to by *)
(* now.                                                                    *)
Subscribe(s, p) == account = "exists" /\ OpenCheckout(s, p, "signup")

HasLiveSubscription == org.sub # NoSub /\ org.status # "CANCELED"

(* The billing page offers a checkout to those without a live subscription.*)
UpgradeCheckout(s, p) ==
  member = "owner" /\ ~HasLiveSubscription /\ OpenCheckout(s, p, "upgrade")

-----------------------------------------------------------------------------
(* Stripe *)

(* subscriptionBillingFields *)
Fields(s) == [plan |-> s.plan, status |-> MapSubscriptionStatus(s.status),
              cancel |-> s.cancel]

(* subs' is in place: its event, with the subscription as it is now. *)
Announce(type, s) ==
  mail' = Append(mail, [type |-> type, sub |-> s, got |-> Fields(subs'[s])])

Pay(s) ==
  /\ subs[s].stage = "open"
  /\ subs' = [subs EXCEPT ![s].stage = "paid"]
  /\ Announce("checkout", s)
  /\ bought' = bought \cup {subs[s].plan}
  /\ UNCHANGED <<smooth, code, account, member, org, changes, hook, desk, crossed>>

MayChange  == changes < IF smooth THEN MaxChanges ELSE MaxRough
Running(s) == subs[s].stage = "paid" /\ subs[s].status # "canceled"

(* A payment fails or succeeds after all; the period ends for one that was *)
(* to be canceled or has not been paid.                                    *)
StripeChanges(s) ==
  /\ Running(s)
  /\ MayChange
  /\ changes' = changes + 1
  /\ \/ /\ \E status \in Live \ {subs[s].status} :
             subs' = [subs EXCEPT ![s].status = status]
        /\ Announce("updated", s)
     \/ /\ subs[s].cancel \/ subs[s].status # "active"
        /\ subs' = [subs EXCEPT ![s].status = "canceled"]
        /\ Announce("deleted", s)
  /\ UNCHANGED <<smooth, code, account, member, org, hook, desk, bought, crossed>>

-----------------------------------------------------------------------------
(* The webhook *)

FirstIdle(h) == hook[h] = Idle /\ \A g \in 1..(h - 1) : hook[g] # Idle

Without(e) == LET at == {k \in 1..Len(mail) : mail[k] = e} IN
              IF at = {} THEN mail ELSE RemoveAt(mail, CHOOSE k \in at : \A j \in at : k <= j)

(* The handler is over: answered with 200, or the answer gets lost and the *)
(* event comes again.                                                      *)
Answer(h, e) ==
  /\ hook' = [hook EXCEPT ![h] = Idle]
  /\ mail' \in {Without(e), mail}

(* Slip: answers as soon as the event is in, and works afterwards. *)
ReceiveAnswering(h, k) ==
  LET e == mail[k] IN
  /\ FirstIdle(h)
  /\ smooth => k = 1 /\ \A g \in Hooks : hook[g] = Idle
  /\ hook' = [hook EXCEPT ![h] =
       [stage |-> IF e.type = "checkout" THEN "retrieved" ELSE "apply", event |-> e,
        got |-> IF e.type = "checkout" THEN Fields(subs[e.sub]) ELSE e.got]]
  /\ mail' = Without(e)
  /\ UNCHANGED <<smooth, code, account, member, org, subs, changes, desk, bought, crossed>>

(* checkout.session.completed retrieves the subscription as it is now; the *)
(* other two carry it as it was, and look up whose it is.                  *)
Receive(h, k) ==
  LET e == mail[k] IN
  /\ FirstIdle(h)
  /\ smooth => k = 1 /\ \A g \in Hooks : hook[g] = Idle
  /\ IF e.type = "checkout" \/ org.sub = e.sub
     THEN /\ hook' = [hook EXCEPT ![h] =
               [stage |-> IF e.type = "checkout" THEN "retrieved" ELSE "apply", event |-> e,
                got |-> IF e.type = "checkout" THEN Fields(subs[e.sub]) ELSE e.got]]
          /\ UNCHANGED mail
     ELSE Answer(h, e)
  /\ UNCHANGED <<smooth, code, account, member, org, subs, changes, desk, bought, crossed>>

(* The tests against repeated deliveries. *)
Decide(h) ==
  LET e == hook[h].event
      signup == subs[e.sub].flow = "signup" IN
  /\ hook[h].stage = "retrieved"
  /\ IF (signup /\ member # "nobody") \/ (~signup /\ org.sub = e.sub)
     THEN Answer(h, e)
     ELSE /\ hook' = [hook EXCEPT ![h].stage = IF signup THEN "create" ELSE "apply"]
          /\ UNCHANGED mail
  /\ UNCHANGED <<smooth, code, account, member, org, subs, changes, desk, bought, crossed>>

(* Slip: the row in one statement, the membership, which alone is unique,  *)
(* in another.                                                             *)
CreateOrganizationThenMember(h) ==
  LET e == hook[h].event  got == hook[h].got IN
  /\ hook[h].stage = "create"
  /\ org' = [rows |-> org.rows + 1, sub |-> e.sub, plan |-> got.plan,
             status |-> got.status, cancel |-> FALSE]
  /\ member' = IF member = "nobody" THEN "owner" ELSE member
  /\ Answer(h, e)
  /\ UNCHANGED <<smooth, code, account, subs, changes, desk, bought, crossed>>

(* Organization and membership in one transaction: an account has at most  *)
(* one membership (@unique), so that a second one rolls both back, throws, *)
(* and is answered all the same.                                           *)
CreateOrganizationFromCheckout(h) ==
  LET e == hook[h].event  got == hook[h].got IN
  /\ hook[h].stage = "create"
  /\ IF member = "nobody"
     THEN /\ org' = [rows |-> org.rows + 1, sub |-> e.sub, plan |-> got.plan,
                     status |-> got.status, cancel |-> FALSE]
          /\ member' = "owner"
     ELSE UNCHANGED <<org, member>>
  /\ Answer(h, e)
  /\ UNCHANGED <<smooth, code, account, subs, changes, desk, bought, crossed>>

(* Slip: takes over plan and cancellation, and forgets the status. *)
AppliedWithoutStatus(e, got) ==
  CASE e.type = "checkout" -> [org EXCEPT !.sub = e.sub, !.plan = got.plan,
                                          !.status = got.status, !.cancel = got.cancel]
    [] e.type = "updated"  -> [org EXCEPT !.plan = got.plan, !.cancel = got.cancel]
    [] e.type = "deleted"  -> [org EXCEPT !.cancel = FALSE]

(* What an event makes of the row. *)
Applied(e, got) ==
  CASE e.type = "checkout" -> [org EXCEPT !.sub = e.sub, !.plan = got.plan,
                                          !.status = got.status, !.cancel = got.cancel]
    [] e.type = "updated"  -> [org EXCEPT !.plan = got.plan, !.status = got.status,
                                          !.cancel = got.cancel]
    [] e.type = "deleted"  -> [org EXCEPT !.status = "CANCELED", !.cancel = FALSE]

Apply(h) ==
  /\ hook[h].stage = "apply"
  /\ org' = Applied(hook[h].event, hook[h].got)
  /\ crossed' = IF desk = Idle THEN "no" ELSE "met"
  /\ Answer(h, hook[h].event)
  /\ UNCHANGED <<smooth, code, account, member, subs, changes, desk, bought>>

(* The catch block: answered with 200 too. *)
HandlerThrows(h) ==
  /\ ~smooth /\ hook[h] # Idle
  /\ Answer(h, hook[h].event)
  /\ UNCHANGED <<smooth, code, account, member, org, subs, changes, desk, bought, crossed>>

HandlerDies(h) ==
  /\ hook[h] # Idle
  /\ hook' = [hook EXCEPT ![h] = Idle]
  /\ UNCHANGED <<smooth, code, account, member, org, subs, changes, mail, desk, bought, crossed>>

-----------------------------------------------------------------------------
(* The billing page *)

(* Slip: writes the plan of the form, and asks Stripe afterwards. *)
EagerlyAtDesk(kind, p) ==
  /\ desk = Idle /\ member = "owner" /\ org.sub # NoSub
  /\ Running(org.sub) /\ MayChange
  /\ org' = IF kind = "change" THEN [org EXCEPT !.plan = p] ELSE org
  /\ UNCHANGED <<smooth, code, account, member, subs, changes, mail, hook, desk, bought, crossed>>

(* changePlanAction, cancelSubscriptionAction, resumeSubscriptionAction:   *)
(* the subscription in Stripe first, which refuses one that is over...     *)
AskStripe(kind, p) ==
  LET s == org.sub IN
  /\ desk = Idle /\ member = "owner" /\ s # NoSub
  /\ Running(s) /\ MayChange
  /\ changes' = changes + 1
  /\ subs' = [subs EXCEPT ![s].cancel = (kind = "cancel"),
                          ![s].plan = IF kind = "change" THEN p ELSE @]
  /\ Announce("updated", s)
  /\ bought' = bought \cup {subs'[s].plan}
  /\ desk' = [kind |-> kind, got |-> Fields(subs'[s])]
  /\ UNCHANGED <<smooth, code, account, member, org, hook, crossed>>

(* ...then the row, from Stripe's answer, whatever webhooks wrote since.   *)
DeskApplies ==
  /\ desk # Idle
  /\ org' = IF desk.kind = "change"
            THEN [org EXCEPT !.plan = desk.got.plan, !.status = desk.got.status,
                             !.cancel = desk.got.cancel]
            ELSE [org EXCEPT !.cancel = desk.got.cancel]
  /\ desk' = Idle
  /\ crossed' = IF crossed = "met" /\ org' # org THEN "over" ELSE "no"
  /\ UNCHANGED <<smooth, code, account, member, subs, changes, mail, hook, bought>>

(* What api/signup/status answers /signup/finishing. *)
Ready == member # "nobody"

DeskDies ==
  /\ desk # Idle
  /\ desk' = Idle
  /\ crossed' = IF crossed = "met" THEN "no" ELSE crossed
  /\ UNCHANGED <<smooth, code, account, member, org, subs, changes, mail, hook, bought>>

-----------------------------------------------------------------------------

Handle(h) == \/ \E k \in 1..Len(mail) : Receive(h, k)
             \/ Decide(h)
             \/ CreateOrganizationFromCheckout(h)
             \/ Apply(h)

Next ==
  \/ \E withCode \in BOOLEAN : SignUp(withCode)
  \/ OtherRedeems
  \/ CreateOrganizationFromAccessCode
  \/ Invited
  \/ \E s \in Subs, p \in Plans : Subscribe(s, p) \/ UpgradeCheckout(s, p)
  \/ \E s \in Subs : Pay(s) \/ StripeChanges(s)
  \/ \E h \in Hooks : Handle(h) \/ HandlerThrows(h) \/ HandlerDies(h)
  \/ \E kind \in {"change", "cancel", "resume"}, p \in Plans : AskStripe(kind, p)
  \/ DeskApplies
  \/ DeskDies

(* Stripe retries an event until it is answered; a request ends. *)
Fairness ==
  /\ SF_vars(\E h \in Hooks, k \in 1..Len(mail) : Receive(h, k))
  /\ SF_vars(\E h \in Hooks : Decide(h))
  /\ SF_vars(\E h \in Hooks : Handle(h) /\ mail' # mail)
  /\ WF_vars(DeskApplies \/ DeskDies)

Spec == Init /\ [][Next]_vars /\ Fairness

-----------------------------------------------------------------------------

(* An account comes to at most one organization, and owns the one it got,  *)
(* however often the event of its payment is delivered and handled at the  *)
(* same time, and whoever redeems the code or invites the account          *)
(* meanwhile (webhook/route.ts:31, organization-service.ts:52).            *)
OneOrganization == org.rows <= 1 /\ (org.rows = 1 <=> member = "owner")

(* The row's plan is one that Stripe has sold this account, or the free    *)
(* one by an access code that nobody else has redeemed.                    *)
OnlyBoughtPlans ==
  org.rows = 1 => IF org.plan = "free" THEN code = "ours" ELSE org.plan \in bought

(* While nothing throws, the page that polls after a signup has been paid  *)
(* comes to an end: /signup/finishing has no other way out, and no time    *)
(* limit.                                                                  *)
EventuallyReady ==
  \A s \in Subs : smooth /\ subs[s].stage = "paid" /\ subs[s].flow = "signup"
                    ~> Ready

InSync ==
  org.sub # NoSub =>
    LET s == Fields(subs[org.sub]) IN
    /\ org.status = s.status
    /\ s.status # "CANCELED" => org.plan = s.plan /\ org.cancel = s.cancel

(* While nothing throws and events come in order, the row is at last what  *)
(* Stripe says of the subscription it names, also when answers get lost,   *)
(* handlers die and the billing page never comes to write the row; unless  *)
(* the last write of all was the billing page's and undid a webhook's: one *)
(* handled between Stripe's answer (billing/page.tsx:90) and the page's    *)
(* own write of that answer (:97), which is then older than the row. The   *)
(* row stays wrong then, an unpaid subscription ACTIVE, until some event   *)
(* comes.                                                                  *)
EventuallyInSync == smooth => <>[](InSync \/ crossed = "over")

=============================================================================
