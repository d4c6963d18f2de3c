----------------------------- MODULE OrderedList -----------------------------
(***************************************************************************)
(* A list that staff arrange: an organization's standard links, and, with  *)
(* the same code again, its featured testimonies. A row's place is a       *)
(* number that creating takes from a count, deleting leaves unfilled and   *)
(* moving renumbers. Several staff do so at a time.                        *)
(***************************************************************************)
EXTENDS Naturals, Sequences, FiniteSets, SequencesExt

CONSTANTS MaxRows,     \* MAX_LINKS_PER_ORGANIZATION, MAX_FEATURED_TESTIMONIES
          Staff,       \* those whose tabs have an action under way
          MaxCreated   \* bound on the rows ever created

(* A row's id is also when it was created. *)
Ids == 1..MaxCreated

VARIABLES
  rows,     \* the list's rows, by id
  created,  \* how many there have been
  request,  \* each tab's server action; its page's buttons are disabled meanwhile
  stale     \* history: those under way that another has written after they read

listVars == <<rows, created, request, stale>>

Row == [order : Nat, shown : BOOLEAN]

NoRequest == [at |-> "no"]
Done      == [at |-> "done"]

ListTypeOK ==
  /\ DOMAIN rows \subseteq Ids
  /\ \A id \in DOMAIN rows : rows[id] \in Row
  /\ created \in {0} \cup Ids
  /\ DOMAIN request = Staff
  /\ stale \subseteq Staff

ListInit ==
  /\ rows = <<>> /\ created = 0
  /\ request = [s \in Staff |-> NoRequest]
  /\ stale = {}

(* By order, then createdAt: what reordering starts from. The pages ask for *)
(* the order alone, and show rows that share one as the database pleases.  *)
Precedes(r, a, b) == r[a].order < r[b].order \/ (r[a].order = r[b].order /\ a < b)

(* At each place the row that as many precede as there are places before.  *)
Listing(r) ==
  [place \in 1..Cardinality(DOMAIN r) |->
     CHOOSE id \in DOMAIN r : Cardinality({a \in DOMAIN r : Precedes(r, a, id)}) = place - 1]

Idle(s) == request[s].at \in {"no", "done"}

(* s writes, and is done: what the others under way have read is past. *)
Crossing(s) == stale' = {other \in Staff \ {s} : ~Idle(other)}

-----------------------------------------------------------------------------

(* createActionLink: count, then create. *)
StartCreate(s) ==
  /\ Idle(s)
  /\ created < MaxCreated
  /\ Cardinality(DOMAIN rows) < MaxRows
  /\ request' = [request EXCEPT ![s] = [at |-> "creating", count |-> Cardinality(DOMAIN rows)]]
  /\ UNCHANGED <<rows, created, stale>>

CreateRow(s) ==
  /\ request[s].at = "creating"
  /\ created < MaxCreated
  /\ created' = created + 1
  /\ rows' = [id \in DOMAIN rows \cup {created + 1} |->
                IF id \in DOMAIN rows THEN rows[id]
                ELSE [order |-> request[s].count, shown |-> TRUE]]
  /\ request' = [request EXCEPT ![s] = Done]
  /\ Crossing(s)

(* The checkbox, or hide and show, from a page that may be older. *)
Toggle(s, id) ==
  /\ Idle(s) /\ id \in DOMAIN rows
  /\ rows' = [rows EXCEPT ![id].shown = ~@]
  /\ UNCHANGED <<created, request, stale>>

Delete(s, id) ==
  /\ Idle(s) /\ id \in DOMAIN rows
  /\ rows' = [i \in DOMAIN rows \ {id} |-> rows[i]]
  /\ Crossing(s)
  /\ UNCHANGED <<created, request>>

(* The arrows of a row, from a page that may be older; the transaction's   *)
(* first statement reads the list.                                         *)
StartReorder(s, id, step) ==
  /\ Idle(s) /\ id \in 1..created
  /\ request' = [request EXCEPT ![s] = [at |-> "reordering", id |-> id, step |-> step,
                                        list |-> Listing(rows),
                                        orders |-> [i \in DOMAIN rows |-> rows[i].order]]]
  /\ UNCHANGED <<rows, created, stale>>

Place(list, id) == CHOOSE i \in DOMAIN list : list[i] = id

(* list with id moved up or down by one place, if it is there and can. *)
Moved(list, id, step) ==
  IF \E i \in DOMAIN list : list[i] = id
  THEN LET i == Place(list, id)
           j == IF step = "up" THEN i - 1 ELSE i + 1
       IN IF j \in DOMAIN list THEN [list EXCEPT ![i] = list[j], ![j] = list[i]] ELSE list
  ELSE list

(* Slip: the two rows swap the numbers they have. *)
SwapOrders(s) ==
  /\ request[s].at = "reordering"
  /\ LET q  == request[s]
         to == Moved(q.list, q.id, q.step)
     IN rows' = [id \in DOMAIN rows |->
                   IF id \in Range(q.list)
                   THEN [rows[id] EXCEPT !.order = q.orders[q.list[Place(to, id)]]]
                   ELSE rows[id]]
  /\ request' = [request EXCEPT ![s] = Done]
  /\ Crossing(s)
  /\ UNCHANGED created

(* Renumbers and swaps, in one transaction: it writes the rows whose       *)
(* number changes and that are still there.                                *)
Reorder(s) ==
  /\ request[s].at = "reordering"
  /\ LET q  == request[s]
         to == Moved(q.list, q.id, q.step)
         Writes(id) == \/ q.orders[id] # Place(q.list, id) - 1
                       \/ Place(to, id) # Place(q.list, id)
     IN rows' = [id \in DOMAIN rows |->
                   IF id \in Range(q.list) /\ Writes(id)
                   THEN [rows[id] EXCEPT !.order = Place(to, id) - 1]
                   ELSE rows[id]]
  /\ request' = [request EXCEPT ![s] = Done]
  /\ Crossing(s)
  /\ UNCHANGED created

(* The action throws: a transaction changes all or nothing. *)
RequestThrows(s) ==
  /\ ~Idle(s)
  /\ request' = [request EXCEPT ![s] = NoRequest]
  /\ stale' = stale \ {s}
  /\ UNCHANGED <<rows, created>>

ListNext ==
  \E s \in Staff :
    \/ StartCreate(s) \/ CreateRow(s) \/ Reorder(s) \/ RequestThrows(s)
    \/ \E id \in Ids :
         \/ Toggle(s, id) \/ Delete(s, id)
         \/ \E step \in {"up", "down"} : StartReorder(s, id, step)

-----------------------------------------------------------------------------

(* Unless another action writes in between, moving a row swaps it with its *)
(* neighbour and nothing else, whatever creating and deleting have made of the *)
(* numbers: they "can't produce a no-op swap" (action-link-service.ts:56). *)
ArrangedAsAsked ==
  [][\A s \in Staff :
       request[s].at = "reordering" /\ request'[s] = Done /\ s \notin stale =>
         Listing(rows') = Moved(Listing(rows), request[s].id, request[s].step)]_listVars

=============================================================================
