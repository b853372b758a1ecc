----------------------------- MODULE OrderQuery -----------------------------
(***************************************************************************)
(* The readers of order-service, GET /orders/{id} and GET /inventory/{sku},*)
(* running beside OrderService.  Neither opens a transaction: each SELECT  *)
(* sees what is committed when it runs, and GetOrder runs two of them.     *)
(*                                                                         *)
(* A reader is a client that sends one GET after the other and remembers   *)
(* the orders it has been told of, by a 201 to POST /orders or by a read.  *)
(*                                                                         *)
(* The items of an answer are counted, not listed: ORDER BY sku leaves the *)
(* order of items with the same SKU open.                                  *)
(***************************************************************************)
EXTENDS OrderService

CONSTANTS
  Reader   \* the clients that read

VARIABLES
  view   \* view[q]: what reader q asked for last, and what it has been told

queryVars == <<vars, view>>

Tally(ls) == [l \in {ls[i] : i \in DOMAIN ls} |->
  Cardinality({i \in DOMAIN ls : ls[i] = l})]

NoItems == Tally(<<>>)

\* A GET by a reader that knows of some orders.
Asked(kind, of, known) ==
  [kind |-> kind, of |-> of, known |-> known, step |-> "first", rows |-> {},
   items |-> NoItems, qty |-> 0, status |-> 0, err |-> "none"]

\* It asks for an order r, for the inventory row of a name s, or for a path that
\* names neither.
Gets(known) ==
  {Asked("order", r, known) : r \in Request}
    \cup {Asked("inventory", s, known) : s \in SkuName}
    \cup {Asked("malformed", "", known)}

QueryInit == Init /\ view \in [Reader -> Gets({})]

Tell(q, answer) == view' = [view EXCEPT ![q] = answer]

\* A GET that ends without a row, for the reason e.
Answer(q, status, e) ==
  Tell(q, [view[q] EXCEPT !.step = "done", !.status = status, !.err = e])

At(q, kind, step) == view[q].kind = kind /\ view[q].step = step

\* The orders reader q can know of.
Learned(q) ==
  view[q].known \cup {r \in Request : reply[r] = 201}
    \cup {r \in Request : view[q].kind = "order" /\ view[q].of = r /\ view[q].status = 200}

\* It sends its next GET.
Ask(q) ==
  /\ view[q].step = "done"
  /\ \E get \in Gets(Learned(q)) : Tell(q, get)
  /\ UNCHANGED vars

\* No id, an id that is no uuid, or no SKU: no statement is run.
RejectPath(q) ==
  /\ At(q, "malformed", "first")
  /\ \E status \in {400, 404} : Answer(q, status, "none")
  /\ UNCHANGED vars

\* The first SELECT of GetOrder.  No row and a failed query are both a 404.
GetOrderRow(q) ==
  /\ At(q, "order", "first")
  /\ LET rows == {o \in orders : o.id = view[q].of}
     IN \/ rows # {} /\ Tell(q, [view[q] EXCEPT !.step = "second", !.rows = rows])
        \/ rows = {} /\ Answer(q, 404, "ErrNoRows")
        \/ Answer(q, 404, "database")
  /\ UNCHANGED vars

\* The second SELECT, a later statement with a snapshot of its own.
GetOrderItems(q) ==
  /\ At(q, "order", "second")
  /\ \/ Tell(q, [view[q] EXCEPT !.step = "done", !.status = 200,
                                 !.items = Tally(orderItems[view[q].of])])
     \/ Answer(q, 500, "database")
  /\ UNCHANGED vars

\* Mutant: the quantity is read once, at start-up, and answered from memory.
GetInventoryCached(q) ==
  /\ At(q, "inventory", "first")
  /\ view[q].of \in Sku
  /\ Tell(q, [view[q] EXCEPT !.step = "done", !.status = 200,
                             !.qty = InitStock[view[q].of]])
  /\ UNCHANGED vars

GetInventory(q) ==
  /\ At(q, "inventory", "first")
  /\ \/ /\ view[q].of \in Sku
        /\ Tell(q, [view[q] EXCEPT !.step = "done", !.status = 200,
                                   !.qty = stock[view[q].of]])
     \/ view[q].of \notin Sku /\ Answer(q, 404, "ErrNoRows")
     \/ Answer(q, 500, "database")
  /\ UNCHANGED vars

QueryStep(q) ==
  Ask(q) \/ RejectPath(q) \/ GetOrderRow(q) \/ GetOrderItems(q) \/ GetInventory(q)

QueryNext ==
  \/ Next /\ UNCHANGED view
  \/ \E q \in Reader : QueryStep(q)

QuerySpec == QueryInit /\ [][QueryNext]_queryVars

(***************************************************************************)
(* Properties.                                                             *)
(***************************************************************************)
\* GetOrder reads the order and its items in two statements without a
\* transaction, yet a 200 never shows an order without all of its items, or a
\* total that is not theirs: both become visible in one commit and stay.
ReadWhole == \A q \in Reader :
  view[q].kind = "order" /\ view[q].status = 200 =>
    LET r == view[q].of
    IN /\ view[q].items = Tally(Priced(cmd[r]))
       /\ \A o \in view[q].rows : o.total = Amount(Priced(cmd[r]))

\* What a client has been told stays with it over its later reads, each of which
\* runs on a connection of its own.  Once it has a 201, or has read the order, the
\* order is not missing unless the query failed, and a stock it reads leaves out
\* that order's units, with those of other orders or without them.
ReadsFollowAnswers == \A q \in Reader :
  LET v == view[q]
      s == v.of
  IN /\ v.kind = "order" /\ v.err = "ErrNoRows" => v.of \notin v.known
     /\ v.kind = "inventory" /\ v.status = 200 =>
          \E R \in SUBSET {r \in Request : Committed(r)} :
            /\ v.known \subseteq R
            /\ v.qty = InitStock[s] - SumFunction([r \in R |-> Units(orderItems[r], s)])
=============================================================================
