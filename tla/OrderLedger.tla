---------------------------- MODULE OrderLedger ----------------------------
(***************************************************************************)
(* What the order service promises, with every transaction, lock, failure  *)
(* and HTTP reply taken away: an order is placed in one step that takes    *)
(* what it reserves out of the stock, records who bought it and what it    *)
(* cost, and announces it; a customer is registered and announced in one   *)
(* step.  OrderService is shown to implement this module.                  *)
(***************************************************************************)
EXTENDS Integers, Sequences

CONSTANTS
  Sku,            \* the rows of inventory
  Customer,       \* the customer ids that can exist
  OrderId,        \* the order ids that can exist
  InitStock,      \* InitStock[s]: what migration 001 puts in the warehouse
  InitCustomers   \* the customers migration 001 seeds

VARIABLES
  stock,      \* stock[s]: what is left of s
  customers,  \* the registered customers
  placed,     \* the orders placed: [id, customer, total, taken]
  announced   \* the announcements in the order they were made

ledger == <<stock, customers, placed, announced>>

Order == [id : OrderId, customer : Customer, total : Nat, taken : [Sku -> Nat]]

OrderAnnounced(o, c, t) ==
  [type |-> "OrderCreated", aggregate |-> o, customer |-> c, total |-> t]

CustomerAnnounced(c) ==
  [type |-> "CustomerCreated", aggregate |-> c, customer |-> c, total |-> 0]

Init ==
  /\ stock = InitStock
  /\ customers = InitCustomers
  /\ placed = {}
  /\ announced = <<>>

\* Place order p: the stock pays for all of it or nothing happens.
Place(p) ==
  /\ \A q \in placed : q.id # p.id
  /\ p.customer \in customers
  /\ \A s \in Sku : p.taken[s] <= stock[s]
  /\ stock' = [s \in Sku |-> stock[s] - p.taken[s]]
  /\ placed' = placed \cup {p}
  /\ announced' = Append(announced, OrderAnnounced(p.id, p.customer, p.total))
  /\ UNCHANGED customers

Register(c) ==
  /\ c \notin customers
  /\ customers' = customers \cup {c}
  /\ announced' = Append(announced, CustomerAnnounced(c))
  /\ UNCHANGED <<stock, placed>>

\* The order placed is found in the next state, not enumerated: its total and
\* its quantities range over all of Nat.
Next ==
  \/ \E p \in placed' : p \in Order /\ Place(p)
  \/ \E c \in Customer : Register(c)

Spec == Init /\ [][Next]_ledger
=============================================================================
