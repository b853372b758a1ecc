--------------------------- MODULE MCOrderService ---------------------------
(***************************************************************************)
(* Instances of OrderService small enough for TLC.                         *)
(***************************************************************************)
EXTENDS OrderService, TLC

CONSTANTS r1, r2, r3, book, laptop, mug, alice, bob, nobody

MCRequest2 == {r1, r2}
MCRequest3 == {r1, r2, r3}
MCSkuName == {book, laptop, mug}
MCSku == {book, laptop}
MCCustomer == {alice, bob}
MCOneCustomer == {alice}
MCInitCustomers == {alice}
MCInitStock == (book :> 3) @@ (laptop :> 1)
MCPrice == (book :> 2) @@ (laptop :> 5)

Buy(s, q) == [sku |-> s, qty |-> q]
Order(c, is) == [customer |-> c, items |-> is]

\* One body for every way the closure can end: served, served from two rows,
\* the same SKU twice, too much at the second item, a bad quantity after a good
\* one, an SKU without a row, a quantity and a total beyond INT4, a customer who
\* may not be registered yet, and the two bodies validation refuses.
MCEveryCommand == {
  Order(alice, <<Buy(book, 2)>>),
  Order(alice, <<Buy(book, 2), Buy(laptop, 1)>>),
  Order(alice, <<Buy(laptop, 1), Buy(book, 1)>>),
  Order(alice, <<Buy(book, 1), Buy(book, 1)>>),
  Order(alice, <<Buy(book, 2), Buy(book, 2)>>),
  Order(alice, <<Buy(book, 1), Buy(laptop, 0)>>),
  Order(alice, <<Buy(book, 1), Buy(mug, 1)>>),
  Order(alice, <<Buy(book, 1), Buy(book, 99)>>),
  Order(alice, <<Buy(laptop, 1), Buy(book, 3)>>),
  Order(bob, <<Buy(book, 1)>>),
  Order(nobody, <<Buy(book, 1)>>),
  Order(alice, <<>>)}

\* Bodies that meet in the same rows, in both orders.
MCLockCommands == {
  Order(alice, <<Buy(book, 2), Buy(laptop, 1)>>),
  Order(alice, <<Buy(laptop, 1), Buy(book, 2)>>)}

\* Requests are interchangeable: of the ways to hand out the bodies, one of each
\* renaming, in which those that want the book first come first.
BookFirst(r) == cmd[r].items[1].sku = book

MCLockInit ==
  /\ Init
  /\ (BookFirst(r2) => BookFirst(r1)) /\ (BookFirst(r3) => BookFirst(r2))

MCLockSpec == MCLockInit /\ [][Next]_vars /\ Fairness
=============================================================================
