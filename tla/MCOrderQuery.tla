---------------------------- MODULE MCOrderQuery ----------------------------
(***************************************************************************)
(* An instance of OrderQuery small enough for TLC: two orders being placed *)
(* while one reader runs.                                                  *)
(***************************************************************************)
EXTENDS OrderQuery, MCOrderService

CONSTANTS q1

MCReader == {q1}

\* Several items, the same SKU twice, and a request that is refused half-way.
MCQueryCommands == {
  Order(alice, <<Buy(book, 1), Buy(laptop, 1)>>),
  Order(alice, <<Buy(book, 1), Buy(book, 1)>>),
  Order(alice, <<Buy(book, 1), Buy(mug, 1)>>)}
=============================================================================
