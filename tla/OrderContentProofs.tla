------------------------- MODULE OrderContentProofs -------------------------
(***************************************************************************)
(* What a committed order contains, for every set of requests, catalogue   *)
(* and price: all of what its client asked for, once, for the right total, *)
(* announced by one event behind its customer's, and paid for by the       *)
(* stock.  And why a refused one was refused.                              *)
(*                                                                         *)
(* The invariants of OrderServiceProofs say which locks a transaction has  *)
(* and how far its handler is.  Contents adds what its rows say: what the  *)
(* closure has collected is a prefix of the command, the server's share of *)
(* the stock is the sum over that prefix, and the tables are the union of  *)
(* the committed prefixes, which are complete.                             *)
(***************************************************************************)
EXTENDS OrderQuery, OrderServiceProofs, SumLemmas

\* The transaction exists, or has taken effect.
Counts(r) == srv[r] \in {"open", "committing", "committed"}

\* The closure has reserved every item of the command.
Complete(r) ==
  pc[r] \in {"create", "items", "publish", "commit"} \/ srv[r] \in {"committing", "committed"}

\* What the closure has collected.
LinesOK(r) ==
  /\ Len(lines[r]) <= Len(cmd[r].items)
  /\ \A i \in 1..Len(lines[r]) : lines[r][i] = Priced(cmd[r])[i]
  /\ Complete(r) => Len(lines[r]) = Len(cmd[r].items)
  /\ total[r] = Amount(lines[r])
  /\ Counts(r) => \A s \in Sku : reserved[r][s] = Units(lines[r], s)

\* The rows of order_items, before and after the commit.
ItemsOK(r) ==
  /\ pc[r] = "items" =>
       \A i \in 1..Len(writes[r].items) : writes[r].items[i] = lines[r][i]
  /\ pc[r] \in {"publish", "commit"} \/ srv[r] = "committing" => writes[r].items = lines[r]
  /\ orderItems[r] = IF Committed(r) THEN lines[r] ELSE <<>>

\* The row of orders and the event of the outbox.
RowsOf(r) == {o \in orders : o.id = r}

RowOK(r) == RowsOf(r) = IF Committed(r) THEN {OrderRow(r)} ELSE {}

EventOK(r) ==
  IF Committed(r)
  THEN \E i \in DOMAIN outbox : Announced(r) = {i} /\ outbox[i] = OrderCreated(r)
  ELSE Announced(r) = {}

\* The stock is short of an SKU the request asks for.
Short(r) == \E i \in DOMAIN cmd[r].items :
  LET s == cmd[r].items[i].sku
  IN s \notin Sku \/ stock[s] < Demand(cmd[r], s)

RefusalOK(r) ==
  /\ reply[r] = 409 => err[r] = "ErrInsufficientInventory"
  /\ err[r] = "ErrInsufficientInventory" => Short(r)

\* A registered customer was seeded or has been announced.
Introduced(c) == c \in InitCustomers \/ \E j \in DOMAIN outbox : outbox[j] = CustomerCreated(c)

OrderOK(r) == LinesOK(r) /\ ItemsOK(r) /\ RowOK(r) /\ EventOK(r) /\ RefusalOK(r)

Contents ==
  /\ \A r \in Request : OrderOK(r)
  /\ \A c \in customers : Introduced(c)
  /\ CustomerFirst
  /\ StockConserved

(***************************************************************************)
(* Quantities.                                                             *)
(***************************************************************************)
\* A list of lines has finitely many positions.
LEMMA Positions ==
  ASSUME NEW T, NEW ls \in Seq(T)
  PROVE  /\ DOMAIN ls = 1..Len(ls) /\ Len(ls) \in Nat
         /\ IsFiniteSet(DOMAIN ls)
         /\ \A i \in DOMAIN ls : ls[i] \in T
  <1>1. DOMAIN ls = 1..Len(ls) /\ Len(ls) \in Nat /\ \A i \in DOMAIN ls : ls[i] \in T
    OBVIOUS
  <1> QED
    BY <1>1, FS_Interval

\* Lists with the same lines are the same.
LEMMA SameLines ==
  ASSUME NEW a, NEW b, a \in Seq(Line), b \in Seq(Line), Len(a) = Len(b),
         \A i \in 1..Len(a) : a[i] = b[i]
  PROVE  a = b
  OBVIOUS

\* The quantities of one SKU, and the prices, line by line.
UnitsIn(ls, s) == [i \in DOMAIN ls |-> IF ls[i].sku = s THEN ls[i].qty ELSE 0]
PricesIn(ls) == [i \in DOMAIN ls |-> ls[i].price * ls[i].qty]

\* They are natural numbers.
LEMMA InType ==
  ASSUME NEW ls \in Seq(Line), NEW s
  PROVE  UnitsIn(ls, s) \in [DOMAIN ls -> Nat] /\ PricesIn(ls) \in [DOMAIN ls -> Nat]
  <1>1. \A i \in DOMAIN ls : ls[i].qty \in Nat /\ ls[i].price \in Nat
    <2>1. \A i \in DOMAIN ls : ls[i] \in Line
      BY Positions
    <2> QED
      BY <2>1 DEF Line
  <1>2. \A x, y \in Nat : x * y \in Nat
    OBVIOUS
  <1> QED
    BY <1>1, <1>2 DEF UnitsIn, PricesIn

\* Sums over no lines are nothing.
LEMMA SumsEmpty == (\A s : Units(<<>>, s) = 0) /\ Amount(<<>>) = 0
  <1>1. <<>> \in Seq(Line) /\ DOMAIN (<<>>) = {}
    OBVIOUS
  <1>2. ASSUME NEW s PROVE SumFunction(UnitsIn(<<>>, s)) = 0
    BY <1>1, InType, SumZero, FS_EmptySet
  <1>3. SumFunction(PricesIn(<<>>)) = 0
    BY <1>1, InType, SumZero, FS_EmptySet
  <1> QED
    BY <1>2, <1>3 DEF Units, Amount, UnitsIn, PricesIn

\* Units of an SKU are a natural number,
LEMMA UnitsType ==
  ASSUME NEW ls \in Seq(Line), NEW s
  PROVE  Units(ls, s) \in Nat
  <1>1. SumFunction(UnitsIn(ls, s)) \in Nat
    BY InType, Positions, SumType
  <1> QED
    BY <1>1 DEF Units, UnitsIn

\* and one more line adds what it says.
LEMMA SumsAppend ==
  ASSUME NEW ls, ls \in Seq(Line), NEW l \in Line, NEW s
  PROVE  /\ Units(Append(ls, l), s) = Units(ls, s) + IF l.sku = s THEN l.qty ELSE 0
         /\ Amount(Append(ls, l)) = Amount(ls) + l.price * l.qty
  <1> DEFINE n == Len(ls) + 1
             ms == Append(ls, l)
  <1>1. /\ DOMAIN ls = 1..Len(ls) /\ IsFiniteSet(DOMAIN ls) /\ Len(ls) \in Nat
    BY Positions
  <1>2. /\ ms \in Seq(Line) /\ DOMAIN ms = DOMAIN ls \cup {n} /\ n \notin DOMAIN ls
        /\ ms[n] = l /\ \A i \in DOMAIN ls : ms[i] = ls[i]
    BY <1>1
  <1> HIDE DEF ms, n
  <1>3. /\ UnitsIn(ls, s) \in [DOMAIN ls -> Nat]
        /\ UnitsIn(ms, s) \in [DOMAIN ls \cup {n} -> Nat]
        /\ PricesIn(ls) \in [DOMAIN ls -> Nat]
        /\ PricesIn(ms) \in [DOMAIN ls \cup {n} -> Nat]
    BY <1>2, InType
  <1>4. /\ \A i \in DOMAIN ls : UnitsIn(ms, s)[i] = UnitsIn(ls, s)[i]
        /\ \A i \in DOMAIN ls : PricesIn(ms)[i] = PricesIn(ls)[i]
        /\ UnitsIn(ms, s)[n] = IF l.sku = s THEN l.qty ELSE 0
        /\ PricesIn(ms)[n] = l.price * l.qty
    BY <1>2 DEF UnitsIn, PricesIn
  <1> DEFINE D == DOMAIN ls
  <1>8. IsFiniteSet(D) /\ n \notin D
    BY <1>1, <1>2
  <1>9. UnitsIn(ls, s) \in [D -> Nat] /\ UnitsIn(ms, s) \in [D \cup {n} -> Nat]
        /\ \A i \in D : UnitsIn(ms, s)[i] = UnitsIn(ls, s)[i]
    BY <1>3, <1>4
  <1>10. PricesIn(ls) \in [D -> Nat] /\ PricesIn(ms) \in [D \cup {n} -> Nat]
        /\ \A i \in D : PricesIn(ms)[i] = PricesIn(ls)[i]
    BY <1>3, <1>4
  <1> HIDE DEF D
  <1>5. SumFunction(UnitsIn(ms, s)) = SumFunction(UnitsIn(ls, s)) + UnitsIn(ms, s)[n]
    BY ONLY <1>8, <1>9, SumExtend
  <1>6. SumFunction(PricesIn(ms)) = SumFunction(PricesIn(ls)) + PricesIn(ms)[n]
    BY ONLY <1>8, <1>10, SumExtend
  <1>7. /\ Units(ms, s) = SumFunction(UnitsIn(ms, s)) /\ Amount(ms) = SumFunction(PricesIn(ms))
        /\ Units(ls, s) = SumFunction(UnitsIn(ls, s)) /\ Amount(ls) = SumFunction(PricesIn(ls))
    BY DEF Units, Amount, UnitsIn, PricesIn
  <1> QED
    BY <1>4, <1>5, <1>6, <1>7 DEF ms

\* What a request has reserved, and the item it asks for next, are part of its
\* demand.
LEMMA DemandCovers ==
  ASSUME NEW c \in Command, NEW ls, ls \in Seq(Line), Len(ls) < Len(c.items),
         \A i \in 1..Len(ls) : ls[i] = Priced(c)[i],
         NEW s, s = c.items[Len(ls) + 1].sku, c.items[Len(ls) + 1].qty > 0
  PROVE  /\ Len(ls) + 1 \in DOMAIN c.items
         /\ Demand(c, s) \in Nat
         /\ Units(ls, s) + c.items[Len(ls) + 1].qty <= Demand(c, s)
  <1> DEFINE n == Len(ls) + 1
             g == [i \in DOMAIN c.items |->
                     IF c.items[i].sku = s /\ c.items[i].qty > 0 THEN c.items[i].qty ELSE 0]
             h == [i \in 1..n |-> g[i]]
             f == UnitsIn(ls, s)
  <1>1. /\ c.items \in Seq(Item) /\ DOMAIN c.items = 1..Len(c.items) /\ Len(c.items) \in Nat
        /\ IsFiniteSet(DOMAIN c.items)
        /\ \A i \in DOMAIN c.items : c.items[i] \in Item
    BY CommandType, Positions
  <1>2. /\ DOMAIN ls = 1..Len(ls) /\ IsFiniteSet(DOMAIN ls) /\ Len(ls) \in Nat
        /\ f \in [DOMAIN ls -> Nat]
        /\ \A i \in DOMAIN ls : ls[i] \in Line
    BY Positions, InType
  <1>3. /\ n \in DOMAIN c.items /\ 1..n \subseteq DOMAIN c.items
        /\ 1..n = DOMAIN ls \cup {n} /\ n \notin DOMAIN ls /\ IsFiniteSet(1..n)
    <2>1. n \in Nat /\ 1 \in Int
      BY <1>2
    <2>2. IsFiniteSet(1..n)
      BY <2>1, FS_Interval
    <2> QED
      BY <1>1, <1>2, <2>2
  <1>4. g \in [DOMAIN c.items -> Nat]
    <2>1. \A i \in DOMAIN c.items : c.items[i].qty \in Int
      BY <1>1 DEF Item
    <2> QED
      BY <2>1
  <1>5. h \in [DOMAIN ls \cup {n} -> Nat]
    BY <1>3, <1>4
  <1>6. h[n] = c.items[n].qty
    BY <1>3
  <1>7. \A i \in DOMAIN ls : h[i] = f[i]
    <2> SUFFICES ASSUME NEW i \in DOMAIN ls PROVE h[i] = f[i]
      OBVIOUS
    <2>1. i \in 1..n /\ i \in DOMAIN c.items
      BY <1>3
    <2>2. ls[i].sku = c.items[i].sku /\ ls[i].qty = c.items[i].qty
      <3>1. Priced(c)[i] = [sku |-> c.items[i].sku, qty |-> c.items[i].qty,
                            price |-> Price[c.items[i].sku]]
        BY <2>1 DEF Priced
      <3>2. ls[i] = Priced(c)[i]
        BY <1>2
      <3> QED
        BY <3>1, <3>2
    <2>3. ls[i].qty \in Nat
      BY <1>2 DEF Line
    <2> QED
      BY <2>1, <2>2, <2>3 DEF UnitsIn
  <1>8. SumFunction(h) = SumFunction(f) + h[n]
    <2>1. n \notin DOMAIN ls /\ IsFiniteSet(DOMAIN ls) /\ f \in [DOMAIN ls -> Nat]
      BY <1>2, <1>3
    <2> DEFINE D == DOMAIN ls
    <2>2. /\ n \notin D /\ IsFiniteSet(D) /\ f \in [D -> Nat]
          /\ h \in [D \cup {n} -> Nat] /\ \A i \in D : h[i] = f[i]
      BY <1>5, <1>7, <2>1
    <2> HIDE DEF h, f, n, D
    <2> QED
      BY ONLY <2>2, SumExtend
  <1>9. SumFunction(h) <= SumFunction(g)
    <2>1. \A i \in 1..n : h[i] <= g[i]
      BY <1>3, <1>4
    <2>2. h \in [1..n -> Nat]
      BY <1>3, <1>5
    <2> HIDE DEF h, g, n
    <2> QED
      BY <1>1, <1>3, <1>4, <2>1, <2>2, SumLeq
  <1>10. SumFunction(g) \in Nat
    <2> HIDE DEF g
    <2> QED
      BY <1>1, <1>4, SumType
  <1>11. Demand(c, s) = SumFunction(g) /\ Units(ls, s) = SumFunction(f)
    BY DEF Demand, Units, UnitsIn
  <1> QED
    BY <1>3, <1>6, <1>8, <1>9, <1>10, <1>11

\* Demand is a natural number.
LEMMA DemandType ==
  ASSUME NEW c \in Command, NEW s
  PROVE  Demand(c, s) \in Nat
  <1> DEFINE g == [i \in DOMAIN c.items |->
                    IF c.items[i].sku = s /\ c.items[i].qty > 0 THEN c.items[i].qty ELSE 0]
  <1>1. /\ IsFiniteSet(DOMAIN c.items)
        /\ \A i \in DOMAIN c.items : c.items[i] \in Item
    BY CommandType, Positions
  <1>2. \A i \in DOMAIN c.items : c.items[i].qty \in Int
    BY <1>1 DEF Item
  <1>3. g \in [DOMAIN c.items -> Nat]
    BY <1>2
  <1>4. Demand(c, s) = SumFunction(g)
    BY DEF Demand
  <1> HIDE DEF g
  <1> QED
    BY <1>1, <1>3, <1>4, SumType

(***************************************************************************)
(* What the closure has collected.                                         *)
(***************************************************************************)
\* A step of a request neither changes its command nor, but for the commit, the
\* tables or whether it has committed; what a committed one collected stays.
LEMMA OwnStep ==
  ASSUME IInv, NEW r \in Request, StepOf(r)
  PROVE  /\ cmd' = cmd
         /\ ~ServerCommits(r) => UNCHANGED tables /\ (Committed(r)' <=> Committed(r))
         /\ Committed(r) => lines'[r] = lines[r] /\ total'[r] = total[r]
         /\ ServerCommits(r) => UNCHANGED handler
  <1>1. TypeOK /\ RequestOK(r)
    BY DEF IInv
  <1>2. cmd' = cmd
    BY DEF StepOf, RejectBody, Receive, Begin, BeginFails, Reserve, ReserveInvalid,
       ReserveInsufficient, ServerRefuses, CreateOrder, CreateItem, PublishOrderCreated,
       Commit, CommitReturns, CommitReplyLost, Rollback, RollbackLost, ServerCommits,
       ServerAborts, StatementLost, Panics, Fail, Respond, Goto, handler
  <1>3. ~ServerCommits(r) => UNCHANGED tables
    BY DEF StepOf, RejectBody, Receive, Begin, BeginFails, Reserve, ReserveInvalid,
       ReserveInsufficient, ServerRefuses, CreateOrder, CreateItem, PublishOrderCreated,
       Commit, CommitReturns, CommitReplyLost, Rollback, RollbackLost, ServerAborts,
       StatementLost, Panics, tables
  <1>4. ~ServerCommits(r) => (Committed(r)' <=> Committed(r))
    BY <1>1 DEF StepOf, RejectBody, Receive, Begin, BeginFails, Reserve, ReserveInvalid,
       ReserveInsufficient, ServerRefuses, CreateOrder, CreateItem, PublishOrderCreated,
       Commit, CommitReturns, CommitReplyLost, Rollback, RollbackLost, ServerAborts,
       StatementLost, Panics, Discard, server, Committed, TypeOK, RequestOK, SessionOK,
       StatementSteps, AtItem
  <1>5. Committed(r) => lines'[r] = lines[r] /\ total'[r] = total[r]
    BY <1>1 DEF StepOf, RejectBody, Receive, Begin, BeginFails, Reserve, ReserveInvalid,
       ReserveInsufficient, ServerRefuses, CreateOrder, CreateItem, PublishOrderCreated,
       Commit, CommitReturns, CommitReplyLost, Rollback, RollbackLost, ServerCommits,
       ServerAborts, StatementLost, Panics, Fail, Respond, handler, Committed, AtItem
  <1> QED
    BY <1>2, <1>3, <1>4, <1>5 DEF ServerCommits

\* What the closure has collected survives a step that collects nothing.
LEMMA LinesStill ==
  ASSUME NEW r \in Request, LinesOK(r), cmd'[r] = cmd[r], lines'[r] = lines[r],
         total'[r] = total[r], Complete(r)' => Complete(r),
         Counts(r)' => Counts(r) /\ reserved'[r] = reserved[r]
  PROVE  LinesOK(r)'
  BY DEF LinesOK

\* A Reserve collects the next item.
LEMMA LinesReserve ==
  ASSUME IInv, NEW r \in Request, LinesOK(r), Reserve(r)
  PROVE  LinesOK(r)'
  <1> DEFINE i == NextItem(r)
             l == [sku |-> i.sku, qty |-> i.qty, price |-> Price[i.sku]]
             n == Len(lines[r])
  <1>1. /\ TypeOK /\ RequestOK(r) /\ pc[r] = "reserve" /\ srv[r] = "open"
        /\ n < Len(cmd[r].items)
    BY DEF IInv, Reserve, AtItem, RequestOK, ProgressOK
  <1>2. i.sku \in Sku /\ i.qty \in Nat
    BY <1>1, ItemType DEF Reserve, Representable, Available, Item
  <1>3. lines[r] \in Seq(Line) /\ n \in Nat /\ cmd[r] \in Command
    BY <1>1 DEF TypeOK
  <1>4. cmd[r].items \in Seq(Item) /\ Len(cmd[r].items) \in Nat
        /\ DOMAIN cmd[r].items = 1..Len(cmd[r].items)
    BY <1>3, CommandType, Positions
  <1>5. l \in Line
    BY <1>2, ConstantsOK DEF Line
  <1>6. lines'[r] = Append(lines[r], l) /\ cmd'[r] = cmd[r] /\ srv'[r] = "open"
    BY <1>1 DEF Reserve, TypeOK
  <1>7. total'[r] = total[r] + Price[i.sku] * i.qty
    BY <1>1 DEF Reserve, TypeOK
  <1>8. reserved'[r] = [reserved[r] EXCEPT ![i.sku] = @ + i.qty]
    BY <1>1 DEF Reserve, TypeOK
  <1>9. pc'[r] = IF n + 1 = Len(cmd[r].items) THEN "create" ELSE "reserve"
    BY <1>1 DEF Reserve, Goto, TypeOK
  <1>10. Len(lines'[r]) = n + 1 /\ lines'[r][n + 1] = l
         /\ \A j \in 1..n : lines'[r][j] = lines[r][j]
    <2> HIDE DEF l
    <2> QED
      BY <1>3, <1>5, <1>6
  <1>11. Priced(cmd[r])[n + 1] = l
    <2>1. n + 1 \in DOMAIN cmd[r].items
      BY <1>1, <1>3, <1>4
    <2>2. i = cmd[r].items[n + 1]
      BY DEF NextItem
    <2> HIDE DEF i, n
    <2> QED
      BY <2>1, <2>2 DEF Priced
  <1>12. \A j \in 1..(n + 1) : lines'[r][j] = Priced(cmd[r])[j]
    <2>1. \A j \in 1..n : lines[r][j] = Priced(cmd[r])[j]
      BY DEF LinesOK
    <2> HIDE DEF l, n
    <2> TAKE j \in 1..(n + 1)
    <2>2. CASE j = n + 1
      BY <1>10, <1>11, <2>2
    <2>3. CASE j \in 1..n
      BY <1>10, <2>1, <2>3
    <2> QED
      BY <1>3, <2>2, <2>3
  <1>13. Complete(r)' => n + 1 = Len(cmd[r].items)
    BY <1>6, <1>9 DEF Complete
  <1>14. total'[r] = Amount(lines'[r])
    <2>1. total[r] = Amount(lines[r])
      BY DEF LinesOK
    <2>2. Amount(Append(lines[r], l)) = Amount(lines[r]) + l.price * l.qty
      BY <1>3, <1>5, SumsAppend
    <2> QED
      BY <1>6, <1>7, <2>1, <2>2
  <1>15. \A s \in Sku : reserved'[r][s] = Units(lines'[r], s)
    <2> SUFFICES ASSUME NEW s \in Sku PROVE reserved'[r][s] = Units(lines'[r], s)
      OBVIOUS
    <2>1. reserved[r][s] = Units(lines[r], s) /\ reserved[r] \in [Sku -> Nat]
      BY <1>1 DEF LinesOK, Counts, TypeOK
    <2>2. Units(Append(lines[r], l), s) = Units(lines[r], s) + IF l.sku = s THEN l.qty ELSE 0
      BY <1>3, <1>5, SumsAppend
    <2>3. reserved'[r][s] = reserved[r][s] + IF i.sku = s THEN i.qty ELSE 0
      BY <1>2, <1>8, <2>1
    <2> QED
      BY <1>6, <2>1, <2>2, <2>3
  <1> QED
    BY <1>1, <1>3, <1>4, <1>6, <1>10, <1>12, <1>13, <1>14, <1>15 DEF LinesOK

\* Every step of a request keeps what its closure has collected right.
LEMMA LinesStep ==
  ASSUME IInv, NEW r \in Request, LinesOK(r), StepOf(r)
  PROVE  LinesOK(r)'
  <1>1. TypeOK /\ RequestOK(r) /\ cmd' = cmd
    BY OwnStep DEF IInv
  <1>2. CASE Begin(r)
    <2>1. /\ lines[r] = <<>> /\ reserved[r] = Nothing
          /\ lines'[r] = lines[r] /\ total'[r] = total[r] /\ reserved'[r] = reserved[r]
          /\ srv'[r] = "open" /\ pc'[r] = "reserve"
      BY <1>1, <1>2 DEF Begin, RequestOK, SessionOK, ProgressOK, Goto, TypeOK
    <2>2. \A s \in Sku : reserved'[r][s] = Units(lines'[r], s)
      BY <2>1, SumsEmpty DEF Nothing
    <2>3. ~Complete(r)'
      BY <2>1 DEF Complete
    <2> QED
      BY <1>1, <2>1, <2>2, <2>3 DEF LinesOK
  <1>3. CASE ~Begin(r) /\ ~Reserve(r)
    <2>1. lines'[r] = lines[r] /\ total'[r] = total[r]
      BY <1>1, <1>3 DEF StepOf, RejectBody, Receive, BeginFails, ReserveInvalid,
         ReserveInsufficient, ServerRefuses, CreateOrder, CreateItem, PublishOrderCreated,
         Commit, CommitReturns, CommitReplyLost, Rollback, RollbackLost, ServerCommits,
         ServerAborts, StatementLost, Panics, Fail, Respond, handler
    <2>2. Complete(r)' => Complete(r)
      BY <1>1, <1>3 DEF StepOf, RejectBody, Receive, BeginFails, ReserveInvalid,
         ReserveInsufficient, ServerRefuses, CreateOrder, CreateItem, PublishOrderCreated,
         Commit, CommitReturns, CommitReplyLost, Rollback, RollbackLost, ServerCommits,
         ServerAborts, StatementLost, Panics, Fail, Respond, Discard, Goto, server, handler, TypeOK,
         Complete, AtItem
    <2>3. Counts(r)' => Counts(r) /\ reserved'[r] = reserved[r]
      BY <1>1, <1>3 DEF StepOf, RejectBody, Receive, BeginFails, ReserveInvalid,
         ReserveInsufficient, ServerRefuses, CreateOrder, CreateItem, PublishOrderCreated,
         Commit, CommitReturns, CommitReplyLost, Rollback, RollbackLost, ServerCommits,
         ServerAborts, StatementLost, Panics, Discard, server, TypeOK, Counts, AtItem,
         RequestOK, SessionOK, StatementSteps
    <2> QED
      BY <1>1, <2>1, <2>2, <2>3, LinesStill
  <1> QED
    BY <1>2, <1>3, LinesReserve

(***************************************************************************)
(* What its transaction has written.                                       *)
(***************************************************************************)
\* A commit makes the request's rows its order.
LEMMA CommitEffect ==
  ASSUME IInv, NEW r \in Request, ServerCommits(r), LinesOK(r), ItemsOK(r)
  PROVE  /\ Committed(r)' /\ ~Committed(r)
         /\ \A q \in Request \ {r} : Committed(q)' <=> Committed(q)
         /\ orderItems'[r] = lines[r] /\ orderItems[r] = <<>>
         /\ \A q \in Request \ {r} : orderItems'[q] = orderItems[q]
         /\ orders' = orders \cup {OrderRow(r)}
         /\ outbox' = Append(outbox, OrderCreated(r)) /\ OrderCreated(r) \in Event
         /\ cmd[r].customer \in customers
         /\ UNCHANGED <<pc, cmd, lines, total, err, reply, customers>>
         /\ \A s \in Sku : stock'[s] = stock[s] - Units(lines[r], s)
  <1>1. TypeOK /\ RequestOK(r) /\ srv[r] = "committing"
    BY DEF IInv, ServerCommits
  <1>2. /\ writes[r].orders = {OrderRow(r)} /\ cmd[r].customer \in customers
        /\ writes[r].events = <<OrderCreated(r)>> /\ writes[r].items = lines[r]
        /\ orderItems[r] = <<>>
    BY <1>1 DEF RequestOK, WritesOK, ItemsOK, Committed
  <1>3. /\ srv' = [srv EXCEPT ![r] = "committed"]
        /\ stock' = [s \in Sku |-> stock[s] - reserved[r][s]]
        /\ orders' = orders \cup writes[r].orders
        /\ orderItems' = [orderItems EXCEPT ![r] = @ \o writes[r].items]
        /\ outbox' = outbox \o writes[r].events
        /\ UNCHANGED <<pc, cmd, lines, total, err, reply, customers>>
    BY DEF ServerCommits, handler
  <1>4. /\ Committed(r)' /\ ~Committed(r)
        /\ \A q \in Request \ {r} : Committed(q)' <=> Committed(q)
    BY <1>1, <1>3 DEF Committed, TypeOK
  <1>5. lines[r] \in Seq(Line) /\ outbox \in Seq(Event) /\ orderItems \in [Request -> Seq(Line)]
    BY <1>1 DEF TypeOK
  <1>6. <<>> \o lines[r] = lines[r]
    BY <1>5
  <1>7. /\ orderItems'[r] = lines[r]
        /\ \A q \in Request \ {r} : orderItems'[q] = orderItems[q]
    BY <1>2, <1>3, <1>5, <1>6
  <1>8. OrderCreated(r) \in Event
    BY <1>1, <1>2 DEF TypeOK, OrderCreated, Event
  <1>9. outbox' = Append(outbox, OrderCreated(r))
    BY <1>2, <1>3, <1>5, <1>8
  <1>10. \A s \in Sku : stock'[s] = stock[s] - Units(lines[r], s)
    BY <1>1, <1>3 DEF LinesOK, Counts
  <1> QED
    BY <1>2, <1>3, <1>4, <1>7, <1>8, <1>9, <1>10

\* Every step of a request keeps its rows of order_items right.
LEMMA ItemsStep ==
  ASSUME IInv, NEW r \in Request, LinesOK(r), ItemsOK(r), StepOf(r)
  PROVE  ItemsOK(r)'
  <1>1. TypeOK /\ RequestOK(r)
    BY DEF IInv
  <1>2. CASE ServerCommits(r)
    <2>1. Committed(r)' /\ orderItems'[r] = lines[r] /\ lines' = lines /\ pc' = pc
      BY <1>2, CommitEffect
    <2>2. pc[r] \notin {"items", "publish", "commit"} /\ srv'[r] = "committed"
      BY <1>1, <1>2 DEF ServerCommits, RequestOK, SessionOK, StatementSteps, TypeOK
    <2> QED
      BY <2>1, <2>2 DEF ItemsOK
  <1>3. CASE ~ServerCommits(r)
    <2>1. orderItems'[r] = IF Committed(r)' THEN lines'[r] ELSE <<>>
      BY <1>3, OwnStep DEF ItemsOK, tables
    <2>2. CASE CreateOrder(r)
      <3>1. pc'[r] = "items" /\ srv'[r] = "open" /\ writes[r] = NoWrites
            /\ writes'[r].items = writes[r].items
        BY <1>1, <2>2 DEF CreateOrder, Write, Goto, TypeOK, RequestOK, WritesOK
      <3>2. Len(writes'[r].items) = 0
        BY <3>1 DEF NoWrites
      <3> QED
        BY <2>1, <3>1, <3>2 DEF ItemsOK
    <2>3. CASE CreateItem(r)
      <3> DEFINE n == Len(writes[r].items)
      <3>1. /\ writes[r].items \in Seq(Line) /\ lines[r] \in Seq(Line)
            /\ n \in Nat /\ n < Len(lines[r]) /\ pc[r] = "items" /\ srv[r] = "open"
        BY <1>1, <2>3 DEF CreateItem, TypeOK, WriteSet, RequestOK, ProgressOK
      <3>2. /\ writes'[r].items = Append(writes[r].items, lines[r][n + 1])
            /\ pc'[r] = IF n + 1 = Len(lines[r]) THEN "publish" ELSE "items"
            /\ srv'[r] = "open" /\ lines'[r] = lines[r]
        BY <1>1, <2>3, <3>1 DEF CreateItem, Write, Goto, NextLine, TypeOK
      <3>3. lines[r][n + 1] \in Line
        BY <3>1
      <3>4. /\ writes'[r].items \in Seq(Line) /\ Len(writes'[r].items) = n + 1
            /\ \A j \in 1..(n + 1) : writes'[r].items[j] = lines[r][j]
        BY <3>1, <3>2, <3>3 DEF ItemsOK
      <3>5. n + 1 = Len(lines[r]) => writes'[r].items = lines[r]
        BY <3>1, <3>4, SameLines
      <3> QED
        BY <2>1, <3>2, <3>4, <3>5 DEF ItemsOK
    <2>4. CASE PublishOrderCreated(r)
      <3>1. /\ pc'[r] = "commit" /\ srv'[r] = "open" /\ lines'[r] = lines[r]
            /\ writes'[r].items = writes[r].items /\ writes[r].items = lines[r]
        BY <1>1, <2>4 DEF PublishOrderCreated, Write, Goto, TypeOK, ItemsOK
      <3> QED
        BY <2>1, <3>1 DEF ItemsOK
    <2>5. CASE Commit(r)
      <3>1. /\ pc'[r] = "committing" /\ lines'[r] = lines[r] /\ writes'[r] = writes[r]
            /\ writes[r].items = lines[r]
        BY <1>1, <2>5 DEF Commit, Goto, TypeOK, ItemsOK
      <3> QED
        BY <2>1, <3>1 DEF ItemsOK
    <2>6. CASE ~CreateOrder(r) /\ ~CreateItem(r) /\ ~PublishOrderCreated(r) /\ ~Commit(r)
      <3>1. pc'[r] \notin {"items", "publish", "commit"}
            \/ (pc'[r] = pc[r] /\ lines'[r] = lines[r] /\ writes'[r] = writes[r])
        BY <1>1, <1>3, <2>6 DEF StepOf, RejectBody, Receive, Begin, BeginFails, Reserve,
           ReserveInvalid, ReserveInsufficient, ServerRefuses, CommitReturns,
           CommitReplyLost, Rollback, RollbackLost, ServerAborts, StatementLost, Panics, Fail,
           Respond, Goto, server, handler, TypeOK, RequestOK, SessionOK, StatementSteps
      <3>2. srv'[r] = "committing" =>
              srv[r] = "committing" /\ lines'[r] = lines[r] /\ writes'[r] = writes[r]
        BY <1>1, <1>3, <2>6 DEF StepOf, RejectBody, Receive, Begin, BeginFails, Reserve,
           ReserveInvalid, ReserveInsufficient, ServerRefuses, CommitReturns,
           CommitReplyLost, Rollback, RollbackLost, ServerAborts, StatementLost, Panics, Fail,
           Respond, Discard, AtItem, server, handler, TypeOK
      <3> QED
        BY <2>1, <3>1, <3>2 DEF ItemsOK
    <2> QED
      BY <2>2, <2>3, <2>4, <2>5, <2>6
  <1> QED
    BY <1>2, <1>3

(***************************************************************************)
(* The tables.                                                             *)
(***************************************************************************)
\* What is committed of a request stays as it is, whoever takes a step.
LEMMA OrderStays ==
  ASSUME IInv, NEW r \in Request, StepOf(r), NEW q \in Request
  PROVE  /\ ~ServerCommits(r) \/ q # r => (Committed(q)' <=> Committed(q))
         /\ Committed(q) =>
              /\ OrderRow(q)' = OrderRow(q) /\ OrderCreated(q)' = OrderCreated(q)
              /\ lines'[q] = lines[q]
  <1>1. TypeOK
    BY DEF IInv
  <1>2. CASE q = r
    BY <1>2, OwnStep DEF OrderRow, OrderCreated
  <1>3. CASE q # r
    <2>1. Untouched(q)
      BY <1>1, <1>3, Local
    <2> QED
      BY <1>3, <2>1 DEF Untouched, OrderRow, OrderCreated, Committed
  <1> QED
    BY <1>2, <1>3

\* A commit adds one row of orders, and nothing else does.
LEMMA RowStep ==
  ASSUME IInv, NEW r \in Request, StepOf(r), LinesOK(r), ItemsOK(r),
         NEW q \in Request, RowOK(q)
  PROVE  RowOK(q)'
  <1>1. CASE ~ServerCommits(r)
    <2>1. orders' = orders
      BY <1>1, OwnStep DEF tables
    <2> QED
      BY <1>1, <2>1, OrderStays DEF RowOK, RowsOf
  <1>2. CASE ServerCommits(r)
    <2>1. /\ Committed(r)' /\ ~Committed(r) /\ orders' = orders \cup {OrderRow(r)}
          /\ \A x \in Request \ {r} : Committed(x)' <=> Committed(x)
          /\ UNCHANGED <<cmd, total>>
      BY <1>2, CommitEffect
    <2>2. OrderRow(q)' = OrderRow(q) /\ OrderRow(r).id = r
      BY <2>1 DEF OrderRow
    <2>3. RowsOf(q)' = IF q = r THEN RowsOf(q) \cup {OrderRow(r)} ELSE RowsOf(q)
      BY <2>1, <2>2 DEF RowsOf
    <2> QED
      BY <2>1, <2>2, <2>3 DEF RowOK
  <1> QED
    BY <1>1, <1>2

\* One more event: where it is, and what it announces.
LEMMA OutboxAppend ==
  ASSUME TypeOK, NEW e, e \in Event, outbox' = Append(outbox, e)
  PROVE  /\ DOMAIN outbox = 1..Len(outbox) /\ Len(outbox) \in Nat
         /\ DOMAIN outbox' = 1..(Len(outbox) + 1)
         /\ outbox'[Len(outbox) + 1] = e
         /\ \A i \in DOMAIN outbox : outbox'[i] = outbox[i]
  BY DEF TypeOK

\* The announcements of an order after one more event.
LEMMA AnnouncedAppend ==
  ASSUME TypeOK, NEW e, e \in Event, outbox' = Append(outbox, e), NEW q \in Request
  PROVE  Announced(q)' = IF e.type = "OrderCreated" /\ e.aggregate = q
                         THEN Announced(q) \cup {Len(outbox) + 1} ELSE Announced(q)
  <1>1. /\ DOMAIN outbox = 1..Len(outbox) /\ Len(outbox) \in Nat
        /\ DOMAIN outbox' = 1..(Len(outbox) + 1)
        /\ outbox'[Len(outbox) + 1] = e
        /\ \A i \in DOMAIN outbox : outbox'[i] = outbox[i]
    BY OutboxAppend
  <1>2. DOMAIN outbox' = DOMAIN outbox \cup {Len(outbox) + 1}
    BY <1>1
  <1> QED
    BY <1>1, <1>2 DEF Announced

\* A commit announces its own order, and no step another's.
LEMMA EventStep ==
  ASSUME IInv, NEW r \in Request, StepOf(r), LinesOK(r), ItemsOK(r),
         NEW q \in Request, EventOK(q)
  PROVE  EventOK(q)'
  <1>1. CASE ~ServerCommits(r)
    <2>1. outbox' = outbox
      BY <1>1, OwnStep DEF tables
    <2> QED
      BY <1>1, <2>1, OrderStays DEF EventOK, Announced
  <1>2. CASE ServerCommits(r)
    <2>1. /\ TypeOK /\ Committed(r)' /\ ~Committed(r)
          /\ outbox' = Append(outbox, OrderCreated(r)) /\ OrderCreated(r) \in Event
          /\ \A x \in Request \ {r} : Committed(x)' <=> Committed(x)
          /\ OrderCreated(q)' = OrderCreated(q)
      BY <1>2, CommitEffect DEF IInv, OrderCreated
    <2>2. OrderCreated(r).type = "OrderCreated" /\ OrderCreated(r).aggregate = r
      BY DEF OrderCreated
    <2>3. Announced(q)' = IF q = r THEN Announced(q) \cup {Len(outbox) + 1} ELSE Announced(q)
      BY <2>1, <2>2, AnnouncedAppend
    <2>4. /\ Len(outbox) + 1 \in DOMAIN outbox' /\ outbox'[Len(outbox) + 1] = OrderCreated(r)
          /\ DOMAIN outbox \subseteq DOMAIN outbox'
          /\ \A i \in DOMAIN outbox : outbox'[i] = outbox[i]
      BY <2>1, OutboxAppend
    <2>5. CASE q = r
      BY <2>1, <2>3, <2>4, <2>5 DEF EventOK
    <2>6. CASE q # r
      BY <2>1, <2>3, <2>4, <2>6 DEF EventOK
    <2> QED
      BY <2>5, <2>6
  <1> QED
    BY <1>1, <1>2

\* Nor does a registration.
LEMMA EventRegister ==
  ASSUME IInv, NEW c \in Customer, RegisterCustomer(c), NEW q \in Request, EventOK(q)
  PROVE  EventOK(q)'
  <1>1. /\ TypeOK /\ outbox' = Append(outbox, CustomerCreated(c)) /\ CustomerCreated(c) \in Event
        /\ CustomerCreated(c).type = "CustomerCreated"
        /\ (Committed(q)' <=> Committed(q)) /\ OrderCreated(q)' = OrderCreated(q)
    BY DEF RegisterCustomer, IInv, CustomerCreated, Event, Committed, OrderCreated, server, handler
  <1>2. Announced(q)' = Announced(q)
    BY <1>1, AnnouncedAppend
  <1>3. /\ DOMAIN outbox \subseteq DOMAIN outbox'
        /\ \A i \in DOMAIN outbox : outbox'[i] = outbox[i]
    BY <1>1, OutboxAppend
  <1> QED
    BY <1>1, <1>2, <1>3 DEF EventOK

\* An event of an order is behind its customer's.
LEMMA FirstAppend ==
  ASSUME TypeOK, CustomerFirst, \A c \in customers : Introduced(c),
         NEW e, e \in Event, outbox' = Append(outbox, e),
         e.type = "OrderCreated" => e.customer \in customers
  PROVE  CustomerFirst'
  <1>1. /\ DOMAIN outbox = 1..Len(outbox) /\ Len(outbox) \in Nat
        /\ DOMAIN outbox' = 1..(Len(outbox) + 1)
        /\ outbox'[Len(outbox) + 1] = e
        /\ \A i \in DOMAIN outbox : outbox'[i] = outbox[i]
    BY OutboxAppend
  <1> SUFFICES ASSUME NEW i \in DOMAIN outbox', outbox'[i].type = "OrderCreated"
               PROVE  \/ outbox'[i].customer \in InitCustomers
                      \/ \E j \in 1..(i - 1) : outbox'[j] = CustomerCreated(outbox'[i].customer)
    BY DEF CustomerFirst, CustomerCreated
  <1>2. CASE i \in DOMAIN outbox
    BY <1>1, <1>2 DEF CustomerFirst
  <1>3. CASE i = Len(outbox) + 1
    <2>1. Introduced(e.customer)
      BY <1>1, <1>3
    <2> QED
      BY <1>1, <1>3, <2>1 DEF Introduced
  <1> QED
    BY <1>1, <1>2, <1>3

\* A customer that has been introduced stays introduced.
LEMMA IntroducedStays ==
  ASSUME TypeOK, NEW e, e \in Event, outbox' = Append(outbox, e), NEW c, Introduced(c)
  PROVE  Introduced(c)'
  <1>1. DOMAIN outbox \subseteq DOMAIN outbox' /\ \A i \in DOMAIN outbox : outbox'[i] = outbox[i]
    BY OutboxAppend
  <1> QED
    BY <1>1 DEF Introduced, CustomerCreated

(***************************************************************************)
(* Stock, and refusals.                                                    *)
(***************************************************************************)
\* What the closure of a request holds of an SKU is a quantity.
LEMMA UnitsHeld ==
  ASSUME TypeOK, NEW r \in Request, NEW s \in Sku
  PROVE  Units(lines[r], s) \in Nat
  <1>1. lines[r] \in Seq(Line)
    BY DEF TypeOK
  <1> QED
    BY <1>1, UnitsType

\* No step of a request puts anything back into the stock.
LEMMA StockFalls ==
  ASSUME IInv, NEW r \in Request, StepOf(r), LinesOK(r), ItemsOK(r), NEW s \in Sku
  PROVE  stock'[s] <= stock[s]
  <1>1. TypeOK /\ stock[s] \in Nat
    BY DEF IInv, TypeOK
  <1>2. CASE ServerCommits(r)
    BY <1>1, <1>2, CommitEffect, UnitsHeld
  <1>3. CASE ~ServerCommits(r)
    <2>1. stock' = stock
      BY <1>3, OwnStep DEF tables
    <2> QED
      BY <1>1, <2>1
  <1> QED
    BY <1>2, <1>3

\* A stock that is short stays short.
LEMMA ShortStays ==
  ASSUME TypeOK, TypeOK', NEW r \in Request, Short(r), cmd'[r] = cmd[r],
         \A s \in Sku : stock'[s] <= stock[s]
  PROVE  Short(r)'
  <1>1. PICK i \in DOMAIN cmd[r].items :
          \/ cmd[r].items[i].sku \notin Sku
          \/ stock[cmd[r].items[i].sku] < Demand(cmd[r], cmd[r].items[i].sku)
    BY DEF Short
  <1>2. CASE cmd[r].items[i].sku \notin Sku
    BY <1>2 DEF Short
  <1>3. CASE cmd[r].items[i].sku \in Sku
    <2> DEFINE s == cmd[r].items[i].sku
    <2>1. /\ stock[s] \in Nat /\ stock'[s] \in Nat /\ stock'[s] <= stock[s]
          /\ stock[s] < Demand(cmd[r], s)
      BY <1>1, <1>3 DEF TypeOK
    <2>2. Demand(cmd[r], s) \in Nat
      BY DemandType DEF TypeOK
    <2>3. stock'[s] < Demand(cmd'[r], s)
      BY <2>1, <2>2
    <2> QED
      BY <2>3 DEF Short
  <1> QED
    BY <1>2, <1>3

\* An UPDATE that finds no row with enough left is right about it: no other
\* transaction's reservation has been deducted from what it sees.
LEMMA InsufficientIsShort ==
  ASSUME IInv, NEW r \in Request, LinesOK(r), ReserveInsufficient(r)
  PROVE  Short(r)
  <1> DEFINE i == NextItem(r)
             n == Len(lines[r]) + 1
  <1>1. /\ TypeOK /\ RequestOK(r) /\ pc[r] = "reserve" /\ srv[r] = "open"
        /\ Representable(i) /\ ~Available(r, i)
        /\ Len(lines[r]) < Len(cmd[r].items)
    BY DEF IInv, ReserveInsufficient, AtItem, RequestOK, ProgressOK
  <1>2. i \in Item /\ i = cmd[r].items[n] /\ i.qty > 0 /\ i.qty \in Int
    BY <1>1, ItemType DEF NextItem, Representable, Item
  <1>3. cmd[r] \in Command /\ lines[r] \in Seq(Line)
    BY <1>1 DEF TypeOK
  <1>4. /\ n \in DOMAIN cmd[r].items /\ Demand(cmd[r], i.sku) \in Nat
        /\ Units(lines[r], i.sku) + i.qty <= Demand(cmd[r], i.sku)
    <2>1. \A j \in 1..Len(lines[r]) : lines[r][j] = Priced(cmd[r])[j]
      BY DEF LinesOK
    <2> HIDE DEF i
    <2> QED
      BY <1>1, <1>2, <1>3, <2>1, DemandCovers
  <1>5. CASE i.sku \notin Sku
    BY <1>2, <1>4, <1>5 DEF Short
  <1>6. CASE i.sku \in Sku
    <2>1. /\ reserved[r][i.sku] = Units(lines[r], i.sku)
          /\ reserved[r][i.sku] \in Nat /\ stock[i.sku] \in Nat
      BY <1>1, <1>6 DEF LinesOK, Counts, TypeOK
    <2>2. stock[i.sku] - reserved[r][i.sku] < i.qty
      <3>1. ~(stock[i.sku] - reserved[r][i.sku] >= i.qty)
        BY <1>1, <1>6 DEF Available, Visible
      <3> HIDE DEF i
      <3> QED
        BY <1>2, <2>1, <3>1
    <2>3. stock[i.sku] < Demand(cmd[r], i.sku)
      BY <1>2, <1>4, <2>1, <2>2
    <2> QED
      BY <1>2, <1>4, <2>3 DEF Short
  <1> QED
    BY <1>5, <1>6

\* Where the error of a request, and the status it sends, come from.
LEMMA ErrorStep ==
  ASSUME IInv, NEW r \in Request, StepOf(r), RefusalOK(r)
  PROVE  /\ err'[r] = "ErrInsufficientInventory" =>
              ReserveInsufficient(r) \/ err[r] = "ErrInsufficientInventory"
         /\ reply'[r] = 409 => err'[r] = "ErrInsufficientInventory"
  <1>1. TypeOK /\ RequestOK(r)
    BY DEF IInv
  <1>2. CASE Receive(r)
    <2> DEFINE e == Validation(cmd[r])
    <2>1. e \in {"none", "ErrEmptyCustomerID", "ErrEmptyItems"}
      BY DEF Validation
    <2>2. CASE e = "none"
      BY <1>2, <2>2 DEF Receive, RefusalOK
    <2>3. CASE e # "none"
      <3>1. err' = [err EXCEPT ![r] = e] /\ reply' = [reply EXCEPT ![r] = StatusOf(e)]
        BY <1>2, <2>3 DEF Receive, Respond
      <3>2. StatusOf(e) = 400
        BY <2>1, <2>3 DEF StatusOf, ClientErrors
      <3> HIDE DEF e
      <3> QED
        BY <1>1, <2>1, <3>1, <3>2 DEF TypeOK
    <2> QED
      BY <2>2, <2>3
  <1>3. CASE BeginFails(r) \/ CommitReturns(r) \/ CommitReplyLost(r)
    BY <1>1, <1>3 DEF BeginFails, CommitReturns, CommitReplyLost, Respond, StatusOf,
       ClientErrors, TypeOK
  <1>4. CASE Rollback(r) \/ RollbackLost(r)
    BY <1>1, <1>4 DEF Rollback, RollbackLost, Respond, StatusOf, TypeOK
  <1>5. CASE \/ ReserveInvalid(r) \/ ReserveInsufficient(r) \/ StatementLost(r) \/ Panics(r)
             \/ pc[r] \in StatementSteps /\ ServerRefuses(r)
    <2>1. pc[r] \in StatementSteps /\ reply' = reply
      BY <1>5 DEF ReserveInvalid, ReserveInsufficient, ServerRefuses, StatementLost, Panics, Fail,
         AtItem, StatementSteps
    <2>2. reply'[r] # 409
      BY <1>1, <2>1 DEF RequestOK, AnswerOK, StatementSteps
    <2>3. err'[r] \in {"ErrInvalidQuantity", "database", "panic"} \/ ReserveInsufficient(r)
      <3>1. \/ Fail(r, "ErrInvalidQuantity") \/ Fail(r, "database") \/ Fail(r, "panic")
            \/ ReserveInsufficient(r)
        BY <1>5 DEF ReserveInvalid, ServerRefuses, StatementLost, Panics
      <3> QED
        BY <1>1, <3>1 DEF Fail, TypeOK
    <2> QED
      BY <2>2, <2>3
  <1>6. CASE RejectBody(r)
    BY <1>1, <1>6 DEF RejectBody, TypeOK
  <1>7. CASE \/ Begin(r) \/ Reserve(r) \/ CreateOrder(r) \/ CreateItem(r)
             \/ PublishOrderCreated(r) \/ Commit(r) \/ ServerCommits(r) \/ ServerAborts(r)
    BY <1>7 DEF Begin, Reserve, CreateOrder, CreateItem, PublishOrderCreated, Commit,
       ServerCommits, ServerAborts, handler, RefusalOK
  <1> QED
    BY <1>2, <1>3, <1>4, <1>5, <1>6, <1>7 DEF StepOf

\* A refusal is and stays justified, whoever takes a step.
LEMMA RefusalStep ==
  ASSUME IInv, TypeOK', NEW r \in Request, StepOf(r), LinesOK(r), ItemsOK(r),
         NEW q \in Request, RefusalOK(q)
  PROVE  RefusalOK(q)'
  <1>1. TypeOK /\ (\A s \in Sku : stock'[s] <= stock[s]) /\ cmd' = cmd
    BY StockFalls, OwnStep DEF IInv
  <1>2. Short(q) => Short(q)'
    BY <1>1, ShortStays
  <1>3. CASE q = r
    <2>1. Short(r) \/ err'[r] # "ErrInsufficientInventory"
      BY <1>3, ErrorStep, InsufficientIsShort DEF RefusalOK
    <2> QED
      BY <1>2, <1>3, <2>1, ErrorStep DEF RefusalOK
  <1>4. CASE q # r
    BY <1>1, <1>2, <1>4, Local DEF Untouched, RefusalOK
  <1> QED
    BY <1>3, <1>4

\* What leaves the stock is in the committed orders.
LEMMA StockStep ==
  ASSUME IInv, NEW r \in Request, StepOf(r), LinesOK(r), ItemsOK(r), StockConserved
  PROVE  StockConserved'
  <1>1. CASE ~ServerCommits(r)
    <2>1. stock' = stock /\ orderItems' = orderItems
      BY <1>1, OwnStep DEF tables
    <2> QED
      BY <2>1 DEF StockConserved
  <1>2. CASE ServerCommits(r)
    <2> SUFFICES ASSUME NEW s \in Sku
                 PROVE  InitStock[s] - stock'[s]
                          = SumFunction([q \in Request |-> Units(orderItems'[q], s)])
      BY DEF StockConserved
    <2> DEFINE f == [q \in Request |-> Units(orderItems[q], s)]
               g == [q \in Request |-> Units(orderItems'[q], s)]
    <2>1. /\ orderItems'[r] = lines[r] /\ orderItems[r] = <<>>
          /\ \A q \in Request \ {r} : orderItems'[q] = orderItems[q]
          /\ stock'[s] = stock[s] - Units(lines[r], s)
      BY <1>2, CommitEffect
    <2>2. /\ \A q \in Request : orderItems[q] \in Seq(Line)
          /\ lines[r] \in Seq(Line) /\ stock[s] \in Nat /\ InitStock[s] \in Nat
      BY ConstantsOK DEF IInv, TypeOK
    <2>3. f \in [Request -> Nat]
      BY <2>2, UnitsType
    <2>4. g \in [Request -> Nat]
      BY <2>1, <2>2, UnitsType
    <2>5. /\ f[r] = 0 /\ g[r] = Units(lines[r], s)
          /\ \A q \in Request \ {r} : g[q] = f[q]
      BY <2>1, SumsEmpty
    <2>6. SumFunction(g) = SumFunction(f) + g[r] - f[r]
      <3>1. IsFiniteSet(Request)
        BY ConstantsOK
      <3> HIDE DEF f, g
      <3>2. \A q \in Request \ {r} : g[q] = f[q]
        BY <2>5
      <3> QED
        BY <2>3, <2>4, <3>1, <3>2, SumChange
    <2>7. InitStock[s] - stock[s] = SumFunction(f)
      BY DEF StockConserved
    <2>8. Units(lines[r], s) \in Nat /\ SumFunction(f) \in Nat
      <3> HIDE DEF f
      <3> QED
        BY <2>2, <2>3, UnitsType, ConstantsOK, SumType
    <2>9. InitStock[s] - stock'[s] = SumFunction(g)
      BY <2>1, <2>2, <2>5, <2>6, <2>7, <2>8
    <2> QED
      BY <2>9
  <1> QED
    BY <1>1, <1>2

(***************************************************************************)
(* The invariant.                                                          *)
(***************************************************************************)
\* Before the first request there are no orders and nothing is missing.
LEMMA ContentsInit == Init => Contents
  <1> SUFFICES ASSUME Init PROVE Contents
    OBVIOUS
  <1>1. ASSUME NEW r \in Request PROVE OrderOK(r)
    <2>1. /\ lines[r] = <<>> /\ total[r] = 0 /\ srv[r] = "none" /\ pc[r] = "idle"
          /\ orderItems[r] = <<>> /\ orders = {} /\ outbox = <<>>
          /\ reply[r] = 0 /\ err[r] = "none" /\ cmd[r] \in Command
      BY DEF Init
    <2>2. Len(cmd[r].items) \in Nat
      BY <2>1, CommandType, Positions
    <2>3. LinesOK(r)
      BY <2>1, <2>2, SumsEmpty DEF LinesOK, Complete, Counts
    <2>4. ItemsOK(r) /\ RowOK(r) /\ EventOK(r) /\ RefusalOK(r)
      BY <2>1 DEF ItemsOK, RowOK, RowsOf, EventOK, Announced, RefusalOK, Committed
    <2> QED
      BY <2>3, <2>4 DEF OrderOK
  <1>2. (\A c \in customers : Introduced(c)) /\ CustomerFirst
    BY DEF Init, Introduced, CustomerFirst
  <1>3. StockConserved
    <2> SUFFICES ASSUME NEW s \in Sku
                 PROVE  InitStock[s] - stock[s]
                          = SumFunction([q \in Request |-> Units(orderItems[q], s)])
      BY DEF StockConserved
    <2> DEFINE f == [q \in Request |-> Units(orderItems[q], s)]
    <2>1. f \in [Request -> Nat] /\ \A q \in Request : f[q] = 0
      BY SumsEmpty DEF Init
    <2>2. SumFunction(f) = 0
      <3> HIDE DEF f
      <3> QED
        BY <2>1, ConstantsOK, SumZero
    <2>3. stock[s] = InitStock[s] /\ InitStock[s] \in Nat
      BY ConstantsOK DEF Init
    <2> QED
      BY <2>2, <2>3
  <1> QED
    BY <1>1, <1>2, <1>3 DEF Contents, OrderOK

\* What is known of the lines of a request survives the steps of the others.
LEMMA ContentFrame ==
  ASSUME NEW q \in Request, LinesOK(q), ItemsOK(q), Untouched(q),
         orderItems'[q] = orderItems[q]
  PROVE  LinesOK(q)' /\ ItemsOK(q)'
  <1>1. LinesOK(q)'
    BY DEF Untouched, LinesOK, Complete, Counts
  <1>2. ItemsOK(q)'
    BY DEF Untouched, ItemsOK, Committed
  <1> QED
    BY <1>1, <1>2

\* A step of one request keeps what is known of every order,
LEMMA OrderStep ==
  ASSUME IInv, TypeOK', NEW r \in Request, StepOf(r), OrderOK(r),
         NEW q \in Request, OrderOK(q)
  PROVE  OrderOK(q)'
  <1>1. LinesOK(q)' /\ ItemsOK(q)'
    <2>1. CASE q = r
      BY <2>1, LinesStep, ItemsStep DEF OrderOK
    <2>2. CASE q # r
      <3>1. Untouched(q)
        BY <2>2, Local DEF IInv
      <3>2. orderItems'[q] = orderItems[q]
        <4>1. CASE ServerCommits(r)
          BY <2>2, <4>1, CommitEffect DEF OrderOK
        <4>2. CASE ~ServerCommits(r)
          BY <4>2, OwnStep DEF tables
        <4> QED
          BY <4>1, <4>2
      <3> QED
        BY <3>1, <3>2, ContentFrame DEF OrderOK
    <2> QED
      BY <2>1, <2>2
  <1>2. RowOK(q)' /\ EventOK(q)' /\ RefusalOK(q)'
    BY RowStep, EventStep, RefusalStep DEF OrderOK
  <1> QED
    BY <1>1, <1>2 DEF OrderOK

\* and of the customers in the outbox.
LEMMA CustomerStep ==
  ASSUME IInv, NEW r \in Request, StepOf(r), LinesOK(r), ItemsOK(r),
         CustomerFirst, \A c \in customers : Introduced(c)
  PROVE  CustomerFirst' /\ \A c \in customers' : Introduced(c)'
  <1>1. TypeOK /\ customers' = customers
    BY Local DEF IInv
  <1>2. CASE ServerCommits(r)
    <2>1. /\ outbox' = Append(outbox, OrderCreated(r)) /\ OrderCreated(r) \in Event
          /\ OrderCreated(r).customer \in customers
      BY <1>2, CommitEffect DEF OrderCreated
    <2>2. CustomerFirst'
      BY <1>1, <2>1, FirstAppend
    <2>3. \A c \in customers' : Introduced(c)'
      BY <1>1, <2>1, IntroducedStays
    <2> QED
      BY <2>2, <2>3
  <1>3. CASE ~ServerCommits(r)
    <2>1. outbox' = outbox
      BY <1>3, OwnStep DEF tables
    <2> QED
      BY <1>1, <2>1 DEF CustomerFirst, Introduced, CustomerCreated
  <1> QED
    BY <1>2, <1>3

\* Every step keeps what the tables contain.
LEMMA ContentsStep ==
  ASSUME IInv, Contents, TypeOK', [Next]_vars
  PROVE  Contents'
  <1>1. TypeOK /\ (\A q \in Request : OrderOK(q)) /\ (\A c \in customers : Introduced(c))
        /\ CustomerFirst /\ StockConserved
    BY DEF IInv, Contents
  <1>2. ASSUME NEW r \in Request, StepOf(r) PROVE Contents'
    <2>1. \A q \in Request : OrderOK(q)'
      BY <1>1, <1>2, OrderStep
    <2>2. CustomerFirst' /\ \A c \in customers' : Introduced(c)'
      BY <1>1, <1>2, CustomerStep DEF OrderOK
    <2>3. StockConserved'
      BY <1>1, <1>2, StockStep DEF OrderOK
    <2> QED
      BY <2>1, <2>2, <2>3 DEF Contents, OrderOK
  <1>3. ASSUME \/ UNCHANGED vars \/ Crash PROVE Contents'
    <2>1. /\ UNCHANGED <<tables, server, cmd, lines, total, err, reply>>
          /\ \A r \in Request : pc'[r] = pc[r] \/ pc'[r] = "gone"
      BY <1>3 DEF Crash, vars, handler
    <2>2. ASSUME NEW q \in Request PROVE OrderOK(q)'
      <3>1. LinesOK(q)'
        BY <1>1, <2>1 DEF OrderOK, LinesOK, Complete, Counts, server
      <3>2. ItemsOK(q)'
        BY <1>1, <2>1 DEF OrderOK, ItemsOK, Committed, tables, server
      <3>3. RowOK(q)' /\ EventOK(q)'
        BY <1>1, <2>1 DEF OrderOK, RowOK, RowsOf, OrderRow, EventOK, Announced, OrderCreated,
           Committed, tables, server
      <3>4. RefusalOK(q)'
        BY <1>1, <2>1 DEF OrderOK, RefusalOK, Short, tables
      <3> QED
        BY <3>1, <3>2, <3>3, <3>4 DEF OrderOK
    <2>3. CustomerFirst' /\ (\A c \in customers' : Introduced(c)') /\ StockConserved'
      BY <1>1, <2>1 DEF CustomerFirst, Introduced, CustomerCreated, StockConserved, tables
    <2> QED
      BY <2>2, <2>3 DEF Contents, OrderOK
  <1>4. ASSUME NEW c \in Customer, RegisterCustomer(c) PROVE Contents'
    <2>1. /\ UNCHANGED <<stock, orders, orderItems, server, handler>>
          /\ customers' = customers \cup {c} /\ outbox' = Append(outbox, CustomerCreated(c))
          /\ CustomerCreated(c) \in Event /\ CustomerCreated(c).type = "CustomerCreated"
      BY <1>4 DEF RegisterCustomer, CustomerCreated, Event
    <2>2. ASSUME NEW q \in Request PROVE OrderOK(q)'
      <3>1. Untouched(q) /\ orderItems'[q] = orderItems[q]
        BY <2>1 DEF Untouched, server, handler
      <3>2. LinesOK(q)' /\ ItemsOK(q)'
        BY <1>1, <3>1, ContentFrame DEF OrderOK
      <3>3. RowOK(q)'
        BY <1>1, <2>1 DEF OrderOK, RowOK, RowsOf, OrderRow, Committed, server, handler
      <3>4. EventOK(q)'
        BY <1>1, <1>4, EventRegister DEF OrderOK
      <3>5. RefusalOK(q)'
        BY <1>1, <2>1 DEF OrderOK, RefusalOK, Short, handler
      <3> QED
        BY <3>2, <3>3, <3>4, <3>5 DEF OrderOK
    <2>3. CustomerFirst'
      BY <1>1, <2>1, FirstAppend
    <2>4. \A x \in customers' : Introduced(x)'
      <3>1. \A x \in customers : Introduced(x)'
        BY <1>1, <2>1, IntroducedStays
      <3>2. Introduced(c)'
        <4>1. Len(outbox) + 1 \in DOMAIN outbox' /\ outbox'[Len(outbox) + 1] = CustomerCreated(c)
          BY <1>1, <2>1, OutboxAppend
        <4> QED
          BY <4>1 DEF Introduced, CustomerCreated
      <3> QED
        BY <2>1, <3>1, <3>2
    <2>5. StockConserved'
      BY <1>1, <2>1 DEF StockConserved
    <2> QED
      BY <2>2, <2>3, <2>4, <2>5 DEF Contents, OrderOK
  <1> QED
    BY <1>2, <1>3, <1>4, StepCases

\* The contents of the tables are always right.
LEMMA ContentsInvariant == Spec => []Contents
  <1>1. IInv /\ IInv' /\ Contents /\ [Next]_vars => Contents'
    BY ContentsStep DEF IInv
  <1> QED
    BY <1>1, ContentsInit, Invariant, PTL DEF Spec

(***************************************************************************)
(* Theorems.                                                               *)
(***************************************************************************)
\* What left the stock of an SKU is exactly what the committed orders contain.
THEOREM StockIsConserved == Spec => []StockConserved
  <1>1. Contents => StockConserved
    BY DEF Contents
  <1> QED
    BY <1>1, ContentsInvariant, PTL

\* No OrderCreated event precedes its customer's.
THEOREM CustomersComeFirst == Spec => []CustomerFirst
  <1>1. Contents => CustomerFirst
    BY DEF Contents
  <1> QED
    BY <1>1, ContentsInvariant, PTL

\* A 409 is only sent for a request that the stock is, and stays, short of.
THEOREM RefusalsAreJustified == Spec => []RefusalJustified
  <1>1. Contents => RefusalJustified
    BY DEF Contents, OrderOK, RefusalOK, Short, RefusalJustified
  <1> QED
    BY <1>1, ContentsInvariant, PTL

\* A committed order has collected every item its client asked for.
LEMMA CommittedIsPriced ==
  ASSUME IInv, NEW r \in Request, LinesOK(r), Committed(r)
  PROVE  lines[r] = Priced(cmd[r]) /\ total[r] = Amount(Priced(cmd[r]))
  <1>1. lines[r] \in Seq(Line) /\ cmd[r] \in Command
    BY DEF IInv, TypeOK
  <1>2. cmd[r].items \in Seq(Item)
    BY <1>1, CommandType
  <1>3. /\ DOMAIN cmd[r].items = 1..Len(cmd[r].items)
        /\ DOMAIN lines[r] = 1..Len(lines[r])
    BY <1>1, <1>2, Positions
  <1>4. DOMAIN Priced(cmd[r]) = 1..Len(lines[r])
    BY <1>3 DEF LinesOK, Complete, Committed, Priced
  <1>5. \A i \in 1..Len(lines[r]) : lines[r][i] = Priced(cmd[r])[i]
    BY DEF LinesOK
  <1>6. lines[r] = [i \in 1..Len(lines[r]) |-> lines[r][i]]
    BY <1>1, <1>3
  <1>7. Priced(cmd[r]) = [i \in 1..Len(lines[r]) |-> Priced(cmd[r])[i]]
    BY <1>3, <1>4 DEF Priced
  <1>8. lines[r] = Priced(cmd[r])
    BY <1>5, <1>6, <1>7
  <1> QED
    BY <1>8 DEF LinesOK

\* An order is in the tables as a whole and as its client asked for it, or not
\* at all.
THEOREM OrdersAreWhole == Spec => []OrderWhole
  <1>1. IInv /\ Contents => OrderWhole
    <2> SUFFICES ASSUME IInv, Contents PROVE OrderWhole
      OBVIOUS
    <2>1. ASSUME NEW r \in Request, Committed(r)
          PROVE  /\ RowsOf(r) = {[id |-> r, customer |-> cmd[r].customer,
                                  total |-> Amount(Priced(cmd[r]))]}
                 /\ orderItems[r] = Priced(cmd[r])
                 /\ \E i \in DOMAIN outbox :
                      /\ Announced(r) = {i}
                      /\ outbox[i] = [type |-> "OrderCreated", aggregate |-> r,
                                      customer |-> cmd[r].customer, lines |-> Priced(cmd[r]),
                                      total |-> Amount(Priced(cmd[r]))]
      <3>1. lines[r] = Priced(cmd[r]) /\ total[r] = Amount(Priced(cmd[r]))
        BY <2>1, CommittedIsPriced DEF Contents, OrderOK
      <3> QED
        BY <2>1, <3>1 DEF Contents, OrderOK, ItemsOK, RowOK, OrderRow, EventOK, OrderCreated
    <2>2. ASSUME NEW r \in Request, ~Committed(r)
          PROVE  RowsOf(r) = {} /\ orderItems[r] = <<>> /\ Announced(r) = {}
      BY <2>2 DEF Contents, OrderOK, ItemsOK, RowOK, EventOK
    <2> QED
      BY <2>1, <2>2 DEF OrderWhole, RowsOf
  <1> QED
    BY <1>1, Invariant, ContentsInvariant, PTL

(***************************************************************************)
(* What the readers see.                                                   *)
(***************************************************************************)
\* The stock of s is what R has left of it.
LeftBy(R, s, n) == n = InitStock[s] - SumFunction([r \in R |-> Units(orderItems[r], s)])

\* A reader knows committed orders only, and misses none of them.  One that has
\* found an order knows its total, and when it is done all of its items; one of
\* the inventory knows a stock that the orders it knew of, and some other
\* committed ones, account for.
ViewOK(q) ==
  LET v == view[q] IN
  /\ v.known \subseteq {r \in Request : Committed(r)}
  /\ v.step # "done" => v.status = 0 /\ v.err = "none"
  /\ \/ /\ v.kind = "order" /\ v.of \in Request
        /\ v.err = "ErrNoRows" => v.of \notin v.known
        /\ v.step = "second" \/ v.status = 200 =>
             /\ Committed(v.of)
             /\ \A o \in v.rows : o.total = Amount(Priced(cmd[v.of]))
        /\ v.status = 200 => v.items = Tally(Priced(cmd[v.of]))
     \/ /\ v.kind = "inventory" /\ v.of \in SkuName
        /\ v.status = 200 =>
             \E R \in SUBSET {r \in Request : Committed(r)} :
               v.known \subseteq R /\ LeftBy(R, v.of, v.qty)
     \/ v.kind = "malformed" /\ v.status # 200

Tallies == {Tally(ls) : ls \in Seq(Line)}

Told == {0, 200, 400, 404, 500}

Reasons == {"none", "ErrNoRows", "database"}

\* What a reader has been told, whatever it was.
View ==
  [kind : {"order", "inventory", "malformed"}, of : Request \cup SkuName \cup {""},
   known : SUBSET Request, step : {"first", "second", "done"}, rows : SUBSET Row,
   items : Tallies, qty : Int, status : Told, err : Reasons]

ViewsOK == view \in [Reader -> View] /\ \A q \in Reader : ViewOK(q)

\* The records a step leaves: an answer without rows, the order's row, its
\* items, or a stock.
Answered(v, n, e) == [v EXCEPT !.step = "done", !.status = n, !.err = e]
WithRows(v, rows) == [v EXCEPT !.step = "second", !.rows = rows]
WithItems(v, items) == [v EXCEPT !.step = "done", !.status = 200, !.items = items]
WithQty(v, n) == [v EXCEPT !.step = "done", !.status = 200, !.qty = n]

\* What an answer leaves of the GET it answers.
SameGet(w, v) == w.kind = v.kind /\ w.of = v.of /\ w.known = v.known

\* An answer changes the status,
LEMMA ViewAnswer ==
  ASSUME NEW v \in View, NEW n \in Told, NEW e \in Reasons
  PROVE  LET w == Answered(v, n, e) IN
         w \in View /\ SameGet(w, v) /\ w.step = "done" /\ w.status = n /\ w.err = e
  BY DEF View, Answered, SameGet

\* an order that is found the rows,
LEMMA ViewRows ==
  ASSUME NEW v \in View, NEW rows \in SUBSET Row
  PROVE  LET w == WithRows(v, rows) IN
         /\ w \in View /\ SameGet(w, v) /\ w.step = "second" /\ w.status = v.status
         /\ w.err = v.err /\ w.rows = rows
  BY DEF View, WithRows, SameGet

\* its items the items,
LEMMA ViewItems ==
  ASSUME NEW v \in View, NEW items \in Tallies
  PROVE  LET w == WithItems(v, items) IN
         /\ w \in View /\ SameGet(w, v) /\ w.step = "done" /\ w.status = 200
         /\ w.err = v.err /\ w.rows = v.rows /\ w.items = items
  <1>1. 200 \in Told
    BY DEF Told
  <1> QED
    BY <1>1 DEF View, WithItems, SameGet

\* and a stock the quantity.
LEMMA ViewQty ==
  ASSUME NEW v \in View, NEW n \in Int
  PROVE  LET w == WithQty(v, n) IN
         /\ w \in View /\ SameGet(w, v) /\ w.step = "done" /\ w.status = 200
         /\ w.qty = n
  <1>1. 200 \in Told
    BY DEF Told
  <1> QED
    BY <1>1 DEF View, WithQty, SameGet

\* A GET has not been told anything.
LEMMA GetType ==
  ASSUME NEW known \in SUBSET Request, NEW get \in Gets(known)
  PROVE  /\ get \in View /\ get.known = known /\ get.step = "first"
         /\ get.status = 0 /\ get.err = "none"
         /\ \/ get.kind = "order" /\ get.of \in Request
            \/ get.kind = "inventory" /\ get.of \in SkuName
            \/ get.kind = "malformed"
  <1>1. <<>> \in Seq(Line) /\ 0 \in Int
    OBVIOUS
  <1>2. NoItems \in Tallies
    BY <1>1 DEF NoItems, Tallies
  <1>3. PICK kind \in {"order", "inventory", "malformed"},
             of \in Request \cup SkuName \cup {""} :
          /\ get = Asked(kind, of, known)
          /\ kind = "order" => of \in Request
          /\ kind = "inventory" => of \in SkuName
    BY DEF Gets
  <1>4. /\ get.kind = kind /\ get.of = of /\ get.known = known /\ get.step = "first"
        /\ get.status = 0 /\ get.err = "none"
    BY <1>3 DEF Asked
  <1>5. Asked(kind, of, known) \in View
    BY <1>1, <1>2, Zenon DEF Asked, View, Told, Reasons
  <1> QED
    BY <1>3, <1>4, <1>5

\* No reader has been told anything at first.
LEMMA ViewsInit == QueryInit => ViewsOK
  <1> SUFFICES ASSUME QueryInit PROVE ViewsOK
    OBVIOUS
  <1>1. view \in [Reader -> Gets({})]
    BY DEF QueryInit
  <1>2. ASSUME NEW q \in Reader PROVE view[q] \in View /\ ViewOK(q)
    <2>1. view[q] \in Gets({}) /\ {} \in SUBSET Request
      BY <1>1
    <2>2. /\ view[q] \in View /\ view[q].known = {} /\ view[q].step = "first"
          /\ view[q].status = 0 /\ view[q].err = "none"
          /\ \/ view[q].kind = "order" /\ view[q].of \in Request
             \/ view[q].kind = "inventory" /\ view[q].of \in SkuName
             \/ view[q].kind = "malformed"
      BY <2>1, GetType
    <2> QED
      BY <2>2 DEF ViewOK
  <1> QED
    BY <1>1, <1>2 DEF ViewsOK

\* What is committed stays so: its rows, its items and what it was asked for.
LEMMA CommittedStays ==
  ASSUME IInv, Contents, [Next]_vars
  PROVE  /\ cmd' = cmd
         /\ \A q \in Request : Committed(q) => Committed(q)' /\ orderItems'[q] = orderItems[q]
  <1>1. ASSUME NEW r \in Request, StepOf(r), NEW q \in Request, Committed(q)
        PROVE  Committed(q)' /\ orderItems'[q] = orderItems[q]
    <2>1. OrderOK(r)
      BY DEF Contents
    <2>2. CASE ServerCommits(r)
      <3>1. q # r
        BY <1>1, <2>1, <2>2, CommitEffect DEF OrderOK
      <3> QED
        BY <1>1, <2>1, <2>2, <3>1, CommitEffect DEF OrderOK
    <2>3. CASE ~ServerCommits(r)
      BY <1>1, <2>3, OwnStep, OrderStays DEF tables
    <2> QED
      BY <2>2, <2>3
  <1>2. ASSUME NEW r \in Request, StepOf(r) PROVE cmd' = cmd
    BY <1>2, OwnStep
  <1>3. CASE Crash \/ UNCHANGED vars
    BY <1>3 DEF Crash, vars, tables, server, handler, Committed
  <1>4. ASSUME NEW c \in Customer, RegisterCustomer(c)
        PROVE  UNCHANGED <<cmd, srv, orderItems>>
    BY <1>4 DEF RegisterCustomer, server, handler
  <1> QED
    BY <1>1, <1>2, <1>3, <1>4, StepCases DEF Committed

\* What a reader was told stays true, whatever the writers do.
LEMMA ViewStays ==
  ASSUME NEW q \in Reader, ViewOK(q), view'[q] = view[q], cmd' = cmd,
         \A r \in Request : Committed(r) => Committed(r)' /\ orderItems'[r] = orderItems[r]
  PROVE  ViewOK(q)'
  <1>1. ASSUME NEW R \in SUBSET {r \in Request : Committed(r)}, NEW s, NEW n, LeftBy(R, s, n)
        PROVE  R \in SUBSET {r \in Request : Committed(r)'} /\ LeftBy(R, s, n)'
    <2>1. \A r \in R : Units(orderItems'[r], s) = Units(orderItems[r], s)
      OBVIOUS
    <2>2. [r \in R |-> Units(orderItems'[r], s)] = [r \in R |-> Units(orderItems[r], s)]
      BY <2>1
    <2> QED
      BY <1>1, <2>2 DEF LeftBy
  <1>2. {r \in Request : Committed(r)} \subseteq {r \in Request : Committed(r)'}
    OBVIOUS
  <1> QED
    BY <1>1, <1>2 DEF ViewOK

\* The stock is what the committed orders have left of it.
LEMMA StockLeft ==
  ASSUME TypeOK, Contents, NEW s \in Sku
  PROVE  LeftBy({r \in Request : Committed(r)}, s, stock[s])
  <1> DEFINE R == {r \in Request : Committed(r)}
             f == [r \in Request |-> Units(orderItems[r], s)]
             g == [r \in R |-> Units(orderItems[r], s)]
  <1>1. \A r \in Request : orderItems[r] \in Seq(Line)
    BY DEF TypeOK
  <1>2. f \in [Request -> Nat] /\ g \in [R -> Nat]
    BY <1>1, UnitsType
  <1>3. \A r \in Request \ R : f[r] = 0
    BY SumsEmpty DEF Contents, OrderOK, ItemsOK
  <1>4. R \subseteq Request /\ (\A r \in R : g[r] = f[r])
    OBVIOUS
  <1>5. InitStock[s] - stock[s] = SumFunction(f)
    BY DEF Contents, StockConserved
  <1>6. stock[s] \in Nat /\ InitStock[s] \in Nat
    BY ConstantsOK DEF TypeOK
  <1>7. LeftBy(R, s, stock[s]) <=> stock[s] = InitStock[s] - SumFunction(g)
    BY DEF LeftBy
  <1> HIDE DEF f, g, R
  <1>8. SumFunction(g) = SumFunction(f) /\ SumFunction(f) \in Nat
    <2>1. IsFiniteSet(Request)
      BY ConstantsOK
    <2> QED
      BY ONLY <1>2, <1>3, <1>4, <2>1, SumSupport, SumType
  <1>9. LeftBy(R, s, stock[s])
    BY <1>5, <1>6, <1>7, <1>8
  <1> QED
    BY <1>9 DEF R

\* A reader learns of committed orders only.
LEMMA LearnedAreCommitted ==
  ASSUME IInv, NEW q \in Reader, ViewOK(q)
  PROVE  Learned(q) \subseteq {r \in Request : Committed(r)}
  <1>1. \A r \in Request : reply[r] = 201 => Committed(r)
    BY DEF IInv, RequestOK, AnswerOK, Committed
  <1> QED
    BY <1>1 DEF Learned, ViewOK

\* Every GET is sent knowing the truth, and every SELECT tells it.
LEMMA SelectStep ==
  ASSUME IInv, Contents, ViewsOK, NEW q \in Reader, QueryStep(q)
  PROVE  view' \in [Reader -> View] /\ ViewOK(q)' /\ UNCHANGED vars
         /\ \A p \in Reader \ {q} : view'[p] = view[p]
  <1> DEFINE v == view[q]
  <1>1. TypeOK /\ view \in [Reader -> View] /\ v \in View /\ ViewOK(q)
    BY DEF IInv, ViewsOK
  <1>2. UNCHANGED vars
    BY DEF QueryStep, Ask, RejectPath, GetOrderRow, GetOrderItems, GetInventory
  <1>3. ASSUME NEW w \in View, Tell(q, w)
        PROVE  /\ view' \in [Reader -> View] /\ view'[q] = w
               /\ \A p \in Reader \ {q} : view'[p] = view[p]
    BY <1>1, <1>3 DEF Tell
  <1>4. ASSUME NEW status \in {400, 404, 500}, NEW e \in Reasons, Answer(q, status, e),
               v.kind = "order" /\ e = "ErrNoRows" => v.of \notin v.known
        PROVE  /\ view' \in [Reader -> View] /\ ViewOK(q)'
               /\ \A p \in Reader \ {q} : view'[p] = view[p]
    <2> DEFINE w == Answered(v, status, e)
    <2>1. /\ w \in View /\ w.kind = v.kind /\ w.of = v.of /\ w.known = v.known
          /\ w.step = "done" /\ w.status = status /\ w.err = e
      <3>1. status \in Told /\ v \in View
        BY <1>1 DEF Told
      <3>2. w \in View /\ SameGet(w, v) /\ w.step = "done" /\ w.status = status /\ w.err = e
        BY ONLY <3>1, e \in Reasons, ViewAnswer
      <3> QED
        BY ONLY <3>2 DEF SameGet
    <2>2. Tell(q, w)
      BY <1>4 DEF Answer, Answered
    <2>3. view'[q] = w /\ srv' = srv
      BY <1>2, <1>3, <2>1, <2>2 DEF vars, server
    <2> HIDE DEF w
    <2>4. ViewOK(q)'
      BY <1>1, <1>4, <2>1, <2>3 DEF ViewOK, Committed
    <2> QED
      BY <1>3, <2>1, <2>2, <2>4
  <1>5. CASE GetOrderRow(q)
    <2> DEFINE rows == RowsOf(v.of)
               w == WithRows(v, rows)
    <2>1. /\ v.kind = "order" /\ v.step = "first" /\ v.of \in Request /\ v.status = 0
          /\ v.err = "none" /\ v.known \subseteq {r \in Request : Committed(r)}
      BY <1>1, <1>5 DEF GetOrderRow, At, ViewOK
    <2>2. \/ rows = {} /\ Answer(q, 404, "ErrNoRows")
          \/ Answer(q, 404, "database")
          \/ rows # {} /\ Tell(q, w)
      BY <1>5 DEF GetOrderRow, RowsOf, WithRows
    <2>4. rows = {} => v.of \notin v.known
      BY <2>1 DEF Contents, OrderOK, RowOK
    <2>3. CASE rows # {} /\ Tell(q, w)
      <3>1. rows \subseteq Row
        BY <1>1 DEF RowsOf, TypeOK
      <3>2. /\ w \in View /\ w.kind = "order" /\ w.of = v.of /\ w.known = v.known
            /\ w.step = "second" /\ w.status = 0 /\ w.err = "none" /\ w.rows = rows
        BY <1>1, <2>1, <3>1, ViewRows DEF SameGet
      <3>3. Committed(v.of) /\ rows = {OrderRow(v.of)}
        BY <2>1, <2>3 DEF Contents, OrderOK, RowOK
      <3>4. total[v.of] = Amount(Priced(cmd[v.of]))
        BY <2>1, <3>3, CommittedIsPriced DEF Contents, OrderOK
      <3>5. \A o \in rows : o.total = Amount(Priced(cmd[v.of]))
        BY <3>3, <3>4 DEF OrderRow
      <3>6. view'[q] = w /\ cmd' = cmd /\ srv' = srv
        BY <1>2, <1>3, <2>3, <3>2 DEF vars, handler, server
      <3> HIDE DEF w, v, rows
      <3>7. ViewOK(q)'
        BY <2>1, <3>2, <3>3, <3>5, <3>6 DEF ViewOK, Committed
      <3> QED
        BY <1>2, <1>3, <2>3, <3>2, <3>7
    <2> QED
      BY <1>2, <1>4, <2>2, <2>3, <2>4 DEF Reasons
  <1>6. CASE GetOrderItems(q)
    <2> DEFINE items == Tally(orderItems[v.of])
               w == WithItems(v, items)
    <2>1. /\ v.kind = "order" /\ v.step = "second" /\ v.of \in Request
          /\ v.err = "none" /\ v.known \subseteq {r \in Request : Committed(r)}
      BY <1>1, <1>6 DEF GetOrderItems, At, ViewOK
    <2>2. Answer(q, 500, "database") \/ Tell(q, w)
      BY <1>6 DEF GetOrderItems, WithItems
    <2>3. CASE Tell(q, w)
      <3>1. items \in Tallies
        BY <1>1, <2>1 DEF TypeOK, Tallies
      <3>2. /\ w \in View /\ w.kind = "order" /\ w.of = v.of /\ w.known = v.known
            /\ w.step = "done" /\ w.err = "none" /\ w.rows = v.rows /\ w.items = items
        BY <1>1, <2>1, <3>1, ViewItems DEF SameGet
      <3>3. /\ Committed(v.of) /\ \A o \in v.rows : o.total = Amount(Priced(cmd[v.of]))
        BY <1>1, <2>1 DEF ViewOK
      <3>4. orderItems[v.of] = Priced(cmd[v.of])
        BY <2>1, <3>3, CommittedIsPriced DEF Contents, OrderOK, ItemsOK
      <3>5. items = Tally(Priced(cmd[v.of]))
        BY <3>4
      <3>6. view'[q] = w /\ cmd' = cmd /\ srv' = srv
        BY <1>2, <1>3, <2>3, <3>2 DEF vars, handler, server
      <3> HIDE DEF w, v, items
      <3>7. ViewOK(q)'
        BY <2>1, <3>2, <3>3, <3>5, <3>6 DEF ViewOK, Committed
      <3> QED
        BY <1>2, <1>3, <2>3, <3>2, <3>7
    <2> QED
      BY <1>2, <1>4, <2>2, <2>3 DEF Reasons
  <1>7. CASE GetInventory(q)
    <2> DEFINE w == WithQty(v, stock[v.of])
    <2>1. /\ v.kind = "inventory" /\ v.of \in SkuName
          /\ v.known \subseteq {r \in Request : Committed(r)}
      BY <1>1, <1>7 DEF GetInventory, At, ViewOK
    <2>2. \/ Answer(q, 404, "ErrNoRows") \/ Answer(q, 500, "database")
          \/ v.of \in Sku /\ Tell(q, w)
      BY <1>7 DEF GetInventory, WithQty
    <2>3. CASE v.of \in Sku /\ Tell(q, w)
      <3>1. stock[v.of] \in Int
        BY <1>1, <2>3 DEF TypeOK
      <3>2. /\ w \in View /\ w.kind = "inventory" /\ w.of = v.of /\ w.known = v.known
            /\ w.step = "done" /\ w.qty = stock[v.of]
        BY <1>1, <2>1, <3>1, ViewQty DEF SameGet
      <3>3. LeftBy({r \in Request : Committed(r)}, v.of, stock[v.of])
        BY <1>1, <2>3, StockLeft
      <3>4. view'[q] = w /\ orderItems' = orderItems /\ srv' = srv
        BY <1>2, <1>3, <2>3, <3>2 DEF vars, tables, server
      <3>5. w.qty = InitStock[w.of]
              - SumFunction([r \in {x \in Request : Committed(x)} |-> Units(orderItems[r], w.of)])
        BY <3>2, <3>3 DEF LeftBy
      <3> HIDE DEF w, v
      <3>7. ViewOK(q)'
        <4>1. {x \in Request : Committed(x)'} = {x \in Request : Committed(x)}
          BY <3>4 DEF Committed
        <4> DEFINE R == {x \in Request : Committed(x)}
        <4>2. R \in SUBSET {x \in Request : Committed(x)'} /\ w.known \subseteq R
              /\ w.known \subseteq {x \in Request : Committed(x)'}
          BY <2>1, <3>2, <4>1
        <4>3. w.qty = InitStock[w.of] - SumFunction([r \in R |-> Units(orderItems'[r], w.of)])
          BY <3>4, <3>5
        <4> HIDE DEF R
        <4> QED
          BY <2>1, <3>2, <3>4, <4>2, <4>3 DEF ViewOK, LeftBy
      <3> QED
        BY <1>2, <1>3, <2>3, <3>2, <3>7
    <2> QED
      BY <1>2, <1>4, <2>1, <2>2, <2>3 DEF Reasons
  <1>8. CASE Ask(q)
    <2>1. Learned(q) \subseteq {r \in Request : Committed(r)}
      BY <1>1, LearnedAreCommitted
    <2>2. PICK get \in Gets(Learned(q)) : Tell(q, get)
      BY <1>8 DEF Ask
    <2>3. /\ get \in View /\ get.known = Learned(q) /\ get.step = "first"
          /\ get.status = 0 /\ get.err = "none"
          /\ \/ get.kind = "order" /\ get.of \in Request
             \/ get.kind = "inventory" /\ get.of \in SkuName
             \/ get.kind = "malformed"
      <3>1. Learned(q) \in SUBSET Request
        BY <2>1
      <3> QED
        BY <3>1, GetType
    <2>4. view'[q] = get /\ srv' = srv
      BY <1>2, <1>3, <2>2, <2>3 DEF vars, server
    <2>5. ViewOK(q)'
      BY <2>1, <2>3, <2>4 DEF ViewOK, Committed
    <2> QED
      BY <1>2, <1>3, <2>2, <2>3, <2>5
  <1>9. CASE RejectPath(q)
    <2>1. v.kind = "malformed" /\ \E status \in {400, 404} : Answer(q, status, "none")
      BY <1>9 DEF RejectPath, At
    <2> QED
      BY <1>2, <1>4, <2>1 DEF Reasons
  <1> QED
    BY <1>5, <1>6, <1>7, <1>8, <1>9 DEF QueryStep

\* Readers and writers together keep the views right.
LEMMA ViewsStep ==
  ASSUME IInv, Contents, ViewsOK, [QueryNext]_queryVars
  PROVE  ViewsOK'
  <1>1. CASE [Next]_vars /\ UNCHANGED view
    BY <1>1, CommittedStays, ViewStays DEF ViewsOK
  <1>2. ASSUME NEW q \in Reader, QueryStep(q) PROVE ViewsOK'
    <2>1. /\ view' \in [Reader -> View] /\ ViewOK(q)' /\ UNCHANGED vars
          /\ \A p \in Reader \ {q} : view'[p] = view[p]
      BY <1>2, SelectStep
    <2>2. ASSUME NEW p \in Reader \ {q} PROVE ViewOK(p)'
      BY <2>1, CommittedStays, ViewStays DEF ViewsOK
    <2> QED
      BY <2>1, <2>2 DEF ViewsOK
  <1> QED
    BY <1>1, <1>2 DEF QueryNext, queryVars

\* Readers change nothing a writer sees.
LEMMA QueriesOnlyRead == QuerySpec => Spec
  <1>1. QueryInit => Init
    BY DEF QueryInit
  <1>2. [QueryNext]_queryVars => [Next]_vars
    BY DEF QueryNext, QueryStep, Ask, RejectPath, GetOrderRow, GetOrderItems, GetInventory,
       queryVars
  <1> QED
    BY <1>1, <1>2, PTL DEF QuerySpec, Spec

\* What readers are told is always right.
LEMMA ViewsInvariant == QuerySpec => []ViewsOK
  <1>1. IInv /\ Contents /\ ViewsOK /\ [QueryNext]_queryVars => ViewsOK'
    BY ViewsStep
  <1> QED
    BY <1>1, ViewsInit, QueriesOnlyRead, Invariant, ContentsInvariant, PTL DEF QuerySpec

\* GET /orders/{id} never shows an order without all of its items, or with
\* another's total, though it reads them in two statements.
THEOREM ReadsAreWhole == QuerySpec => []ReadWhole
  <1>1. ViewsOK => ReadWhole
    BY DEF ViewsOK, ViewOK, ReadWhole
  <1> QED
    BY <1>1, ViewsInvariant, PTL

\* A client that has been told of an order, by a 201 or by a read, finds it in
\* every later read that does not fail, and its units out of every later stock.
THEOREM LaterReadsAgree == QuerySpec => []ReadsFollowAnswers
  <1>1. ViewsOK => ReadsFollowAnswers
    BY DEF ViewsOK, ViewOK, LeftBy, ReadsFollowAnswers
  <1> QED
    BY <1>1, ViewsInvariant, PTL
=============================================================================
