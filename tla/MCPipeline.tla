---------------------------- MODULE MCPipeline ----------------------------
(***************************************************************************)
(* An instance of Pipeline small enough for TLC.                           *)
(***************************************************************************)
EXTENDS Pipeline

CONSTANTS o1, ann, book, p0, p1, monday

MCSku == {book}
MCCustomer == {ann}
MCOrderId == {o1}
MCInitStock == [s \in MCSku |-> 2]
MCNone == {}
MCTheOrder == [id |-> o1, customer |-> ann, total |-> 3, taken |-> [s \in MCSku |-> 1]]
MCOrders == {MCTheOrder}
MCPartition == {p0, p1}
MCDay == {monday}
MCDayOf == [k \in MCOrderId \cup MCCustomer |-> monday]
MCPartitionOf == [k \in MCOrderId \cup MCCustomer |-> IF k = o1 THEN p0 ELSE p1]
=============================================================================
