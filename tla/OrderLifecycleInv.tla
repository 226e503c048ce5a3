-------------------------- MODULE OrderLifecycleInv --------------------------
(***************************************************************************)
(* The inductive invariant of OrderLifecycle: what the safety properties   *)
(* need to know of where the two threads are, of the numbers of the orders *)
(* and of the rows, and of what the reconciler is about to apply.          *)
(* OrderLifecycle_proofs proves it; lifecycle_faults checks it on a small  *)
(* instance.                                                               *)
(***************************************************************************)
EXTENDS OrderLifecycle

\* Orders and rows are numbered without gaps; a row is not older than the orders.
OrdersNumbered ==
  \A o \in OrderId :
    IF o =< sent THEN order[o].status # "none" /\ order[o].spread \in Spread
                 ELSE order[o] = NoOrder
RowsNumbered ==
  \A i \in RowId :
    IF i =< rows THEN row[i].status # "none" /\ row[i].spread \in Spread /\ row[i].born =< sent
                 ELSE row[i] = NoRow

\* The entries thread has an entry order in hand that no row waits for.
Placing ==
  /\ epc \in {"submit", "wait", "cancel", "wait2"} => eSpread \in Spread
  /\ epc \in {"wait", "cancel", "wait2"} =>
       IsOrder(eOrder, eSpread, "entry") /\ \A i \in RowId : row[i].order # eOrder
  /\ epc \in {"cancel", "wait2"} => eRung < Rungs

\* The rows the exits thread has yet to reach are as its loop expects them; the
\* close order it has in hand is for the row it has in hand.
Managing ==
  /\ xpc \in {"resolve", "cancel"} => \A i \in xTodo : row[i].status \in {"pending", "closing"}
  /\ xpc \in {"manage", "closewait"} => \A i \in xTodo : row[i].status = "open"
  /\ xpc \in {"cancel", "closewait", "revert"} => xRow \in xTodo
  /\ xpc = "revert" => /\ row[xRow].status = "closing" /\ row[xRow].order = xOrder
                       /\ \A i \in xTodo \ {xRow} : row[i].status = "open"
  /\ xpc = "closewait" => /\ IsOrder(xOrder, row[xRow].spread, "close")
                          /\ xOrder > row[xRow].born
                          /\ \A i \in RowId : row[i].order # xOrder

\* A close order was sent after its row was opened.
ClosesAreLater == \A i \in RowId : row[i].status = "closing" => row[i].order > row[i].born

\* What the reconciler read and decided: rows that must have legs, each once.
Reconciling ==
  /\ xpc \in {"broker", "evidence"} =>
       /\ \A k \in DOMAIN xLive : xLive[k] \in live_legs_rows
       /\ \A j, k \in DOMAIN xLive : xLive[j] = xLive[k] => j = k
  /\ xRes # {} => xpc \in {"apply", "log"}
  /\ \A r \in xRes : r.kind # "adopt" => r.pid \in RowId
  /\ \A q, r \in xRes : (q.kind # "adopt" /\ q.pid = r.pid) => q = r

\* The fixes of the day are those logged, one that is about to be, and those a
\* failure left without their log row.
Budget == /\ fixlog =< MaxFixes
          /\ xpc = "log" => fixlog < MaxFixes
          /\ applied =< fixlog + faults + (IF xpc = "log" THEN 1 ELSE 0)

BrokerInv  == BrokerType /\ OrdersNumbered
TableInv   == /\ TableType /\ RowsNumbered
              /\ OrderOwnership /\ ClosesAreLater /\ PnlHasEvidence /\ OpenHasFill
EntriesInv == EntriesType /\ Placing
ExitsInv   == ExitsType /\ Managing /\ Reconciling /\ DecisionsStand
CountInv   == CountType /\ Budget

Inv == BrokerInv /\ TableInv /\ EntriesInv /\ ExitsInv /\ CountInv

\* The entries thread still means to record or to cancel order o.  Once it has
\* called cancel_order it does not look after an order that kept working.
InHand(o) == o = eOrder /\ epc # "wait2"

\* An entry order nobody will look at again, or whose fill has no row.
Astray(o) ==
  /\ order[o].side = "entry"
  /\ \/ order[o].status = "working" /\ ~InHand(o) /\ \A i \in RowId : row[i].order # o
     \/ order[o].status = "filled" /\ ~Recorded(o)

\* Every order astray has a fault of its own that left it so.
Accounted ==
  /\ epc \in {"idle", "pass", "submit"} => eOrder = 0
  /\ \A i \in RowId : row[i].status = "pending" => row[i].entry = row[i].order
  /\ Cardinality({ o \in OrderId : Astray(o) }) =< faults

\* The inductive invariant: what every state of the two threads, the table and the
\* broker has in common, and no order astray that no fault accounts for.
CountedInv == Inv /\ Accounted

=============================================================================
