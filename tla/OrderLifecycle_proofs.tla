------------------------- MODULE OrderLifecycle_proofs -------------------------
(***************************************************************************)
(* Proofs about OrderLifecycle, for every set of legs and spreads and      *)
(* every value of the bounds.                                              *)
(***************************************************************************)
EXTENDS OrderLifecycleInv, FiniteSetTheorems, TLAPS

(***************************************************************************)
(* What every step does to the broker: orders are only added, keep their   *)
(* legs and side, and stay filled once they are; activities are only       *)
(* added.                                                                  *)
(***************************************************************************)
OrdersGrow ==
  /\ sent =< sent'
  /\ \A o \in 1..sent : /\ order'[o].spread = order[o].spread
                        /\ order'[o].side = order[o].side
                        /\ order[o].status = "filled" => order'[o].status = "filled"
  /\ acts \subseteq acts'

BrokerKept == BrokerInv' /\ OrdersGrow

LEMMA BrokerUnchanged == BrokerInv /\ UNCHANGED broker => BrokerKept
  BY DEF BrokerKept, BrokerInv, BrokerType, OrdersNumbered, OrdersGrow, broker, NoOrder

LEMMA ExecuteType ==
  ASSUME BrokerInv, NEW o \in OrderId, NEW n \in Int, Execute(o, n)
  PROVE  book' \in [Leg -> Int]
<1>1. \A v, leg : LegSign(v, leg) \in Int
  BY DEF LegSign
<1> DEFINE m == IF order[o].side = "entry" THEN n ELSE -n
<1>2. m \in Int
  OBVIOUS
<1>3. \A leg \in Leg : book[leg] + m * LegSign(order[o].spread, leg) \in Int
  <2> HIDE DEF m
  <2> QED BY <1>1, <1>2 DEF BrokerInv, BrokerType
<1>4. book' = [leg \in Leg |-> book[leg] + m * LegSign(order[o].spread, leg)]
  BY DEF Execute
<1> QED
  <2> HIDE DEF m
  <2> QED BY <1>3, <1>4

\* One working order changes, and keeps its legs and side.
LEMMA OneOrder ==
  ASSUME BrokerInv, NEW o \in OrderId, order[o].status = "working",
         order' \in [OrderId -> OrderType],
         order'[o].status # "none",
         order'[o].spread = order[o].spread, order'[o].side = order[o].side,
         \A p \in OrderId : p # o => order'[p] = order[p],
         sent' = sent, acts' = acts, book' \in [Leg -> Int]
  PROVE  BrokerKept
<1> USE DEF BrokerInv, BrokerType, OrdersNumbered, OrderId
<1>1. o =< sent
  BY DEF NoOrder
<1>2. OrdersNumbered'
  BY <1>1
<1>3. OrdersGrow
  BY BoundsAssumption DEF OrdersGrow
<1> QED BY <1>2, <1>3 DEF BrokerKept

LEMMA FillKept ==
  ASSUME BrokerInv, NEW o \in OrderId, BrokerFill(o)
  PROVE  BrokerKept
<1>1. /\ order' = [order EXCEPT ![o].status = "filled", ![o].done = order[o].qty]
      /\ order[o].status = "working" /\ UNCHANGED <<sent, acts>>
  BY DEF BrokerFill
<1>2. book' \in [Leg -> Int]
  <2>1. order[o].qty - order[o].done \in Int
    BY DEF BrokerInv, BrokerType, OrderType
  <2> QED BY <2>1, ExecuteType DEF BrokerFill
<1>3. /\ order' \in [OrderId -> OrderType]
      /\ order'[o].status = "filled"
      /\ order'[o].spread = order[o].spread /\ order'[o].side = order[o].side
  BY <1>1 DEF BrokerInv, BrokerType, OrderType, OrderStatus
<1>4. \A p \in OrderId : p # o => order'[p] = order[p]
  BY <1>1 DEF BrokerInv, BrokerType
<1> QED BY <1>1, <1>2, <1>3, <1>4, OneOrder

LEMMA PartialFillKept ==
  ASSUME BrokerInv, NEW o \in OrderId, BrokerPartialFill(o)
  PROVE  BrokerKept
<1>1. /\ order' = [order EXCEPT ![o].done = order[o].done + 1]
      /\ order[o].status = "working" /\ UNCHANGED <<sent, acts>>
  BY DEF BrokerPartialFill
<1>2. book' \in [Leg -> Int]
  BY ExecuteType DEF BrokerPartialFill
<1>3. /\ order' \in [OrderId -> OrderType]
      /\ order'[o].status = "working"
      /\ order'[o].spread = order[o].spread /\ order'[o].side = order[o].side
  BY <1>1 DEF BrokerInv, BrokerType, OrderType
<1>4. \A p \in OrderId : p # o => order'[p] = order[p]
  BY <1>1 DEF BrokerInv, BrokerType
<1> QED BY <1>1, <1>2, <1>3, <1>4, OneOrder

LEMMA DropKept ==
  ASSUME BrokerInv, NEW o \in OrderId, order[o].status = "working",
         order' = [order EXCEPT ![o].status = "dead"], UNCHANGED <<sent, book, acts>>
  PROVE  BrokerKept
<1>1. /\ order' \in [OrderId -> OrderType]
      /\ order'[o].status = "dead"
      /\ order'[o].spread = order[o].spread /\ order'[o].side = order[o].side
      /\ \A p \in OrderId : p # o => order'[p] = order[p]
      /\ book' \in [Leg -> Int]
  BY DEF BrokerInv, BrokerType, OrderType, OrderStatus
<1> QED BY <1>1, OneOrder

LEMMA CancelKept ==
  ASSUME BrokerInv, NEW o \in OrderId, cancel_order(o), UNCHANGED <<sent, book, acts>>
  PROVE  BrokerKept
<1>1. CASE order[o].status = "working" /\ order' = [order EXCEPT ![o].status = "dead"]
  BY <1>1, DropKept
<1>2. CASE order' = order
  BY <1>2, BrokerUnchanged DEF broker
<1>3. order[o].status # "working" =>
        [order EXCEPT ![o].status = order[o].status] = order
  BY DEF BrokerInv, BrokerType, OrderType
<1> QED
  BY <1>1, <1>2, <1>3 DEF cancel_order

\* A new order takes the next number.
LEMMA SendKept ==
  ASSUME BrokerInv, NEW o \in OrderId, NEW v \in Spread, NEW side \in Side, NEW n \in Nat,
         Send(o, v, side, n), UNCHANGED <<book, acts>>
  PROVE  /\ BrokerKept
         /\ o = sent + 1 /\ sent' = o
         /\ IsOrder(o, v, side)'
<1> USE DEF BrokerInv, BrokerType, OrdersNumbered, OrderId
<1> DEFINE new == [status |-> "working", spread |-> v, side |-> side, qty |-> n, done |-> 0]
<1>1. o = sent + 1 /\ sent' = o /\ order' = [order EXCEPT ![o] = new]
  BY DEF Send
<1>2. new \in OrderType
  BY DEF OrderType, OrderStatus, MaybeSpread
<1>3. /\ order' \in [OrderId -> OrderType] /\ order'[o] = new
      /\ \A p \in OrderId : p # o => order'[p] = order[p]
  BY <1>1, <1>2
<1>4. sent' \in 0..MaxOrders
  BY <1>1, BoundsAssumption
<1>5. OrdersNumbered'
  BY <1>1, <1>3
<1>6. OrdersGrow
  BY <1>1, <1>3, BoundsAssumption DEF OrdersGrow
<1>7. IsOrder(o, v, side)'
  BY <1>1, <1>3 DEF IsOrder
<1> QED BY <1>1, <1>3, <1>4, <1>5, <1>6, <1>7 DEF BrokerKept

LEMMA SettleKept ==
  ASSUME BrokerInv, NEW v \in Spread, Settle(v)
  PROVE  BrokerKept
<1>1. v[1] \in Leg /\ v[2] \in Leg
  BY SpreadAssumption
<1>2. book' \in [Leg -> Int]
  BY DEF Settle, BrokerInv, BrokerType
<1>3. acts' \subseteq [leg : Leg, type : {"OPEXP", "OPASN", "OPEXC"}] /\ acts \subseteq acts'
  BY <1>1 DEF Settle, BrokerInv, BrokerType
<1>4. UNCHANGED <<order, sent>>
  BY DEF Settle
<1> QED
  BY <1>2, <1>3, <1>4 DEF BrokerKept, BrokerInv, BrokerType, OrdersNumbered, OrdersGrow, NoOrder


(***************************************************************************)
(* The table.  A fact a row rests on stays true as the broker goes on.     *)
(***************************************************************************)
LEMMA FactsStay ==
  ASSUME BrokerInv, BrokerKept
  PROVE  /\ \A o, v, side : IsOrder(o, v, side) => IsOrder(o, v, side)'
         /\ \A o \in 1..sent : order[o].status = "filled" => order'[o].status = "filled"
         /\ \A v : Expired(v) => Expired(v)'
         /\ \A v : FilledEntry(v) => FilledEntry(v)'
<1> USE DEF BrokerKept
<1>1. sent \in Nat /\ sent' \in Nat /\ sent =< sent'
  BY BoundsAssumption DEF BrokerInv, BrokerType, OrdersGrow
<1>2. \A o \in 1..sent : o \in 1..sent'
  BY <1>1
<1>3. ASSUME NEW o, NEW v, NEW side, IsOrder(o, v, side) PROVE IsOrder(o, v, side)'
  BY <1>2, <1>3 DEF OrdersGrow, IsOrder
<1>4. ASSUME NEW v, Expired(v) PROVE Expired(v)'
  BY <1>4 DEF OrdersGrow, Expired
<1>5. ASSUME NEW v, FilledEntry(v) PROVE FilledEntry(v)'
  <2>1. PICK o \in 1..sent : IsOrder(o, v, "entry") /\ order[o].status = "filled"
    BY <1>5 DEF FilledEntry
  <2>2. o \in 1..sent' /\ IsOrder(o, v, "entry")' /\ order'[o].status = "filled"
    BY <2>1, <1>2, <1>3 DEF OrdersGrow
  <2> QED BY <2>2 DEF FilledEntry
<1> QED
  BY <1>3, <1>4, <1>5 DEF OrdersGrow

\* What TableInv says of a row that was inserted.
RowFacts(i) ==
  /\ row[i].status # "none" /\ row[i].spread \in Spread /\ row[i].born =< sent
  /\ row[i].status = "pending" => IsOrder(row[i].order, row[i].spread, "entry")
  /\ row[i].status = "closing" => /\ IsOrder(row[i].order, row[i].spread, "close")
                                  /\ row[i].order > row[i].born
  /\ row[i].status \notin {"pending", "closing"} => row[i].order = 0
  /\ row[i].status = "closed" => /\ row[i].how # "none"
                                 /\ row[i].how = "fill" => FilledClose(row[i].exit, i)
                                 /\ row[i].how = "expired" => Expired(row[i].spread)
  /\ row[i].status \in {"open", "closing", "closed"} =>
       row[i].entry = 0 \/ FilledEntry(row[i].spread)

LEMMA RowFactsFromInv ==
  ASSUME TableInv, NEW i \in RowId, row[i].status # "none"
  PROVE  RowFacts(i) /\ i =< rows
  BY DEF TableInv, RowFacts, TableType, RowsNumbered, OrderOwnership, ClosesAreLater,
         PnlHasEvidence, OpenHasFill, NoRow

LEMMA InvFromRowFacts ==
  ASSUME TableType', \A i \in RowId : IF i =< rows' THEN RowFacts(i)' ELSE row'[i] = NoRow,
         \A i, j \in RowId : i # j /\ row'[i].order # 0 => row'[i].order # row'[j].order
  PROVE  TableInv'
<1>1. \A i \in RowId : row'[i].status # "none" => RowFacts(i)'
  BY DEF NoRow
<1>2. RowsNumbered'
  BY DEF RowsNumbered, RowFacts
<1>3. OrderOwnership'
  BY <1>1 DEF OrderOwnership, RowFacts, NoRow
<1>4. ClosesAreLater' /\ PnlHasEvidence' /\ OpenHasFill'
  BY <1>1 DEF ClosesAreLater, PnlHasEvidence, OpenHasFill, RowFacts
<1> QED BY <1>2, <1>3, <1>4 DEF TableInv

LEMMA RowFactsStay ==
  ASSUME BrokerInv, BrokerKept, NEW i \in RowId, RowFacts(i), row'[i] = row[i], TableType
  PROVE  RowFacts(i)'
<1> USE DEF BrokerKept
<1>1. row[i].born =< sent'
  <2>1. row[i].born \in Nat /\ sent \in Nat /\ sent' \in Nat /\ sent =< sent'
    BY BoundsAssumption DEF TableType, RowType, BrokerInv, BrokerType, OrdersGrow
  <2> QED BY <2>1 DEF RowFacts
<1>2. \A o : FilledClose(o, i) => FilledClose(o, i)'
  BY FactsStay DEF FilledClose, IsOrder
<1> QED BY <1>1, <1>2, FactsStay DEF RowFacts

LEMMA TableUnchanged ==
  ASSUME BrokerInv, BrokerKept, TableInv, UNCHANGED table
  PROVE  TableInv'
<1>1. row' = row /\ rows' = rows /\ TableType /\ TableType'
  BY DEF table, TableInv, TableType
<1>2. ASSUME NEW i \in RowId PROVE IF i =< rows' THEN RowFacts(i)' ELSE row'[i] = NoRow
  <2>1. CASE i =< rows
    BY <1>1, <2>1, RowFactsFromInv, RowFactsStay DEF TableInv, RowsNumbered
  <2>2. CASE ~(i =< rows)
    BY <1>1, <2>2 DEF TableInv, RowsNumbered
  <2> QED BY <1>1, <2>1, <2>2
<1>3. \A i, j \in RowId : i # j /\ row'[i].order # 0 => row'[i].order # row'[j].order
  BY <1>1 DEF TableInv, OrderOwnership
<1> QED BY <1>1, <1>2, <1>3, InvFromRowFacts

\* One row is written, an old one or the next new one.
LEMMA OneRow ==
  ASSUME BrokerInv, BrokerKept, TableInv, NEW i \in RowId,
         row' \in [RowId -> RowType],
         \A j \in RowId : j # i => row'[j] = row[j],
         \/ rows' = rows /\ i =< rows
         \/ rows' = i /\ i = rows + 1,
         RowFacts(i)',
         \/ row'[i].order = 0
         \/ \A j \in RowId : j # i => row[j].order # row'[i].order
  PROVE  TableInv'
<1>0. rows \in Nat /\ rows' \in 0..MaxRows /\ TableType
  BY BoundsAssumption DEF TableInv, TableType, RowId
<1>1. TableType'
  BY <1>0 DEF TableType
<1>2. ASSUME NEW j \in RowId PROVE IF j =< rows' THEN RowFacts(j)' ELSE row'[j] = NoRow
  <2>1. CASE j = i
    BY <2>1, <1>0
  <2>2. CASE j # i /\ j =< rows
    <3>1. RowFacts(j)
      BY <2>2, RowFactsFromInv DEF TableInv, RowsNumbered
    <3>2. j =< rows'
      BY <2>2, <1>0 DEF RowId
    <3> QED BY <1>0, <2>2, <3>1, <3>2, RowFactsStay
  <2>3. CASE j # i /\ ~(j =< rows)
    BY <2>3, <1>0 DEF TableInv, RowsNumbered, RowId
  <2> QED BY <2>1, <2>2, <2>3
<1>3. \A j, k \in RowId : j # k /\ row'[j].order # 0 => row'[j].order # row'[k].order
  BY DEF TableInv, OrderOwnership
<1> QED BY <1>1, <1>2, <1>3, InvFromRowFacts

(***************************************************************************)
(* The statements of store.py.                                             *)
(***************************************************************************)
LEMMA InsertKept ==
  ASSUME BrokerInv, BrokerKept, TableInv,
         NEW status \in {"pending", "open"}, NEW v \in Spread, NEW n \in Nat, NEW entry \in Nat,
         Insert(status, v, n, entry),
         status = "pending" => /\ IsOrder(entry, v, "entry")'
                               /\ \A i \in RowId : row[i].order # entry,
         (status = "open" /\ entry # 0) =>
           IsOrder(entry, v, "entry")' /\ order'[entry].status = "filled"
  PROVE  TableInv'
<1>1. PICK i \in RowId :
        /\ i = rows + 1 /\ rows' = i
        /\ row' = [row EXCEPT ![i] =
                     [status |-> status, spread |-> v, qty |-> n,
                      order |-> IF status = "pending" THEN entry ELSE 0,
                      entry |-> entry, born |-> sent, exit |-> 0, how |-> "none"]]
  BY DEF Insert
<1>2. sent \in Nat /\ sent' \in Nat /\ sent =< sent' /\ row \in [RowId -> RowType]
  BY BoundsAssumption DEF BrokerKept, BrokerInv, BrokerType, OrdersGrow, TableInv, TableType
<1>3. /\ row'[i] = [status |-> status, spread |-> v, qty |-> n,
                    order |-> IF status = "pending" THEN entry ELSE 0,
                    entry |-> entry, born |-> sent, exit |-> 0, how |-> "none"]
      /\ \A j \in RowId : j # i => row'[j] = row[j]
  BY <1>1, <1>2
<1>4. row'[i] \in RowType
  BY <1>2, <1>3 DEF RowType, RowStatus, MaybeSpread, How
<1>5. row' \in [RowId -> RowType]
  BY <1>1, <1>2, <1>3, <1>4
<1>6. RowFacts(i)'
  <2>1. entry # 0 /\ status = "open" =>
          FilledEntry(v)'
    BY DEF IsOrder, FilledEntry
  <2> QED BY <1>2, <1>3, <2>1 DEF RowFacts
<1>7. row'[i].order = 0 \/ \A j \in RowId : j # i => row[j].order # row'[i].order
  BY <1>3
<1> QED BY <1>1, <1>3, <1>5, <1>6, <1>7, OneRow

\* The part of RowFacts an edited row must be shown to have.
Evidenced(i) ==
  /\ row[i].status \in {"open", "closing", "closed", "unfilled"}
  /\ row[i].status = "closing" => /\ IsOrder(row[i].order, row[i].spread, "close")
                                  /\ row[i].order > row[i].born
  /\ row[i].status # "closing" => row[i].order = 0
  /\ row[i].status = "closed" => /\ row[i].how # "none"
                                 /\ row[i].how = "fill" => FilledClose(row[i].exit, i)
                                 /\ row[i].how = "expired" => Expired(row[i].spread)

\* Row i is edited: it keeps its legs, its age and its entry order.
LEMMA RowEdited ==
  ASSUME BrokerInv, BrokerKept, TableInv, NEW i \in RowId, row[i].status # "none",
         row' \in [RowId -> RowType], rows' = rows,
         \A j \in RowId : j # i => row'[j] = row[j],
         row'[i].spread = row[i].spread, row'[i].born = row[i].born,
         row'[i].entry = row[i].entry,
         Evidenced(i)',
         row'[i].order # 0 => \A j \in RowId : j # i => row[j].order # row'[i].order,
         \/ row[i].status \in {"open", "closing", "closed"}
         \/ FilledEntry(row[i].spread)
         \/ row'[i].status = "unfilled"
  PROVE  TableInv'
<1>1. RowFacts(i) /\ i =< rows /\ row[i] \in RowType
  BY RowFactsFromInv DEF TableInv, TableType
<1>2. row'[i].born =< sent'
  <2>1. row[i].born \in Nat /\ sent \in Nat /\ sent' \in Nat /\ sent =< sent'
    BY <1>1, BoundsAssumption
       DEF RowType, BrokerKept, BrokerInv, BrokerType, OrdersGrow
  <2> QED BY <1>1, <2>1 DEF RowFacts
<1>3. PICK v : v = row[i].spread
  OBVIOUS
<1>4. FilledEntry(v) => FilledEntry(v)'
  BY FactsStay
<1>5. row'[i].status # "unfilled" => row'[i].entry = 0 \/ FilledEntry(v)'
  BY <1>1, <1>3, <1>4 DEF RowFacts
<1>6. RowFacts(i)'
  BY <1>1, <1>2, <1>3, <1>5 DEF RowFacts, Evidenced
<1> QED BY <1>1, <1>6, OneRow

LEMMA ConfirmFillKept ==
  ASSUME BrokerInv, BrokerKept, TableInv, NEW i \in RowId,
         row[i].status = "pending", order[row[i].order].status = "filled",
         confirm_fill(i)
  PROVE  TableInv'
<1>1. RowFacts(i) /\ row \in [RowId -> RowType]
  BY RowFactsFromInv DEF TableInv, TableType
<1>2. row' = [row EXCEPT ![i].status = "open", ![i].order = 0] /\ rows' = rows
  BY DEF confirm_fill, Update, RowStatus
<1>3. /\ row' \in [RowId -> RowType]
      /\ row'[i].status = "open" /\ row'[i].order = 0
      /\ row'[i].spread = row[i].spread /\ row'[i].born = row[i].born
      /\ row'[i].entry = row[i].entry
      /\ \A j \in RowId : j # i => row'[j] = row[j]
  BY <1>1, <1>2 DEF RowType, RowStatus
<1>4. FilledEntry(row[i].spread)
  BY <1>1 DEF FilledEntry, RowFacts, IsOrder
<1>5. Evidenced(i)'
  BY <1>3 DEF Evidenced
<1> QED BY <1>2, <1>3, <1>4, <1>5, RowEdited

LEMMA MarkUnfilledKept ==
  ASSUME BrokerInv, BrokerKept, TableInv, NEW i \in RowId,
         row[i].status = "pending", mark_unfilled(i)
  PROVE  TableInv'
<1>1. row \in [RowId -> RowType]
  BY DEF TableInv, TableType
<1>2. row' = [row EXCEPT ![i].status = "unfilled", ![i].order = 0] /\ rows' = rows
  BY DEF mark_unfilled, Update
<1>3. /\ row' \in [RowId -> RowType]
      /\ row'[i].status = "unfilled" /\ row'[i].order = 0
      /\ row'[i].spread = row[i].spread /\ row'[i].born = row[i].born
      /\ row'[i].entry = row[i].entry
      /\ \A j \in RowId : j # i => row'[j] = row[j]
  BY <1>1, <1>2 DEF RowType, RowStatus
<1>5. Evidenced(i)'
  BY <1>3 DEF Evidenced
<1> QED BY <1>2, <1>3, <1>5, RowEdited

LEMMA MarkClosingKept ==
  ASSUME BrokerInv, BrokerKept, TableInv, NEW i \in RowId, NEW o \in Nat,
         row[i].status = "open", mark_closing(i, o),
         IsOrder(o, row[i].spread, "close"), o > row[i].born,
         \A j \in RowId : row[j].order # o
  PROVE  TableInv'
<1>1. row \in [RowId -> RowType]
  BY DEF TableInv, TableType
<1>2. row' = [row EXCEPT ![i].status = "closing", ![i].order = o] /\ rows' = rows
  BY DEF mark_closing, Update
<1>3. /\ row' \in [RowId -> RowType]
      /\ row'[i].status = "closing" /\ row'[i].order = o
      /\ row'[i].spread = row[i].spread /\ row'[i].born = row[i].born
      /\ row'[i].entry = row[i].entry
      /\ \A j \in RowId : j # i => row'[j] = row[j]
  BY <1>1, <1>2 DEF RowType, RowStatus
<1>4. IsOrder(o, row[i].spread, "close")'
  <2>1. PICK v : v = row[i].spread
    OBVIOUS
  <2>2. IsOrder(o, v, "close")'
    BY <2>1, FactsStay
  <2> QED BY <1>3, <2>1, <2>2 DEF IsOrder
<1>5. Evidenced(i)'
  BY <1>3, <1>4 DEF Evidenced
<1> QED BY <1>2, <1>3, <1>5, RowEdited

LEMMA RevertClosingKept ==
  ASSUME BrokerInv, BrokerKept, TableInv, NEW i \in RowId,
         row[i].status = "closing", revert_closing(i)
  PROVE  TableInv'
<1>1. row \in [RowId -> RowType]
  BY DEF TableInv, TableType
<1>2. row' = [row EXCEPT ![i].status = "open", ![i].order = 0] /\ rows' = rows
  BY DEF revert_closing, Update
<1>3. /\ row' \in [RowId -> RowType]
      /\ row'[i].status = "open" /\ row'[i].order = 0
      /\ row'[i].spread = row[i].spread /\ row'[i].born = row[i].born
      /\ row'[i].entry = row[i].entry
      /\ \A j \in RowId : j # i => row'[j] = row[j]
  BY <1>1, <1>2 DEF RowType, RowStatus
<1>5. Evidenced(i)'
  BY <1>3 DEF Evidenced
<1> QED BY <1>2, <1>3, <1>5, RowEdited

LEMMA ClosePositionKept ==
  ASSUME BrokerInv, BrokerKept, TableInv, NEW i \in RowId,
         NEW exit \in Nat, NEW how \in {"fill", "expired", "assumed"},
         row[i].status \in LIVE_STATUSES, close_position(i, exit, how),
         how = "fill" => FilledClose(exit, i),
         how = "expired" => Expired(row[i].spread)
  PROVE  TableInv'
<1>1. row \in [RowId -> RowType]
  BY DEF TableInv, TableType
<1>2. row' = [row EXCEPT ![i].status = "closed", ![i].order = 0, ![i].exit = exit, ![i].how = how]
      /\ rows' = rows
  BY DEF close_position
<1> DEFINE new == [row[i] EXCEPT !.status = "closed", !.order = 0, !.exit = exit, !.how = how]
<1>3. /\ row'[i] = new /\ new \in RowType
      /\ \A j \in RowId : j # i => row'[j] = row[j]
  BY <1>1, <1>2 DEF RowType, RowStatus, How
<1>5. row' \in [RowId -> RowType]
  BY <1>1, <1>2, <1>3
<1>6. /\ row'[i].status = "closed" /\ row'[i].order = 0
      /\ row'[i].exit = exit /\ row'[i].how = how
      /\ row'[i].spread = row[i].spread /\ row'[i].born = row[i].born
      /\ row'[i].entry = row[i].entry
  BY <1>1, <1>3 DEF RowType
<1>4. row[i].status \in {"open", "closing"}
  BY DEF LIVE_STATUSES
<1>7. FilledClose(exit, i) => FilledClose(exit, i)'
  <2>1. PICK v : v = row[i].spread
    OBVIOUS
  <2>2. IsOrder(exit, v, "close") => IsOrder(exit, v, "close")'
    BY FactsStay
  <2> QED BY <1>6, <2>1, <2>2, FactsStay DEF FilledClose, IsOrder
<1>8. Expired(row[i].spread) => Expired(row[i].spread)'
  <2>1. PICK v : v = row[i].spread
    OBVIOUS
  <2>2. Expired(v) => Expired(v)'
    BY FactsStay
  <2> QED BY <1>6, <2>1, <2>2
<1>9. Evidenced(i)'
  BY <1>6, <1>7, <1>8 DEF Evidenced
<1> HIDE DEF new
<1> QED BY <1>2, <1>3, <1>4, <1>5, <1>6, <1>9, RowEdited

LEMMA AdjustKept ==
  ASSUME BrokerInv, BrokerKept, TableInv, NEW i \in RowId, NEW n \in Nat,
         row[i].status \in LIVE_STATUSES, adjust_contracts(i, n)
  PROVE  TableInv'
<1>1. row \in [RowId -> RowType] /\ RowFacts(i)
  BY RowFactsFromInv DEF TableInv, TableType, LIVE_STATUSES
<1>2. rows' = rows /\ (row' = row \/ row' = [row EXCEPT ![i].qty = n])
  BY DEF adjust_contracts
<1>3. CASE row' = row
  BY <1>2, <1>3, TableUnchanged DEF table
<1>4. CASE row' = [row EXCEPT ![i].qty = n]
  <2>1. /\ row' \in [RowId -> RowType]
        /\ row'[i].status = row[i].status /\ row'[i].order = row[i].order
        /\ row'[i].spread = row[i].spread /\ row'[i].born = row[i].born
        /\ row'[i].entry = row[i].entry
        /\ \A j \in RowId : j # i => row'[j] = row[j]
    BY <1>1, <1>4 DEF RowType
  <2>2. row[i].status = "closing" => \A j \in RowId : j # i => row[j].order # row[i].order
    BY <1>1 DEF TableInv, OrderOwnership, RowFacts, IsOrder
  <2>3. row[i].status \in {"open", "closing"}
    BY DEF LIVE_STATUSES
  <2>4. row'[i].status = "closing" => IsOrder(row[i].order, row[i].spread, "close")'
    <3>1. PICK v, o : v = row[i].spread /\ o = row[i].order
      OBVIOUS
    <3>2. IsOrder(o, v, "close") => IsOrder(o, v, "close")'
      BY FactsStay
    <3> QED BY <1>1, <2>1, <3>1, <3>2 DEF RowFacts
  <2>5. Evidenced(i)'
    BY <1>1, <2>1, <2>3, <2>4 DEF Evidenced, RowFacts
  <2> QED BY <1>1, <1>2, <2>1, <2>2, <2>3, <2>5, RowEdited DEF RowFacts
<1> QED BY <1>2, <1>3, <1>4

LEMMA ReactivateKept ==
  ASSUME BrokerInv, BrokerKept, TableInv, NEW i \in RowId, NEW n \in Nat,
         row[i].status = "unfilled", reactivate_position(i, n),
         FilledEntry(row[i].spread)
  PROVE  TableInv'
<1>1. row \in [RowId -> RowType] /\ RowFacts(i)
  BY RowFactsFromInv DEF TableInv, TableType
<1>2. row' = [row EXCEPT ![i].status = "open", ![i].qty = n] /\ rows' = rows
  BY DEF reactivate_position
<1>3. /\ row' \in [RowId -> RowType]
      /\ row'[i].status = "open" /\ row'[i].order = row[i].order
      /\ row'[i].spread = row[i].spread /\ row'[i].born = row[i].born
      /\ row'[i].entry = row[i].entry
      /\ \A j \in RowId : j # i => row'[j] = row[j]
  BY <1>1, <1>2 DEF RowType, RowStatus
<1>4. row[i].order = 0
  BY <1>1 DEF RowFacts
<1>5. Evidenced(i)'
  BY <1>3, <1>4 DEF Evidenced
<1> QED BY <1>2, <1>3, <1>4, <1>5, RowEdited

(***************************************************************************)
(* What a step of one thread leaves of the invariants of the other.        *)
(***************************************************************************)
LEMMA EntriesFrame ==
  ASSUME BrokerInv, BrokerKept, EntriesInv, UNCHANGED entries,
         epc \in {"wait", "cancel", "wait2"} => \A i \in RowId : row'[i].order # eOrder
  PROVE  EntriesInv'
<1>1. PICK o, v : o = eOrder /\ v = eSpread
  OBVIOUS
<1>2. IsOrder(o, v, "entry") => IsOrder(o, v, "entry")'
  BY FactsStay
<1>3. IsOrder(eOrder, eSpread, "entry") => IsOrder(eOrder, eSpread, "entry")'
  BY <1>1, <1>2 DEF entries
<1> QED BY <1>3 DEF EntriesInv, EntriesType, Placing, entries

\* A decision rests on the rows it is about and on what the broker reported.
LEMMA DecisionFrame ==
  ASSUME BrokerInv, BrokerKept, NEW r, DecisionStands(r),
         r.kind # "adopt" => row'[r.pid] = row[r.pid]
  PROVE  DecisionStands(r)'
<1>1. r.kind \in RowKinds \cup {"reactivate"} => r.kind # "adopt"
  BY DEF RowKinds
<1>2. PICK o, p, v, w : o = r.order /\ p = r.pid /\ v = r.spread /\ w = row[r.pid].spread
  OBVIOUS
<1>3. /\ IsOrder(o, v, "entry") => IsOrder(o, v, "entry")'
      /\ IsOrder(o, w, "close") => IsOrder(o, w, "close")'
      /\ Expired(w) => Expired(w)'
      /\ o \in 1..sent /\ order[o].status = "filled" => order'[o].status = "filled"
  BY FactsStay
<1>4. r.kind # "adopt" => row'[r.pid].spread = w
  BY <1>2
<1>5. r.kind = "close_fill" => FilledClose(r.order, r.pid)'
  BY <1>1, <1>2, <1>3, <1>4 DEF DecisionStands, FilledClose, IsOrder, RowKinds
<1>6. r.kind = "close_expired" => Expired(row[r.pid].spread)'
  BY <1>1, <1>2, <1>3, <1>4 DEF DecisionStands, RowKinds
<1>7. r.kind \in {"reactivate", "adopt"} =>
        IsOrder(r.order, r.spread, "entry")' /\ order'[r.order].status = "filled"
  BY <1>2, <1>3 DEF DecisionStands, IsOrder
<1>8. r.kind \in RowKinds \cup {"reactivate"} => row'[r.pid] = row[r.pid]
  BY <1>1
<1> QED BY <1>5, <1>6, <1>7, <1>8 DEF DecisionStands, RowKinds

\* The exits thread may count on the rows there are while it does not write them.
LEMMA ExitsFrame ==
  ASSUME BrokerInv, BrokerKept, ExitsInv, UNCHANGED exits,
         \A i \in RowId : row[i].status # "none" => row'[i] = row[i],
         xpc = "closewait" => \A i \in RowId : row'[i].order # xOrder
  PROVE  ExitsInv'
<1>1. ExitsType'
  BY DEF ExitsInv, ExitsType, exits
<1>2. Managing'
  <2>1. \A i \in xTodo : i \in RowId
    BY DEF ExitsInv, ExitsType
  <2>2. PICK o, v : o = xOrder /\ v = row[xRow].spread
    OBVIOUS
  <2>3. IsOrder(o, v, "close") => IsOrder(o, v, "close")'
    BY FactsStay
  <2>4. CASE xpc \in {"cancel", "closewait", "revert"}
    <3>1. xRow \in RowId /\ row[xRow].status # "none"
      BY <2>1, <2>4 DEF ExitsInv, Managing
    <3>2. row'[xRow] = row[xRow]
      BY <3>1
    <3> QED BY <2>1, <2>2, <2>3, <2>4, <3>2 DEF ExitsInv, Managing, exits
  <2>5. CASE xpc \notin {"cancel", "closewait", "revert"}
    BY <2>1, <2>5 DEF ExitsInv, Managing, exits
  <2> QED BY <2>4, <2>5
<1>3. Reconciling'
  <2>1. \A i \in live_legs_rows : i \in live_legs_rows'
    BY DEF live_legs_rows, WithStatus, LIVE_STATUSES
  <2> QED BY <2>1 DEF ExitsInv, Reconciling, exits
<1>4. ASSUME NEW r \in xRes PROVE DecisionStands(r)'
  <2>1. DecisionStands(r) /\ (r.kind # "adopt" => r.pid \in RowId) /\ r.kind \in FixKinds
    BY DEF ExitsInv, DecisionsStand, Reconciling, ExitsType, ResType
  <2>2. r.kind # "adopt" => row[r.pid].status # "none"
    BY <2>1 DEF DecisionStands, FixKinds, LIVE_STATUSES
  <2>3. r.kind # "adopt" => row'[r.pid] = row[r.pid]
    BY <2>1, <2>2
  <2> QED BY <2>1, <2>3, DecisionFrame
<1> QED BY <1>1, <1>2, <1>3, <1>4 DEF ExitsInv, DecisionsStand, exits

\* Most steps spend nothing of the day's cap.
LEMMA CountFrame ==
  ASSUME CountInv, UNCHANGED <<fixlog, applied>>, UNCHANGED ok \/ ok' \in BOOLEAN,
         UNCHANGED faults \/ Fault, xpc' = "log" <=> xpc = "log"
  PROVE  CountInv'
<1>1. /\ faults \in Nat /\ faults' \in Nat /\ faults' \in 0..MaxFaults /\ faults =< faults'
      /\ fixlog \in Nat /\ applied \in Nat
  BY BoundsAssumption DEF CountInv, CountType, Fault
<1>2. CountType'
  BY <1>1 DEF CountInv, CountType
<1>3. PICK due \in Nat : due = (IF xpc = "log" THEN 1 ELSE 0)
  OBVIOUS
<1>4. applied =< fixlog + faults + due
  BY <1>3 DEF CountInv, Budget
<1>5. applied =< fixlog + faults' + due
  <2>1. \A a, l, f, g, d \in Nat : a =< l + f + d /\ f =< g => a =< l + g + d
    OBVIOUS
  <2> QED BY <1>1, <1>4, <2>1
<1>6. Budget'
  BY <1>3, <1>5 DEF CountInv, Budget
<1> QED BY <1>2, <1>6 DEF CountInv

\* The orders the rows wait for are orders the broker was sent.
LEMMA OrdersBelow ==
  ASSUME BrokerInv, TableInv
  PROVE  \A i \in RowId : row[i].order \in 0..sent
<1>1. sent \in Nat
  BY BoundsAssumption DEF BrokerInv, BrokerType
<1> QED BY <1>1 DEF TableInv, OrderOwnership, IsOrder

LEMMA InsertEffect ==
  ASSUME TableInv, NEW status, NEW v, NEW n, NEW entry, Insert(status, v, n, entry)
  PROVE  /\ \A i \in RowId : row[i].status # "none" => row'[i] = row[i]
         /\ \A i \in RowId : row'[i].order # row[i].order =>
                              status = "pending" /\ row'[i].order = entry
<1>1. PICK i \in RowId :
        /\ i = rows + 1 /\ rows' = i
        /\ row' = [row EXCEPT ![i] =
                     [status |-> status, spread |-> v, qty |-> n,
                      order |-> IF status = "pending" THEN entry ELSE 0,
                      entry |-> entry, born |-> sent, exit |-> 0, how |-> "none"]]
  BY DEF Insert
<1>2. row \in [RowId -> RowType] /\ rows \in Nat
  BY BoundsAssumption DEF TableInv, TableType
<1>3. row[i].status = "none" /\ row[i].order = 0
  BY <1>1, <1>2 DEF TableInv, RowsNumbered, NoRow, RowId
<1> QED BY <1>1, <1>2, <1>3

(***************************************************************************)
(* The steps of the broker.                                                *)
(***************************************************************************)
LEMMA AgentIdle ==
  ASSUME Inv, BrokerKept, UNCHANGED <<table, entries, exits>>
  PROVE  TableInv' /\ EntriesInv' /\ ExitsInv'
<1> USE DEF Inv
<1>1. row' = row
  BY DEF table
<1>2. TableInv'
  BY TableUnchanged
<1>3. EntriesInv'
  BY <1>1, EntriesFrame DEF EntriesInv, Placing
<1>4. ExitsInv'
  BY <1>1, ExitsFrame DEF ExitsInv, Managing
<1> QED BY <1>2, <1>3, <1>4

LEMMA NewDayKept ==
  ASSUME Inv, NewDay
  PROVE  Inv'
<1>1. BrokerKept
  BY BrokerUnchanged DEF Inv, NewDay
<1>2. TableInv' /\ EntriesInv' /\ ExitsInv'
  BY <1>1, AgentIdle DEF NewDay
<1>3. CountInv'
  BY BoundsAssumption
     DEF NewDay, Overnight, exits, Inv, CountInv, CountType, Budget
<1> QED BY <1>1, <1>2, <1>3 DEF Inv, BrokerKept

LEMMA BrokerStepKept ==
  ASSUME Inv, BrokerStep
  PROVE  Inv'
<1>1. ASSUME NEW o \in OrderId, BrokerFill(o) \/ BrokerPartialFill(o) \/ BrokerDrop(o)
      PROVE  BrokerKept /\ UNCHANGED <<table, entries, exits, fixlog, ok, applied, faults>>
  BY <1>1, FillKept, PartialFillKept, DropKept
     DEF Inv, BrokerFill, BrokerPartialFill, BrokerDrop
<1>2. ASSUME NEW v \in Spread, Settle(v)
      PROVE  BrokerKept /\ UNCHANGED <<table, entries, exits, fixlog, ok, applied, faults>>
  BY <1>2, SettleKept DEF Inv, Settle
<1>3. ASSUME BrokerKept, UNCHANGED <<table, entries, exits, fixlog, ok, applied, faults>>
      PROVE  Inv'
  BY <1>3, AgentIdle, CountFrame DEF Inv, BrokerKept, exits
<1> QED BY <1>1, <1>2, <1>3, NewDayKept DEF BrokerStep

(***************************************************************************)
(* The steps of the entries thread.                                        *)
(***************************************************************************)
\* One of them keeps the invariant when it treats the rows there are as it should.
LEMMA EntriesStepFrame ==
  ASSUME Inv, BrokerKept, TableInv', EntriesInv', UNCHANGED <<exits, fixlog, ok, applied>>,
         UNCHANGED faults \/ Fault,
         \A i \in RowId : row[i].status # "none" => row'[i] = row[i],
         \A i \in RowId : row'[i].order \in {row[i].order, 0, eOrder},
         (\E i \in RowId : row'[i].order # row[i].order) => epc \in {"wait", "cancel", "wait2"}
  PROVE  Inv'
<1>1. xpc = "closewait" => \A i \in RowId : row'[i].order # xOrder
  <2>1. SUFFICES ASSUME xpc = "closewait", NEW i \in RowId PROVE row'[i].order # xOrder
    OBVIOUS
  <2>2. IsOrder(xOrder, row[xRow].spread, "close") /\ row[i].order # xOrder
    BY <2>1 DEF Inv, ExitsInv, Managing
  <2>3. epc \in {"wait", "cancel", "wait2"} => IsOrder(eOrder, eSpread, "entry")
    BY DEF Inv, EntriesInv, Placing
  <2> QED BY <2>2, <2>3, BoundsAssumption DEF IsOrder, Inv, BrokerInv, BrokerType
<1>2. ExitsInv'
  BY <1>1, ExitsFrame DEF Inv
<1>3. CountInv'
  BY CountFrame DEF Inv, exits
<1> QED BY <1>2, <1>3 DEF Inv, BrokerKept

\* The steps that write no row and do not call the broker.
LEMMA EntriesQuiet ==
  ASSUME Inv, EntriesInv', UNCHANGED <<broker, table, exits, fixlog, ok, applied>>,
         UNCHANGED faults \/ Fault
  PROVE  Inv'
<1>1. BrokerKept /\ TableInv'
  BY BrokerUnchanged, TableUnchanged DEF Inv
<1>2. row' = row
  BY DEF table
<1> QED BY <1>1, <1>2, EntriesStepFrame

LEMMA LeavePlaceType == LeavePlace => EntriesInv'
  BY BoundsAssumption DEF LeavePlace, EntriesInv, EntriesType, Placing, EntriesPc, MaybeSpread

LEMMA NextRungType ==
  ASSUME EntriesInv, NextRung, eRung < Rungs, eSpread \in Spread
  PROVE  EntriesInv'
  BY BoundsAssumption DEF NextRung, EntriesInv, EntriesType, Placing, EntriesPc

LEMMA PassKept ==
  ASSUME Inv, StartEntries \/ EndEntries \/ (\E v \in Spread, n \in 1..MaxQty : BeginPlace(v, n))
  PROVE  Inv'
<1>1. CASE StartEntries \/ EndEntries
  <2>1. EntriesInv'
    BY <1>1 DEF StartEntries, EndEntries, Inv, EntriesInv, EntriesType, Placing, EntriesPc
  <2> QED BY <1>1, <2>1, EntriesQuiet DEF StartEntries, EndEntries
<1>2. ASSUME NEW v \in Spread, NEW n \in 1..MaxQty, BeginPlace(v, n)
      PROVE  Inv'
  <2>1. EntriesInv'
    BY <1>2, BoundsAssumption
       DEF BeginPlace, Inv, EntriesInv, EntriesType, Placing, EntriesPc, MaybeSpread
  <2> QED BY <1>2, <2>1, EntriesQuiet DEF BeginPlace
<1> QED BY <1>1, <1>2

LEMMA SubmitEntryKept ==
  ASSUME Inv, SubmitEntry
  PROVE  Inv'
<1>1. /\ eSpread \in Spread /\ eQty \in Nat /\ epc = "submit"
      /\ UNCHANGED <<book, acts, fixlog, ok, exits, applied>>
  BY DEF SubmitEntry, Inv, EntriesInv, EntriesType, Placing
<1>2. PICK v : v = eSpread
  OBVIOUS
<1>3. ASSUME NEW o \in OrderId, Send(o, eSpread, "entry", eQty)
      PROVE  /\ BrokerKept
             /\ IsOrder(o, v, "entry")'
             /\ \A i \in RowId : row[i].order # o
  <2>1. BrokerKept /\ o = sent + 1 /\ IsOrder(o, v, "entry")'
    BY <1>1, <1>2, <1>3, SendKept DEF Inv, Side
  <2>2. o \notin 0..sent
    BY <2>1, BoundsAssumption DEF Inv, BrokerInv, BrokerType
  <2> QED BY <2>1, <2>2, OrdersBelow DEF Inv
<1>4. ASSUME NEW o \in OrderId, Send(o, eSpread, "entry", eQty), eOrder' = o, epc' = "wait",
             UNCHANGED <<table, eSpread, eQty, eRung, faults>>
      PROVE  Inv'
  <2>1. BrokerKept /\ TableInv' /\ row' = row
    BY <1>3, <1>4, TableUnchanged DEF Inv, table
  <2>2. EntriesInv'
    BY <1>1, <1>2, <1>3, <1>4, <2>1, BoundsAssumption
       DEF Inv, EntriesInv, EntriesType, Placing, EntriesPc, OrderId, IsOrder
  <2> QED BY <1>1, <1>4, <2>1, <2>2, EntriesStepFrame
<1>5. ASSUME NEW o \in OrderId, Send(o, eSpread, "entry", eQty), Fault,
             record_position(eSpread, eQty, 0, "open"), LeavePlace
      PROVE  Inv'
  <2>1. BrokerKept
    BY <1>3, <1>5
  <2>2. TableInv'
    BY <1>1, <1>5, <2>1, InsertKept DEF record_position, Inv
  <2>3. /\ \A i \in RowId : row[i].status # "none" => row'[i] = row[i]
        /\ \A i \in RowId : row'[i].order = row[i].order
    BY <1>5, InsertEffect DEF record_position, Inv
  <2>4. EntriesInv'
    BY <1>5, LeavePlaceType
  <2> QED BY <1>1, <1>5, <2>1, <2>2, <2>3, <2>4, EntriesStepFrame
<1>6. ASSUME NEW o \in OrderId, Send(o, eSpread, "entry", eQty), Fault, LeavePlace,
             UNCHANGED table
      PROVE  Inv'
  <2>1. BrokerKept /\ TableInv' /\ row' = row
    BY <1>3, <1>6, TableUnchanged DEF Inv, table
  <2>2. EntriesInv'
    BY <1>6, LeavePlaceType
  <2> QED BY <1>1, <1>6, <2>1, <2>2, EntriesStepFrame
<1>7. ASSUME LeavePlace, UNCHANGED <<order, sent, table, faults>>
      PROVE  Inv'
  <2>1. EntriesInv'
    BY <1>7, LeavePlaceType
  <2> QED BY <1>1, <1>7, <2>1, EntriesQuiet DEF broker
<1> QED BY <1>4, <1>5, <1>6, <1>7 DEF SubmitEntry

\* The order in hand is recorded, or dropped, and the pass goes on.
LEMMA RecordKept ==
  ASSUME Inv, NEW status \in {"pending", "open"}, epc \in {"wait", "wait2"},
         status = "open" => order[eOrder].status = "filled",
         record_position(eSpread, eQty, eOrder, status), LeavePlace,
         UNCHANGED <<broker, fixlog, ok, exits, applied>>, UNCHANGED faults \/ Fault
  PROVE  Inv'
<1>1. /\ eSpread \in Spread /\ eQty \in Nat /\ eOrder \in Nat
      /\ IsOrder(eOrder, eSpread, "entry") /\ \A i \in RowId : row[i].order # eOrder
  BY BoundsAssumption DEF Inv, EntriesInv, EntriesType, Placing
<1>2. BrokerKept
  BY BrokerUnchanged DEF Inv
<1>3. PICK o, v, n : o = eOrder /\ v = eSpread /\ n = eQty
  OBVIOUS
<1>4. IsOrder(o, v, "entry")'
  BY <1>1, <1>2, <1>3, FactsStay DEF Inv
<1>5. TableInv'
  BY <1>1, <1>2, <1>3, <1>4, InsertKept DEF record_position, Inv, broker
<1>6. /\ \A i \in RowId : row[i].status # "none" => row'[i] = row[i]
      /\ \A i \in RowId : row'[i].order # row[i].order => row'[i].order = eOrder
  BY InsertEffect DEF record_position, Inv
<1> QED BY <1>2, <1>5, <1>6, LeavePlaceType, EntriesStepFrame

LEMMA WaitEntryKept ==
  ASSUME Inv, WaitEntry
  PROVE  Inv'
<1>1. epc = "wait" /\ eSpread \in Spread /\ UNCHANGED <<broker, fixlog, ok, exits, applied>>
  BY DEF WaitEntry, Inv, EntriesInv, Placing
<1>2. CASE /\ order[eOrder].status = "filled"
           /\ record_position(eSpread, eQty, eOrder, "open") /\ LeavePlace /\ UNCHANGED faults
  BY <1>1, <1>2, RecordKept
<1>3. CASE RecordPending /\ (UNCHANGED faults \/ Fault)
  BY <1>1, <1>3, RecordKept DEF RecordPending
<1>4. CASE (IF MoreRungs THEN NextRung ELSE LeavePlace) /\ UNCHANGED <<table, faults>>
  <2>1. EntriesInv'
    BY <1>1, <1>4, NextRungType, LeavePlaceType DEF MoreRungs, Inv
  <2> QED BY <1>1, <1>4, <2>1, EntriesQuiet
<1>5. CASE MoreRungs /\ epc' = "cancel" /\ UNCHANGED <<table, eSpread, eQty, eRung, eOrder, faults>>
  <2>1. IsOrder(eOrder, eSpread, "entry")' /\ \A i \in RowId : row'[i].order # eOrder
    BY <1>1, <1>5 DEF Inv, EntriesInv, Placing, IsOrder, broker, table
  <2>2. EntriesInv'
    BY <1>1, <1>5, <2>1 DEF Inv, EntriesInv, EntriesType, Placing, EntriesPc, MoreRungs
  <2> QED BY <1>1, <1>5, <2>2, EntriesQuiet
<1> QED BY <1>2, <1>3, <1>4, <1>5 DEF WaitEntry

LEMMA CancelRungKept ==
  ASSUME Inv, CancelRung
  PROVE  Inv'
<1>1. epc = "cancel" /\ IsOrder(eOrder, eSpread, "entry") /\ eOrder \in OrderId
  BY BoundsAssumption
     DEF CancelRung, Inv, EntriesInv, Placing, IsOrder, OrderId, BrokerInv, BrokerType
<1>2. BrokerKept
  BY <1>1, CancelKept DEF CancelRung, Inv
<1>3. TableInv' /\ row' = row
  BY <1>2, TableUnchanged DEF CancelRung, Inv, table
<1>4. PICK o, v : o = eOrder /\ v = eSpread
  OBVIOUS
<1>5. IsOrder(o, v, "entry")'
  BY <1>1, <1>2, <1>4, FactsStay DEF Inv
<1>6. EntriesInv'
  BY <1>1, <1>3, <1>4, <1>5
     DEF CancelRung, Inv, EntriesInv, EntriesType, Placing, EntriesPc
<1>7. UNCHANGED faults \/ Fault
  BY DEF CancelRung, cancel_order
<1> QED BY <1>2, <1>3, <1>6, <1>7, EntriesStepFrame DEF CancelRung

LEMMA WaitCanceledKept ==
  ASSUME Inv, WaitCanceled
  PROVE  Inv'
<1>1. CASE order[eOrder].status = "filled"
  BY <1>1, RecordKept DEF WaitCanceled
<1>2. CASE order[eOrder].status # "filled"
  <2>1. EntriesInv'
    BY <1>2, NextRungType DEF WaitCanceled, Inv, EntriesInv, Placing
  <2> QED BY <1>2, <2>1, EntriesQuiet DEF WaitCanceled
<1> QED BY <1>1, <1>2

LEMMA PlaceStepKept ==
  ASSUME Inv, PlaceStep
  PROVE  Inv'
<1>1. CASE PlaceRaises
  BY <1>1, LeavePlaceType, EntriesQuiet DEF PlaceRaises
<1> QED
  BY <1>1, SubmitEntryKept, WaitEntryKept, CancelRungKept, WaitCanceledKept DEF PlaceStep

LEMMA EntriesStepKept == Inv /\ EntriesStep => Inv'
  BY PassKept, PlaceStepKept DEF EntriesStep

(***************************************************************************)
(* The steps of the exits thread: what they have in common.                *)
(***************************************************************************)
\* One of them keeps the invariant when the only order a row starts to wait for
\* is a close order.
LEMMA ExitsStepFrame ==
  ASSUME Inv, BrokerKept, TableInv', ExitsInv', CountInv', UNCHANGED entries,
         NEW c, c = 0 \/ IsOrder(c, order[c].spread, "close"),
         \A i \in RowId : row'[i].order \in {row[i].order, 0, c}
  PROVE  Inv'
<1>1. epc \in {"wait", "cancel", "wait2"} =>
        IsOrder(eOrder, eSpread, "entry") /\ \A i \in RowId : row[i].order # eOrder
  BY DEF Inv, EntriesInv, Placing
<1>2. epc \in {"wait", "cancel", "wait2"} => eOrder # 0 /\ eOrder # c
  BY <1>1, BoundsAssumption DEF IsOrder, Inv, BrokerInv, BrokerType
<1>3. EntriesInv'
  BY <1>1, <1>2, EntriesFrame DEF Inv
<1> QED BY <1>3 DEF Inv, BrokerKept

LEMMA ExitsQuiet ==
  ASSUME Inv, ExitsInv', CountInv', UNCHANGED <<broker, table, entries>>
  PROVE  Inv'
<1>1. BrokerKept /\ TableInv' /\ row' = row
  BY BrokerUnchanged, TableUnchanged DEF Inv, table
<1> QED BY <1>1, ExitsStepFrame

\* Before it reconciles the thread has decided nothing.
LEMMA ManagingStep ==
  ASSUME ExitsInv, unchangedReconcile, xpc \notin {"apply", "log"},
         xpc' \in {"resolve", "cancel", "manage", "closewait", "revert", "live"},
         Managing', xTodo' \subseteq RowId, xRow' \in 0..MaxRows, xOrder' \in 0..MaxOrders
  PROVE  ExitsInv'
<1>1. xRes = {} /\ xRes' = {}
  BY DEF ExitsInv, Reconciling, unchangedReconcile
<1>2. ExitsType'
  BY DEF ExitsInv, ExitsType, unchangedReconcile, ExitsPc
<1>3. Reconciling' /\ DecisionsStand'
  BY <1>1 DEF Reconciling, DecisionsStand
<1> QED BY <1>2, <1>3 DEF ExitsInv

\* The rows a loop has yet to reach.
LEMMA TodoTypes ==
  ASSUME ExitsInv
  PROVE  /\ xTodo \subseteq RowId /\ xRow \in 0..MaxRows /\ xOrder \in 0..MaxOrders
         /\ 0 \in 0..MaxRows /\ 0 \in 0..MaxOrders /\ RowId \subseteq 0..MaxRows
  BY BoundsAssumption DEF ExitsInv, ExitsType, RowId

LEMMA UpdateEffect ==
  ASSUME TableInv, NEW i \in RowId, NEW from, NEW status, NEW o, Update(i, from, status, o)
  PROVE  /\ \A j \in RowId : j # i => row'[j] = row[j]
         /\ \A j \in RowId : row'[j].order \in {row[j].order, o}
         /\ row[i].status \in from => row'[i].status = status /\ row'[i].order = o
<1>1. row \in [RowId -> RowType] /\ row[i] \in RowType
  BY DEF TableInv, TableType
<1>2. CASE row' = row /\ row[i].status \notin from
  BY <1>2
<1>3. CASE row' = [row EXCEPT ![i].status = status, ![i].order = o]
  BY <1>1, <1>3 DEF RowType
<1> QED BY <1>2, <1>3 DEF Update

LEMMA CloseEffect ==
  ASSUME TableInv, NEW i \in RowId, NEW exit, NEW how, close_position(i, exit, how)
  PROVE  /\ \A j \in RowId : j # i => row'[j] = row[j]
         /\ \A j \in RowId : row'[j].order \in {row[j].order, 0}
<1>1. row \in [RowId -> RowType] /\ row[i] \in RowType
  BY DEF TableInv, TableType
<1>2. row' = [row EXCEPT ![i].status = "closed", ![i].order = 0, ![i].exit = exit, ![i].how = how]
  BY DEF close_position
<1> QED BY <1>1, <1>2 DEF RowType

(***************************************************************************)
(* _resolve_pending.                                                       *)
(***************************************************************************)
LEMMA StartExitsKept ==
  ASSUME Inv, StartExits
  PROVE  Inv'
<1>1. Managing' /\ xTodo' \subseteq RowId
  BY DEF StartExits, Managing, pending_rows, WithStatus, table
<1>2. ExitsInv'
  BY <1>1, TodoTypes, ManagingStep DEF StartExits, Inv
<1>3. CountInv'
  BY CountFrame DEF StartExits, Inv
<1> QED BY <1>2, <1>3, ExitsQuiet DEF StartExits

\* The order of row i is done and the row moves on.
LEMMA SettleRow ==
  ASSUME BrokerInv, BrokerKept, TableInv, NEW i \in RowId,
         row[i].status \in {"pending", "closing"},
         \/ /\ order[row[i].order].status = "filled"
            /\ IF row[i].status = "pending" THEN confirm_fill(i)
               ELSE close_position(i, row[i].order, "fill")
         \/ IF row[i].status = "pending" THEN mark_unfilled(i) ELSE revert_closing(i)
  PROVE  /\ TableInv'
         /\ \A j \in RowId : j # i => row'[j] = row[j]
         /\ \A j \in RowId : row'[j].order \in {row[j].order, 0}
<1>1. RowFacts(i)
  BY RowFactsFromInv
<1>2. CASE row[i].status = "pending" /\ order[row[i].order].status = "filled" /\ confirm_fill(i)
  BY <1>2, ConfirmFillKept, UpdateEffect DEF confirm_fill
<1>3. CASE row[i].status = "pending" /\ mark_unfilled(i)
  BY <1>3, MarkUnfilledKept, UpdateEffect DEF mark_unfilled
<1>4. CASE row[i].status = "closing" /\ revert_closing(i)
  BY <1>4, RevertClosingKept, UpdateEffect DEF revert_closing
<1>5. CASE /\ row[i].status = "closing" /\ order[row[i].order].status = "filled"
           /\ close_position(i, row[i].order, "fill")
  <2>1. FilledClose(row[i].order, i) /\ row[i].order \in Nat
    BY <1>1, <1>5 DEF RowFacts, FilledClose, TableInv, TableType, RowType
  <2>2. PICK o : o = row[i].order
    OBVIOUS
  <2>3. TableInv'
    BY <1>5, <2>1, <2>2, ClosePositionKept DEF LIVE_STATUSES
  <2> QED BY <1>5, <2>3, CloseEffect
<1> QED BY <1>2, <1>3, <1>4, <1>5

LEMMA ResolveRowKept ==
  ASSUME Inv, NEW i \in RowId, ResolveRow(i)
  PROVE  Inv'
<1>1. /\ xpc = "resolve" /\ xpc' = xpc /\ xTodo' = xTodo \ {i} /\ i \in xTodo
      /\ UNCHANGED <<broker, fixlog, ok, entries, xRow, xOrder, applied>>
      /\ UNCHANGED faults \/ Fault
      /\ unchangedReconcile
  BY DEF ResolveRow, Reached
<1>2. row[i].status \in {"pending", "closing"}
  BY <1>1 DEF Inv, ExitsInv, Managing
<1>3. BrokerKept
  BY <1>1, BrokerUnchanged DEF Inv
<1>4. /\ TableInv'
      /\ \A j \in RowId : j # i => row'[j] = row[j]
      /\ \A j \in RowId : row'[j].order \in {row[j].order, 0}
  <2>1. CASE UNCHANGED table
    BY <1>3, <2>1, TableUnchanged DEF Inv, table
  <2> QED BY <1>2, <1>3, <2>1, SettleRow DEF ResolveRow, Inv
<1>5. Managing'
  BY <1>1, <1>4, TodoTypes DEF Inv, ExitsInv, Managing
<1>6. ExitsInv'
  BY <1>1, <1>5, TodoTypes, ManagingStep DEF Inv
<1>7. CountInv'
  BY <1>1, CountFrame DEF Inv
<1> QED BY <1>1, <1>3, <1>4, <1>6, <1>7, ExitsStepFrame

LEMMA FindStaleKept ==
  ASSUME Inv, NEW i \in RowId, FindStale(i)
  PROVE  Inv'
<1>1. Managing'
  BY TodoTypes DEF FindStale, Reached, Inv, ExitsInv, Managing, table
<1>2. ExitsInv'
  BY <1>1, TodoTypes, ManagingStep DEF FindStale, Inv
<1>3. CountInv'
  BY CountFrame DEF FindStale, Inv
<1> QED BY <1>2, <1>3, ExitsQuiet DEF FindStale

LEMMA CancelStaleKept ==
  ASSUME Inv, CancelStale
  PROVE  Inv'
<1>1. xRow \in xTodo /\ xRow \in RowId /\ row[xRow].status \in {"pending", "closing"}
  BY TodoTypes DEF CancelStale, Inv, ExitsInv, Managing
<1>2. PICK i \in RowId : i = xRow
  BY <1>1
<1>3. row[i].order \in OrderId
  BY <1>1, <1>2, BoundsAssumption
     DEF Inv, TableInv, OrderOwnership, IsOrder, BrokerInv, BrokerType, OrderId
<1>4. BrokerKept
  BY <1>2, <1>3, CancelKept DEF CancelStale, Inv
<1>5. /\ TableInv'
      /\ \A j \in RowId : j # i => row'[j] = row[j]
      /\ \A j \in RowId : row'[j].order \in {row[j].order, 0}
  BY <1>1, <1>2, <1>4, SettleRow DEF CancelStale, Inv
<1>6. Managing'
  BY <1>2, <1>5, TodoTypes DEF CancelStale, Inv, ExitsInv, Managing
<1>7. ExitsInv'
  BY <1>6, TodoTypes, ManagingStep DEF CancelStale, Inv
<1>8. CountInv'
  BY CountFrame DEF CancelStale, cancel_order, Inv
<1> QED BY <1>4, <1>5, <1>7, <1>8, ExitsStepFrame DEF CancelStale

LEMMA EndResolveKept ==
  ASSUME Inv, EndResolve
  PROVE  Inv'
<1>1. get_positions \subseteq RowId
  BY BoundsAssumption DEF get_positions, RowId, Inv, TableInv, TableType
<1>2. Managing' /\ xTodo' \subseteq RowId
  BY <1>1 DEF EndResolve, Managing, table
<1>3. ExitsInv'
  BY <1>2, TodoTypes, ManagingStep DEF EndResolve, Inv
<1>4. CountInv'
  BY CountFrame DEF EndResolve, Inv
<1> QED BY <1>3, <1>4, ExitsQuiet DEF EndResolve

(***************************************************************************)
(* _manage_positions and _close.                                           *)
(***************************************************************************)
LEMMA KeepOpenKept ==
  ASSUME Inv, NEW i \in RowId, KeepOpen(i)
  PROVE  Inv'
<1>1. Managing' /\ xTodo' \subseteq RowId
  BY TodoTypes DEF KeepOpen, Inv, ExitsInv, Managing, table
<1>2. ExitsInv'
  BY <1>1, TodoTypes, ManagingStep DEF KeepOpen, Inv
<1>3. CountInv'
  BY CountFrame DEF KeepOpen, Inv
<1> QED BY <1>2, <1>3, ExitsQuiet DEF KeepOpen

LEMMA EndManageKept ==
  ASSUME Inv, EndManage
  PROVE  Inv'
<1>1. Managing'
  BY DEF EndManage, Managing
<1>2. ExitsInv'
  BY <1>1, TodoTypes, ManagingStep DEF EndManage, Inv
<1>3. CountInv'
  BY CountFrame DEF EndManage, Inv
<1> QED BY <1>2, <1>3, ExitsQuiet DEF EndManage

LEMMA SubmitCloseKept ==
  ASSUME Inv, NEW i \in RowId, SubmitClose(i)
  PROVE  Inv'
<1>1. /\ xpc = "manage" /\ i \in xTodo /\ row[i].status = "open"
      /\ xTodo \subseteq RowId /\ \A j \in xTodo : row[j].status = "open"
      /\ UNCHANGED <<book, acts, fixlog, ok, entries, applied>> /\ unchangedReconcile
  BY TodoTypes DEF SubmitClose, Managed, Inv, ExitsInv, Managing
<1>2. PICK o \in OrderId :
        /\ Send(o, row[i].spread, "close", row[i].qty)
        /\ \/ /\ xpc' = "closewait" /\ xRow' = i /\ xOrder' = o
              /\ UNCHANGED <<table, xTodo, faults>>
           \/ /\ Fault
              /\ close_position(i, 0, "assumed")
              /\ xTodo' = xTodo \ {i}
              /\ UNCHANGED <<xpc, xRow, xOrder>>
           \/ /\ Fault
              /\ xTodo' = xTodo \ {i}
              /\ UNCHANGED <<table, xpc, xRow, xOrder>>
  BY DEF SubmitClose
<1>3. PICK v, n : v = row[i].spread /\ n = row[i].qty
  OBVIOUS
<1>4. v \in Spread /\ n \in Nat /\ row[i].born =< sent /\ row[i].born \in Nat
  BY <1>1, <1>3, RowFactsFromInv DEF RowFacts, Inv, TableInv, TableType, RowType
<1>5. /\ BrokerKept /\ IsOrder(o, v, "close")'
      /\ o > row[i].born /\ \A j \in RowId : row[j].order # o
  <2>1. BrokerKept /\ o = sent + 1 /\ IsOrder(o, v, "close")'
    BY <1>1, <1>2, <1>3, <1>4, SendKept DEF Inv, Side
  <2>2. sent \in Nat
    BY BoundsAssumption DEF Inv, BrokerInv, BrokerType
  <2>3. o \notin 0..sent /\ o > row[i].born
    BY <1>4, <2>1, <2>2
  <2> QED BY <2>1, <2>3, OrdersBelow DEF Inv
<1>6. /\ TableInv'
      /\ \A j \in RowId : j # i => row'[j] = row[j]
      /\ \A j \in RowId : row'[j].order \in {row[j].order, 0}
  <2>1. CASE UNCHANGED table
    BY <1>5, <2>1, TableUnchanged DEF Inv, table
  <2>2. CASE close_position(i, 0, "assumed")
    BY <1>1, <1>5, <2>2, ClosePositionKept, CloseEffect DEF LIVE_STATUSES, Inv
  <2> QED BY <1>2, <2>1, <2>2
<1>7. Managing' /\ xTodo' \subseteq RowId
  <2>1. CASE /\ xpc' = "closewait" /\ xRow' = i /\ xOrder' = o
             /\ UNCHANGED <<table, xTodo, faults>>
    <3>1. row' = row
      BY <2>1 DEF table
    <3>2. IsOrder(xOrder, row[xRow].spread, "close")'
      BY <1>3, <1>5, <2>1, <3>1 DEF IsOrder
    <3> QED BY <1>1, <1>5, <2>1, <3>1, <3>2 DEF Managing
  <2>2. CASE xpc' = "manage" /\ xTodo' = xTodo \ {i}
    BY <1>1, <1>6, <2>2 DEF Managing
  <2> QED BY <1>1, <1>2, <2>1, <2>2
<1>8. ExitsInv'
  <2>1. i \in 0..MaxRows /\ o \in 0..MaxOrders
    BY TodoTypes, BoundsAssumption DEF OrderId, Inv
  <2>2. xRow' \in 0..MaxRows /\ xOrder' \in 0..MaxOrders
    BY <1>2, <2>1, TodoTypes DEF Inv
  <2> QED BY <1>1, <1>2, <1>7, <2>2, ManagingStep DEF Inv
<1>9. CountInv'
  BY <1>1, <1>2, CountFrame DEF Inv
<1> QED BY <1>1, <1>5, <1>6, <1>8, <1>9, ExitsStepFrame

LEMMA WaitCloseKept ==
  ASSUME Inv, WaitClose
  PROVE  Inv'
<1>1. /\ xpc = "closewait" /\ xRow \in xTodo /\ xRow \in RowId
      /\ xTodo \subseteq RowId /\ \A j \in xTodo : row[j].status = "open"
      /\ IsOrder(xOrder, row[xRow].spread, "close")
      /\ xOrder > row[xRow].born /\ \A j \in RowId : row[j].order # xOrder
      /\ UNCHANGED <<broker, fixlog, ok, entries, applied>> /\ unchangedReconcile
  BY TodoTypes DEF WaitClose, Inv, ExitsInv, Managing
<1>2. PICK i \in RowId, o \in Nat : i = xRow /\ o = xOrder
  BY <1>1, TodoTypes, BoundsAssumption DEF Inv
<1>3. BrokerKept
  BY <1>1, BrokerUnchanged DEF Inv
<1>4. \/ /\ \/ order[o].status = "filled" /\ close_position(i, o, "fill")
            \/ mark_closing(i, o)
            \/ UNCHANGED table
         /\ LeaveClose
         /\ UNCHANGED faults \/ Fault
      \/ mark_closing(i, o) /\ xpc' = "revert" /\ UNCHANGED <<xTodo, xRow, xOrder, faults>>
  BY <1>2 DEF WaitClose
<1>5. ASSUME order[o].status = "filled", close_position(i, o, "fill")
      PROVE  /\ TableInv'
             /\ \A j \in RowId : j # i => row'[j] = row[j]
             /\ \A j \in RowId : row'[j].order \in {row[j].order, 0, o}
  <2>1. FilledClose(o, i)
    BY <1>1, <1>2, <1>5 DEF FilledClose
  <2> QED BY <1>1, <1>2, <1>3, <1>5, <2>1, ClosePositionKept, CloseEffect DEF LIVE_STATUSES, Inv
<1>6. ASSUME mark_closing(i, o)
      PROVE  /\ TableInv'
             /\ \A j \in RowId : j # i => row'[j] = row[j]
             /\ \A j \in RowId : row'[j].order \in {row[j].order, 0, o}
             /\ row'[i].status = "closing" /\ row'[i].order = o
  <2>1. TableInv'
    BY <1>1, <1>2, <1>3, <1>6, MarkClosingKept DEF Inv
  <2> QED BY <1>1, <1>2, <1>6, <2>1, UpdateEffect DEF mark_closing, Inv
<1>7. /\ TableInv'
      /\ \A j \in RowId : j # i => row'[j] = row[j]
      /\ \A j \in RowId : row'[j].order \in {row[j].order, 0, o}
  <2>1. CASE UNCHANGED table
    BY <1>3, <2>1, TableUnchanged DEF Inv, table
  <2> QED BY <1>4, <1>5, <1>6, <2>1
<1>8. Managing' /\ xpc' \in {"manage", "revert"} /\ xTodo' \subseteq RowId
  <2>1. CASE LeaveClose
    BY <1>1, <1>2, <1>7, <2>1 DEF LeaveClose, Managing
  <2>2. CASE mark_closing(i, o) /\ xpc' = "revert" /\ UNCHANGED <<xTodo, xRow, xOrder>>
    BY <1>1, <1>2, <1>6, <1>7, <2>2 DEF Managing
  <2> QED BY <1>4, <2>1, <2>2
<1>9. ExitsInv'
  <2>1. xRow' \in 0..MaxRows /\ xOrder' \in 0..MaxOrders
    BY <1>4, TodoTypes DEF LeaveClose, Inv
  <2> QED BY <1>1, <1>8, <2>1, ManagingStep DEF Inv
<1>10. CountInv'
  <2>1. UNCHANGED faults \/ Fault
    BY <1>4
  <2> QED BY <1>1, <1>8, <2>1, CountFrame DEF Inv
<1>11. IsOrder(o, order[o].spread, "close")
  BY <1>1, <1>2 DEF IsOrder
<1> QED BY <1>1, <1>3, <1>7, <1>9, <1>10, <1>11, ExitsStepFrame

LEMMA RevertCloseKept ==
  ASSUME Inv, RevertClose
  PROVE  Inv'
<1>1. /\ xpc = "revert" /\ row[xRow].status = "closing" /\ xRow \in RowId
      /\ xTodo \subseteq RowId /\ \A j \in xTodo \ {xRow} : row[j].status = "open"
      /\ UNCHANGED <<broker, fixlog, ok, entries, applied, faults>> /\ unchangedReconcile
      /\ revert_closing(xRow) /\ LeaveClose
  BY TodoTypes DEF RevertClose, Inv, ExitsInv, Managing
<1>2. PICK i \in RowId : i = xRow
  BY <1>1
<1>3. BrokerKept
  BY <1>1, BrokerUnchanged DEF Inv
<1>4. /\ TableInv'
      /\ \A j \in RowId : j # i => row'[j] = row[j]
      /\ \A j \in RowId : row'[j].order \in {row[j].order, 0}
  BY <1>1, <1>2, <1>3, RevertClosingKept, UpdateEffect DEF revert_closing, Inv
<1>5. Managing' /\ xpc' = "manage" /\ xTodo' \subseteq RowId
  BY <1>1, <1>2, <1>4 DEF LeaveClose, Managing
<1>6. ExitsInv'
  BY <1>1, <1>5, TodoTypes, ManagingStep DEF LeaveClose, Inv
<1>7. CountInv'
  BY <1>1, <1>5, CountFrame DEF Inv
<1> QED BY <1>1, <1>3, <1>4, <1>6, <1>7, ExitsStepFrame

(***************************************************************************)
(* _reconcile: what the pure reconciler decides rests on facts.            *)
(***************************************************************************)
LEMMA FoundOrder ==
  ASSUME BrokerInv, NEW v, NEW side, NEW born \in Nat, NEW o \in _find_order(order, v, side, born)
  PROVE  /\ IsOrder(o, v, side) /\ order[o].status = "filled" /\ o > born /\ o \in Nat
         /\ \A p \in _find_order(order, v, side, born) : p = o
<1>1. /\ o \in OrderId /\ order[o].status = "filled" /\ order[o].spread = v
      /\ order[o].side = side /\ o > born
      /\ \A p \in _find_order(order, v, side, born) : p \in OrderId /\ p =< o /\ o =< p
  BY DEF _find_order, BrokerInv, BrokerType
<1>2. o \in 1..sent
  BY <1>1, BoundsAssumption DEF BrokerInv, BrokerType, OrdersNumbered, NoOrder, OrderId
<1>3. \A p \in OrderId : p \in Nat
  BY BoundsAssumption DEF OrderId
<1> QED BY <1>1, <1>2, <1>3 DEF IsOrder

LEMMA ExpiredFromActs ==
  ASSUME BrokerInv, NEW v, _acts(acts, v, {"OPEXP"}) = {v[1], v[2]}
  PROVE  Expired(v)
<1>1. SUFFICES ASSUME NEW leg \in {v[1], v[2]}
      PROVE  [leg |-> leg, type |-> "OPEXP"] \in acts
  BY DEF Expired
<1>2. PICK a \in acts : a.leg = leg /\ a.type = "OPEXP"
  BY DEF _acts
<1>3. a = [leg |-> leg, type |-> "OPEXP"]
  BY <1>2 DEF BrokerInv, BrokerType
<1> QED BY <1>2, <1>3

\* A live row gets at most one resolution, about itself.
LEMMA RowDecides ==
  ASSUME BrokerInv, TableInv, NEW i \in live_legs_rows, NEW left,
         NEW r \in RowResolution(i, row[i], left, order, acts), r.kind # "human"
  PROVE  /\ r \in ResType /\ r.pid = i /\ r.kind \in RowKinds /\ DecisionStands(r)
         /\ \A q \in RowResolution(i, row[i], left, order, acts) : q = r
<1>1. /\ i \in RowId /\ row[i].status \in LIVE_STATUSES /\ i \in Nat
      /\ row[i] \in RowType /\ row[i].spread \in Spread
  BY RowFactsFromInv, BoundsAssumption
     DEF live_legs_rows, WithStatus, RowId, LIVE_STATUSES, TableInv, TableType, RowFacts
<1>2. row[i].born \in Nat /\ row[i].qty \in Nat
  BY <1>1 DEF RowType
<1>3. ASSUME NEW o \in _find_order(order, row[i].spread, "close", row[i].born),
             RowResolution(i, row[i], left, order, acts) =
               { Resolution("close_fill", i, row[i].spread, p, row[i].qty) :
                   p \in _find_order(order, row[i].spread, "close", row[i].born) }
      PROVE  r = Resolution("close_fill", i, row[i].spread, o, row[i].qty) /\ FilledClose(o, i) /\ o \in Nat
  BY <1>2, <1>3, FoundOrder DEF FilledClose
<1>4. \/ \E o \in _find_order(order, row[i].spread, "close", row[i].born) :
           RowResolution(i, row[i], left, order, acts) =
             { Resolution("close_fill", i, row[i].spread, p, row[i].qty) :
                 p \in _find_order(order, row[i].spread, "close", row[i].born) }
      \/ /\ RowResolution(i, row[i], left, order, acts) =
              { Resolution("close_expired", i, row[i].spread, 0, row[i].qty) }
         /\ Expired(row[i].spread)
      \/ /\ RowResolution(i, row[i], left, order, acts) =
              { Resolution("adjust_qty", i, row[i].spread, 0, left[row[i].spread[2]]) }
         /\ left[row[i].spread[2]] \in 1..(row[i].qty - 1)
  BY ExpiredFromActs DEF RowResolution, GoneResolution, Human, Resolution, Partial
<1>5. CASE \E o \in _find_order(order, row[i].spread, "close", row[i].born) :
             RowResolution(i, row[i], left, order, acts) =
               { Resolution("close_fill", i, row[i].spread, p, row[i].qty) :
                   p \in _find_order(order, row[i].spread, "close", row[i].born) }
  <2>1. PICK o \in _find_order(order, row[i].spread, "close", row[i].born) :
          /\ r = Resolution("close_fill", i, row[i].spread, o, row[i].qty)
          /\ FilledClose(o, i) /\ o \in Nat
    BY <1>3, <1>5
  <2>2. \A q \in RowResolution(i, row[i], left, order, acts) : q = r
    BY <1>2, <1>5, <2>1, FoundOrder
  <2> QED BY <1>1, <1>2, <2>1, <2>2
          DEF Resolution, ResType, FixKinds, RowKinds, DecisionStands
<1>6. CASE /\ RowResolution(i, row[i], left, order, acts) =
                { Resolution("close_expired", i, row[i].spread, 0, row[i].qty) }
           /\ Expired(row[i].spread)
  BY <1>1, <1>2, <1>6 DEF Resolution, ResType, FixKinds, RowKinds, DecisionStands
<1>7. CASE /\ RowResolution(i, row[i], left, order, acts) =
                { Resolution("adjust_qty", i, row[i].spread, 0, left[row[i].spread[2]]) }
           /\ left[row[i].spread[2]] \in 1..(row[i].qty - 1)
  <2>1. left[row[i].spread[2]] \in Nat
    BY <1>2, <1>7
  <2> QED BY <1>1, <1>2, <1>7, <2>1 DEF Resolution, ResType, FixKinds, RowKinds, DecisionStands
<1> QED BY <1>4, <1>5, <1>6, <1>7

\* Legs no row explains become one row, on the strength of one entry order.
LEMMA LeftoverDecides ==
  ASSUME BrokerInv, TableInv, NEW left, NEW pair \in Pairings(left), NEW S \in Shorts(left),
         NEW prev \in UnfilledByLegs(unfilled_rows, row),
         NEW r \in LeftoverResolution(S, left, pair, order, prev), r.kind # "human"
  PROVE  /\ r \in ResType /\ DecisionStands(r) /\ r.spread[1] = S
         /\ \/ r.kind = "reactivate" /\ r.pid \in unfilled_rows
            \/ r.kind = "adopt" /\ r.pid = 0
         /\ \A q \in LeftoverResolution(S, left, pair, order, prev) : q = r
<1> DEFINE v == <<S, pair[S]>>
           entry == _find_order(order, v, "entry", 0)
<1>1. pair[S] # S /\ entry # {}
  BY DEF LeftoverResolution, Human, Resolution
<1>2. pair[S] \in Partners(S, left, pair)
  BY <1>1 DEF Pairings
<1>3. v \in Spread /\ left[pair[S]] \in Nat
  BY <1>2 DEF Partners, Longs
<1>4. PICK o \in entry :
        LeftoverResolution(S, left, pair, order, prev) =
          IF prev[v] # 0 THEN { Resolution("reactivate", prev[v], v, p, left[pair[S]]) : p \in entry }
                         ELSE { Resolution("adopt", 0, v, p, left[pair[S]]) : p \in entry }
  BY <1>1 DEF LeftoverResolution
<1>5. /\ IsOrder(o, v, "entry") /\ order[o].status = "filled" /\ o \in Nat
      /\ \A p \in entry : p = o
  <2> HIDE DEF v
  <2> QED BY FoundOrder
<1>6. prev[v] # 0 => prev[v] \in unfilled_rows /\ row[prev[v]].spread = v
  BY <1>3 DEF UnfilledByLegs
<1>7. unfilled_rows \subseteq RowId /\ RowId \subseteq Nat /\ \A i \in unfilled_rows : row[i].status = "unfilled"
  BY BoundsAssumption DEF unfilled_rows, WithStatus, RowId
<1> HIDE DEF entry
<1>8. CASE prev[v] # 0
  <2>1. /\ r = Resolution("reactivate", prev[v], v, o, left[pair[S]])
        /\ \A q \in LeftoverResolution(S, left, pair, order, prev) : q = r
    BY <1>4, <1>5, <1>8
  <2> QED BY <1>3, <1>5, <1>6, <1>7, <1>8, <2>1
          DEF Resolution, ResType, FixKinds, RowKinds, DecisionStands
<1>9. CASE prev[v] = 0
  <2>1. /\ r = Resolution("adopt", 0, v, o, left[pair[S]])
        /\ \A q \in LeftoverResolution(S, left, pair, order, prev) : q = r
    BY <1>4, <1>5, <1>9
  <2> QED BY <1>3, <1>5, <1>9, <2>1 DEF Resolution, ResType, FixKinds, RowKinds, DecisionStands
<1> QED BY <1>8, <1>9

(***************************************************************************)
(* The steps of _reconcile.                                                *)
(***************************************************************************)
LEMMA ReadLiveKept ==
  ASSUME Inv, ReadLive
  PROVE  Inv'
<1>1. IsFiniteSet(live_legs_rows)
  <2>1. live_legs_rows \subseteq 1..MaxRows /\ IsFiniteSet(1..MaxRows)
    BY FS_Interval, BoundsAssumption DEF live_legs_rows, WithStatus, RowId
  <2> QED BY <2>1, FS_Subset
<1>2. Cardinality(live_legs_rows) \in Nat
  BY <1>1, FS_CardinalityType
<1>3. /\ DOMAIN xLive' \subseteq Nat
      /\ \A k \in DOMAIN xLive' : xLive'[k] \in live_legs_rows
      /\ \A j, k \in DOMAIN xLive' : xLive'[j] = xLive'[k] => j = k
  <2>1. 1..Cardinality(live_legs_rows) \subseteq Nat
    BY <1>2
  <2> QED BY <2>1 DEF ReadLive, Listings
<1>4. xRes = {} /\ xRes' = {} /\ xpc = "live" /\ xpc' = "broker" /\ row' = row
  BY DEF ReadLive, Inv, ExitsInv, Reconciling, table
<1>5. ExitsType'
  BY <1>3, <1>4 DEF ReadLive, Inv, ExitsInv, ExitsType, ExitsPc
<1>6. Reconciling'
  BY <1>3, <1>4 DEF Reconciling, live_legs_rows, WithStatus
<1>7. Managing' /\ DecisionsStand'
  BY <1>4 DEF Managing, DecisionsStand
<1>8. CountInv'
  BY <1>4, CountFrame DEF ReadLive, Inv
<1> QED BY <1>5, <1>6, <1>7, <1>8, ExitsQuiet DEF ReadLive, ExitsInv

\* The pass ends.
LEMMA LeaveReconcileKept ==
  ASSUME Inv, LeaveReconcile, CountInv', UNCHANGED <<broker, table, entries>>
  PROVE  Inv'
<1>1. Managing' /\ Reconciling' /\ DecisionsStand'
  BY DEF LeaveReconcile, Managing, Reconciling, DecisionsStand
<1>2. ExitsType'
  <2>1. DOMAIN xLive' = {}
    BY DEF LeaveReconcile
  <2>2. xBook' \in [Leg -> Int] /\ xRes' = {}
    BY DEF LeaveReconcile
  <2>4. xFixed' \in BOOLEAN
    BY DEF LeaveReconcile
  <2>3. xpc' \in ExitsPc /\ xTodo' \subseteq RowId /\ xRow' \in 0..MaxRows /\ xOrder' \in 0..MaxOrders
    BY DEF LeaveReconcile, Inv, ExitsInv, ExitsType, ExitsPc
  <2> QED BY <2>1, <2>2, <2>3, <2>4 DEF ExitsType
<1> QED BY <1>1, <1>2, ExitsQuiet DEF ExitsInv

LEMMA ReadBrokerKept ==
  ASSUME Inv, ReadBroker
  PROVE  Inv'
<1>1. xpc = "broker" /\ UNCHANGED <<broker, table, fixlog, entries, applied>>
  BY DEF ReadBroker
<1>2. CASE LeaveReconcile /\ (ok' = TRUE \/ UNCHANGED ok) /\ (UNCHANGED faults \/ Fault)
  <2>1. CountInv'
    BY <1>1, <1>2, CountFrame DEF LeaveReconcile, Inv
  <2> QED BY <1>1, <1>2, <2>1, LeaveReconcileKept
<1>3. CASE /\ xpc' = "evidence" /\ xBook' = book
           /\ UNCHANGED <<ok, xTodo, xRow, xOrder, xLive, xRes, xFixed, faults>>
  <2>1. ExitsType'
    BY <1>3 DEF Inv, ExitsInv, ExitsType, ExitsPc, BrokerInv, BrokerType
  <2>2. xRes = {} /\ xRes' = {} /\ row' = row
    BY <1>1, <1>3 DEF Inv, ExitsInv, Reconciling, table
  <2>3. Managing' /\ DecisionsStand'
    BY <1>3, <2>2 DEF Managing, DecisionsStand
  <2>4. Reconciling'
    BY <1>1, <1>3, <2>2 DEF Inv, ExitsInv, Reconciling, live_legs_rows, WithStatus
  <2>5. CountInv'
    BY <1>1, <1>3, CountFrame DEF Inv
  <2> QED BY <1>1, <2>1, <2>3, <2>4, <2>5, ExitsQuiet DEF ExitsInv
<1> QED BY <1>1, <1>2, <1>3 DEF ReadBroker, Clean

LEMMA ReadEvidenceKept ==
  ASSUME Inv, NEW pair \in Pairings(Unexplained), NEW prev \in UnfilledByLegs(unfilled_rows, row),
         ReadEvidence(pair, prev)
  PROVE  Inv'
<1> DEFINE left == Remaining(xLive, row, xBook)
           OfRow(k) == RowResolution(xLive[k], row[xLive[k]], left[k - 1], order, acts)
           OfLeg(S) == LeftoverResolution(S, Unexplained, pair, order, prev)
<1>1. /\ xpc = "evidence" /\ xpc' = "apply"
      /\ UNCHANGED <<broker, table, fixlog, ok, entries, xTodo, xRow, xOrder, xLive, xBook, xFixed, applied, faults>>
  BY DEF ReadEvidence
<1>2. /\ \A k \in DOMAIN xLive : xLive[k] \in live_legs_rows
      /\ \A j, k \in DOMAIN xLive : xLive[j] = xLive[k] => j = k
  BY <1>1 DEF Inv, ExitsInv, Reconciling
<1>3. ASSUME NEW r \in xRes'
      PROVE  /\ r.kind # "human"
             /\ \/ \E k \in DOMAIN xLive : r \in OfRow(k)
                \/ \E S \in Shorts(Unexplained) : r \in OfLeg(S)
  <2>1. r.kind # "human" /\ r \in resolve(xLive, row, xBook, order, acts, pair, prev)
    BY <1>3 DEF ReadEvidence
  <2>2. \A L : Human(0, <<L, L>>).kind = "human"
    BY DEF Human, Resolution
  <2>3. CASE r \in RowResolutions(xLive, row, xBook, order, acts)
    <3>1. PICK k \in DOMAIN xLive :
            r \in RowResolution(xLive[k], row[xLive[k]], Remaining(xLive, row, xBook)[k - 1], order, acts)
      BY <2>3 DEF RowResolutions
    <3> QED BY <2>1, <3>1
  <2>4. CASE r \in LeftoverResolutions(Unexplained, pair, order, prev)
    <3>1. CASE \E L : r = Human(0, <<L, L>>)
      BY <2>1, <2>2, <3>1
    <3>2. CASE \E S \in Shorts(Unexplained) : r \in OfLeg(S)
      BY <2>1, <3>2
    <3>3. \/ r \in UNION { LeftoverResolution(S, Unexplained, pair, order, prev) : S \in Shorts(Unexplained) }
          \/ r \in { Human(0, <<L, L>>) : L \in Longs(Unexplained) \ { pair[S] : S \in Shorts(Unexplained) } }
      BY <2>4 DEF LeftoverResolutions
    <3>4. (\E S \in Shorts(Unexplained) : r \in OfLeg(S)) \/ \E L : r = Human(0, <<L, L>>)
      BY <3>3
    <3> QED BY <3>1, <3>2, <3>4
  <2> QED BY <2>1, <2>3, <2>4 DEF resolve, Unexplained
<1>4. ASSUME NEW k \in DOMAIN xLive, NEW r \in OfRow(k), r.kind # "human"
      PROVE  /\ r \in ResType /\ r.pid = xLive[k] /\ r.kind \in RowKinds /\ DecisionStands(r)
             /\ \A q \in OfRow(k) : q = r
  <2> DEFINE i == xLive[k]
             l == left[k - 1]
  <2>1. i \in live_legs_rows /\ r \in RowResolution(i, row[i], l, order, acts)
    BY <1>2, <1>4
  <2>2. /\ r \in ResType /\ r.pid = i /\ r.kind \in RowKinds /\ DecisionStands(r)
        /\ \A q \in RowResolution(i, row[i], l, order, acts) : q = r
    <3> HIDE DEF i, l
    <3> QED BY <1>4, <2>1, RowDecides DEF Inv
  <2> QED BY <2>2
<1>5. ASSUME NEW S \in Shorts(Unexplained), NEW r \in OfLeg(S), r.kind # "human"
      PROVE  /\ r \in ResType /\ DecisionStands(r) /\ r.spread[1] = S
             /\ \/ r.kind = "reactivate" /\ r.pid \in unfilled_rows
                \/ r.kind = "adopt" /\ r.pid = 0
             /\ \A q \in OfLeg(S) : q = r
  BY <1>5, LeftoverDecides DEF Inv
<1> HIDE DEF OfRow, OfLeg, left
<1>6. /\ live_legs_rows \subseteq RowId /\ unfilled_rows \subseteq RowId /\ 0 \notin RowId
      /\ \A i \in live_legs_rows : i \notin unfilled_rows
  BY DEF live_legs_rows, unfilled_rows, WithStatus, LIVE_STATUSES, RowId
<1>7. row' = row
  BY <1>1 DEF table
<1>8. \A r \in xRes' : /\ r \in ResType /\ DecisionStands(r)
                       /\ r.kind # "adopt" => r.pid \in RowId
  BY <1>2, <1>3, <1>4, <1>5, <1>6 DEF RowKinds
<1>9. ASSUME NEW q \in xRes', NEW r \in xRes', q.kind # "adopt", q.pid = r.pid
      PROVE  q = r
  <2>1. CASE \E k \in DOMAIN xLive : q \in OfRow(k)
    <3>1. PICK k \in DOMAIN xLive : q \in OfRow(k)
      BY <2>1
    <3>2. q.pid = xLive[k] /\ q.pid \in live_legs_rows
      BY <1>2, <1>3, <1>4, <3>1
    <3>3. PICK j \in DOMAIN xLive : r \in OfRow(j)
      <4>1. ASSUME NEW S \in Shorts(Unexplained), r \in OfLeg(S) PROVE FALSE
        <5>1. r.kind # "human" /\ r.pid \in live_legs_rows
          BY <1>3, <1>9, <3>2
        <5>2. r.pid \in unfilled_rows \/ r.pid = 0
          BY <1>5, <4>1, <5>1
        <5> QED BY <1>6, <5>1, <5>2
      <4> QED BY <1>3, <4>1
    <3>4. j = k
      BY <1>2, <1>3, <1>4, <1>9, <3>2, <3>3
    <3> QED BY <1>3, <1>4, <3>1, <3>3, <3>4
  <2>2. CASE \E S \in Shorts(Unexplained) : q \in OfLeg(S)
    <3>1. PICK S \in Shorts(Unexplained) : q \in OfLeg(S)
      BY <2>2
    <3>2. q.kind = "reactivate" /\ q.pid \in unfilled_rows /\ q.spread[1] = S
      BY <1>3, <1>5, <1>9, <3>1
    <3>3. PICK T \in Shorts(Unexplained) : r \in OfLeg(T)
      BY <1>2, <1>3, <1>4, <1>6, <1>9, <3>2
    <3>4. r.kind = "reactivate" /\ r.spread[1] = T
      BY <1>3, <1>5, <1>6, <1>9, <3>2, <3>3
    <3>5. q.spread = r.spread
      BY <1>8, <1>9, <3>2, <3>4 DEF DecisionStands
    <3> QED BY <1>3, <1>5, <3>1, <3>2, <3>3, <3>4, <3>5
  <2> QED BY <1>3, <2>1, <2>2
<1>10. ExitsType'
  BY <1>1, <1>8 DEF Inv, ExitsInv, ExitsType, ExitsPc
<1>11. Managing' /\ Reconciling'
  BY <1>1, <1>8, <1>9 DEF Managing, Reconciling
<1>12. DecisionsStand'
  <2>1. BrokerKept
    BY <1>1, BrokerUnchanged DEF Inv
  <2>2. \A r \in xRes' : DecisionStands(r)'
    BY <1>7, <1>8, <2>1, DecisionFrame DEF Inv
  <2> QED BY <2>2 DEF DecisionsStand
<1>13. CountInv'
  BY <1>1, CountFrame DEF Inv
<1> QED BY <1>1, <1>10, <1>11, <1>12, <1>13, ExitsQuiet DEF ExitsInv

\* A resolution is applied to the row it is about, or adds one.
LEMMA ApplyResolutionKept ==
  ASSUME BrokerInv, BrokerKept, TableInv, NEW r \in ResType, DecisionStands(r),
         r.kind # "adopt" => r.pid \in RowId,
         _apply_resolution(r)
  PROVE  /\ TableInv'
         /\ \A j \in RowId : row'[j].order \in {row[j].order, 0}
         /\ \A j \in RowId : row[j].status # "none" /\ (r.kind # "adopt" => j # r.pid) => row'[j] = row[j]
<1>1. r.spread \in Spread /\ r.order \in Nat /\ r.qty \in Nat
  BY DEF ResType
<1>2. PICK i, o, n : i = r.pid /\ o = r.order /\ n = r.qty
  OBVIOUS
<1>3. row \in [RowId -> RowType]
  BY DEF TableInv, TableType
<1>4. CASE r.kind = "close_fill" /\ close_position(i, o, "fill")
  <2>1. i \in RowId /\ row[i].status \in LIVE_STATUSES /\ FilledClose(o, i)
    BY <1>2, <1>4 DEF DecisionStands, RowKinds
  <2> QED BY <1>1, <1>2, <1>4, <2>1, ClosePositionKept, CloseEffect
<1>5. CASE r.kind = "close_expired" /\ close_position(i, 0, "expired")
  <2>1. i \in RowId /\ row[i].status \in LIVE_STATUSES /\ Expired(row[i].spread)
    BY <1>2, <1>5 DEF DecisionStands, RowKinds
  <2> QED BY <1>1, <1>2, <1>5, <2>1, ClosePositionKept, CloseEffect
<1>6. CASE r.kind = "adjust_qty" /\ adjust_contracts(i, n)
  <2>1. i \in RowId /\ row[i].status \in LIVE_STATUSES /\ n \in Nat
    BY <1>1, <1>2, <1>6 DEF DecisionStands, RowKinds
  <2>2. TableInv'
    BY <1>6, <2>1, AdjustKept
  <2>3. /\ \A j \in RowId : j # i => row'[j] = row[j]
        /\ row'[i].order = row[i].order
    BY <1>3, <1>6, <2>1 DEF adjust_contracts, RowType
  <2> QED BY <1>2, <1>6, <2>1, <2>2, <2>3
<1>7. CASE r.kind = "reactivate" /\ reactivate_position(i, n)
  <2>1. i \in RowId /\ row[i].status = "unfilled" /\ FilledEntry(row[i].spread) /\ n \in Nat
    BY <1>1, <1>2, <1>7 DEF DecisionStands, FilledEntry, IsOrder
  <2>2. TableInv'
    BY <1>7, <2>1, ReactivateKept
  <2>3. /\ \A j \in RowId : j # i => row'[j] = row[j]
        /\ row'[i].order = row[i].order
    BY <1>3, <1>7, <2>1 DEF reactivate_position, RowType
  <2> QED BY <1>2, <1>7, <2>1, <2>2, <2>3
<1>8. CASE r.kind = "adopt" /\ adopt_position(r.spread, r.qty, r.order)
  <2>1. PICK v : v = r.spread
    OBVIOUS
  <2>2. IsOrder(o, v, "entry") /\ order[o].status = "filled"
    BY <1>2, <1>8, <2>1 DEF DecisionStands
  <2>3. IsOrder(o, v, "entry")' /\ order'[o].status = "filled"
    BY <2>2, FactsStay DEF IsOrder
  <2>4. Insert("open", v, n, o)
    BY <1>2, <1>8, <2>1 DEF adopt_position
  <2>5. TableInv'
    BY <1>1, <1>2, <2>1, <2>3, <2>4, InsertKept
  <2>6. /\ \A j \in RowId : row[j].status # "none" => row'[j] = row[j]
        /\ \A j \in RowId : row'[j].order = row[j].order
    BY <2>4, InsertEffect
  <2> QED BY <2>5, <2>6
<1> QED BY <1>2, <1>4, <1>5, <1>6, <1>7, <1>8 DEF _apply_resolution

LEMMA ApplyFixKept ==
  ASSUME Inv, NEW r \in xRes, ApplyFix(r)
  PROVE  Inv'
<1>1. /\ xpc = "apply" /\ xpc' = "log" /\ fixlog < MaxFixes /\ xRes' = xRes \ {r} /\ applied' = applied + 1
      /\ UNCHANGED <<broker, fixlog, ok, entries, xTodo, xRow, xOrder, xLive, xBook, xFixed, faults>>
  BY DEF ApplyFix, HasBudget
<1>2. /\ r \in ResType /\ DecisionStands(r)
      /\ \A q \in xRes : q \in ResType /\ DecisionStands(q) /\ (q.kind # "adopt" => q.pid \in RowId)
      /\ \A q \in xRes : q.kind # "adopt" /\ q.pid = r.pid => q = r
  BY DEF Inv, ExitsInv, ExitsType, DecisionsStand, Reconciling
<1>3. BrokerKept
  BY <1>1, BrokerUnchanged DEF Inv
<1>4. /\ TableInv'
      /\ \A j \in RowId : row'[j].order \in {row[j].order, 0}
      /\ \A j \in RowId : row[j].status # "none" /\ (r.kind # "adopt" => j # r.pid) => row'[j] = row[j]
  BY <1>2, <1>3, ApplyResolutionKept DEF ApplyFix, Inv
<1>5. ASSUME NEW q \in xRes' PROVE DecisionStands(q)'
  <2>1. q \in ResType /\ DecisionStands(q) /\ (q.kind # "adopt" => q.pid \in RowId /\ q.pid # r.pid)
    BY <1>1, <1>2
  <2>2. q.kind # "adopt" => row[q.pid].status # "none"
    BY <2>1 DEF DecisionStands, ResType, FixKinds, LIVE_STATUSES
  <2>3. q.kind # "adopt" => row'[q.pid] = row[q.pid]
    BY <1>4, <2>1, <2>2
  <2> QED BY <1>3, <2>1, <2>3, DecisionFrame DEF Inv
<1>6. ExitsType'
  BY <1>1 DEF Inv, ExitsInv, ExitsType, ExitsPc
<1>7. Managing' /\ Reconciling'
  BY <1>1 DEF Inv, ExitsInv, Managing, Reconciling
<1>8. CountInv'
  <2>1. fixlog \in Nat /\ applied \in Nat /\ faults \in Nat /\ applied =< fixlog + faults
    BY <1>1, BoundsAssumption DEF Inv, CountInv, CountType, Budget
  <2>2. applied' \in Nat /\ applied' =< fixlog + faults + 1
    BY <1>1, <2>1
  <2>3. CountType'
    BY <1>1, <2>2 DEF Inv, CountInv, CountType
  <2>4. Budget'
    BY <1>1, <2>2 DEF Inv, CountInv, Budget
  <2> QED BY <2>3, <2>4 DEF CountInv
<1>9. ExitsInv'
  BY <1>5, <1>6, <1>7 DEF ExitsInv, DecisionsStand
<1> QED BY <1>1, <1>3, <1>4, <1>8, <1>9, ExitsStepFrame

LEMMA LogFixKept ==
  ASSUME Inv, LogFix
  PROVE  Inv'
<1>1. /\ xpc = "log" /\ xpc' = "apply" /\ fixlog' = fixlog + 1 /\ xFixed' = TRUE
      /\ UNCHANGED <<broker, table, ok, entries, xTodo, xRow, xOrder, xLive, xBook, xRes, applied, faults>>
  BY DEF LogFix
<1>2. BrokerKept /\ row' = row
  BY <1>1, BrokerUnchanged DEF Inv, table
<1>3. DecisionsStand'
  BY <1>1, <1>2, DecisionFrame DEF Inv, ExitsInv, DecisionsStand
<1>4. xFixed' \in BOOLEAN
  BY <1>1
<1>5. ExitsType'
  BY <1>1, <1>4 DEF Inv, ExitsInv, ExitsType, ExitsPc
<1>6. Managing' /\ Reconciling'
  BY <1>1 DEF Inv, ExitsInv, Managing, Reconciling
<1>7. CountInv'
  <2>1. /\ fixlog \in Nat /\ applied \in Nat /\ faults \in Nat /\ fixlog < MaxFixes /\ MaxFixes \in Nat
        /\ applied =< fixlog + faults + 1
    BY <1>1, BoundsAssumption DEF Inv, CountInv, CountType, Budget
  <2>2. fixlog' \in Nat /\ fixlog' =< MaxFixes /\ applied' =< fixlog' + faults'
    BY <1>1, <2>1
  <2>3. CountType'
    BY <1>1, <2>2 DEF Inv, CountInv, CountType
  <2>4. Budget'
    BY <1>1, <2>1, <2>2 DEF Budget
  <2> QED BY <2>3, <2>4 DEF CountInv
<1> QED BY <1>1, <1>3, <1>5, <1>6, <1>7, ExitsQuiet DEF ExitsInv

\* A failure can leave one fix without its log row.
LEMMA BudgetAfterFault ==
  ASSUME Inv, Fault, UNCHANGED <<fixlog, applied>>, ok' \in BOOLEAN, xpc' # "log"
  PROVE  CountInv'
<1>1. /\ fixlog \in Nat /\ applied \in Nat /\ faults \in Nat /\ faults' = faults + 1
      /\ faults' \in 0..MaxFaults /\ fixlog =< MaxFixes /\ applied =< fixlog + faults + 1
  BY BoundsAssumption DEF Inv, CountInv, CountType, Budget, Fault
<1>2. applied =< fixlog + faults'
  BY <1>1
<1>3. CountType'
  BY <1>1 DEF CountType
<1>4. Budget'
  BY <1>1, <1>2 DEF Budget
<1> QED BY <1>3, <1>4 DEF CountInv

LEMMA EndReconcileKept ==
  ASSUME Inv, EndReconcile
  PROVE  Inv'
<1>1. ok' \in BOOLEAN
  BY DEF EndReconcile
<1>2. CountInv'
  BY <1>1, CountFrame DEF EndReconcile, LeaveReconcile, Inv
<1> QED BY <1>2, LeaveReconcileKept DEF EndReconcile

LEMMA ReconcilerFailsKept ==
  ASSUME Inv, ReconcilerFails
  PROVE  Inv'
<1>1. CountInv'
  BY BudgetAfterFault DEF ReconcilerFails, LeaveReconcile
<1> QED BY <1>1, LeaveReconcileKept DEF ReconcilerFails

LEMMA ExitsStepKept ==
  ASSUME Inv, ExitsStep
  PROVE  Inv'
<1>1. ASSUME ReconcileStep PROVE Inv'
  BY <1>1, ReadLiveKept, ReadBrokerKept, ReadEvidenceKept, ApplyFixKept, LogFixKept,
     ReconcilerFailsKept, EndReconcileKept DEF ReconcileStep
<1> QED
  BY <1>1, StartExitsKept, ResolveRowKept, FindStaleKept, CancelStaleKept, EndResolveKept,
     KeepOpenKept, SubmitCloseKept, WaitCloseKept, RevertCloseKept, EndManageKept DEF ExitsStep

(***************************************************************************)
(* The process starts again.                                               *)
(***************************************************************************)
LEMMA RestartKept ==
  ASSUME Inv, Restart
  PROVE  Inv'
<1>1. BrokerKept /\ TableInv'
  BY BrokerUnchanged, TableUnchanged DEF Restart, Inv
<1>2. EntriesInv'
  BY BoundsAssumption DEF Restart, EntriesInv, EntriesType, EntriesPc, MaybeSpread, Placing
<1>3. CountInv'
  BY BudgetAfterFault DEF Restart
<1>4. ExitsInv'
  <2>1. DOMAIN xLive' = {}
    BY DEF Restart
  <2>2. xBook' \in [Leg -> Int] /\ xRes' = {}
    BY DEF Restart
  <2>3. xFixed' \in BOOLEAN
    BY DEF Restart
  <2>4. xpc' \in ExitsPc /\ xTodo' \subseteq RowId /\ xRow' \in 0..MaxRows /\ xOrder' \in 0..MaxOrders
    BY BoundsAssumption DEF Restart, ExitsPc
  <2>5. Managing' /\ Reconciling' /\ DecisionsStand'
    BY <2>2 DEF Restart, Managing, Reconciling, DecisionsStand
  <2> QED BY <2>1, <2>2, <2>3, <2>4, <2>5 DEF ExitsInv, ExitsType
<1> QED BY <1>1, <1>2, <1>3, <1>4 DEF Inv, BrokerKept

(***************************************************************************)
(* The invariant and what follows from it.                                 *)
(***************************************************************************)
LEMMA InitInv == Init => Inv
<1> SUFFICES ASSUME Init PROVE Inv
  OBVIOUS
<1>1. order \in [OrderId -> OrderType] /\ row \in [RowId -> RowType]
  BY DEF Init, NoOrder, NoRow, NoSpread, OrderType, OrderStatus, Side, MaybeSpread,
         RowType, RowStatus, How
<1>2. sent = 0 /\ rows = 0 /\ \A i \in OrderId : ~(i =< 0)
  BY BoundsAssumption DEF Init, OrderId
<1>3. BrokerInv
  BY <1>1, <1>2, BoundsAssumption DEF Init, BrokerInv, BrokerType, OrdersNumbered
<1>4. TableInv
  <2>1. \A i \in RowId : row[i] = NoRow /\ ~(i =< 0)
    BY BoundsAssumption DEF Init, RowId
  <2>2. TableType /\ RowsNumbered
    BY <1>1, <1>2, <2>1, BoundsAssumption DEF TableType, RowsNumbered
  <2> QED BY <2>1, <2>2
          DEF TableInv, OrderOwnership, ClosesAreLater, PnlHasEvidence, OpenHasFill, NoRow
<1>5. EntriesInv
  BY BoundsAssumption DEF Init, EntriesInv, EntriesType, EntriesPc, MaybeSpread, Placing
<1>6. ExitsInv
  <2>1. DOMAIN xLive = {}
    BY DEF Init
  <2>2. xBook \in [Leg -> Int] /\ xRes = {}
    BY DEF Init
  <2>3. xFixed \in BOOLEAN
    BY DEF Init
  <2>4. xpc \in ExitsPc /\ xTodo \subseteq RowId /\ xRow \in 0..MaxRows /\ xOrder \in 0..MaxOrders
    BY BoundsAssumption DEF Init, ExitsPc
  <2>5. Managing /\ Reconciling /\ DecisionsStand
    BY <2>2 DEF Init, Managing, Reconciling, DecisionsStand
  <2> QED BY <2>1, <2>2, <2>3, <2>4, <2>5 DEF ExitsInv, ExitsType
<1>7. CountInv
  <2>1. ok \in BOOLEAN
    BY DEF Init
  <2> QED BY <2>1, BoundsAssumption DEF Init, CountInv, CountType, Budget
<1> QED BY <1>3, <1>4, <1>5, <1>6, <1>7 DEF Inv

LEMMA NextInv == Inv /\ [Next]_vars => Inv'
<1> SUFFICES ASSUME Inv, [Next]_vars PROVE Inv'
  OBVIOUS
<1>1. CASE UNCHANGED vars
  <2>1. /\ UNCHANGED <<broker, table, entries>> /\ UNCHANGED exits /\ row' = row
        /\ UNCHANGED <<fixlog, ok, applied, faults>>
    BY <1>1 DEF vars, broker, table, entries, exits
  <2>2. BrokerKept
    BY <2>1, BrokerUnchanged DEF Inv
  <2>3. ExitsInv' /\ CountInv'
    BY <2>1, <2>2, AgentIdle, CountFrame DEF Inv, exits
  <2> QED BY <2>1, <2>3, ExitsQuiet
<1> QED
  BY <1>1, BrokerStepKept, EntriesStepKept, ExitsStepKept, RestartKept DEF Next

\* The invariant is inductive.
THEOREM Invariance == SafeSpec => []Inv
  BY InitInv, NextInv, PTL DEF SafeSpec

\* Every variable keeps its type.
THEOREM TypeCorrect == SafeSpec => []TypeOK
<1>1. Inv => TypeOK
  BY DEF Inv, TypeOK, BrokerInv, TableInv, EntriesInv, ExitsInv, CountInv
<1> QED BY <1>1, Invariance, PTL

\* No row ever waits for another row's order: the exits pass settles each one
\* from an order of its own (_resolve_pending).
THEOREM OwnOrders == SafeSpec => []OrderOwnership
<1>1. Inv => OrderOwnership
  BY DEF Inv, TableInv
<1> QED BY <1>1, Invariance, PTL

\* A realized P&L has its evidence at the broker (close_position).
THEOREM PnlEvidence == SafeSpec => []PnlHasEvidence
<1>1. Inv => PnlHasEvidence
  BY DEF Inv, TableInv
<1> QED BY <1>1, Invariance, PTL

\* An open row has its fill at the broker (record_position, confirm_fill,
\* adopt_position, reactivate_position).
THEOREM OpenEvidence == SafeSpec => []OpenHasFill
<1>1. Inv => OpenHasFill
  BY DEF Inv, TableInv
<1> QED BY <1>1, Invariance, PTL

\* Between the reconciler's reading and its last write nothing takes away what a
\* decision rests on, whatever the entries thread and the broker do
\* (_auto_reconcile).
THEOREM DecisionsHold == SafeSpec => []DecisionsStand
<1>1. Inv => DecisionsStand
  BY DEF Inv, ExitsInv
<1> QED BY <1>1, Invariance, PTL

\* The day's cap on automatic fixes (auto_fixes_today).
THEOREM FixCap == SafeSpec => []FixesCapped
<1>1. Inv => FixesCapped
  <2> SUFFICES ASSUME Inv PROVE applied =< MaxFixes + faults
    BY DEF FixesCapped
  <2>1. /\ fixlog \in Nat /\ applied \in Nat /\ faults \in Nat /\ MaxFixes \in Nat
        /\ fixlog =< MaxFixes
    BY BoundsAssumption DEF Inv, CountInv, CountType, Budget
  <2>2. CASE xpc = "log"
    <3>1. fixlog < MaxFixes /\ applied =< fixlog + faults + 1
      BY <2>2 DEF Inv, CountInv, Budget
    <3> QED BY <2>1, <3>1
  <2>3. CASE xpc # "log"
    <3>1. applied =< fixlog + faults
      BY <2>1, <2>3 DEF Inv, CountInv, Budget
    <3> QED BY <2>1, <3>1
  <2> QED BY <2>2, <2>3
<1> QED BY <1>1, Invariance, PTL

-----------------------------------------------------------------------------
(***************************************************************************)
(* What the orders and the rows come to.                                   *)
(*                                                                         *)
(* Of the orders: no entry order is lost sight of, each one that is left   *)
(* working with nobody following it, or that fills without a row, is       *)
(* charged to a fault of its own.  The proof follows the set of orders     *)
(* that are astray: a step adds at most one, and then counts a fault.      *)
(*                                                                         *)
(* Of the rows: OrderLifecycle implements PositionLifecycle.  Each step of *)
(* either job, of the broker or of a restart is a step of the status of    *)
(* one row, or leaves every status alone.                                  *)
(***************************************************************************)
\* What a step may do to the rows, to the orders and to the order in hand
\* without leaving an order astray, p excepted.
RowStep(p) ==
  \A i \in RowId :
    \/ row'[i] = row[i]
    \/ row[i].status = "none" /\ (row'[i].status = "pending" => row'[i].entry = row'[i].order)
    \/ /\ row'[i].status \notin {"none", "pending"} /\ row'[i].entry = row[i].entry
       /\ \A q \in OrderId :
            (q # p /\ row[i].order = q /\ order[q].side = "entry") => order'[q].status # "working"
OrderStep(p) ==
  \A q \in OrderId : q # p =>
    \/ order'[q] = order[q]
    \/ /\ order[q].status = "none" /\ order'[q].status = "working"
       /\ order'[q].side = "entry" => InHand(q)'
    \/ order'[q].side = order[q].side /\ order[q].status = "working"
HandStep(p) ==
  \A q \in OrderId : (q # p /\ q = eOrder) =>
    /\ (order'[q].status = "working" /\ InHand(q)) => InHand(q)' \/ \E i \in RowId : row'[i].order = q
    /\ order'[q].status = "filled" => Recorded(q)'

AccountStep(p) == RowStep(p) /\ OrderStep(p) /\ HandStep(p)

\* An order that is not p and is astray after the step was astray before it.
LEMMA StaysFollowed ==
  ASSUME TableInv, Accounted, NEW p, AccountStep(p), NEW q \in OrderId, q # p, Astray(q)'
  PROVE  Astray(q)
<1>1. q # 0
  BY DEF OrderId
<1>2. /\ order[q].side = "entry"
      /\ order[q].status \in {"working", order'[q].status}
  BY DEF AccountStep, OrderStep, Astray
<1>3. ASSUME NEW i \in RowId, row[i].order = q
      PROVE  row[i].status = "pending" /\ row[i].entry = q
  BY <1>1, <1>2, <1>3 DEF TableInv, OrderOwnership, IsOrder, Accounted
<1>4. ASSUME Recorded(q), order'[q].status = "filled"
      PROVE  Recorded(q)'
  <2>1. CASE q = eOrder
    BY <1>4, <2>1 DEF AccountStep, HandStep
  <2>2. CASE \E i \in RowId : row[i].status # "none" /\ row[i].entry = q
    <3>1. PICK i \in RowId : row[i].status # "none" /\ row[i].entry = q
      BY <2>2
    <3>2. row'[i].status # "none" /\ row'[i].entry = q
      BY <3>1 DEF AccountStep, RowStep
    <3> QED BY <3>2 DEF Recorded
  <2> QED BY <1>4, <2>1, <2>2 DEF Recorded
<1>5. CASE order'[q].status = "working"
  <2>1. ~InHand(q)' /\ \A i \in RowId : row'[i].order # q
    BY <1>5 DEF Astray
  <2>2. order[q].status = "working"
    BY <1>2, <1>5
  <2>3. ~InHand(q)
    BY <1>5, <2>1 DEF AccountStep, HandStep, InHand
  <2>4. ASSUME NEW i \in RowId, row[i].order = q PROVE FALSE
    <3>1. row[i].status = "pending"
      BY <1>3, <2>4
    <3> QED BY <1>2, <1>5, <2>1, <2>4, <3>1 DEF AccountStep, RowStep
  <2> QED BY <1>2, <2>2, <2>3, <2>4 DEF Astray
<1>6. CASE order'[q].status = "filled"
  <2>1. ~Recorded(q)
    BY <1>4, <1>6 DEF Astray
  <2>2. CASE order[q].status = "filled"
    BY <1>2, <2>1, <2>2 DEF Astray
  <2>3. CASE order[q].status = "working"
    <3>1. ~InHand(q)
      BY <2>1 DEF Recorded, InHand
    <3>2. \A i \in RowId : row[i].order # q
      BY <1>3, <2>1 DEF Recorded
    <3> QED BY <1>2, <2>3, <3>1, <3>2 DEF Astray
  <2> QED BY <1>2, <1>6, <2>2, <2>3
<1> QED BY <1>5, <1>6 DEF Astray

\* A step that counts a fault may leave one order astray, any other step none.
LEMMA AccountKept ==
  ASSUME Inv, faults' \in Nat, Accounted, NEW p, AccountStep(p), faults =< faults',
         (p \in OrderId /\ Astray(p)') => Astray(p) \/ faults' = faults + 1,
         epc' \in {"idle", "pass", "submit"} => eOrder' = 0
  PROVE  Accounted'
<1> DEFINE A == { o \in OrderId : Astray(o) }
           B == { o \in OrderId : Astray(o)' }
<1>1. IsFiniteSet(OrderId)
  BY FS_Interval, BoundsAssumption DEF OrderId
<1>2. IsFiniteSet(A) /\ IsFiniteSet(B)
  BY <1>1, FS_Subset
<1>3. Cardinality(A) \in Nat /\ Cardinality(B) \in Nat /\ faults \in Nat /\ Cardinality(A) =< faults
  BY <1>2, FS_CardinalityType DEF Accounted, Inv, CountInv, CountType
<1>4. B \subseteq A \cup {p}
  BY StaysFollowed DEF Inv
<1>5. Cardinality(B) =< faults'
  <2>1. CASE B \subseteq A
    <3>1. Cardinality(B) =< Cardinality(A)
      BY <1>2, <2>1, FS_Subset
    <3> QED
      <4> HIDE DEF A, B
      <4> QED BY <1>3, <3>1
  <2>2. CASE ~(B \subseteq A)
    <3>1. p \in B /\ p \notin A
      BY <1>4, <2>2
    <3>2. faults' = faults + 1
      BY <3>1
    <3>3. Cardinality(A \cup {p}) = Cardinality(A) + 1 /\ IsFiniteSet(A \cup {p})
      <4> HIDE DEF A, B
      <4> QED BY <1>2, <3>1, FS_AddElement
    <3>4. Cardinality(B) =< Cardinality(A \cup {p})
      <4> HIDE DEF A, B
      <4> QED BY <1>4, <3>3, FS_Subset
    <3> QED
      <4> HIDE DEF A, B
      <4> QED BY <1>3, <3>2, <3>3, <3>4
  <2> QED BY <2>1, <2>2
<1>6. \A i \in RowId : row'[i].status = "pending" => row'[i].entry = row'[i].order
  BY DEF AccountStep, RowStep, Accounted
<1> QED BY <1>5, <1>6 DEF Accounted

-----------------------------------------------------------------------------
(***************************************************************************)
(* What the statements on the table do to the rows.                        *)
(***************************************************************************)
LEMMA QuietParts ==
  ASSUME NEW p
  PROVE  /\ row' = row => RowStep(p)
         /\ order' = order => OrderStep(p)
         /\ UNCHANGED <<epc, eOrder>> => HandStep(p)
  BY DEF RowStep, OrderStep, HandStep, InHand, Recorded

\* An insert takes a row nobody has.
LEMMA InsertRowStep ==
  ASSUME TableInv, NEW p, NEW status, NEW v, NEW n, NEW entry, Insert(status, v, n, entry)
  PROVE  /\ RowStep(p)
         /\ \E i \in RowId : /\ row'[i].status = status /\ row'[i].entry = entry
                             /\ status = "pending" => row'[i].order = entry
<1>1. PICK i \in RowId :
        /\ i = rows + 1 /\ rows' = i
        /\ row' = [row EXCEPT ![i] =
                     [status |-> status, spread |-> v, qty |-> n,
                      order |-> IF status = "pending" THEN entry ELSE 0,
                      entry |-> entry, born |-> sent, exit |-> 0, how |-> "none"]]
  BY DEF Insert
<1>2. row \in [RowId -> RowType] /\ rows \in Nat
  BY BoundsAssumption DEF TableInv, TableType
<1>3. row[i].status = "none"
  BY <1>1, <1>2 DEF TableInv, RowsNumbered, NoRow, RowId
<1>4. /\ row'[i].status = status /\ row'[i].entry = entry
      /\ status = "pending" => row'[i].order = entry
      /\ \A j \in RowId : j # i => row'[j] = row[j]
  BY <1>1, <1>2
<1> QED BY <1>3, <1>4 DEF RowStep

\* Row i no longer waits for an order that works.
Released(i, p) ==
  \A q \in OrderId : (q # p /\ row[i].order = q /\ order[q].side = "entry") => order'[q].status # "working"

\* A write of a row neither pending nor new leaves the others in their place.
LEMMA WriteRowStep ==
  ASSUME NEW p, NEW i \in RowId, Released(i, p),
         \A j \in RowId : j # i => row'[j] = row[j],
         row'[i].status \notin {"none", "pending"}, row'[i].entry = row[i].entry
  PROVE  RowStep(p)
  BY DEF RowStep, Released

\* update_position writes one row, or none when its status has moved.
LEMMA UpdateRowStep ==
  ASSUME TableInv, NEW p, NEW i \in RowId, Released(i, p), NEW from,
         NEW status \in {"open", "closing", "unfilled"}, NEW o, Update(i, from, status, o)
  PROVE  RowStep(p)
<1>1. row \in [RowId -> RowType] /\ row[i] \in RowType
  BY DEF TableInv, TableType
<1>2. CASE row' = row
  BY <1>2, QuietParts
<1>3. CASE row' = [row EXCEPT ![i].status = status, ![i].order = o]
  <2>1. /\ \A j \in RowId : j # i => row'[j] = row[j]
        /\ row'[i].status = status /\ row'[i].entry = row[i].entry
    BY <1>1, <1>3 DEF RowType
  <2> QED BY <2>1, WriteRowStep
<1> QED BY <1>2, <1>3 DEF Update

\* close_position writes one row.
LEMMA CloseRowStep ==
  ASSUME TableInv, NEW p, NEW i \in RowId, Released(i, p), NEW exit, NEW how,
         close_position(i, exit, how)
  PROVE  RowStep(p)
<1>1. row \in [RowId -> RowType] /\ row[i] \in RowType
  BY DEF TableInv, TableType
<1>2. row' = [row EXCEPT ![i].status = "closed", ![i].order = 0, ![i].exit = exit, ![i].how = how]
  BY DEF close_position
<1>3. /\ \A j \in RowId : j # i => row'[j] = row[j]
      /\ row'[i].status = "closed" /\ row'[i].entry = row[i].entry
  BY <1>1, <1>2 DEF RowType
<1> QED BY <1>3, WriteRowStep

\* Only a pending row waits for an entry order.
LEMMA ReleasedUnlessPending ==
  ASSUME TableInv, NEW p, NEW i \in RowId, row[i].status # "pending"
  PROVE  Released(i, p)
  BY DEF TableInv, OrderOwnership, IsOrder, Released, OrderId

-----------------------------------------------------------------------------
(***************************************************************************)
(* The steps of the broker and of the exits thread.                        *)
(***************************************************************************)
\* A step that leaves the entries thread alone and leaves nothing astray.
LEMMA EntriesAside ==
  ASSUME Inv, Accounted, RowStep(0), OrderStep(0), UNCHANGED entries,
         faults' \in Nat, faults =< faults'
  PROVE  Accounted'
<1>1. UNCHANGED <<epc, eOrder>>
  BY DEF entries
<1>2. AccountStep(0)
  BY <1>1, QuietParts DEF AccountStep
<1>3. epc' \in {"idle", "pass", "submit"} => eOrder' = 0
  BY <1>1 DEF Accounted
<1>4. 0 \notin OrderId
  BY DEF OrderId
<1> QED BY <1>2, <1>3, <1>4, AccountKept

\* A fault is counted, and the count never falls.
LEMMA FaultCount ==
  ASSUME Inv
  PROVE  /\ UNCHANGED faults => faults' \in Nat /\ faults =< faults'
         /\ Fault => faults' \in Nat /\ faults =< faults' /\ faults' = faults + 1
  BY BoundsAssumption DEF Inv, CountInv, CountType, Fault

\* Only a working order changes.
LEMMA WorkingOrderStep ==
  ASSUME BrokerInv, NEW o \in OrderId, order[o].status = "working", NEW e,
         order' = [order EXCEPT ![o] = e], e.side = order[o].side
  PROVE  \A p : OrderStep(p)
<1>1. order'[o] = e /\ \A q \in OrderId : q # o => order'[q] = order[q]
  BY DEF BrokerInv, BrokerType
<1> QED BY <1>1 DEF OrderStep

\* The broker moves no entry out of hand.
LEMMA BrokerAccounted ==
  ASSUME Inv, Accounted, BrokerStep
  PROVE  Accounted'
<1>1. UNCHANGED <<table, entries>> /\ row' = row /\ UNCHANGED faults
  BY DEF BrokerStep, BrokerFill, BrokerPartialFill, BrokerDrop, Settle, NewDay, table
<1>2. OrderStep(0)
  <2>1. ASSUME NEW o \in OrderId, BrokerFill(o) \/ BrokerPartialFill(o) \/ BrokerDrop(o)
        PROVE  OrderStep(0)
    <3>1. order \in [OrderId -> OrderType] /\ order[o] \in OrderType /\ order[o].status = "working"
      BY <2>1 DEF BrokerFill, BrokerPartialFill, BrokerDrop, Inv, BrokerInv, BrokerType
    <3>2. /\ \A q \in OrderId : q # o => order'[q] = order[q]
          /\ order'[o].side = order[o].side
      BY <2>1, <3>1 DEF BrokerFill, BrokerPartialFill, BrokerDrop, OrderType
    <3> QED BY <3>1, <3>2 DEF OrderStep
  <2>2. CASE order' = order
    BY <2>2, QuietParts
  <2> QED BY <2>1, <2>2 DEF BrokerStep, Settle, NewDay, broker
<1> QED BY <1>1, <1>2, QuietParts, FaultCount, EntriesAside

\* A cancel takes a working order away or, at the price of a fault, does nothing.
LEMMA CancelOrderStep ==
  ASSUME BrokerInv, NEW o \in OrderId, cancel_order(o)
  PROVE  /\ \A p : OrderStep(p)
         /\ \/ order'[o].status # "working" /\ UNCHANGED faults
            \/ Fault /\ order' = order
<1>1. order \in [OrderId -> OrderType] /\ order[o] \in OrderType
  BY DEF BrokerInv, BrokerType
<1>2. CASE Fault /\ order' = order
  BY <1>2, QuietParts
<1>3. CASE order[o].status = "working" /\ order' = [order EXCEPT ![o].status = "dead"] /\ UNCHANGED faults
  <2>1. /\ \A q \in OrderId : q # o => order'[q] = order[q]
        /\ order'[o].side = order[o].side /\ order'[o].status = "dead"
    BY <1>1, <1>3 DEF OrderType
  <2> QED BY <1>3, <2>1 DEF OrderStep
<1>4. CASE order[o].status # "working" /\ order' = order /\ UNCHANGED faults
  BY <1>4, QuietParts
<1>5. order[o].status # "working" => [order EXCEPT ![o].status = order[o].status] = order
  BY <1>1 DEF OrderType
<1> QED BY <1>2, <1>3, <1>4, <1>5 DEF cancel_order

\* A close order is nobody's to follow as an entry.
LEMMA SendOrderStep ==
  ASSUME BrokerInv, NEW o \in OrderId, NEW v, NEW side, NEW n, Send(o, v, side, n)
  PROVE  /\ OrderStep(o)
         /\ (side = "close" \/ InHand(o)') => OrderStep(0)
<1>1. order[o] = NoOrder
  BY BoundsAssumption DEF Send, BrokerInv, BrokerType, OrdersNumbered, OrderId
<1>2. /\ \A q \in OrderId : q # o => order'[q] = order[q]
      /\ order'[o].status = "working" /\ order'[o].side = side
  BY DEF Send, BrokerInv, BrokerType
<1> QED BY <1>1, <1>2 DEF OrderStep, NoOrder

\* The steps of the exits thread that change no order and no row.
LEMMA ReadingAccounted ==
  ASSUME Inv, Accounted, UNCHANGED <<order, row, entries>>, UNCHANGED faults \/ Fault
  PROVE  Accounted'
  BY QuietParts, FaultCount, EntriesAside

\* A pending row resolved is one whose entry no longer works.
LEMMA ResolveRowAccounted ==
  ASSUME Inv, Accounted, NEW i \in RowId, ResolveRow(i)
  PROVE  Accounted'
<1>1. order' = order /\ UNCHANGED entries /\ (UNCHANGED faults \/ Fault)
  BY DEF ResolveRow, broker
<1>2. CASE UNCHANGED table
  BY <1>1, <1>2, ReadingAccounted DEF table
<1>3. CASE order[row[i].order].status # "working"
  <2>1. Released(i, 0)
    BY <1>1, <1>3 DEF Released
  <2>2. RowStep(0)
    BY <1>2, <2>1, UpdateRowStep, CloseRowStep, QuietParts
       DEF ResolveRow, confirm_fill, mark_unfilled, revert_closing, Inv, table
  <2> QED BY <1>1, <2>2, QuietParts, FaultCount, EntriesAside
<1> QED BY <1>2, <1>3 DEF ResolveRow

\* Nor does the cancel of a stale order release one that works.
LEMMA CancelStaleAccounted ==
  ASSUME Inv, Accounted, CancelStale
  PROVE  Accounted'
<1>1. /\ xRow \in RowId /\ row[xRow].status \in {"pending", "closing"}
      /\ UNCHANGED <<epc, eOrder>> /\ UNCHANGED entries
  BY TodoTypes DEF CancelStale, Inv, ExitsInv, Managing, entries
<1>2. PICK i, o : i = xRow /\ o = row[xRow].order
  OBVIOUS
<1>3. i \in RowId /\ o \in OrderId /\ cancel_order(o)
  BY <1>1, <1>2, BoundsAssumption
     DEF CancelStale, Inv, TableInv, OrderOwnership, IsOrder, BrokerInv, BrokerType, OrderId
<1>4. /\ \A p : OrderStep(p)
      /\ \/ order'[o].status # "working" /\ UNCHANGED faults
         \/ Fault /\ order' = order
  BY <1>3, CancelOrderStep DEF Inv
<1>5. \A p : Released(i, p) => RowStep(p)
  BY <1>2, <1>3, UpdateRowStep DEF CancelStale, mark_unfilled, revert_closing, Inv
<1>6. CASE order'[o].status # "working" /\ UNCHANGED faults
  <2>1. Released(i, 0)
    BY <1>2, <1>6 DEF Released
  <2> QED BY <1>1, <1>4, <1>5, <1>6, <2>1, FaultCount, EntriesAside
<1>7. CASE Fault
  <2>1. Released(i, o)
    BY <1>2 DEF Released
  <2>2. AccountStep(o)
    BY <1>1, <1>4, <1>5, <2>1, QuietParts DEF AccountStep
  <2> QED BY <1>1, <1>7, <2>2, FaultCount, AccountKept DEF Accounted
<1> QED BY <1>4, <1>6, <1>7

\* The steps of a close leave the entries alone:
LEMMA SubmitCloseAccounted ==
  ASSUME Inv, Accounted, NEW i \in RowId, SubmitClose(i)
  PROVE  Accounted'
<1>1. row[i].status = "open" /\ UNCHANGED entries /\ (UNCHANGED faults \/ Fault)
  BY DEF SubmitClose, Managed, Inv, ExitsInv, Managing
<1>2. OrderStep(0)
  BY SendOrderStep DEF SubmitClose, Inv
<1>3. RowStep(0)
  <2>1. Released(i, 0)
    BY <1>1, ReleasedUnlessPending DEF Inv
  <2> QED BY <2>1, CloseRowStep, QuietParts DEF SubmitClose, Inv, table
<1> QED BY <1>1, <1>2, <1>3, FaultCount, EntriesAside

\* the wait for its fill,
LEMMA WaitCloseAccounted ==
  ASSUME Inv, Accounted, WaitClose
  PROVE  Accounted'
<1>1. /\ xRow \in RowId /\ row[xRow].status = "open" /\ order' = order
      /\ UNCHANGED entries /\ (UNCHANGED faults \/ Fault)
  BY TodoTypes DEF WaitClose, Inv, ExitsInv, Managing, broker
<1>2. PICK i, o : i = xRow /\ o = xOrder
  OBVIOUS
<1>3. RowStep(0)
  <2>1. i \in RowId /\ Released(i, 0)
    BY <1>1, <1>2, ReleasedUnlessPending DEF Inv
  <2> QED BY <1>2, <2>1, CloseRowStep, UpdateRowStep, QuietParts
          DEF WaitClose, mark_closing, Inv, table
<1> QED BY <1>1, <1>3, QuietParts, FaultCount, EntriesAside

\* and its revert.
LEMMA RevertCloseAccounted ==
  ASSUME Inv, Accounted, RevertClose
  PROVE  Accounted'
<1>1. /\ xRow \in RowId /\ row[xRow].status = "closing" /\ order' = order
      /\ UNCHANGED entries /\ UNCHANGED faults
  BY TodoTypes DEF RevertClose, Inv, ExitsInv, Managing, broker
<1>2. PICK i : i = xRow
  OBVIOUS
<1>3. RowStep(0)
  <2>1. i \in RowId /\ Released(i, 0)
    BY <1>1, <1>2, ReleasedUnlessPending DEF Inv
  <2> QED BY <1>2, <2>1, UpdateRowStep DEF RevertClose, revert_closing, Inv
<1> QED BY <1>1, <1>3, QuietParts, FaultCount, EntriesAside

\* The reconciler touches no row that waits for an entry.
LEMMA ApplyFixAccounted ==
  ASSUME Inv, Accounted, NEW r \in xRes, ApplyFix(r)
  PROVE  Accounted'
<1>1. order' = order /\ UNCHANGED entries /\ UNCHANGED faults /\ _apply_resolution(r)
  BY DEF ApplyFix, broker
<1>2. DecisionStands(r) /\ (r.kind # "adopt" => r.pid \in RowId)
  BY DEF Inv, ExitsInv, DecisionsStand, Reconciling
<1>3. PICK i, n : i = r.pid /\ n = r.qty
  OBVIOUS
<1>4. row \in [RowId -> RowType] /\ (i \in RowId => row[i] \in RowType)
  BY DEF Inv, TableInv, TableType
<1>5. RowStep(0)
  <2>1. CASE r.kind \in RowKinds \/ r.kind = "reactivate"
    <3>1. i \in RowId /\ row[i].status \in {"open", "closing", "unfilled"}
      BY <1>2, <1>3, <2>1 DEF DecisionStands, RowKinds, LIVE_STATUSES
    <3>2. Released(i, 0)
      BY <3>1, ReleasedUnlessPending DEF Inv
    <3>3. CASE r.kind \in {"close_fill", "close_expired"}
      BY <1>1, <1>3, <3>1, <3>2, <3>3, CloseRowStep DEF _apply_resolution, Inv
    <3>4. CASE r.kind = "adjust_qty"
      <4>1. adjust_contracts(i, n)
        BY <1>1, <1>3, <3>4 DEF _apply_resolution
      <4>2. /\ \A j \in RowId : j # i => row'[j] = row[j]
            /\ row'[i].status = row[i].status /\ row'[i].entry = row[i].entry
        BY <1>4, <3>1, <4>1 DEF adjust_contracts, RowType
      <4> QED BY <3>1, <3>2, <4>2, WriteRowStep
    <3>5. CASE r.kind = "reactivate"
      <4>1. reactivate_position(i, n)
        BY <1>1, <1>3, <3>5 DEF _apply_resolution
      <4>2. /\ \A j \in RowId : j # i => row'[j] = row[j]
            /\ row'[i].status = "open" /\ row'[i].entry = row[i].entry
        BY <1>4, <3>1, <4>1 DEF reactivate_position, RowType
      <4> QED BY <3>1, <3>2, <4>2, WriteRowStep
    <3> QED BY <2>1, <3>3, <3>4, <3>5 DEF RowKinds
  <2>2. CASE r.kind = "adopt"
    BY <1>1, <2>2, InsertRowStep DEF _apply_resolution, adopt_position, Inv
  <2> QED BY <1>1, <2>1, <2>2 DEF _apply_resolution, RowKinds
<1> QED BY <1>1, <1>5, QuietParts, FaultCount, EntriesAside

\* The exits thread keeps the account.
LEMMA ExitsAccounted ==
  ASSUME Inv, Accounted, ExitsStep
  PROVE  Accounted'
<1>1. ASSUME ReconcileStep PROVE Accounted'
  <2>1. ASSUME ReadLive \/ ReadBroker \/ LogFix \/ ReconcilerFails \/ EndReconcile PROVE Accounted'
    BY <2>1, ReadingAccounted
       DEF ReadLive, ReadBroker, LogFix, ReconcilerFails, EndReconcile, broker, table
  <2>2. ASSUME NEW pair, NEW prev, ReadEvidence(pair, prev) PROVE Accounted'
    BY <2>2, ReadingAccounted DEF ReadEvidence, broker, table
  <2> QED BY <1>1, <2>1, <2>2, ApplyFixAccounted DEF ReconcileStep
<1>2. ASSUME StartExits \/ EndResolve \/ EndManage PROVE Accounted'
  BY <1>2, ReadingAccounted DEF StartExits, EndResolve, EndManage, broker, table
<1>3. ASSUME NEW i \in RowId, FindStale(i) \/ KeepOpen(i) PROVE Accounted'
  BY <1>3, ReadingAccounted DEF FindStale, KeepOpen, broker, table
<1> QED
  BY <1>1, <1>2, <1>3, ResolveRowAccounted, CancelStaleAccounted, SubmitCloseAccounted,
     WaitCloseAccounted, RevertCloseAccounted DEF ExitsStep

-----------------------------------------------------------------------------
(***************************************************************************)
(* The steps of the entries thread, and the restart.                       *)
(***************************************************************************)
\* A step that leaves nothing astray.
LEMMA NothingAstray ==
  ASSUME Inv, Accounted, AccountStep(0), UNCHANGED faults \/ Fault,
         epc' \in {"idle", "pass", "submit"} => eOrder' = 0
  PROVE  Accounted'
<1>1. 0 \notin OrderId
  BY DEF OrderId
<1> QED BY <1>1, FaultCount, AccountKept

\* A step that loses order p and counts it.
LEMMA OneAstray ==
  ASSUME Inv, Accounted, NEW p, AccountStep(p), Fault,
         epc' \in {"idle", "pass", "submit"} => eOrder' = 0
  PROVE  Accounted'
  BY FaultCount, AccountKept

\* Before an order is sent nothing can go astray.
LEMMA PassAccounted ==
  ASSUME Inv, Accounted,
         StartEntries \/ EndEntries \/ \E v \in Spread, n \in 1..MaxQty : BeginPlace(v, n)
  PROVE  Accounted'
<1>1. /\ order' = order /\ row' = row /\ UNCHANGED <<eOrder, faults>> /\ eOrder = 0
      /\ epc' \in {"idle", "pass", "submit"}
  BY DEF StartEntries, EndEntries, BeginPlace, Accounted, broker, table
<1>2. HandStep(0)
  BY <1>1 DEF HandStep, OrderId
<1> QED BY <1>1, <1>2, QuietParts, NothingAstray DEF AccountStep

\* An order sent is in hand, or astray by the fault of an answer lost.
LEMMA SubmitEntryAccounted ==
  ASSUME Inv, Accounted, SubmitEntry
  PROVE  Accounted'
<1>1. \A p : HandStep(p)
  BY DEF SubmitEntry, Accounted, HandStep, OrderId
<1>2. ASSUME NEW o \in OrderId, Send(o, eSpread, "entry", eQty), eOrder' = o, epc' = "wait",
             UNCHANGED <<table, faults>>
      PROVE  Accounted'
  <2>1. InHand(o)' /\ row' = row
    BY <1>2 DEF InHand, table
  <2>2. OrderStep(0)
    BY <1>2, <2>1, SendOrderStep DEF Inv
  <2>3. AccountStep(0)
    BY <1>1, <2>1, <2>2, QuietParts DEF AccountStep
  <2> QED BY <1>2, <2>3, NothingAstray
<1>3. ASSUME NEW o \in OrderId, Send(o, eSpread, "entry", eQty), Fault, LeavePlace,
             record_position(eSpread, eQty, 0, "open") \/ UNCHANGED table
      PROVE  Accounted'
  <2>1. OrderStep(o)
    BY <1>3, SendOrderStep DEF Inv
  <2>2. RowStep(o)
    BY <1>3, InsertRowStep, QuietParts DEF record_position, Inv, table
  <2>3. AccountStep(o)
    BY <1>1, <2>1, <2>2 DEF AccountStep
  <2> QED BY <1>3, <2>3, OneAstray DEF LeavePlace
<1>4. ASSUME LeavePlace, UNCHANGED <<order, sent, table, faults>>
      PROVE  Accounted'
  <2>1. AccountStep(0)
    BY <1>1, <1>4, QuietParts DEF AccountStep, table
  <2> QED BY <1>4, <2>1, NothingAstray DEF LeavePlace
<1> QED BY <1>2, <1>3, <1>4 DEF SubmitEntry

\* The order in hand gets its row: open for a fill, pending for one that works.
LEMMA RecordAccounted ==
  ASSUME Inv, Accounted, NEW status \in {"open", "pending"}, order' = order,
         record_position(eSpread, eQty, eOrder, status), LeavePlace,
         UNCHANGED faults \/ Fault,
         status = "open" => order[eOrder].status = "filled"
  PROVE  Accounted'
<1>1. Insert(status, eSpread, eQty, eOrder)
  BY DEF record_position
<1>2. PICK i \in RowId : /\ row'[i].status = status /\ row'[i].entry = eOrder
                         /\ status = "pending" => row'[i].order = eOrder
  BY <1>1, InsertRowStep DEF Inv
<1>3. Recorded(eOrder)'
  BY <1>2 DEF Recorded
<1>4. HandStep(0)
  BY <1>2 DEF HandStep, Recorded
<1>5. RowStep(0)
  BY <1>1, InsertRowStep DEF Inv
<1>6. AccountStep(0)
  BY <1>4, <1>5, QuietParts DEF AccountStep
<1> QED BY <1>6, NothingAstray DEF LeavePlace

\* A fill is recorded, or the row is lost by a fault.
LEMMA WaitEntryAccounted ==
  ASSUME Inv, Accounted, WaitEntry
  PROVE  Accounted'
<1>1. order' = order
  BY DEF WaitEntry, broker
<1>2. ASSUME order[eOrder].status = "dead", NextRung \/ LeavePlace, UNCHANGED <<table, faults>>
      PROVE  Accounted'
  <2>1. HandStep(0)
    BY <1>1, <1>2 DEF HandStep
  <2>2. AccountStep(0) /\ eOrder' = 0
    BY <1>1, <1>2, <2>1, QuietParts DEF AccountStep, NextRung, LeavePlace, table
  <2> QED BY <1>2, <2>2, NothingAstray
<1>3. ASSUME epc' = "cancel", UNCHANGED <<table, eOrder, faults>>
      PROVE  Accounted'
  <2>1. HandStep(0)
    BY <1>3 DEF HandStep, InHand, Recorded
  <2>2. AccountStep(0)
    BY <1>1, <1>3, <2>1, QuietParts DEF AccountStep, table
  <2> QED BY <1>3, <2>2, NothingAstray
<1> QED BY <1>1, <1>2, <1>3, RecordAccounted DEF WaitEntry, RecordPending

\* A rung canceled is waited for.
LEMMA CancelRungAccounted ==
  ASSUME Inv, Accounted, CancelRung
  PROVE  Accounted'
<1>1. /\ cancel_order(eOrder) /\ row' = row /\ eOrder' = eOrder /\ epc' = "wait2"
      /\ eOrder \in OrderId
  BY BoundsAssumption
     DEF CancelRung, table, Inv, EntriesInv, Placing, IsOrder, BrokerInv, BrokerType, OrderId
<1>2. PICK o : o = eOrder
  OBVIOUS
<1>3. /\ \A p : OrderStep(p)
      /\ \/ order'[o].status # "working" /\ UNCHANGED faults
         \/ Fault /\ order' = order
  BY <1>1, <1>2, CancelOrderStep DEF Inv
<1>4. CASE order'[o].status # "working" /\ UNCHANGED faults
  <2>1. HandStep(0)
    BY <1>1, <1>2, <1>4 DEF HandStep, Recorded
  <2>2. AccountStep(0)
    BY <1>1, <1>3, <2>1, QuietParts DEF AccountStep
  <2> QED BY <1>1, <1>4, <2>2, NothingAstray
<1>5. CASE Fault
  <2>1. HandStep(o)
    BY <1>2 DEF HandStep
  <2>2. AccountStep(o)
    BY <1>1, <1>3, <2>1, QuietParts DEF AccountStep
  <2> QED BY <1>1, <1>5, <2>2, OneAstray
<1> QED BY <1>3, <1>4, <1>5

\* What the canceled rung comes to is recorded, or astray by a fault.
LEMMA WaitCanceledAccounted ==
  ASSUME Inv, Accounted, WaitCanceled
  PROVE  Accounted'
<1>1. order' = order /\ UNCHANGED faults /\ epc = "wait2"
  BY DEF WaitCanceled, broker
<1>2. CASE order[eOrder].status = "filled"
  BY <1>1, <1>2, RecordAccounted DEF WaitCanceled
<1>3. CASE order[eOrder].status # "filled"
  <2>1. NextRung /\ row' = row
    BY <1>3 DEF WaitCanceled, table
  <2>2. HandStep(0)
    BY <1>1, <1>3 DEF HandStep, InHand
  <2>3. AccountStep(0) /\ eOrder' = 0
    BY <1>1, <2>1, <2>2, QuietParts DEF AccountStep, NextRung
  <2> QED BY <1>1, <2>3, NothingAstray
<1> QED BY <1>2, <1>3

\* What raises or dies in the middle of _place loses the order in hand.
LEMMA LosingAccounted ==
  ASSUME Inv, Accounted, PlaceRaises \/ Restart
  PROVE  Accounted'
<1>1. order' = order /\ row' = row /\ Fault /\ eOrder' = 0
  BY DEF PlaceRaises, Restart, LeavePlace, broker, table
<1>2. HandStep(eOrder)
  BY DEF HandStep
<1>3. AccountStep(eOrder)
  BY <1>1, <1>2, QuietParts DEF AccountStep
<1> QED BY <1>1, <1>3, OneAstray

\* The entries thread keeps the account.
LEMMA EntriesAccounted ==
  ASSUME Inv, Accounted, EntriesStep
  PROVE  Accounted'
  BY PassAccounted, SubmitEntryAccounted, WaitEntryAccounted, CancelRungAccounted,
     WaitCanceledAccounted, LosingAccounted DEF EntriesStep, PlaceStep

-----------------------------------------------------------------------------
(***************************************************************************)
(* The invariant and what follows from it.                                 *)
(***************************************************************************)
LEMMA InitAccounted == Init => Accounted
<1> SUFFICES ASSUME Init PROVE Accounted
  OBVIOUS
<1>1. { o \in OrderId : Astray(o) } = {}
  BY DEF Init, Astray, NoOrder
<1>2. Cardinality({ o \in OrderId : Astray(o) }) =< faults
  BY <1>1, FS_EmptySet DEF Init
<1>3. eOrder = 0 /\ \A i \in RowId : row[i].status # "pending"
  BY DEF Init, NoRow
<1> QED BY <1>2, <1>3 DEF Accounted

\* Every step keeps it.
LEMMA NextAccounted == Inv /\ Accounted /\ [Next]_vars => Accounted'
<1> SUFFICES ASSUME Inv, Accounted, [Next]_vars PROVE Accounted'
  OBVIOUS
<1>1. CASE UNCHANGED vars
  BY <1>1, ReadingAccounted DEF vars, broker, table
<1> QED BY <1>1, BrokerAccounted, EntriesAccounted, ExitsAccounted, LosingAccounted DEF Next

\* The invariant with the account of the orders astray is inductive.
THEOREM Accounting == SafeSpec => []CountedInv
<1>1. Init => CountedInv
  BY InitInv, InitAccounted DEF CountedInv
<1>2. CountedInv /\ [Next]_vars => CountedInv'
  BY NextInv, NextAccounted DEF CountedInv
<1> QED BY <1>1, <1>2, PTL DEF SafeSpec

\* A set of orders each of which is astray is no larger than the faults.
LEMMA BoundedByFaults ==
  ASSUME CountedInv, NEW S, S \subseteq { o \in OrderId : Astray(o) }
  PROVE  Cardinality(S) =< faults
<1> DEFINE A == { o \in OrderId : Astray(o) }
<1>1. IsFiniteSet(A)
  <2>1. IsFiniteSet(OrderId)
    BY FS_Interval, BoundsAssumption DEF OrderId
  <2> QED BY <2>1, FS_Subset
<1>2. Cardinality(A) =< faults /\ faults \in Nat
  BY DEF CountedInv, Accounted, Inv, CountInv, CountType
<1>3. Cardinality(S) \in Nat /\ Cardinality(A) \in Nat /\ Cardinality(S) =< Cardinality(A)
  <2> HIDE DEF A
  <2>1. S \subseteq A
    BY DEF A
  <2> QED BY <1>1, <2>1, FS_Subset, FS_CardinalityType
<1> QED
  <2> HIDE DEF A
  <2> QED BY <1>2, <1>3

\* No entry order is left working with nobody following it, but one for each call
\* that failed or restart of the process (_place, _resolve_pending).
THEOREM OrphansBounded == SafeSpec => []NoOrphanEntries
<1>1. CountedInv => NoOrphanEntries
  <2> SUFFICES ASSUME CountedInv PROVE NoOrphanEntries
    OBVIOUS
  <2>1. { o \in EntryOrders({"working"}) : ~Followed(o) } \subseteq { o \in OrderId : Astray(o) }
    BY DEF EntryOrders, Followed, Astray, InHand
  <2> QED BY <2>1, BoundedByFaults DEF NoOrphanEntries
<1> QED BY <1>1, Accounting, PTL

\* Every entry that fills has its row, with the same exception (_place,
\* _resolve_pending).
THEOREM FillsRecorded == SafeSpec => []NoLostFill
<1>1. CountedInv => NoLostFill
  <2> SUFFICES ASSUME CountedInv PROVE NoLostFill
    OBVIOUS
  <2>1. { o \in EntryOrders({"filled"}) : ~Recorded(o) } \subseteq { o \in OrderId : Astray(o) }
    BY DEF EntryOrders, Astray
  <2> QED BY <2>1, BoundedByFaults DEF NoLostFill
<1> QED BY <1>1, Accounting, PTL

-----------------------------------------------------------------------------
\* The steps of PositionLifecycle, as pairs of statuses.
Allowed ==
  { <<"none", "pending">>, <<"none", "open">>, <<"pending", "open">>, <<"pending", "unfilled">>,
    <<"open", "closing">>, <<"closing", "open">>, <<"open", "closed">>, <<"closing", "closed">>,
    <<"unfilled", "open">> }

RowMoves ==
  \/ UNCHANGED row
  \/ \E i \in RowId : /\ row' = [row EXCEPT ![i] = row'[i]]
                      /\ \/ row'[i].status = row[i].status
                         \/ <<row[i].status, row'[i].status>> \in Allowed

LEMMA MoveImplements ==
  ASSUME TableType, RowMoves
  PROVE  [Lifecycle!Next]_[i \in RowId |-> row[i].status]
<1> DEFINE status == [i \in RowId |-> row[i].status]
<1>1. row \in [RowId -> RowType]
  BY DEF TableType
<1>2. CASE UNCHANGED row
  BY <1>2
<1>3. ASSUME NEW i \in RowId, row' = [row EXCEPT ![i] = row'[i]]
      PROVE  status' = [status EXCEPT ![i] = row'[i].status]
  BY <1>1, <1>3
<1>4. ASSUME NEW i \in RowId, row' = [row EXCEPT ![i] = row'[i]], row'[i].status = row[i].status
      PROVE  UNCHANGED status
  BY <1>1, <1>3, <1>4
<1>5. ASSUME NEW i \in RowId, row' = [row EXCEPT ![i] = row'[i]],
             <<row[i].status, row'[i].status>> \in Allowed
      PROVE  Lifecycle!Next
  <2>1. status[i] = row[i].status /\ status' = [status EXCEPT ![i] = row'[i].status]
    BY <1>3, <1>5
  <2> HIDE DEF status
  <2> QED BY <2>1, <1>5
          DEF Allowed, status, Lifecycle!Next, Lifecycle!Move, Lifecycle!RecordPending, Lifecycle!RecordOpen,
              Lifecycle!ConfirmFill, Lifecycle!MarkUnfilled, Lifecycle!MarkClosing,
              Lifecycle!RevertClosing, Lifecycle!ClosePosition, Lifecycle!Reactivate
<1> QED BY <1>2, <1>4, <1>5 DEF RowMoves

(***************************************************************************)
(* The statements of store.py, on the rows the two jobs give them.         *)
(***************************************************************************)
LEMMA InsertMoves ==
  ASSUME TableInv, NEW status \in {"pending", "open"}, NEW v, NEW n, NEW entry,
         Insert(status, v, n, entry)
  PROVE  RowMoves
<1>1. PICK i \in RowId :
        /\ i = rows + 1
        /\ row' = [row EXCEPT ![i] =
                     [status |-> status, spread |-> v, qty |-> n,
                      order |-> IF status = "pending" THEN entry ELSE 0,
                      entry |-> entry, born |-> sent, exit |-> 0, how |-> "none"]]
  BY DEF Insert
<1>2. row \in [RowId -> RowType] /\ rows \in Nat
  BY BoundsAssumption DEF TableInv, TableType
<1>3. row[i].status = "none"
  BY <1>1, <1>2 DEF TableInv, RowsNumbered, NoRow, RowId
<1>4. row' = [row EXCEPT ![i] = row'[i]] /\ row'[i].status = status
  BY <1>1, <1>2
<1> QED BY <1>3, <1>4 DEF RowMoves, Allowed

\* Row i is written, and its status changes as it may.
LEMMA WriteMoves ==
  ASSUME TableInv, NEW i \in RowId, NEW new, row' = [row EXCEPT ![i] = new],
         new.status = row[i].status \/ <<row[i].status, new.status>> \in Allowed
  PROVE  RowMoves
<1>1. row \in [RowId -> RowType]
  BY DEF TableInv, TableType
<1>2. row'[i] = new
  BY <1>1
<1> QED BY <1>1, <1>2 DEF RowMoves

LEMMA UpdateMoves ==
  ASSUME TableInv, NEW i \in RowId, NEW from, NEW status, NEW o, Update(i, from, status, o),
         row[i].status \in from => <<row[i].status, status>> \in Allowed
  PROVE  RowMoves
<1>1. row[i] \in RowType
  BY DEF TableInv, TableType
<1> DEFINE new == [[row[i] EXCEPT !.status = status] EXCEPT !.order = o]
<1>2. CASE row' = row
  BY <1>2 DEF RowMoves
<1>3. CASE row' = [row EXCEPT ![i].status = status, ![i].order = o] /\ row[i].status \in from
  <2>1. row' = [row EXCEPT ![i] = new] /\ new.status = status
    BY <1>1, <1>3 DEF RowType, TableInv, TableType
  <2> HIDE DEF new
  <2>2. PICK n : n = new
    OBVIOUS
  <2> QED BY <1>3, <2>1, <2>2, WriteMoves
<1> QED BY <1>2, <1>3 DEF Update

LEMMA CloseMoves ==
  ASSUME TableInv, NEW i \in RowId, NEW exit, NEW how, close_position(i, exit, how),
         row[i].status \in LIVE_STATUSES
  PROVE  RowMoves
<1>1. row[i] \in RowType
  BY DEF TableInv, TableType
<1> DEFINE new == [row[i] EXCEPT !.status = "closed", !.order = 0, !.exit = exit, !.how = how]
<1>2. row' = [row EXCEPT ![i] = new] /\ new.status = "closed"
  BY <1>1 DEF close_position, RowType, TableInv, TableType
<1> HIDE DEF new
<1>3. PICK n : n = new
  OBVIOUS
<1>4. <<row[i].status, "closed">> \in Allowed
  BY DEF LIVE_STATUSES, Allowed
<1> QED BY <1>2, <1>3, <1>4, WriteMoves

\* The order of row i is done and the row moves on.
LEMMA SettleMoves ==
  ASSUME TableInv, NEW i \in RowId, row[i].status \in {"pending", "closing"},
         \/ IF row[i].status = "pending" THEN confirm_fill(i)
            ELSE close_position(i, row[i].order, "fill")
         \/ IF row[i].status = "pending" THEN mark_unfilled(i) ELSE revert_closing(i)
  PROVE  RowMoves
<1>1. CASE row[i].status = "pending" /\ (confirm_fill(i) \/ mark_unfilled(i))
  <2>1. /\ <<row[i].status, "open">> \in Allowed
        /\ <<row[i].status, "unfilled">> \in Allowed
    BY <1>1 DEF Allowed
  <2> QED BY <1>1, <2>1, UpdateMoves DEF confirm_fill, mark_unfilled
<1>2. CASE row[i].status = "closing" /\ revert_closing(i)
  BY <1>2, UpdateMoves DEF revert_closing, Allowed
<1>3. CASE row[i].status = "closing" /\ close_position(i, row[i].order, "fill")
  <2>1. PICK o : o = row[i].order
    OBVIOUS
  <2> QED BY <1>3, <2>1, CloseMoves DEF LIVE_STATUSES
<1> QED BY <1>1, <1>2, <1>3

LEMMA ResolutionMoves ==
  ASSUME TableInv, NEW r \in ResType, DecisionStands(r), r.kind # "adopt" => r.pid \in RowId,
         _apply_resolution(r)
  PROVE  RowMoves
<1>1. PICK i, o, n : i = r.pid /\ o = r.order /\ n = r.qty
  OBVIOUS
<1>2. row \in [RowId -> RowType]
  BY DEF TableInv, TableType
<1>3. CASE \/ r.kind = "close_fill" /\ close_position(i, o, "fill")
           \/ r.kind = "close_expired" /\ close_position(i, 0, "expired")
  <2>1. i \in RowId /\ row[i].status \in LIVE_STATUSES
    BY <1>1, <1>3 DEF DecisionStands, RowKinds
  <2> QED BY <1>3, <2>1, CloseMoves
<1>4. CASE r.kind = "adjust_qty" /\ adjust_contracts(i, n)
  <2>1. i \in RowId
    BY <1>1, <1>4
  <2>2. CASE row' = row
    BY <2>2 DEF RowMoves
  <2>3. CASE row' = [row EXCEPT ![i].qty = n]
    <3>1. row' = [row EXCEPT ![i] = row'[i]] /\ row'[i].status = row[i].status
      BY <1>2, <2>1, <2>3 DEF RowType
    <3> QED BY <2>1, <3>1 DEF RowMoves
  <2> QED BY <1>4, <2>2, <2>3 DEF adjust_contracts
<1>5. CASE r.kind = "reactivate" /\ reactivate_position(i, n)
  <2>1. i \in RowId /\ row[i].status = "unfilled"
    BY <1>1, <1>5 DEF DecisionStands
  <2>2. row' = [row EXCEPT ![i] = row'[i]] /\ row'[i].status = "open"
    BY <1>2, <1>5, <2>1 DEF RowType, reactivate_position
  <2> QED BY <2>1, <2>2 DEF RowMoves, Allowed
<1>6. CASE r.kind = "adopt" /\ adopt_position(r.spread, r.qty, r.order)
  <2>1. PICK v : v = r.spread
    OBVIOUS
  <2> QED BY <1>1, <1>6, <2>1, InsertMoves DEF adopt_position
<1> QED BY <1>1, <1>3, <1>4, <1>5, <1>6 DEF _apply_resolution

(***************************************************************************)
(* The steps of the two jobs.                                              *)
(***************************************************************************)
LEMMA EntriesMoves ==
  ASSUME Inv, EntriesStep
  PROVE  RowMoves
<1>1. CASE UNCHANGED table
  BY <1>1 DEF table, RowMoves
<1>2. ASSUME NEW status \in {"pending", "open"}, NEW entry,
             record_position(eSpread, eQty, entry, status)
      PROVE  RowMoves
  <2>1. PICK v, n : v = eSpread /\ n = eQty
    OBVIOUS
  <2> QED BY <1>2, <2>1, InsertMoves DEF record_position, Inv
<1>3. PICK o : o = eOrder
  OBVIOUS
<1>4. CASE \/ record_position(eSpread, eQty, 0, "open")
           \/ record_position(eSpread, eQty, o, "open")
           \/ record_position(eSpread, eQty, o, "pending")
  BY <1>2, <1>4
<1>5. \/ UNCHANGED table
      \/ record_position(eSpread, eQty, 0, "open")
      \/ record_position(eSpread, eQty, o, "open")
      \/ record_position(eSpread, eQty, o, "pending")
  <2>1. CASE PlaceStep
    BY <1>3, <2>1 DEF PlaceStep, SubmitEntry, WaitEntry, CancelRung, WaitCanceled, PlaceRaises, RecordPending
  <2>2. CASE ~PlaceStep
    BY <2>2 DEF EntriesStep, StartEntries, EndEntries, BeginPlace
  <2> QED BY <2>1, <2>2
<1> QED BY <1>1, <1>4, <1>5

LEMMA ReconcileMoves ==
  ASSUME Inv, ReconcileStep
  PROVE  RowMoves
<1>1. CASE UNCHANGED table
  BY <1>1 DEF table, RowMoves
<1>2. ASSUME NEW r \in xRes, ApplyFix(r) PROVE RowMoves
  <2>1. r \in ResType /\ DecisionStands(r) /\ (r.kind # "adopt" => r.pid \in RowId)
    BY DEF Inv, ExitsInv, ExitsType, DecisionsStand, Reconciling
  <2> QED BY <1>2, <2>1, ResolutionMoves DEF ApplyFix, Inv
<1> QED
  BY <1>1, <1>2 DEF ReconcileStep, ReadLive, ReadBroker, LogFix, ReconcilerFails, EndReconcile, ReadEvidence

LEMMA ExitsMoves ==
  ASSUME Inv, ExitsStep
  PROVE  RowMoves
<1>1. CASE UNCHANGED table
  BY <1>1 DEF table, RowMoves
<1>2. xTodo \subseteq RowId
  BY TodoTypes DEF Inv
<1>3. ASSUME NEW i \in RowId, ResolveRow(i) PROVE RowMoves
  <2>1. row[i].status \in {"pending", "closing"}
    BY <1>3 DEF ResolveRow, Reached, Inv, ExitsInv, Managing
  <2> QED BY <1>1, <1>3, <2>1, SettleMoves DEF ResolveRow, Inv
<1>4. CASE CancelStale
  <2>1. PICK i \in RowId : i = xRow
    BY <1>2, <1>4 DEF CancelStale, Inv, ExitsInv, Managing
  <2>2. row[i].status \in {"pending", "closing"}
    BY <1>2, <1>4, <2>1 DEF CancelStale, Inv, ExitsInv, Managing
  <2> QED BY <1>4, <2>1, <2>2, SettleMoves DEF CancelStale, Inv
<1>5. ASSUME NEW i \in RowId, SubmitClose(i) PROVE RowMoves
  <2>1. row[i].status \in LIVE_STATUSES
    BY <1>5 DEF SubmitClose, Managed, Inv, ExitsInv, Managing, LIVE_STATUSES
  <2> QED BY <1>1, <1>5, <2>1, CloseMoves DEF SubmitClose, Inv
<1>6. CASE WaitClose
  <2>1. PICK i \in RowId, o \in 0..MaxOrders : i = xRow /\ o = xOrder
    BY <1>2, <1>6 DEF WaitClose, Inv, ExitsInv, ExitsType, Managing
  <2>2. row[i].status = "open" /\ row[i].status \in LIVE_STATUSES
    BY <1>2, <1>6, <2>1 DEF WaitClose, Inv, ExitsInv, Managing, LIVE_STATUSES
  <2>3. UNCHANGED table \/ close_position(i, o, "fill") \/ mark_closing(i, o)
    BY <1>6, <2>1 DEF WaitClose
  <2>4. mark_closing(i, o) => RowMoves
    BY <2>2, UpdateMoves DEF mark_closing, Allowed, Inv
  <2> QED BY <1>1, <2>2, <2>3, <2>4, CloseMoves DEF Inv
<1>7. CASE RevertClose
  <2>1. PICK i \in RowId : i = xRow
    BY <1>2, <1>7 DEF RevertClose, Inv, ExitsInv, Managing
  <2>2. row[i].status = "closing" /\ revert_closing(i)
    BY <1>7, <2>1 DEF RevertClose, Inv, ExitsInv, Managing
  <2> QED BY <2>2, UpdateMoves DEF revert_closing, Allowed, Inv
<1> QED
  BY <1>1, <1>3, <1>4, <1>5, <1>6, <1>7, ReconcileMoves
     DEF ExitsStep, StartExits, EndResolve, EndManage, FindStale, KeepOpen

LEMMA StepImplements ==
  ASSUME Inv, [Next]_vars
  PROVE  [Lifecycle!Next]_[i \in RowId |-> row[i].status]
<1>1. CASE BrokerStep \/ Restart \/ UNCHANGED vars
  <2>1. UNCHANGED row
    BY <1>1 DEF BrokerStep, BrokerFill, BrokerPartialFill, BrokerDrop, Settle, NewDay, Restart, vars, table
  <2> QED BY <2>1, MoveImplements DEF RowMoves, Inv, TableInv
<1>2. CASE EntriesStep \/ ExitsStep
  BY <1>2, EntriesMoves, ExitsMoves, MoveImplements DEF Inv, TableInv
<1> QED BY <1>1, <1>2 DEF Next

\* The status of every row follows PositionLifecycle: a closed row stays closed,
\* only the reconciler opens an unfilled one again, and no UPDATE of one thread is
\* applied to a row another has moved on (the WHERE clauses of store.py).
THEOREM Implements == SafeSpec => LifecycleSafe
<1>1. Init => Lifecycle!Init
  BY DEF Init, Lifecycle!Init, NoRow
<1> QED
  BY <1>1, Invariance, StepImplements, PTL DEF SafeSpec, LifecycleSafe, Lifecycle!SafeSpec

=============================================================================
