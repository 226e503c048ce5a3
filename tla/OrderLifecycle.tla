---------------------------- MODULE OrderLifecycle ----------------------------
(***************************************************************************)
(* The two jobs of the agent and what they share.  The entries job         *)
(* (run_entries, every 180 s) places orders and records positions; the     *)
(* exits job (run_exits, every 60 s) resolves the orders left working,     *)
(* manages the open positions and reconciles the table with the broker.    *)
(* They run on two threads of one process, at the same time, over the      *)
(* positions table and the broker account; _reconcile_ok is a global of    *)
(* the process.  The broker fills, drops and settles on its own.           *)
(*                                                                         *)
(* One action is one call to the broker, or one transaction of the         *)
(* database together with the reads it rests on.  Where the code reads an  *)
(* order and writes a row without calling the broker in between, the two   *)
(* are one action: a final status stays what it was, and a fill that falls *)
(* between the two is the same as one that falls right after.              *)
(*                                                                         *)
(* Left out: prices (an order number stands for its price), the gates but  *)
(* the duplicate guard, the decision to close (any open row may be closed  *)
(* at any pass), ages (an order may be too old at any pass), the market    *)
(* clock (a pass that finds the market closed does nothing), the ticks.    *)
(***************************************************************************)
EXTENDS Reconciler

CONSTANTS
  MaxOrders,   \* bound: orders sent in a behaviour
  MaxRows,     \* bound: rows of the positions table
  MaxQty,      \* bound: contracts of an entry order
  MaxFaults,   \* bound: failed calls, lost replies, cancels without effect, restarts
  Rungs,       \* entry_limit_max_steps: rungs of the ladder after the first
  MaxFixes,    \* reconcile_max_auto_fixes_per_day
  PageSize,    \* LIMIT of get_positions(200)
  Expiring     \* spreads that expire while the model runs

ASSUME BoundsAssumption ==
  /\ MaxOrders \in Nat /\ MaxRows \in Nat /\ MaxQty \in Nat \ {0}
  /\ MaxFaults \in Nat /\ Rungs \in Nat /\ MaxFixes \in Nat /\ PageSize \in Nat
  /\ Expiring \subseteq Spread

OrderId == 1..MaxOrders
RowId   == 1..MaxRows

VARIABLES
  order, sent, \* broker: the orders by number, and how many it was sent
  book,        \* broker: signed contracts held per leg
  acts,        \* broker: expirations, assignments and exercises
  row, rows,   \* database: the positions table by id, and the last id given
  fixlog,      \* database: reconcile_log rows of today that are not for a human
  ok,          \* process: _reconcile_ok
  epc,         \* entries thread: where it is
  eSpread, eQty, eRung, eOrder,  \* ... the spread being placed, its size, rung and order
  xpc,         \* exits thread: where it is
  xTodo,       \* ... rows its current loop has not reached
  xRow, xOrder,                  \* ... the row at hand and the order sent to close it
  xLive, xBook,                  \* ... the live rows and the broker book as it read them
  xRes, xFixed,                  \* ... resolutions to apply, whether one was applied
  applied,     \* history: fixes applied today
  faults       \* history: what MaxFaults bounds

broker  == <<order, sent, book, acts>>
table   == <<row, rows>>
entries == <<epc, eSpread, eQty, eRung, eOrder>>
exits   == <<xpc, xTodo, xRow, xOrder, xLive, xBook, xRes, xFixed>>
vars    == <<broker, table, fixlog, ok, entries, exits, applied, faults>>

-----------------------------------------------------------------------------
NoSpread == <<>>

NoOrder == [status |-> "none", spread |-> NoSpread, side |-> "entry", qty |-> 0, done |-> 0]
NoRow   == [status |-> "none", spread |-> NoSpread, qty |-> 0, order |-> 0, entry |-> 0,
            born |-> 0, exit |-> 0, how |-> "none"]

\* A row's `order` is pending_order_id, `entry` order_id, `born` ts_open as the
\* number of orders sent by then; `exit` is the order whose fill the P&L was
\* computed from and `how` the reason there was a price at all.
OrderStatus == {"none", "working", "filled", "dead"}
RowStatus   == {"none", "pending", "open", "closing", "closed", "unfilled"}
How         == {"none", "fill", "expired", "assumed"}

LIVE          == {"open", "closing", "pending"}   \* exposure, for the gates
LIVE_STATUSES == {"open", "closing"}              \* rows that must have legs at the broker

WithStatus(S)   == { i \in RowId : row[i].status \in S }
pending_rows_mutant == WithStatus({"pending"})     \* working closes are forgotten

pending_rows    == WithStatus({"pending", "closing"})
live_legs_rows  == WithStatus(LIVE_STATUSES)
unfilled_rows   == WithStatus({"unfilled"})

\* get_positions(limit): the newest `PageSize` rows, whatever their status.
get_positions == { i \in 1..rows : i > rows - PageSize }

Fault == faults < MaxFaults /\ faults' = faults + 1

-----------------------------------------------------------------------------
(***************************************************************************)
(* The broker.                                                             *)
(***************************************************************************)
\* An order reaches the broker and gets the next number, o.  Expired symbols are
\* refused.
Send(o, v, side, n) ==
  /\ \A a \in acts : a.leg \notin {v[1], v[2]}
  /\ o = sent + 1
  /\ sent' = o
  /\ order' = [order EXCEPT ![o] =
                 [status |-> "working", spread |-> v, side |-> side, qty |-> n, done |-> 0]]

\* n contracts of order o execute: both legs move.
Execute(o, n) ==
  LET v == order[o].spread
      m == IF order[o].side = "entry" THEN n ELSE -n
  IN  book' = [leg \in Leg |-> book[leg] + m * LegSign(v, leg)]

\* A close order buys and sells "to close": it needs the contracts.
CanExecute(o, n) ==
  order[o].side = "close" => /\ book[order[o].spread[1]] =< -n
                             /\ book[order[o].spread[2]] >= n

BrokerFill(o) ==
  LET rest == order[o].qty - order[o].done
  IN  /\ order[o].status = "working"
      /\ CanExecute(o, rest)
      /\ Execute(o, rest)
      /\ order' = [order EXCEPT ![o].status = "filled", ![o].done = order[o].qty]
      /\ UNCHANGED <<sent, acts, table, fixlog, ok, entries, exits, applied, faults>>

BrokerPartialFill(o) ==
  /\ order[o].status = "working"
  /\ order[o].done + 1 < order[o].qty
  /\ CanExecute(o, 1)
  /\ Execute(o, 1)
  /\ order' = [order EXCEPT ![o].done = order[o].done + 1]
  /\ UNCHANGED <<sent, acts, table, fixlog, ok, entries, exits, applied, faults>>

\* Rejected, canceled, expired at the end of the day: TERMINAL_UNFILLED.
BrokerDrop(o) ==
  /\ order[o].status = "working"
  /\ order' = [order EXCEPT ![o].status = "dead"]
  /\ UNCHANGED <<sent, book, acts, table, fixlog, ok, entries, exits, applied, faults>>

\* Between two sessions no job is in a pass and no day order is left.
Overnight == /\ epc = "idle" /\ xpc = "idle"
             /\ \A o \in OrderId : order[o].status # "working"

\* A spread that expires: worthless, or assigned (and then exercised or left
\* with its long leg).
Settle(v) ==
  /\ Overnight
  /\ v \in Expiring
  /\ book[v[1]] < 0 /\ book[v[2]] > 0
  /\ \/ /\ book' = [book EXCEPT ![v[1]] = 0, ![v[2]] = 0]
        /\ \/ acts' = acts \cup {[leg |-> v[1], type |-> "OPEXP"], [leg |-> v[2], type |-> "OPEXP"]}
           \/ acts' = acts \cup {[leg |-> v[1], type |-> "OPASN"], [leg |-> v[2], type |-> "OPEXC"]}
     \/ /\ book' = [book EXCEPT ![v[1]] = 0]
        /\ acts' = acts \cup {[leg |-> v[1], type |-> "OPASN"]}
  /\ UNCHANGED <<order, sent, table, fixlog, ok, entries, exits, applied, faults>>

NewDay ==
  /\ Overnight
  /\ fixlog + applied > 0
  /\ fixlog' = 0 /\ applied' = 0
  /\ UNCHANGED <<broker, table, ok, entries, exits, faults>>

\* cancel_order: best effort, its result is never looked at.  A working order
\* is dropped; one that is done stays as it is; a call can also have no effect.
cancel_order(o) ==
  \/ /\ order' = [order EXCEPT ![o].status = IF @ = "working" THEN "dead" ELSE @]
     /\ UNCHANGED faults
  \/ /\ order[o].status = "working"
     /\ Fault
     /\ UNCHANGED order

-----------------------------------------------------------------------------
(***************************************************************************)
(* storage/store.py: the statements on the positions table, each with the  *)
(* guard of its WHERE clause.                                              *)
(***************************************************************************)
Insert(status, v, n, entry) ==
  \E i \in RowId :
    /\ i = rows + 1
    /\ rows' = i
    /\ row' = [row EXCEPT ![i] =
                 [status |-> status, spread |-> v, qty |-> n,
                  order |-> IF status = "pending" THEN entry ELSE 0,
                  entry |-> entry, born |-> sent, exit |-> 0, how |-> "none"]]

record_position(v, n, entry, status) == Insert(status, v, n, entry)
adopt_position(v, n, entry)          == Insert("open", v, n, entry)

Update(i, from, status, o) ==
  /\ row' = IF row[i].status \in from
            THEN [row EXCEPT ![i].status = status, ![i].order = o]
            ELSE row
  /\ UNCHANGED rows

mark_closing_mutant(i, o) == Update(i, {"open"}, "closing", row[i].entry)  \* the entry's id is kept
revert_closing_mutant(i)  == Update(i, {"closing"}, "open", row[i].order)  \* the id is not cleared

confirm_fill(i)    == Update(i, RowStatus, "open", 0)
mark_unfilled(i)   == Update(i, {"pending"}, "unfilled", 0)
mark_closing(i, o) == Update(i, {"open"}, "closing", o)
revert_closing(i)  == Update(i, {"closing"}, "open", 0)

close_position(i, exit, how) ==
  /\ row' = [row EXCEPT ![i].status = "closed", ![i].order = 0, ![i].exit = exit, ![i].how = how]
  /\ UNCHANGED rows

adjust_contracts(i, n) ==
  /\ row' = IF row[i].qty > 0 THEN [row EXCEPT ![i].qty = n] ELSE row
  /\ UNCHANGED rows

reactivate_position_mutant(i, n) ==       \* the contracts are not those of the fill
  /\ row' = [row EXCEPT ![i].status = "open"]
  /\ UNCHANGED rows

reactivate_position(i, n) ==
  /\ row' = [row EXCEPT ![i].status = "open", ![i].qty = n]
  /\ UNCHANGED rows

-----------------------------------------------------------------------------
(***************************************************************************)
(* The entries thread.  A pass places any number of spreads, one at a      *)
(* time; the flag is looked at when it starts.                             *)
(***************************************************************************)
StartEntries ==
  /\ epc = "idle"
  /\ ok
  /\ epc' = "pass"
  /\ UNCHANGED <<broker, table, fixlog, ok, eSpread, eQty, eRung, eOrder, exits, applied, faults>>

EndEntries ==
  /\ epc = "pass"
  /\ epc' = "idle"
  /\ UNCHANGED <<broker, table, fixlog, ok, eSpread, eQty, eRung, eOrder, exits, applied, faults>>

\* run_cycle approves spread v at n contracts: no live row has the same legs.
BeginPlace(v, n) ==
  /\ epc = "pass"
  /\ \A i \in WithStatus(LIVE) : row[i].spread # v
  /\ epc' = "submit"
  /\ eSpread' = v /\ eQty' = n
  /\ UNCHANGED <<broker, table, fixlog, ok, eRung, eOrder, exits, applied, faults>>

\* _place returns or raises: the pass goes on with the next underlying.
LeavePlace ==
  /\ epc' = "pass"
  /\ eSpread' = NoSpread /\ eQty' = 0 /\ eRung' = 0 /\ eOrder' = 0

MoreRungs_mutant == eRung =< Rungs        \* one rung too many
MoreRungs        == eRung < Rungs

NextRung ==
  /\ epc' = "submit"
  /\ eRung' = eRung + 1 /\ eOrder' = 0
  /\ UNCHANGED <<eSpread, eQty>>

SubmitEntry ==
  /\ epc = "submit"
  /\ \/ /\ \E o \in OrderId : Send(o, eSpread, "entry", eQty) /\ eOrder' = o
        /\ epc' = "wait"
        /\ UNCHANGED <<table, eSpread, eQty, eRung, faults>>
     \/ /\ \E o \in OrderId : Send(o, eSpread, "entry", eQty)      \* a reply without an id
        /\ Fault
        /\ record_position(eSpread, eQty, 0, "open")
        /\ LeavePlace
     \/ /\ \E o \in OrderId : Send(o, eSpread, "entry", eQty)      \* no reply: submit_spread raises
        /\ Fault
        /\ LeavePlace
        /\ UNCHANGED table
     \/ /\ LeavePlace                                              \* refused: submit_spread raises
        /\ UNCHANGED <<order, sent, table, faults>>
  /\ UNCHANGED <<book, acts, fixlog, ok, exits, applied>>

RecordPending_open == record_position(eSpread, eQty, eOrder, "open") /\ LeavePlace   \* taken for filled
RecordPending      == record_position(eSpread, eQty, eOrder, "pending") /\ LeavePlace

\* The first reading of the order after a rung is sent.
WaitEntry ==
  LET st == order[eOrder].status
  IN  /\ epc = "wait"
      /\ \/ /\ st = "filled"
            /\ record_position(eSpread, eQty, eOrder, "open")
            /\ LeavePlace
            /\ UNCHANGED faults
         \/ /\ st = "dead"
            /\ IF MoreRungs THEN NextRung ELSE LeavePlace
            /\ UNCHANGED <<table, faults>>
         \/ /\ st = "working" /\ MoreRungs
            /\ epc' = "cancel"
            /\ UNCHANGED <<table, eSpread, eQty, eRung, eOrder, faults>>
         \/ /\ st = "working" /\ ~MoreRungs
            /\ RecordPending
            /\ UNCHANGED faults
         \/ /\ Fault                                               \* the status cannot be read
            /\ RecordPending
      /\ UNCHANGED <<broker, fixlog, ok, exits, applied>>

CancelRung_mutant ==                      \* the ladder walks on without canceling
  /\ epc = "cancel"
  /\ epc' = "wait2"
  /\ UNCHANGED <<broker, table, fixlog, ok, eSpread, eQty, eRung, eOrder, exits, applied, faults>>

CancelRung ==
  /\ epc = "cancel"
  /\ cancel_order(eOrder)
  /\ epc' = "wait2"
  /\ UNCHANGED <<sent, book, acts, table, fixlog, ok, eSpread, eQty, eRung, eOrder, exits, applied>>

WaitCanceled_mutant ==                    \* the order is not read again
  /\ epc = "wait2"
  /\ NextRung
  /\ UNCHANGED <<broker, table, fixlog, ok, exits, applied, faults>>

\* The reading after the cancel: a fill can race it.  Whatever else is read,
\* the ladder goes on to its next rung.
WaitCanceled ==
  /\ epc = "wait2"
  /\ IF order[eOrder].status = "filled"
     THEN record_position(eSpread, eQty, eOrder, "open") /\ LeavePlace
     ELSE NextRung /\ UNCHANGED table
  /\ UNCHANGED <<broker, fixlog, ok, exits, applied, faults>>

\* A call of _place raises after its order was sent (the second wait_fill, or
\* the INSERT): run_entries logs it and goes on.
PlaceRaises ==
  /\ epc \in {"wait", "wait2"}
  /\ Fault
  /\ LeavePlace
  /\ UNCHANGED <<broker, table, fixlog, ok, exits, applied>>

-----------------------------------------------------------------------------
(***************************************************************************)
(* The exits thread.  _exit_lock and max_instances=1 leave one pass at a   *)
(* time: resolve the orders left working, manage the open positions, then  *)
(* reconcile.                                                              *)
(***************************************************************************)
unchangedReconcile == UNCHANGED <<xLive, xBook, xRes, xFixed>>

StartExits ==
  /\ xpc = "idle"
  /\ xpc' = "resolve"
  /\ xTodo' = pending_rows
  /\ unchangedReconcile
  /\ UNCHANGED <<broker, table, fixlog, ok, entries, xRow, xOrder, applied, faults>>

\* The loop reads the rows in the order of their ids.
Reached(i) == i \in xTodo /\ \A j \in xTodo : i =< j

\* _resolve_pending on a row whose order is done, or still working and young.
\* A read that fails leaves the row for the next pass.
ResolveRow(i) ==
  LET o  == row[i].order
      st == order[o].status
  IN  /\ xpc = "resolve"
      /\ Reached(i)
      /\ xTodo' = xTodo \ {i}
      /\ \/ /\ st = "filled"
            /\ IF row[i].status = "pending" THEN confirm_fill(i)
               ELSE close_position(i, o, "fill")
            /\ UNCHANGED faults
         \/ /\ st = "dead"
            /\ IF row[i].status = "pending" THEN mark_unfilled(i) ELSE revert_closing(i)
            /\ UNCHANGED faults
         \/ st = "working" /\ UNCHANGED <<table, faults>>
         \/ Fault /\ UNCHANGED table
      /\ unchangedReconcile
      /\ UNCHANGED <<broker, fixlog, ok, entries, xpc, xRow, xOrder, applied>>

\* The order is still working and too old: it is about to be canceled.
FindStale(i) ==
  /\ xpc = "resolve"
  /\ Reached(i)
  /\ order[row[i].order].status = "working"
  /\ xpc' = "cancel" /\ xRow' = i
  /\ unchangedReconcile
  /\ UNCHANGED <<broker, table, fixlog, ok, entries, xTodo, xOrder, applied, faults>>

\* The row moves on whatever became of the order.
CancelStale ==
  /\ xpc = "cancel"
  /\ cancel_order(row[xRow].order)
  /\ IF row[xRow].status = "pending" THEN mark_unfilled(xRow) ELSE revert_closing(xRow)
  /\ xpc' = "resolve" /\ xTodo' = xTodo \ {xRow} /\ xRow' = 0
  /\ unchangedReconcile
  /\ UNCHANGED <<sent, book, acts, fixlog, ok, entries, xOrder, applied>>

EndResolve_mutant ==                      \* rows of every status are managed
  /\ xpc = "resolve"
  /\ xTodo = {}
  /\ xpc' = "manage"
  /\ xTodo' = get_positions
  /\ unchangedReconcile
  /\ UNCHANGED <<broker, table, fixlog, ok, entries, xRow, xOrder, applied, faults>>

EndResolve ==
  /\ xpc = "resolve"
  /\ xTodo = {}
  /\ xpc' = "manage"
  /\ xTodo' = { i \in get_positions : row[i].status = "open" }
  /\ unchangedReconcile
  /\ UNCHANGED <<broker, table, fixlog, ok, entries, xRow, xOrder, applied, faults>>

\* The positions, newest first.
Managed(i) == i \in xTodo /\ \A j \in xTodo : j =< i

\* No price, a decision to hold, or a close order that is refused.
KeepOpen(i) ==
  /\ xpc = "manage"
  /\ Managed(i)
  /\ xTodo' = xTodo \ {i}
  /\ unchangedReconcile
  /\ UNCHANGED <<broker, table, fixlog, ok, entries, xpc, xRow, xOrder, applied, faults>>

\* _close sends the reverse order.  A reply without an id is taken for a fill.
SubmitClose(i) ==
  /\ xpc = "manage"
  /\ Managed(i)
  /\ \E o \in OrderId :
       /\ Send(o, row[i].spread, "close", row[i].qty)
       /\ \/ /\ xpc' = "closewait" /\ xRow' = i /\ xOrder' = o
             /\ UNCHANGED <<table, xTodo, faults>>
          \/ /\ Fault                                        \* a reply without an id
             /\ close_position(i, 0, "assumed")
             /\ xTodo' = xTodo \ {i}
             /\ UNCHANGED <<xpc, xRow, xOrder>>
          \/ /\ Fault                                        \* no reply: close_spread raises
             /\ xTodo' = xTodo \ {i}
             /\ UNCHANGED <<table, xpc, xRow, xOrder>>
  /\ unchangedReconcile
  /\ UNCHANGED <<book, acts, fixlog, ok, entries, applied>>

LeaveClose == /\ xpc' = "manage" /\ xTodo' = xTodo \ {xRow}
              /\ xRow' = 0 /\ xOrder' = 0

WaitClose ==
  LET st == order[xOrder].status
  IN  /\ xpc = "closewait"
      /\ \/ /\ st = "filled"
            /\ close_position(xRow, xOrder, "fill")
            /\ LeaveClose
            /\ UNCHANGED faults
         \/ /\ st = "dead"
            /\ mark_closing(xRow, xOrder)
            /\ xpc' = "revert"
            /\ UNCHANGED <<xTodo, xRow, xOrder, faults>>
         \/ /\ st = "working"
            /\ mark_closing(xRow, xOrder)
            /\ LeaveClose
            /\ UNCHANGED faults
         \/ /\ Fault                                         \* wait_for_fill raises
            /\ LeaveClose
            /\ UNCHANGED table
      /\ unchangedReconcile
      /\ UNCHANGED <<broker, fixlog, ok, entries, applied>>

RevertClose ==
  /\ xpc = "revert"
  /\ revert_closing(xRow)
  /\ LeaveClose
  /\ unchangedReconcile
  /\ UNCHANGED <<broker, fixlog, ok, entries, applied, faults>>

EndManage ==
  /\ xpc = "manage"
  /\ xTodo = {}
  /\ xpc' = "live"
  /\ unchangedReconcile
  /\ UNCHANGED <<broker, table, fixlog, ok, entries, xTodo, xRow, xOrder, applied, faults>>

-----------------------------------------------------------------------------
(***************************************************************************)
(* _reconcile: the table is read, then the broker, then the evidence, and  *)
(* the entries thread does not wait meanwhile.                             *)
(***************************************************************************)
\* live_legs_rows has no ORDER BY: the rows come in any order.
Listings(S) == { l \in [1..Cardinality(S) -> S] : \A j, k \in DOMAIN l : l[j] = l[k] => j = k }

ReadLive ==
  /\ xpc = "live"
  /\ xLive' \in Listings(live_legs_rows)
  /\ xpc' = "broker"
  /\ UNCHANGED <<broker, table, fixlog, ok, entries, xTodo, xRow, xOrder, xBook, xRes, xFixed, applied, faults>>

\* The pass ends and drops what it read.
LeaveReconcile ==
  /\ xpc' = "idle"
  /\ xLive' = <<>> /\ xBook' = [leg \in Leg |-> 0] /\ xRes' = {} /\ xFixed' = FALSE
  /\ UNCHANGED <<xTodo, xRow, xOrder>>

Clean_mutant == UNCHANGED ok /\ LeaveReconcile    \* the flag is never set again
Clean        == ok' = TRUE /\ LeaveReconcile

\* The books are compared.  A broker that does not answer keeps the last state.
ReadBroker ==
  LET mism == diff(expected_legs({ xLive[k] : k \in DOMAIN xLive }, row), book)
  IN  /\ xpc = "broker"
      /\ \/ /\ mism = {}
            /\ Clean
            /\ UNCHANGED faults
         \/ /\ mism # {}
            /\ xpc' = "evidence" /\ xBook' = book
            /\ UNCHANGED <<ok, xTodo, xRow, xOrder, xLive, xRes, xFixed, faults>>
         \/ /\ Fault
            /\ LeaveReconcile
            /\ UNCHANGED ok
      /\ UNCHANGED <<broker, table, fixlog, entries, applied>>

\* _auto_reconcile reads orders, activities and unfilled rows and decides.
\* What needs a person changes no row.
ReadEvidence(pair, prev) ==
  /\ xpc = "evidence"
  /\ xRes' = { r \in resolve(xLive, row, xBook, order, acts, pair, prev) : r.kind # "human" }
  /\ xpc' = "apply"
  /\ UNCHANGED <<broker, table, fixlog, ok, entries, xTodo, xRow, xOrder, xLive, xBook, xFixed, applied, faults>>

Unexplained == Remaining(xLive, row, xBook)[Len(xLive)]

_apply_resolution(r) ==
  \/ r.kind = "close_fill"    /\ close_position(r.pid, r.order, "fill")
  \/ r.kind = "close_expired" /\ close_position(r.pid, 0, "expired")
  \/ r.kind = "adjust_qty"    /\ adjust_contracts(r.pid, r.qty)
  \/ r.kind = "reactivate"    /\ reactivate_position(r.pid, r.qty)
  \/ r.kind = "adopt"         /\ adopt_position(r.spread, r.qty, r.order)

\* Live rows first, then the legs no row explained.
RowKinds == {"close_fill", "close_expired", "adjust_qty"}
Due(r) == r \in xRes /\ (r.kind \in RowKinds \/ \A q \in xRes : q.kind \notin RowKinds)

HasBudget_mutant == fixlog =< MaxFixes
HasBudget        == fixlog < MaxFixes

\* A fix and its log row are two transactions; both count against the day's cap.
ApplyFix(r) ==
  /\ xpc = "apply"
  /\ Due(r)
  /\ HasBudget
  /\ _apply_resolution(r)
  /\ xRes' = xRes \ {r}
  /\ applied' = applied + 1
  /\ xpc' = "log"
  /\ UNCHANGED <<broker, fixlog, ok, entries, xTodo, xRow, xOrder, xLive, xBook, xFixed, faults>>

LogFix ==
  /\ xpc = "log"
  /\ fixlog' = fixlog + 1
  /\ xFixed' = TRUE
  /\ xpc' = "apply"
  /\ UNCHANGED <<broker, table, ok, entries, xTodo, xRow, xOrder, xLive, xBook, xRes, applied, faults>>

\* The reconciler raises: the mismatch it was called for stands.
ReconcilerFails ==
  /\ xpc \in {"evidence", "apply", "log"}
  /\ Fault
  /\ ok' = FALSE
  /\ LeaveReconcile
  /\ UNCHANGED <<broker, table, fixlog, entries, applied>>

EndReconcile_mutant ==                    \* the flag is left as it was
  /\ xpc = "apply"
  /\ xRes = {} \/ ~HasBudget
  /\ LeaveReconcile
  /\ UNCHANGED <<broker, table, fixlog, ok, entries, applied, faults>>

\* After a fix the table is read again and compared with the same broker book.
EndReconcile ==
  /\ xpc = "apply"
  /\ xRes = {} \/ ~HasBudget
  /\ ok' = (xFixed /\ diff(expected_legs(live_legs_rows, row), xBook) = {})
  /\ LeaveReconcile
  /\ UNCHANGED <<broker, table, fixlog, entries, applied, faults>>

-----------------------------------------------------------------------------
\* The process dies and starts again: both passes are lost, the flag is True.
Restart ==
  /\ Fault
  /\ ok' = TRUE
  /\ epc' = "idle" /\ eSpread' = NoSpread /\ eQty' = 0 /\ eRung' = 0 /\ eOrder' = 0
  /\ xpc' = "idle" /\ xTodo' = {} /\ xRow' = 0 /\ xOrder' = 0
  /\ xLive' = <<>> /\ xBook' = [leg \in Leg |-> 0] /\ xRes' = {} /\ xFixed' = FALSE
  /\ UNCHANGED <<broker, table, fixlog, applied>>

Init ==
  /\ order = [o \in OrderId |-> NoOrder] /\ sent = 0
  /\ book = [leg \in Leg |-> 0]
  /\ acts = {}
  /\ row = [i \in RowId |-> NoRow] /\ rows = 0
  /\ fixlog = 0 /\ applied = 0 /\ faults = 0
  /\ ok = TRUE
  /\ epc = "idle" /\ eSpread = NoSpread /\ eQty = 0 /\ eRung = 0 /\ eOrder = 0
  /\ xpc = "idle" /\ xTodo = {} /\ xRow = 0 /\ xOrder = 0
  /\ xLive = <<>> /\ xBook = [leg \in Leg |-> 0] /\ xRes = {} /\ xFixed = FALSE

BrokerStep ==
  \/ \E o \in OrderId : BrokerFill(o) \/ BrokerPartialFill(o) \/ BrokerDrop(o)
  \/ \E v \in Spread : Settle(v)
  \/ NewDay

PlaceStep == SubmitEntry \/ WaitEntry \/ CancelRung \/ WaitCanceled \/ PlaceRaises

EntriesStep ==
  \/ StartEntries \/ EndEntries \/ PlaceStep
  \/ \E v \in Spread, n \in 1..MaxQty : BeginPlace(v, n)

ReconcileStep ==
  \/ ReadLive \/ ReadBroker \/ LogFix \/ ReconcilerFails \/ EndReconcile
  \/ /\ xpc = "evidence"
     /\ \E pair \in Pairings(Unexplained), prev \in UnfilledByLegs(unfilled_rows, row) :
          ReadEvidence(pair, prev)
  \/ \E r \in xRes : ApplyFix(r)

ExitsStep ==
  \/ StartExits \/ CancelStale \/ EndResolve \/ WaitClose \/ RevertClose \/ EndManage
  \/ \E i \in RowId : ResolveRow(i) \/ FindStale(i) \/ KeepOpen(i) \/ SubmitClose(i)
  \/ ReconcileStep

Next == BrokerStep \/ EntriesStep \/ ExitsStep \/ Restart

\* The scheduler runs the exits job for ever and every call of a pass returns
\* (each has a timeout); an order that keeps working gets too old.  Nothing is
\* assumed of the broker.
Fairness == /\ WF_vars(ExitsStep)
            /\ WF_vars(PlaceStep)
            /\ \A i \in RowId : SF_vars(FindStale(i))

SafeSpec == Init /\ [][Next]_vars
Spec     == SafeSpec /\ Fairness

-----------------------------------------------------------------------------
(***************************************************************************)
(* Properties.                                                             *)
(***************************************************************************)
EntriesPc == {"idle", "pass", "submit", "wait", "cancel", "wait2"}
ExitsPc   == {"idle", "resolve", "cancel", "manage", "closewait", "revert",
              "live", "broker", "evidence", "apply", "log"}
MaybeSpread == Spread \cup {NoSpread}

OrderType == [status : OrderStatus, spread : MaybeSpread, side : Side, qty : Nat, done : Nat]
RowType   == [status : RowStatus, spread : MaybeSpread, qty : Nat, order : Nat, entry : Nat,
              born : Nat, exit : Nat, how : How]
FixKinds  == RowKinds \cup {"reactivate", "adopt"}
ResType   == [kind : FixKinds, pid : Nat, spread : Spread, order : Nat, qty : Nat]

BrokerType  == /\ order \in [OrderId -> OrderType] /\ sent \in 0..MaxOrders
               /\ book \in [Leg -> Int]
               /\ acts \subseteq [leg : Leg, type : {"OPEXP", "OPASN", "OPEXC"}]
TableType   == row \in [RowId -> RowType] /\ rows \in 0..MaxRows
EntriesType == /\ epc \in EntriesPc /\ eSpread \in MaybeSpread /\ eQty \in Nat
               /\ eRung \in 0..Rungs /\ eOrder \in 0..MaxOrders
ExitsType   == /\ xpc \in ExitsPc /\ xTodo \subseteq RowId /\ xRow \in 0..MaxRows
               /\ xOrder \in 0..MaxOrders /\ xBook \in [Leg -> Int]
               /\ DOMAIN xLive \subseteq Nat /\ xRes \subseteq ResType /\ xFixed \in BOOLEAN
CountType   == fixlog \in Nat /\ applied \in Nat /\ faults \in 0..MaxFaults /\ ok \in BOOLEAN

\* Every variable has its type (the only property that says no more than this).
TypeOK == BrokerType /\ TableType /\ EntriesType /\ ExitsType /\ CountType

\* Order o was sent for these legs on this side.
IsOrder(o, v, side) == o \in 1..sent /\ order[o].spread = v /\ order[o].side = side

\* A row that waits for an order waits for one the agent sent for its own legs,
\* in the right direction, and no two rows wait for the same order: the exits
\* pass never settles a row from another row's fill (pending_order_id as
\* mark_closing, revert_closing, confirm_fill and mark_unfilled keep it).
OrderOwnership ==
  /\ \A i \in RowId :
       /\ row[i].status = "pending" => IsOrder(row[i].order, row[i].spread, "entry")
       /\ row[i].status = "closing" => IsOrder(row[i].order, row[i].spread, "close")
       /\ row[i].status \notin {"pending", "closing"} => row[i].order = 0
  /\ \A i, j \in RowId : i # j /\ row[i].order # 0 => row[i].order # row[j].order

\* Close order o can have closed row i; some entry order on v filled.
FilledClose(o, i) == IsOrder(o, row[i].spread, "close") /\ order[o].status = "filled" /\ o > row[i].born
FilledEntry(v)    == \E o \in 1..sent : IsOrder(o, v, "entry") /\ order[o].status = "filled"
Expired(v) == \A leg \in {v[1], v[2]} : [leg |-> leg, type |-> "OPEXP"] \in acts

\* A realized P&L rests on evidence of the broker: a close order on the same
\* legs, sent after the row was opened, that did fill; or both legs expired.
\* The one exception is the close whose reply had no id (_close).
PnlHasEvidence ==
  \A i \in RowId : row[i].status = "closed" =>
    /\ row[i].how # "none"
    /\ row[i].how = "fill" => FilledClose(row[i].exit, i)
    /\ row[i].how = "expired" => Expired(row[i].spread)

\* A row is only ever open on the strength of an entry order on its legs that
\* filled; the one exception is the entry whose reply had no id (_place).
OpenHasFill ==
  \A i \in RowId : row[i].status \in {"open", "closing", "closed"} =>
    row[i].entry = 0 \/ FilledEntry(row[i].spread)

\* The entries thread has not finished with an order it may have in hand, and a
\* row that waits for an order follows it.
Followed(o) == o = eOrder \/ \E i \in RowId : row[i].order = o
Recorded(o) == o = eOrder \/ \E i \in RowId : row[i].status # "none" /\ row[i].entry = o

EntryOrders(S) == { o \in OrderId : order[o].status \in S /\ order[o].side = "entry" }

\* No entry order is left working at the broker with nobody following it, unless
\* a call failed or the process died, and then one for each time.
NoOrphanEntries == Cardinality({ o \in EntryOrders({"working"}) : ~Followed(o) }) =< faults

\* Every entry order that fills has its row, with the same exception (_place: "an
\* unrecorded fill is an unmanaged position").
NoLostFill == Cardinality({ o \in EntryOrders({"filled"}) : ~Recorded(o) }) =< faults

\* What the reconciler decided from one reading of the table and of the broker
\* still rests on true facts when it gets to apply it, whatever the entries
\* thread and the broker did meanwhile: the row is as the decision found it and
\* the evidence stands.  (Of an adoption only the evidence does, see DocClaims.)
DecisionStands(r) ==
  /\ r.kind \in RowKinds      => row[r.pid].status \in LIVE_STATUSES
  /\ r.kind = "close_fill"    => FilledClose(r.order, r.pid)
  /\ r.kind = "close_expired" => Expired(row[r.pid].spread)
  /\ r.kind = "adjust_qty"    => r.qty \in 1..(row[r.pid].qty - 1)
  /\ r.kind = "reactivate"    => row[r.pid].status = "unfilled" /\ row[r.pid].spread = r.spread
  /\ r.kind \in {"reactivate", "adopt"} =>
       IsOrder(r.order, r.spread, "entry") /\ order[r.order].status = "filled"
DecisionsStand == \A r \in xRes : DecisionStands(r)

\* The day's cap on automatic fixes holds, up to the fixes a failure left
\* without their reconcile_log row.
FixesCapped == applied =< MaxFixes + faults

\* The status of the rows follows PositionLifecycle.
Lifecycle == INSTANCE PositionLifecycle WITH status <- [i \in RowId |-> row[i].status]
LifecycleSafe == Lifecycle!SafeSpec
LifecycleSpec == Lifecycle!Spec

\* A disagreement between the table and the broker does not last unnoticed:
\* sooner or later the books agree or the entries are blocked (_reconcile).
Drift == expected_legs(live_legs_rows, row) # book
DriftNoticed == Drift ~> (~Drift \/ ~ok)

\* Once the books agree for good the entries do not stay blocked.
EntriesUnblocked == <>[]~Drift => <>[]ok

=============================================================================
