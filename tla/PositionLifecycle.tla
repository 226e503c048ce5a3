-------------------------- MODULE PositionLifecycle --------------------------
(***************************************************************************)
(* What the positions table promises about the status of a row, whoever    *)
(* writes it (storage/store.py, the comments on each UPDATE): a row is     *)
(* recorded as `pending` while its entry order works or as `open` once it  *)
(* filled; a pending entry becomes open or unfilled; an open row becomes   *)
(* closing while its close order works, and closes or opens again; only    *)
(* the reconciler opens an unfilled row again.  A closed row is final.     *)
(*                                                                         *)
(* OrderLifecycle implements this specification with its two jobs, the     *)
(* broker and the faults.                                                  *)
(***************************************************************************)
CONSTANT RowId           \* ids of the positions table

VARIABLE status          \* status of each row; "none" before it is inserted

Status == {"none", "pending", "open", "closing", "closed", "unfilled"}

Init == status = [i \in RowId |-> "none"]

\* The status of row i goes from one of `from` to `to`.
Move(i, from, to) ==
  /\ status[i] \in from
  /\ status' = [status EXCEPT ![i] = to]

RecordPending(i) == Move(i, {"none"}, "pending")
RecordOpen(i)    == Move(i, {"none"}, "open")          \* a filled entry, or an adoption
ConfirmFill(i)   == Move(i, {"pending"}, "open")
MarkUnfilled(i)  == Move(i, {"pending"}, "unfilled")
MarkClosing(i)   == Move(i, {"open"}, "closing")
RevertClosing(i) == Move(i, {"closing"}, "open")
ClosePosition(i) == Move(i, {"open", "closing"}, "closed")
Reactivate(i)    == Move(i, {"unfilled"}, "open")

Next ==
  \E i \in RowId :
    \/ RecordPending(i) \/ RecordOpen(i) \/ ConfirmFill(i) \/ MarkUnfilled(i)
    \/ MarkClosing(i) \/ RevertClosing(i) \/ ClosePosition(i) \/ Reactivate(i)

\* A row never waits for ever on an order.
Fairness ==
  \A i \in RowId :
    /\ WF_status(ConfirmFill(i) \/ MarkUnfilled(i))
    /\ WF_status(RevertClosing(i) \/ (status[i] = "closing" /\ ClosePosition(i)))

SafeSpec == Init /\ [][Next]_status
Spec     == SafeSpec /\ Fairness

=============================================================================
