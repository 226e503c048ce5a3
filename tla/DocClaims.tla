------------------------------ MODULE DocClaims ------------------------------
(***************************************************************************)
(* What the repository's documents and comments say of the order lifecycle *)
(* and the code does not do.  Each is checked by a run of its own, which   *)
(* TLC refutes; README.md tells how each counterexample goes.              *)
(***************************************************************************)
EXTENDS MCOrderLifecycle

Lives(i) == row[i].status \in LIVE

\* One entry order, one live row (store.py adopt_position: "A spread the broker
\* holds and the DB does not").  The reconciler looks at the rows that are open
\* or closing; the order may already have a pending row, or get one from _place.
OneRowPerEntry ==
  \A i, j \in RowId :
    (i # j /\ Lives(i) /\ Lives(j) /\ row[i].entry # 0) => row[i].entry # row[j].entry

\* A row is closed only when a close order on its legs has filled or its legs are
\* gone (_close: "Never `closed` in the DB while the legs are still at the
\* broker").
ClosedMeansGone ==
  [][ \A i \in RowId :
        (Lives(i) /\ row'[i].status = "closed") =>
          \/ book[row[i].spread[1]] = 0
          \/ \E o \in 1..sent : IsOrder(o, row[i].spread, "close") /\ order[o].status = "filled" ]_vars

=============================================================================
