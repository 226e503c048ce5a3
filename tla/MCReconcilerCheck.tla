-------------------------- MODULE MCReconcilerCheck --------------------------
(***************************************************************************)
(* ReconcilerCheck for TLC: three strikes of one expiry and right.         *)
(***************************************************************************)
EXTENDS ReconcilerCheck

CONSTANTS a, b, c

MCLadder == {<<a, b>>, <<a, c>>, <<b, c>>}
MCRank(leg) == IF leg = a THEN 1 ELSE IF leg = b THEN 2 ELSE 3

MCBooks == { [leg \in Leg |-> IF leg = a THEN x ELSE IF leg = b THEN y ELSE z] :
               x \in -2..0, y \in -1..2, z \in -1..2 }

AllActs(types) == { [leg |-> leg, type |-> t] : leg \in Leg, t \in types }
Entries == MCLadder \X {"entry"}
MCEvidence ==
  { [filled |-> f, acts |-> x] :
      f \in {{}, Entries, Entries \cup (MCLadder \X {"close"}), {<<<<a, c>>, "entry">>, <<<<a, c>>, "close">>}},
      x \in {{}, AllActs({"OPEXP"}), AllActs({"OPEXP", "OPASN"})} }

=============================================================================
