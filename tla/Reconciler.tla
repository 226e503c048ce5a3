------------------------------ MODULE Reconciler ------------------------------
(***************************************************************************)
(* The pure part of the reconciliation of the agent's book (the positions  *)
(* table) with the broker's: reconcile.py compares the two books leg by    *)
(* leg, reconciler.py decides from the broker's evidence what the table    *)
(* must look like.  Nothing here changes state: OrderLifecycle applies the *)
(* decisions as the exits thread does, ReconcilerCheck to a single pass.   *)
(*                                                                         *)
(* A spread is the pair <<short leg, long leg>>.  Spread is the set of     *)
(* pairs that form a protected credit vertical: what the agent trades and  *)
(* what the reconciler accepts when it pairs legs it does not know (same   *)
(* root, expiry and right, the long leg on the protective side).           *)
(*                                                                         *)
(* Orders are numbered in the order they were submitted, so "the latest"   *)
(* is the largest number and "submitted after the row was opened" compares *)
(* the number with the row's `born`.  Money is the number of the order     *)
(* whose fill price is used.                                               *)
(***************************************************************************)
EXTENDS Integers, Sequences, FiniteSets, FiniteSetsExt

CONSTANTS
  Leg,        \* option symbols
  Rank(_),    \* position of a symbol in the alphabetical order
  Spread      \* protected verticals, as <<short leg, long leg>>

ASSUME SpreadAssumption == Spread \subseteq { v \in Leg \X Leg : v[1] # v[2] }

\* Two symbols do not share a place in the order.
ASSUME RankAssumption ==
  \A x, y \in Leg : Rank(x) \in Nat /\ (Rank(x) = Rank(y) => x = y)

Side == {"entry", "close"}      \* sell the short leg and buy the long, or the reverse

(***************************************************************************)
(* reconcile.py.  `rows` is the set of the ids of the live rows, `at` the  *)
(* table.  Every contract of a spread is -1 on its short leg and +1 on its *)
(* long leg.                                                               *)
(***************************************************************************)
LegSign(v, leg) == IF leg = v[1] THEN -1 ELSE IF leg = v[2] THEN 1 ELSE 0

expected_legs(rows, at) ==
  [leg \in Leg |-> MapThenSumSet(LAMBDA i : at[i].qty * LegSign(at[i].spread, leg), rows)]

\* The symbols on which the two books disagree.
diff(expected, actual) == { leg \in Leg : expected[leg] # actual[leg] }

(***************************************************************************)
(* Evidence.  `orders` is a function from order numbers to orders.         *)
(***************************************************************************)
_find_order_anystatus(orders, v, side, born) ==   \* the status is not looked at
  LET hits == { o \in DOMAIN orders : /\ orders[o].spread = v
                                      /\ orders[o].side = side
                                      /\ o > born }
  IN  { o \in hits : \A p \in hits : p =< o }

_find_order_anytime(orders, v, side, born) ==     \* the closes of an earlier row count
  LET hits == { o \in DOMAIN orders : /\ orders[o].status = "filled"
                                      /\ orders[o].spread = v
                                      /\ orders[o].side = side }
  IN  { o \in hits : \A p \in hits : p =< o }

_find_order_anylegs(orders, v, side, born) ==     \* the legs are not compared
  LET hits == { o \in DOMAIN orders : /\ orders[o].status = "filled"
                                      /\ orders[o].side = side
                                      /\ o > born }
  IN  { o \in hits : \A p \in hits : p =< o }

\* The latest filled order of a side on exactly these legs submitted after
\* `born`, as a set of one or none.
_find_order(orders, v, side, born) ==
  LET hits == { o \in DOMAIN orders : /\ orders[o].status = "filled"
                                      /\ orders[o].spread = v
                                      /\ orders[o].side = side
                                      /\ o > born }
  IN  { o \in hits : \A p \in hits : p =< o }

\* The legs of a spread with an activity of one of these types.
_acts(acts, v, types) ==
  { leg \in {v[1], v[2]} : \E a \in acts : a.leg = leg /\ a.type \in types }

Resolution(kind, pid, v, order, qty) ==
  [kind |-> kind, pid |-> pid, spread |-> v, order |-> order, qty |-> qty]

(***************************************************************************)
(* resolve, first half: the live rows in the order they are listed.  Each  *)
(* row takes the legs it can explain from what is left of the broker book. *)
(***************************************************************************)
Present(r, left) == left[r.spread[1]] =< -r.qty /\ left[r.spread[2]] >= r.qty
Gone(r, left)    == left[r.spread[1]] = 0 /\ left[r.spread[2]] = 0
Partial(r, left) == /\ left[r.spread[1]] < 0
                    /\ -left[r.spread[1]] = left[r.spread[2]]
                    /\ left[r.spread[2]] \in 1..(r.qty - 1)

Consumed_mutant(r, left) == IF Present(r, left) THEN r.qty ELSE 0   \* a partial row takes nothing

\* The contracts of row r that `left` accounts for, which it consumes.
Consumed(r, left) ==
  IF Present(r, left) THEN r.qty ELSE IF Partial(r, left) THEN left[r.spread[2]] ELSE 0

\* What is left of the broker book after the first k rows of the listing.
Remaining(listing, at, broker) ==
  LET left[k \in 0..Len(listing)] ==
        IF k = 0 THEN broker
        ELSE LET r == at[listing[k]]
                 n == Consumed(r, left[k - 1])
             IN  [leg \in Leg |-> left[k - 1][leg] - n * LegSign(r.spread, leg)]
  IN  left

\* The resolution of one live row, if it needs one.
Human(i, v) == Resolution("human", i, v, 0, 0)

GoneResolution(i, r, orders, acts) ==
  LET close == _find_order(orders, r.spread, "close", r.born)
  IN  IF close # {}
      THEN { Resolution("close_fill", i, r.spread, o, r.qty) : o \in close }
      ELSE IF /\ _acts(acts, r.spread, {"OPASN", "OPEXC"}) = {}    \* else a stock position may exist
              /\ _acts(acts, r.spread, {"OPEXP"}) = {r.spread[1], r.spread[2]}
      THEN { Resolution("close_expired", i, r.spread, 0, r.qty) }
      ELSE { Human(i, r.spread) }

RowResolution(i, r, left, orders, acts) ==
  IF Present(r, left) THEN {}
  ELSE IF Gone(r, left) THEN GoneResolution(i, r, orders, acts)
  ELSE IF Partial(r, left)
  THEN { Resolution("adjust_qty", i, r.spread, 0, left[r.spread[2]]) }
  ELSE { Human(i, r.spread) }                                      \* a single leg?

(***************************************************************************)
(* resolve, second half: the legs no row explains.  The short ones, in     *)
(* alphabetical order, each take the first protective long leg of the same *)
(* size that is still free; the broker's listing order decides which, and  *)
(* any is possible.  `pair` maps a short leg to its partner or to itself.  *)
(***************************************************************************)
Shorts(left) == { leg \in Leg : left[leg] < 0 }
Longs(left)  == { leg \in Leg : left[leg] \in Nat \ {0} }

Partners(S, left, pair) ==
  { L \in Longs(left) : /\ <<S, L>> \in Spread
                        /\ left[L] = -left[S]
                        /\ \A T \in Shorts(left) : Rank(T) < Rank(S) => pair[T] # L }

Pairings(left) ==
  { pair \in [Shorts(left) -> Leg] :
      \A S \in Shorts(left) :
        LET free == Partners(S, left, pair)
        IN  IF free = {} THEN pair[S] = S ELSE pair[S] \in free }

\* The row given up on that each pair of legs finds (the last of the listing,
\* which has no set order); 0 when there is none.
UnfilledByLegs(unfilled, at) ==
  { prev \in [Spread -> unfilled \cup {0}] :
      \A v \in Spread :
        LET on == { i \in unfilled : at[i].spread = v }
        IN  IF on = {} THEN prev[v] = 0 ELSE prev[v] \in on }

LeftoverResolution(S, left, pair, orders, prev) ==
  LET v     == <<S, pair[S]>>
      entry == _find_order(orders, v, "entry", 0)
  IN  IF pair[S] = S \/ entry = {}            \* a naked short leg, or unknown origin
      THEN { Human(0, v) }
      ELSE IF prev[v] # 0
      THEN { Resolution("reactivate", prev[v], v, o, left[pair[S]]) : o \in entry }
      ELSE { Resolution("adopt", 0, v, o, left[pair[S]]) : o \in entry }

RowResolutions(listing, at, broker, orders, acts) ==
  LET left == Remaining(listing, at, broker)
  IN  UNION { RowResolution(listing[k], at[listing[k]], left[k - 1], orders, acts) :
                k \in DOMAIN listing }

LeftoverResolutions(left, pair, orders, prev) ==
  (UNION { LeftoverResolution(S, left, pair, orders, prev) : S \in Shorts(left) })
  \cup { Human(0, <<L, L>>) : L \in Longs(left) \ { pair[S] : S \in Shorts(left) } }

\* The decision of one pass, for one pairing and one choice among unfilled rows.
resolve(listing, at, broker, orders, acts, pair, prev) ==
  RowResolutions(listing, at, broker, orders, acts)
  \cup LeftoverResolutions(Remaining(listing, at, broker)[Len(listing)], pair, orders, prev)

=============================================================================
