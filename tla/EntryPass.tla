------------------------------ MODULE EntryPass ------------------------------
(***************************************************************************)
(* The cycles of the entries job over the book (agent/loop.py run_cycle,   *)
(* _open_condor; storage/store.py build_policy_state), while the exits job *)
(* closes positions, confirms or gives up pending entries, measures deltas *)
(* and adopts what it finds at the broker.  Time is counted in ticks, of   *)
(* which DayLength make a day.                                             *)
(*                                                                         *)
(* How orders are worked and how rows follow them is OrderLifecycle's      *)
(* subject; here an entry is filled, left pending or unfilled, and a row   *)
(* is live or not.                                                         *)
(***************************************************************************)
EXTENDS EntryGates

CONSTANTS
  MaxRows,      \* bound: rows of the positions table
  MaxTime,      \* bound: ticks
  DayLength,    \* ticks in a day
  Lookback,     \* breaker_lookback_hours
  Slips,        \* dollars per contract by which an entry fills under the mid, negative above it
  Deltas,       \* dollars of delta a tick may measure for one contract
  Strays,       \* spreads the broker may hold and the table not
  MaxAdopted,   \* bound: rows the reconciler brings to life
  Results       \* realized P&Ls of a close

NoSpread == [u |-> "none", right |-> "none", short |-> 0, long |-> 0, loss |-> 0]

ASSUME BoundsAssumption ==
  MaxRows \in Nat /\ MaxTime \in Nat /\ DayLength \in Nat \ {0}

\* Nobody pays more than its width for a spread: a filled one can lose nothing at best.
ASSUME DollarsAssumption ==
  /\ Slips \subseteq Int /\ Deltas \subseteq Int /\ Results \subseteq Int
  /\ \A c \in Candidate, slip \in Slips : c.loss + slip >= 0

\* What the broker holds: a put or a call spread.
ASSUME StraysAssumption ==
  \A s \in Strays : s.right \in {"put", "call"} /\ s.loss \in Nat

RowId == 1..MaxRows

VARIABLES
  row, rows,    \* the positions table by id, and the last id given
  closes,       \* realized P&L and time of the closes, newest first
  now,          \* the clock, in ticks
  wings,        \* entries thread: the spreads it is about to place, in order
  size,         \* ... contracts of each
  cycle         \* ... last id given when the gates looked

entries == <<wings, size, cycle>>
vars    == <<row, rows, closes, now, entries>>

LIVE   == {"open", "pending"}      \* "closing" counts as "open" does
Status == {"none", "pending", "open", "closed", "unfilled"}

NoRow    == [status |-> "none", spread |-> NoSpread, n |-> 0, max_loss |-> 0, born |-> 0,
             delta |-> {}, adopted |-> FALSE, cycle |-> 0]

Day(t)  == t \div DayLength
Live    == { i \in RowId : row[i].status \in LIVE }
On(S)   == { i \in RowId : row[i].status # "none" /\ row[i].spread.u \in S }
Ages(S) == { now - row[i].born : i \in On(S) }

\* The losing run the breaker counts, of the closes within the lookback.
Streak ==
  LET Loses(k) == closes[k].pnl < 0 /\ closes[k].at >= now - Lookback
  IN  { k \in DOMAIN closes : \A j \in 1..k : Loses(j) }

\* Known only when the last tick of every live row is.
_net_delta_usd ==
  IF \E i \in Live : row[i].delta = {} THEN {}
  ELSE { SumFunction([i \in Live |-> _delta_sign(row[i].spread.right) * row[i].n * Max(row[i].delta)]) }

AtRisk(S)     == SumFunction([i \in S |-> row[i].max_loss])
RiskOn(right) == AtRisk({ i \in Live : row[i].spread.right = right })

counted_mutant == { i \in Live : row[i].status = "open" }     \* pending rows are no exposure
counted        == Live

Traded_mutant(S) == Ages(S \ { u \in S : On({u}) \cap Live = {} })   \* only live rows have a cooldown
Traded(S)        == Ages(S)

build_policy_state(u) ==
  [ open_positions            |-> Cardinality(counted),
    open_positions_underlying |-> Cardinality(counted \cap On({u})),
    open_positions_group      |-> Cardinality(counted \cap On(Peers(u))),
    open_signatures           |-> { <<row[i].spread.short, row[i].spread.long,
                                      row[i].spread.right, row[i].spread.u>> : i \in counted },
    open_short_strikes        |-> { <<row[i].spread.u, row[i].spread.right,
                                      row[i].spread.short>> : i \in counted },
    symbol_ages               |-> Traded({u}),
    group_ages                |-> Traded(Peers(u)),
    premium_at_risk_today     |-> AtRisk({ i \in counted : Day(row[i].born) = Day(now) }),
    risk_by_direction         |-> [bullish |-> RiskOn("put"), bearish |-> RiskOn("call")],
    net_delta_usd             |-> _net_delta_usd,
    consecutive_losses        |-> Cardinality(Streak),
    streak_loss_usd           |-> SumFunction([k \in Streak |-> -closes[k].pnl]),
    realized_pnl_today        |-> SumFunction([k \in { k \in DOMAIN closes : Day(closes[k].at) = Day(now) } |->
                                               closes[k].pnl]) ]

-----------------------------------------------------------------------------
(***************************************************************************)
(* The entries thread.                                                     *)
(***************************************************************************)
Idle == wings = <<>>

\* A bullish or bearish proposal: one spread through the gates.
RunCycle(spread) ==
  LET st == build_policy_state(spread.u)
      n  == evaluate(spread, _SIZE_CEILING, st)
  IN  /\ Idle
      /\ n >= 1
      /\ wings' = <<spread>> /\ size' = n /\ cycle' = rows
      /\ UNCHANGED <<row, rows, closes, now>>

\* A neutral one: both wings are approved on one state, at the smaller of their sizes.
OpenCondor(put, call) ==
  LET st == build_policy_state(put.u)
      n  == Min({ evaluate(w, _SIZE_CEILING, st) : w \in {put, call} })
  IN  /\ Idle
      /\ \A w \in {put, call} : evaluate(w, _SIZE_CEILING, st) >= 1
      /\ wings' = <<put, call>> /\ size' = n /\ cycle' = rows
      /\ UNCHANGED <<row, rows, closes, now>>

Insert(spread, n, status, slip, adopted) ==
  /\ rows < MaxRows
  /\ rows' = rows + 1
  /\ row' = [row EXCEPT ![rows + 1] =
               [status |-> status, spread |-> spread, n |-> n, max_loss |-> (spread.loss + slip) * n,
                born |-> now, delta |-> {}, adopted |-> adopted, cycle |-> cycle]]

StopPlacing == wings' = <<>> /\ size' = 0 /\ cycle' = 0

\* _place fills the next wing, at the mid, below or above it; the condor goes on.
PlaceFilled(slip) ==
  /\ ~Idle
  /\ Insert(Head(wings), size, "open", slip, FALSE)
  /\ IF Len(wings) = 2 THEN wings' = Tail(wings) /\ UNCHANGED <<size, cycle>> ELSE StopPlacing
  /\ UNCHANGED <<closes, now>>

\* The order is left working: nothing more is placed.
PlacePending ==
  /\ ~Idle
  /\ Insert(Head(wings), size, "pending", 0, FALSE)
  /\ StopPlacing
  /\ UNCHANGED <<closes, now>>

\* Nothing filled, or _place raised.
PlaceNothing ==
  /\ ~Idle
  /\ StopPlacing
  /\ UNCHANGED <<row, rows, closes, now>>

-----------------------------------------------------------------------------
(***************************************************************************)
(* The exits thread and the clock.                                         *)
(***************************************************************************)
Become(i, from, r) ==
  /\ row[i].status = from
  /\ row' = [row EXCEPT ![i] = r]
  /\ UNCHANGED <<rows, now, entries>>

\* The fill of a pending entry becomes its credit: it can lose more by the slip,
\* or less where it filled above the mid.
ConfirmFill(i, slip) ==
  /\ Become(i, "pending", [row[i] EXCEPT !.status = "open", !.max_loss = @ + slip * row[i].n])
  /\ UNCHANGED closes

\* A plausible slip: the broker's word for it is stored.
MarkUnfilled_mutant(i) ==
  Become(i, "pending", [row[i] EXCEPT !.status = "canceled"]) /\ UNCHANGED closes
MarkUnfilled(i) == Become(i, "pending", [row[i] EXCEPT !.status = "unfilled"]) /\ UNCHANGED closes

\* A tick of an open position measures its delta.
RecordTick(i, d) == Become(i, "open", [row[i] EXCEPT !.delta = {d}]) /\ UNCHANGED closes

ClosePosition(i, pnl) ==
  /\ Become(i, "open", [row[i] EXCEPT !.status = "closed"])
  /\ closes' = <<[pnl |-> pnl, at |-> now]>> \o closes

\* The reconciler: an entry given up on did fill, or a spread was not in the table.
Adopted      == { i \in RowId : row[i].adopted }
Reactivate(i) ==
  /\ Cardinality(Adopted) < MaxAdopted
  /\ Become(i, "unfilled", [row[i] EXCEPT !.status = "open", !.adopted = TRUE])
  /\ UNCHANGED closes
AdoptPosition(spread) ==
  /\ Cardinality(Adopted) < MaxAdopted
  /\ Insert(spread, 1, "open", 0, TRUE)
  /\ UNCHANGED <<closes, now, entries>>

Pass == now < MaxTime /\ now' = now + 1 /\ UNCHANGED <<row, rows, closes, entries>>

Init == /\ row = [i \in RowId |-> NoRow] /\ rows = 0
        /\ closes = <<>> /\ now = 0
        /\ wings = <<>> /\ size = 0 /\ cycle = 0

EntriesStep ==
  \/ \E spread \in Candidate : RunCycle(spread)
  \/ \E put, call \in Candidate :
       put.u = call.u /\ put.right = "put" /\ call.right = "call" /\ OpenCondor(put, call)
  \/ \E slip \in Slips : PlaceFilled(slip)
  \/ PlacePending \/ PlaceNothing

ExitsStep ==
  \/ \E i \in RowId :
       \/ \E slip \in Slips : ConfirmFill(i, slip)
       \/ \E pnl \in Results : ClosePosition(i, pnl)
       \/ \E d \in Deltas : RecordTick(i, d)
       \/ MarkUnfilled(i) \/ Reactivate(i)
  \/ \E spread \in Strays : AdoptPosition(spread)

Next == EntriesStep \/ ExitsStep \/ Pass

Spec == Init /\ [][Next]_vars

-----------------------------------------------------------------------------
(***************************************************************************)
(* Properties.  The caps are those of the gates: rows the reconciler       *)
(* brought to life passed none.                                            *)
(***************************************************************************)
RowType == [status : Status, spread : Candidate \cup Strays \cup {NoSpread}, n : 0.._SIZE_CEILING, max_loss : Nat,
            born : 0..MaxTime, delta : {{}} \cup { {d} : d \in Deltas }, adopted : BOOLEAN, cycle : 0..MaxRows]

\* Every variable has its type.
TypeOK == /\ row \in [RowId -> RowType] /\ rows \in 0..MaxRows
          /\ closes \in Seq([pnl : Results, at : 0..MaxTime])
          /\ now \in 0..MaxTime
          /\ wings \in Seq(Candidate) /\ Len(wings) =< 2
          /\ size \in 0.._SIZE_CEILING /\ cycle \in 0..MaxRows

Entered == { i \in RowId : row[i].status # "none" /\ ~row[i].adopted }
Gated   == { i \in Live : ~row[i].adopted }

\* The second wings of condors: the gates looked at them as if the first were not there.
SecondWings == { j \in RowId : \E i \in Entered : i < j /\ row[i].cycle = row[j].cycle }
Counted == Gated \ SecondWings

\* The live spreads stay within the caps on the book, the underlying and the group,
\* whatever is closed, confirmed or adopted between the gates and the fill; but for
\* the second wings of condors.
CapsHold ==
  /\ Cardinality(Counted) =< rules.max_open_positions
  /\ \A u \in Underlying : /\ Cardinality(Counted \cap On({u})) =< rules.max_per_underlying
                           /\ Cardinality(Counted \cap On(Peers(u))) =< rules.max_per_group

\* No two live spreads are short the same strike on one underlying, the two wings
\* of a condor included: they differ in right.
OneBetPerStrike ==
  \A i, j \in Gated :
    (i # j /\ row[i].spread.u = row[j].spread.u /\ row[i].spread.right = row[j].spread.right)
      => row[i].spread.short # row[j].spread.short

\* What the live entries of a day put at risk, at the mid or at the fill where that
\* was better, stays within the daily budget, past midnight too, but for the second
\* wings: what they can lose passes it by no more than fills below the mid gave up.
Risked(r) == IF r.max_loss < r.spread.loss * r.n THEN r.max_loss ELSE r.spread.loss * r.n
RiskedOn(S) == SumFunction([i \in S |-> Risked(row[i])])
CountedToday == { i \in Counted : Day(row[i].born) = Day(now) }
DayRiskBounded == RiskedOn(CountedToday) =< rules.daily_budget

\* Two entries on one underlying are its cooldown apart and two in one group the
\* group's, whatever became of the first: filled, unfilled, closed.  The wings of a
\* condor are one entry.
EntriesSpaced ==
  \A i, j \in Entered :
    (i < j /\ row[i].cycle # row[j].cycle) =>
      /\ row[i].spread.u = row[j].spread.u
           => row[j].born - row[i].born >= rules.cooldown_seconds
      /\ row[i].spread.u \in Peers(row[j].spread.u)
           => row[j].born - row[i].born >= rules.group_cooldown_seconds

\* In every book the two jobs can produce, the size given to a spread no gate
\* vetoes keeps all the documented inequalities, as every smaller size does, and one
\* contract more would break one: the gates neither enlarge a trade nor shrink it
\* more than their rules say.
SizedRight ==
  \A spread \in Candidate :
    LET st == build_policy_state(spread.u)
        n  == evaluate(spread, _SIZE_CEILING, st)
    IN  ~Vetoed(spread, st) => /\ \A k \in 1..n : Fits(spread, k, st)
                               /\ n < _SIZE_CEILING => ~Fits(spread, n + 1, st)

-----------------------------------------------------------------------------
(***************************************************************************)
(* The invariant the proofs of EntryPass_proofs use.  Between the gates    *)
(* and the fill the other job goes on: what the gates found is a promise   *)
(* that each of its steps keeps.                                           *)
(***************************************************************************)

\* The table has the rows 1 to rows, each younger than the cycle it comes from; a
\* pending one can lose what it can at the mid.
RowsNumbered ==
  \A i \in RowId :
    IF i =< rows
    THEN /\ row[i].status # "none" /\ row[i].cycle < i /\ row[i].born =< now
         /\ row[i].spread # NoSpread /\ (~row[i].adopted => row[i].spread \in Candidate)
         /\ row[i].status = "pending" => /\ ~row[i].adopted
                                         /\ row[i].max_loss = row[i].spread.loss * row[i].n
    ELSE row[i] = NoRow

\* What the cycle under way has entered already: at most the first wing of a condor.
Placed == { i \in Entered : row[i].cycle = cycle }

\* A second wing is placed only on a first that filled.
CondorsStand ==
  /\ cycle =< rows
  /\ \A i, j \in Entered :
       (i < j /\ row[i].cycle = row[j].cycle) => row[i].status \in {"open", "closed"}
  /\ ~Idle => \A i \in Placed : Len(wings) = 1 /\ row[i].status \in {"open", "closed"}
  /\ Len(wings) = 2 => wings[1].right # wings[2].right

\* There is room under every cap and in the day's budget for the first spread of the
\* cycle, and no live spread is short the strike of any.
RoomKept ==
  ~Idle =>
    /\ Placed = {} =>
         /\ Cardinality(Counted) < rules.max_open_positions
         /\ Cardinality(Counted \cap On({Head(wings).u})) < rules.max_per_underlying
         /\ Cardinality(Counted \cap On(Peers(Head(wings).u))) < rules.max_per_group
         /\ RiskedOn(CountedToday) + Head(wings).loss * size =< rules.daily_budget
    /\ \A k \in DOMAIN wings, i \in Gated :
         (row[i].spread.u = wings[k].u /\ row[i].spread.right = wings[k].right)
           => row[i].spread.short # wings[k].short

\* The earlier entries are a cooldown away from now already.
CooledDown ==
  \A k \in DOMAIN wings, i \in Entered \ Placed :
    /\ row[i].spread.u = wings[k].u => now - row[i].born >= rules.cooldown_seconds
    /\ row[i].spread.u \in Peers(wings[k].u) => now - row[i].born >= rules.group_cooldown_seconds

GatesInv ==
  /\ TypeOK /\ RowsNumbered /\ CondorsStand /\ RoomKept /\ CooledDown
  /\ CapsHold /\ OneBetPerStrike /\ DayRiskBounded /\ EntriesSpaced

=============================================================================
