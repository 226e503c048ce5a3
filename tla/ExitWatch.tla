------------------------------ MODULE ExitWatch ------------------------------
(***************************************************************************)
(* One position from its entry order to its end, as the exits job watches  *)
(* it (agent/runner.py _manage_positions, _close, _record_tick) with the   *)
(* credit the store keeps for it (storage/store.py).  A pass is at one     *)
(* instant and evaluates one quote; what the network does not give is      *)
(* unknown to the rules.                                                   *)
(*                                                                         *)
(* Orders and the other rows are OrderLifecycle's subject: here an order   *)
(* fills, works or does not fill.                                          *)
(***************************************************************************)
EXTENDS ExitRules, FiniteSets

CONSTANTS
  Instants,     \* the passes: day and seconds to its close, in order
  Expiry,       \* day of expiry
  Lead,         \* seconds from EXPIRY_HOUR_UTC to the close of that day
  Params,       \* rule parameters
  Mid,          \* the credit at which the spread was priced
  Fills,        \* credits at which an entry may fill
  Prices,       \* quotes: what it costs to buy the spread back
  DeltasSeen, VolsSeen, BooksSeen,   \* measurements, where there is one
  MaxTicks,     \* bound: recorded ticks
  MaxFaults     \* bound: calls that raise and ticks that are not recorded

\* A spread is sold for a credit (the selection refuses none, _fill_credit is an
\* absolute value) and bought back for a debit (current_spread_price is at least 0);
\* deltas are absolute values.
ASSUME MoneyAssumption ==
  /\ Mid \in Nat \ {0} /\ Fills \subseteq Nat \ {0} /\ Prices \subseteq Nat
  /\ DeltasSeen \subseteq Nat /\ BooksSeen \subseteq Nat
ASSUME TimesAssumption ==
  Expiry \in Int /\ Lead \in Nat /\ Instants \in Seq([day : Int, to_close : Nat])
ASSUME RulesAssumption ==
  /\ MaxTicks \in Nat /\ MaxFaults \in Nat
  /\ \A q \in Params : /\ q.overnight_mode \in {"flat", "delta"}
                       /\ q.overnight_max_short_delta \in Nat /\ q.overnight_net_delta \in Nat
                       /\ {q.take_profit_near, q.take_profit_far, q.take_profit_step,
                           q.flatten_before_close, q.stop_delta} \subseteq Int

VARIABLES
  status, credit, fill, peak,   \* the row; fill_credit is unknown or one number
  ticks,                        \* position_ticks of the row
  at,                           \* the instant of the next pass
  p,                            \* the parameters
  pass,                         \* what the last pass saw and decided
  revived,                      \* the row was unfilled and the reconciler revived it
  faults

row  == <<status, credit, fill>>
vars == <<row, peak, ticks, at, p, pass, revived, faults>>

NoPass  == [price |-> {}, in |-> [short_delta |-> {}, vol |-> {}, book |-> {}, clock |-> ClockUnknown],
            decision |-> Hold]
Maybe(S) == { {} } \union { {x} : x \in S }

Init ==
  /\ p \in Params
  /\ \/ status = "pending" /\ credit = Mid /\ fill = {}        \* record_position: still working
     \/ \E f \in Fills : status = "open" /\ credit = f /\ fill = {f}   \* ... filled; adopt_position
     \/ status = "open" /\ credit = Mid /\ fill = {}           \* ... sent, the reply without an id
  /\ peak = 0 /\ ticks = <<>> /\ at = 1 /\ pass = NoPass /\ revived = FALSE /\ faults = 0

-----------------------------------------------------------------------------
(* The entry order: confirm_fill, mark_unfilled, reactivate_position. *)

ConfirmFill_mutant(f) ==           \* the credit stays the mid
  /\ status = "pending"
  /\ status' = "open" /\ fill' = f
  /\ UNCHANGED <<credit, peak, ticks, at, p, pass, revived, faults>>
ConfirmFill(f) ==
  /\ status = "pending"
  /\ status' = "open"
  /\ IF f = {} THEN UNCHANGED <<fill, credit>>
     ELSE fill' = f /\ credit' = CHOOSE c \in f : TRUE
  /\ UNCHANGED <<peak, ticks, at, p, pass, revived, faults>>

MarkUnfilled ==
  /\ status = "pending"
  /\ status' = "unfilled"
  /\ UNCHANGED <<credit, fill, peak, ticks, at, p, pass, revived, faults>>

Reactivate(f) ==
  /\ status = "unfilled"
  /\ status' = "open" /\ fill' = {f} /\ revived' = TRUE
  /\ UNCHANGED <<credit, peak, ticks, at, p, pass, faults>>

-----------------------------------------------------------------------------
(* A pass over the open row. *)

Now == Instants[at]

\* The clock fails as a whole when the symbol cannot be parsed, or for lack of the
\* next close.
Clocks == { position_clock(Expiry, Now, Lead), NoCloseKnown(position_clock(Expiry, Now, Lead)), ClockUnknown }

\* Volatility and the delta of the book are measured only if a rule needs them.
Inputs ==
  { [short_delta |-> d, vol |-> v, book |-> b, clock |-> c] :
      d \in Maybe(DeltasSeen), v \in IF p.trail_vol_ref = 0 THEN { {} } ELSE Maybe(VolsSeen),
      b \in IF p.overnight_mode = "delta" THEN Maybe(BooksSeen) ELSE { {} }, c \in Clocks }

Passes   == status = "open" /\ at <= Len(Instants) /\ Len(ticks) < MaxTicks
NextPass == at' = at + 1

\* The high-water mark is saved before the decision.
Peak_mutant(price) == Captured(credit, price)
Peak(price)        == Greatest(peak, Captured(credit, price))

Decide(price, in) == decide_exit(credit, price, Expiry <= Now.day, Peak(price), p, in)

\* Whatever fails here is logged and the tick is lost.
RecordTick(tick, recorded) ==
  IF recorded THEN ticks' = Append(ticks, tick) /\ UNCHANGED faults
  ELSE faults < MaxFaults /\ faults' = faults + 1 /\ UNCHANGED ticks

\* The pass evaluates a quote and does what it decides.  The tick is recorded after
\* that, unless recording it fails.
Evaluate(price, in, d, recorded) ==
  /\ peak' = Peak(price)
  /\ pass' = [price |-> {price}, in |-> in, decision |-> d]
  /\ RecordTick(compute_tick(Now.day, price, in, d), recorded)
  /\ NextPass
  /\ UNCHANGED <<credit, fill, p, revived>>

KeepOpen(price, in, d) ==
  /\ ~Closes(d)
  /\ \E recorded \in BOOLEAN : Evaluate(price, in, d, recorded)
  /\ UNCHANGED status

\* The close fills, works on, or is terminally unfilled and the row is open again.
Close(price, in, d) ==
  /\ Closes(d)
  /\ \E recorded \in BOOLEAN : Evaluate(price, in, d, recorded)
  /\ status' \in {"closed", "closing", "open"}

\* A call of the close raises: the pass goes on with the next row, the tick is lost.
CloseRaises(price, in, d) ==
  /\ Closes(d)
  /\ Evaluate(price, in, d, FALSE)
  /\ UNCHANGED status

WatchRow ==
  /\ Passes
  /\ \E price \in Prices, in \in Inputs :
       LET d == Decide(price, in)
       IN  KeepOpen(price, in, d) \/ Close(price, in, d) \/ CloseRaises(price, in, d)

\* No quote, no pass.
SkipPass ==
  /\ Passes
  /\ NextPass
  /\ pass' = NoPass
  /\ UNCHANGED <<row, peak, ticks, p, revived, faults>>

\* _resolve_pending finds the working close filled, or reverts it.
ResolveClose(outcome) ==
  /\ status = "closing"
  /\ status' = outcome
  /\ UNCHANGED <<credit, fill, peak, ticks, at, p, pass, revived, faults>>

Next ==
  \/ \E f \in Maybe(Fills) : ConfirmFill(f)
  \/ MarkUnfilled
  \/ \E f \in Fills : Reactivate(f)
  \/ WatchRow
  \/ SkipPass
  \/ \E outcome \in {"closed", "open"} : ResolveClose(outcome)

Spec == Init /\ [][Next]_vars

-----------------------------------------------------------------------------
(* Properties. *)

Decisions == {Hold, "expiration", "stop delta", "stop credit", "take profit", "trailing", "overnight"}
Tick == [day : Int, price : Prices, short_delta : { FourDecimals(S) : S \in Maybe(DeltasSeen) },
         to_expiry : SUBSET Int, to_close : SUBSET Int, sleeps : SUBSET BOOLEAN, decision : Decisions]

TypeOK ==
  /\ status \in {"pending", "open", "closing", "closed", "unfilled"}
  /\ credit \in Fills \union {Mid} /\ fill \in Maybe(Fills)
  /\ peak \in 0..credit
  /\ ticks \in Seq(Tick) /\ Len(ticks) <= MaxTicks /\ at \in 1..(Len(Instants) + 1)
  /\ p \in Params /\ pass.price \in Maybe(Prices) /\ pass.decision \in Decisions
  /\ revived \in BOOLEAN /\ faults \in 0..MaxFaults

\* What the row was really sold for, as far as anyone knows.
Basis == IF fill = {} THEN credit ELSE CHOOSE f \in fill : TRUE

\* "never blind" (exits.py 9-10): with every other input unknown, a pass that gets a
\* quote at which the loss on the actual fill reaches the cap decides to close;
\* rows the reconciler revived keep the credit of the mid and are left aside.
LossCapped ==
  \A price \in pass.price :
    ~revived /\ AtLeast(price - Basis, Basis, p.stop_mult) => Closes(pass.decision)

\* Nothing held sleeps through a known close unless the mode allows it, with the leg
\* known to be small and the book known to be balanced (docs/RULES.md, rule 6).
SleepsBalanced ==
  pass.price # {} /\ ~Closes(pass.decision) /\ BedTime(p, pass.in.clock) =>
    /\ p.overnight_mode = "delta"
    /\ \E d \in pass.in.short_delta : d <= p.overnight_max_short_delta
    /\ \E b \in pass.in.book : b <= p.overnight_net_delta

\* What the two rest on: a row is not watched before it is open, and its credit is
\* that of its fill, but for a row the reconciler revived.
CreditKnown ==
  /\ status \in {"pending", "unfilled"} => pass = NoPass /\ peak = 0 /\ ~revived
  /\ ~revived => fill \in { {}, {credit} }
ExitsInv == TypeOK /\ CreditKnown /\ LossCapped /\ SleepsBalanced

\* Where the exits job first decided to close, and where the replay of its ticks
\* with the same parameters closes.
Live   == { i \in DOMAIN ticks : Closes(ticks[i].decision) /\ \A j \in 1..(i - 1) : ~Closes(ticks[j].decision) }
Replay == replay_position(ticks, p, credit, Expiry)

\* The replay sees what the job saw but for what ticks do not hold.  If no tick was
\* lost, the give-back is fixed and no position may sleep, it closes where the job did
\* when the passes are at whole hundredths of an hour and no delta is so near the stop
\* that four decimals may put it on the other side.  Else it may close earlier, but
\* never later if the thresholds are whole hundredths and have four decimals, and the
\* near take-profit asks no more than the far one.
Replayable == faults = 0 /\ p.trail_vol_ref = 0 /\ p.overnight_mode = "flat"
OnTheHundredth == Lead % 36 = 0 /\ \A i \in 1..(at - 1) : Instants[i].to_close % 36 = 0
ClearOfTheStop ==
  \A i \in DOMAIN ticks : \A d \in ticks[i].short_delta : d - 5 >= p.stop_delta \/ d + 5 < p.stop_delta
RoundsEarly ==
  /\ p.take_profit_step % 36 = 0 /\ p.flatten_before_close % 36 = 0 /\ p.stop_delta % 10 = 0
  /\ p.take_profit_near <= p.take_profit_far
ReplayAgrees ==
  Replayable => /\ RoundsEarly => \A i \in Live : \E j \in Replay : j <= i
                /\ OnTheHundredth /\ ClearOfTheStop => Replay = Live

=============================================================================
