------------------------------ MODULE ExitRules ------------------------------
(***************************************************************************)
(* The pure part of the exits: the clock of a position (agent/state.py),   *)
(* the decision on one quote (agent/exits.py), the tick that records it,   *)
(* and the replay of recorded ticks (replay.py).                           *)
(*                                                                         *)
(* Money is in cents per share, fractions in ten-thousandths, deltas in    *)
(* hundred-thousandths, times in seconds.  An optional input is a set of   *)
(* at most one value.                                                      *)
(***************************************************************************)
EXTENDS Integers, Sequences

Least(a, b)    == IF a < b THEN a ELSE b
Greatest(a, b) == IF a > b THEN a ELSE b
Round(a, b)    == (2 * a + b) \div (2 * b)          \* a / b to the nearest integer

\* x is a fraction of credit: what is left of price, against a threshold.
Captured(credit, price) == credit - price
AtLeast(x, credit, threshold) == 10000 * x >= threshold * credit

-----------------------------------------------------------------------------
\* position_clock: now is a day and the seconds to its close; options expire Lead
\* seconds before the close of their last day.
position_clock(expiry, now, Lead) ==
  [ to_expiry |-> {Greatest(0, 86400 * (expiry - now.day) + now.to_close - Lead)},
    to_close  |-> {now.to_close},
    sleeps    |-> {expiry > now.day} ]
NoCloseKnown(clock) == [clock EXCEPT !.to_close = {}, !.sleeps = {}]
ClockUnknown        == [to_expiry |-> {}, to_close |-> {}, sleeps |-> {}]

take_profit_threshold(p, to_expiry) ==
  IF \E h \in to_expiry : h <= p.take_profit_step THEN p.take_profit_near ELSE p.take_profit_far

\* The give-back in sigma terms, half to twice the fixed one.
trail_giveback_for(p, vol) ==
  IF p.trail_vol_ref = 0 \/ \A v \in vol : v <= 0 THEN p.trail_giveback
  ELSE LET v == CHOOSE v \in vol : TRUE
       IN  Round(p.trail_giveback * Greatest(p.trail_vol_ref, Least(4 * p.trail_vol_ref, 2 * v)),
                 2 * p.trail_vol_ref)

Hold      == "hold"
Closes(d) == d # Hold

\* The overnight rule, of a position that would sleep through the close at hand.
MayNotSleep_mutant(p, in) ==            \* the unknown is no reason to close
  \/ p.overnight_mode = "flat"
  \/ \E d \in in.short_delta : d > p.overnight_max_short_delta
  \/ \E b \in in.book : b > p.overnight_net_delta
MayNotSleep(p, in) ==
  \/ p.overnight_mode = "flat"
  \/ \A d \in in.short_delta : d > p.overnight_max_short_delta
  \/ \A b \in in.book : b > p.overnight_net_delta

BedTime(p, clock) == TRUE \in clock.sleeps /\ \E c \in clock.to_close : c <= p.flatten_before_close

\* The rules in their order, each with when it applies.  peak is what was captured
\* at best, in cents of the same credit.
exit_rules(credit, price, is_expiry_day, peak, p, in) ==
  LET captured == Captured(credit, price)
  IN  << <<"expiration",  is_expiry_day>>,
         <<Hold,          credit <= 0>>,
         <<"stop delta",  \E d \in in.short_delta : d >= p.stop_delta>>,
         <<"stop credit", AtLeast(-captured, credit, p.stop_mult)>>,
         <<"take profit", AtLeast(captured, credit, take_profit_threshold(p, in.clock.to_expiry))>>,
         <<"trailing",    /\ AtLeast(peak, credit, p.trail_activation)
                          /\ AtLeast(peak - captured, credit, trail_giveback_for(p, in.vol))>>,
         <<"overnight",   BedTime(p, in.clock) /\ MayNotSleep(p, in)>>,
         <<Hold,          TRUE>> >>

\* The first that applies decides.
FirstApplying(rule) ==
  CHOOSE i \in DOMAIN rule : rule[i][2] /\ \A j \in 1..(i - 1) : ~rule[j][2]
decide_exit(credit, price, is_expiry_day, peak, p, in) ==
  LET rule == exit_rules(credit, price, is_expiry_day, peak, p, in)
  IN  rule[FirstApplying(rule)][1]

-----------------------------------------------------------------------------
\* The tick of a pass: times to a hundredth of an hour, the delta to four decimals,
\* and neither the volatility nor the delta of the book.
Hundredths(S)   == { Round(s, 36) : s \in S }
FourDecimals(S) == { 10 * Round(d, 10) : d \in S }
compute_tick(day, price, in, decision) ==
  [ day |-> day, price |-> price, short_delta |-> FourDecimals(in.short_delta),
    to_expiry |-> Hundredths(in.clock.to_expiry), to_close |-> Hundredths(in.clock.to_close),
    sleeps |-> in.clock.sleeps, decision |-> decision ]

\* What the replay feeds the rules from a tick.
FromTick(t) ==
  [ short_delta |-> t.short_delta, vol |-> {}, book |-> {},
    clock |-> [to_expiry |-> { 36 * h : h \in t.to_expiry },
               to_close  |-> { 36 * h : h \in t.to_close }, sleeps |-> t.sleeps] ]

\* The peak is derived again from the ticks.
PeakAt(credit, ticks, i) ==
  LET upTo[j \in 0..i] == IF j = 0 THEN 0 ELSE Greatest(upTo[j - 1], Captured(credit, ticks[j].price))
  IN  upTo[i]

\* The first tick at which the rules close, or none.
replay_position(ticks, p, credit, expiry) ==
  LET closesAt(i) == Closes(decide_exit(credit, ticks[i].price, ticks[i].day >= expiry,
                                        PeakAt(credit, ticks, i), p, FromTick(ticks[i])))
  IN  { i \in DOMAIN ticks : closesAt(i) /\ \A j \in 1..(i - 1) : ~closesAt(j) }

=============================================================================
