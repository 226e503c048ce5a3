--------------------------- MODULE MCRuleProposals ---------------------------
(***************************************************************************)
(* Instance of RuleProposals for TLC: one group, two requests at once, and *)
(* what the nights measure taken from closed trades by TradeStats.         *)
(***************************************************************************)
EXTENDS RuleProposals, TradeStats

\* Buckets: twenty trades whose delta stops fired late; as many whose losers had
\* captured 40 % before they turned and whose winners peaked at 45 %, or at 60 %;
\* and too few.
Agg(n, losses, stops, loss, losers, winners) ==
  [ group |-> "index",
    agg |-> [n |-> n, losses |-> losses, delta_stops |-> stops, avg_loss_vs_credit |-> {loss},
             median_mfe_losers |-> {losers}, median_mfe_winners |-> {winners}] ]
LateStops  == Agg(20, 5, 3, 8000, 2000, 4500)
Greedily   == Agg(20, 5, 0, 5000, 4000, 4500)
FarPeaks   == Agg(20, 5, 3, 7900, 4000, 6000)
TooFew     == Agg(19, 5, 3, 8000, 4000, 4500)

\* Nights with nothing to say and with one proposal; for the claim, one with two
\* buckets of a group that propose the same.
NightsMeasured == { <<TooFew, FarPeaks>>, <<LateStops>> }
TwoBuckets     == { <<Greedily, Greedily>> }

\* The trades that measure so, each with two ticks.
Trade(days, pnl, peak, reason) ==
  [group |-> "index", regime |-> "range", days |-> days, credit |-> 100, pnl |-> pnl,
   captured |-> <<peak, 100 * pnl>>, reason |-> reason]
Trades(days, wins, peak, stops, loss, losersPeak) ==
  [i \in 1..(wins + 5) |->
     IF i <= wins THEN Trade(days, 25, peak, "take profit")
     ELSE Trade(days, -loss, losersPeak, IF i <= wins + stops THEN "stop delta" ELSE "stop credit")]
ASSUME NightsAreMeasured ==
  /\ Measure(Trades(1, 15, 4500, 3, 80, 2000)) = { <<LateStops>> }
  /\ Measure(Trades(1, 14, 4500, 3, 80, 4000) \o Trades(2, 15, 6000, 3, 79, 4000)) = { <<TooFew, FarPeaks>> }
  /\ Measure(Trades(1, 15, 4500, 0, 50, 4000) \o Trades(4, 15, 4500, 0, 50, 4000)) = { <<Greedily, Greedily>> }
  /\ Measure(<<[Trade(1, -50, 0, "stop credit") EXCEPT !.credit = 0]>>) = {}          \* it raises

\* To a value that is refused; to NaN, from which the night proposes nothing.
EditsMade ==
  { [scope |-> "global", key |-> "stop_delta", value |-> 9901],
    [scope |-> "global", key |-> "stop_delta", value |-> NaN] }

\* A start seeds another value than the default, 4500, from which the night proposes
\* the minimum.
Environments == { [take_profit_far |-> 5000, stop_delta |-> 3400] }
=============================================================================
