----------------------------- MODULE TradeStats -----------------------------
(***************************************************************************)
(* What the nightly job remembers of closed positions (agent/learning.py   *)
(* position_stats, aggregate): the numbers a proposal may rest on.         *)
(*                                                                         *)
(* A trade is a closed row with its ticks.  Its credit is in cents per     *)
(* share and its P&L in dollars, which is cents per share times contracts; *)
(* fractions are in ten-thousandths.  What only the nightly message shows  *)
(* is left out.                                                            *)
(***************************************************************************)
EXTENDS Integers, Sequences, FiniteSets, FiniteSetsExt

\* a / b to the nearest integer; halves, where Python looks at the parity, go up.
Nearest(a, b) == (2 * a + b) \div (2 * b)
Thousandth(a, b) == 10 * Nearest(a, 10 * b)

dte_bucket(days) ==
  IF days <= 1 THEN "0-1" ELSE IF days <= 3 THEN "2-3" ELSE "4+"

\* Of a trade with ticks; of one nothing was observed of, nothing.
Observed(trade) == trade.captured # <<>>
position_stats(trade) ==
  [ bucket |-> <<trade.group, trade.regime, dte_bucket(trade.days)>>,
    result |-> IF trade.pnl > 0 THEN "win" ELSE IF trade.pnl < 0 THEN "loss" ELSE "flat",
    pnl    |-> trade.pnl,
    credit |-> trade.credit,
    mfe    |-> Max({0} \union { trade.captured[i] : i \in DOMAIN trade.captured }),
    reason |-> trade.reason ]

\* statistics.median and statistics.mean of f over a set of indices, where there is
\* one, to a thousandth.
kth(S, f(_), k) ==
  CHOOSE x \in { f(i) : i \in S } : /\ Cardinality({ i \in S : f(i) < x }) < k
                                    /\ Cardinality({ i \in S : f(i) <= x }) >= k
median(S, f(_)) ==
  LET n == Cardinality(S)
  IN  IF n = 0 THEN {}
      ELSE { Thousandth(kth(S, f, (n + 1) \div 2) + kth(S, f, (n + 2) \div 2), 2) }
mean(S, f(_)) ==
  IF S = {} THEN {} ELSE { Thousandth(MapThenSumSet(f, S), Cardinality(S)) }

\* The loss of all the contracts over the credit of one, as the code has it.
LossVsCredit(s) == (10000 * (-s.pnl)) \div s.credit

\* The buckets in the order they are first met.  A bucket whose losses all have no credit
\* leaves nothing to average: the call raises, and gives nothing of any bucket.
aggregate(stats) ==
  LET first     == SelectSeq([i \in DOMAIN stats |-> i],
                             LAMBDA i : \A j \in 1..(i - 1) : stats[j].bucket # stats[i].bucket)
      rows(b)   == { i \in DOMAIN stats : stats[i].bucket = b }
      wins(b)   == { i \in rows(b) : stats[i].result = "win" }
      losses(b) == { i \in rows(b) : stats[i].result = "loss" }
      paid(b)   == { i \in losses(b) : stats[i].credit > 0 }
      mfe(i)    == stats[i].mfe
      of(b)     ==
        [ n                  |-> Cardinality(rows(b)),
          losses             |-> Cardinality(losses(b)),
          median_mfe_losers  |-> median(losses(b), mfe),
          median_mfe_winners |-> median(wins(b), mfe),
          delta_stops        |-> Cardinality({ i \in losses(b) : stats[i].reason = "stop delta" }),
          avg_loss_vs_credit |-> mean(paid(b), LAMBDA i : LossVsCredit(stats[i])) ]
  IN  IF \E i \in DOMAIN stats : losses(stats[i].bucket) # {} /\ paid(stats[i].bucket) = {} THEN {}
      ELSE { [k \in DOMAIN first |-> LET b == stats[first[k]].bucket IN [group |-> b[1], agg |-> of(b)]] }

\* run_nightly from the closed positions to the buckets: nothing when it raises.
Measure(trades) ==
  LET seen == SelectSeq(trades, Observed)
  IN  aggregate([i \in DOMAIN seen |-> position_stats(seen[i])])

=============================================================================
