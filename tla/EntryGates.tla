------------------------------ MODULE EntryGates ------------------------------
(***************************************************************************)
(* policy/gates.py: from a candidate spread and what the database says of  *)
(* the book, the number of contracts that may be opened, or a veto.        *)
(*                                                                         *)
(* A spread is [u, right, short, long, loss]: underlying, "put" (bullish)  *)
(* or "call" (bearish), short and long strike, and the dollars one         *)
(* contract can lose at the mid.  Fractions of equity are the dollars they *)
(* amount to; the direction share is the fraction num/den; a contract of   *)
(* every spread weighs contract_delta dollars of delta.  The gates that    *)
(* look at one input alone (confidence, blackouts, reward/risk floor) veto *)
(* or do nothing: a cycle they veto is one that does not happen.           *)
(***************************************************************************)
EXTENDS Integers, Sequences, FiniteSets, FiniteSetsExt

CONSTANTS
  Underlying,
  Peers(_),      \* symbols of the correlation group of an underlying, itself included
  Candidate,     \* spreads the selection may come up with
  rules          \* RuleSet: thresholds by name

\* A spread that can lose nothing is vetoed: its cycle does not happen.
ASSUME CandidatesAssumption ==
  Candidate \subseteq [u : Underlying, right : {"put", "call"}, short : Int, long : Int, loss : Nat \ {0}]

\* A symbol is in one group (universe.py parse_groups).
ASSUME PeersAssumption == \A u \in Underlying : \A w \in Peers(u) : Peers(w) = Peers(u)

\* The ranges of the parameters (policy/params.py _SPECS).
ASSUME RulesAssumption ==
  /\ rules.max_open_positions \in Nat /\ rules.max_per_underlying \in Nat
  /\ rules.max_per_group \in Nat
  /\ rules.cooldown_seconds \in Nat /\ rules.group_cooldown_seconds \in Nat
  /\ rules.max_loss \in Nat /\ rules.daily_budget \in Nat
  /\ rules.share_num \in Nat /\ rules.share_den \in Nat
  /\ rules.max_net_delta \in Nat /\ rules.contract_delta \in Nat \ {0}

_SIZE_CEILING == 100

DirectionOf(right) == IF right = "put" THEN "bullish" ELSE "bearish"
_delta_sign(right) == IF right = "put" THEN 1 ELSE -1

_max_contracts_by_loss(spread, budget) ==
  IF spread.loss =< 0 THEN 0 ELSE budget \div spread.loss

(***************************************************************************)
(* The vetoes, on the state st of build_policy_state.                      *)
(***************************************************************************)
Breaker(st) ==
  /\ st.consecutive_losses >= rules.max_consecutive_losses
  /\ st.streak_loss_usd >= rules.breaker_min_loss

AtCap_mutant(st) == st.open_positions > rules.max_open_positions     \* off by one, and alone

AtCap(st) ==
  \/ st.open_positions >= rules.max_open_positions
  \/ st.open_positions_underlying >= rules.max_per_underlying
  \/ st.open_positions_group >= rules.max_per_group

SameBet(spread, st) ==
  \/ <<spread.short, spread.long, spread.right, spread.u>> \in st.open_signatures
  \/ <<spread.u, spread.right, spread.short>> \in st.open_short_strikes

TooSoon(st) ==
  \/ \E age \in st.symbol_ages : age < rules.cooldown_seconds
  \/ \E age \in st.group_ages : age < rules.group_cooldown_seconds

Vetoed(spread, st) ==
  \/ Breaker(st)
  \/ st.realized_pnl_today =< -rules.max_daily_loss
  \/ AtCap(st) \/ SameBet(spread, st) \/ TooSoon(st)

(***************************************************************************)
(* The gates that shrink.                                                  *)
(***************************************************************************)
RiskOf(side, st) == st.risk_by_direction[side]
OtherSide(side)  == IF side = "bullish" THEN "bearish" ELSE "bullish"

\* A plausible slip: the room counted in dollars of the whole book, not of the side.
ShareRoom_mutant(spread, st) ==
  LET total == st.risk_by_direction.bullish + st.risk_by_direction.bearish
      rest  == rules.share_den - rules.share_num
  IN  IF total > 0 /\ rest > 0 THEN { (rules.share_num * total) \div (spread.loss * rest) } ELSE {}

\* m such that (same + m*L) / (same + other + m*L) <= num/den; the first position is exempt.
ShareRoom(spread, st) ==
  LET side  == DirectionOf(spread.right)
      same  == RiskOf(side, st)
      other == RiskOf(OtherSide(side), st)
      rest  == rules.share_den - rules.share_num
  IN  IF (same > 0 \/ other > 0) /\ rest > 0
      THEN { (rules.share_num * other - rest * same) \div (spread.loss * rest) }
      ELSE {}

\* m such that |net + sign*m*per| <= cap, on the side the spread pushes to;
\* net_delta_usd is a set of at most one number: none while the book is not measured.
DeltaRoom(spread, st) ==
  { (rules.max_net_delta - _delta_sign(spread.right) * net) \div rules.contract_delta :
      net \in st.net_delta_usd }

\* A plausible slip: the daily budget is not reduced by what the day has risked.
Limits_mutant(spread, requested, st) ==
  { requested,
    _max_contracts_by_loss(spread, rules.max_loss),
    _max_contracts_by_loss(spread, rules.daily_budget) }
  \cup ShareRoom(spread, st) \cup DeltaRoom(spread, st)

Limits(spread, requested, st) ==
  { requested,
    _max_contracts_by_loss(spread, rules.max_loss),
    _max_contracts_by_loss(spread, rules.daily_budget - st.premium_at_risk_today) }
  \cup ShareRoom(spread, st) \cup DeltaRoom(spread, st)

\* The contracts approved; 0 is a veto.
evaluate(spread, requested, st) ==
  LET n == Min(Limits(spread, requested, st))
  IN  IF Vetoed(spread, st) \/ n < 1 THEN 0 ELSE n

(***************************************************************************)
(* What gates 6 to 9 are documented to keep (docs/RULES.md:40-43), as      *)
(* inequalities on the book that n more contracts would make.              *)
(***************************************************************************)
Fits(spread, n, st) ==
  LET side  == DirectionOf(spread.right)
      same  == RiskOf(side, st) + n * spread.loss
      other == RiskOf(OtherSide(side), st)
  IN  /\ n * spread.loss =< rules.max_loss
      /\ st.premium_at_risk_today + n * spread.loss =< rules.daily_budget
      /\ \/ RiskOf(side, st) + other = 0
         \/ same * rules.share_den =< rules.share_num * (same + other)
      /\ \A net \in st.net_delta_usd :
           _delta_sign(spread.right) * net + n * rules.contract_delta =< rules.max_net_delta

=============================================================================
