--------------------------- MODULE SpreadSelection ---------------------------
(***************************************************************************)
(* options/select.py and options/models.py: from the chain of an expiry to *)
(* the credit vertical of a direction, or none.                            *)
(*                                                                         *)
(* Dollars are counted in half cents and quotes are in whole cents, so     *)
(* that a mid is a whole number.  A quote is [right, strike, bid, ask,     *)
(* delta, oi, volume], its delta without sign and in hundredths, and its   *)
(* expiry the one the chain was asked for.  A chain is a set of quotes;    *)
(* which of equals the code picks depends on the order of the broker's     *)
(* answer, so build_spread is the set of what it may return.  sel is       *)
(* SelectParams: fractions in hundredths, width_pct in ten-thousandths.    *)
(***************************************************************************)
EXTENDS Integers, Sequences, FiniteSets, FiniteSetsExt

MIN_VOLUME       == 10
OI_VOLUME_BYPASS == 500
Cent             == 2
Dollar           == 200

Abs(x) == IF x < 0 THEN -x ELSE x

mid(q) == (q.bid + q.ask) \div 2

is_liquid(q, sel) ==
  /\ mid(q) > 0
  /\ q.oi >= sel.min_open_interest
  /\ 100 * (q.ask - q.bid) =< sel.max_quote_spread_pct * mid(q)
  /\ q.volume >= MIN_VOLUME \/ q.oi >= OI_VOLUME_BYPASS

liquid_contracts(chain, right, sel) == { q \in chain : q.right = right /\ is_liquid(q, sel) }

delta_for(regime, sel) == IF regime = "volatil" THEN sel.short_delta_volatile ELSE sel.short_delta

\* The smallest gap between listed strikes, liquid or not; a dollar if there is none.
strike_step(chain) ==
  LET strikes == { q.strike : q \in chain }
      gaps    == { p[2] - p[1] : p \in { w \in strikes \X strikes : w[1] < w[2] } }
  IN  IF gaps = {} THEN Dollar ELSE Min(gaps)

\* Python's round(n / d): a half goes to the even number.
RoundHalfEven(n, d) ==
  LET q == n \div d
      r == 2 * (n % d)
  IN  IF r > d \/ (r = d /\ q % 2 = 1) THEN q + 1 ELSE q

\* The share of the spot, in ten-thousandths, between half a dollar and 25.
RawWidth(spot, sel) == Max({ 5000 * Dollar, Min({ 250000 * Dollar, spot * sel.width_pct }) })

width_for(spot, step, sel) == Max({ step, step * RoundHalfEven(RawWidth(spot, sel), 10000 * step) })

_nearest_by_delta(contracts, delta) ==
  { q \in contracts : \A p \in contracts : Abs(q.delta - delta) =< Abs(p.delta - delta) }

\* The liquid contracts that cap the loss of a short one, and the strike wanted.
Protecting(short, contracts) ==
  { q \in contracts : IF short.right = "put" THEN q.strike < short.strike ELSE q.strike > short.strike }
Target(short, width) == IF short.right = "put" THEN short.strike - width ELSE short.strike + width

LongLegs(short, contracts, width) ==
  LET Off(q) == Abs(q.strike - Target(short, width))
      found  == Protecting(short, contracts)
  IN  { q \in found : \A p \in found : Off(q) =< Off(p) }

Width(s)    == Abs(s.short.strike - s.long.strike)
credit(s)   == mid(s.short) - mid(s.long)
max_loss(s) == Width(s) - credit(s)

RightOf(direction) == IF direction = "bullish" THEN "put" ELSE "call"
SideOf(s)          == IF s.short.right = "put" THEN "bullish" ELSE "bearish"

\* A plausible slip: the nearest protecting leg, however far it is.
InTolerance_mutant(s, width, sel) == TRUE

InTolerance(s, width, sel) ==
  100 * Abs(s.long.strike - Target(s.short, width)) =< sel.width_tolerance * width

\* What build_spread may return: the spread alone in a set, or none.
build_spread(chain, direction, delta, width, sel) ==
  LET contracts == liquid_contracts(chain, RightOf(direction), sel)
      shorts    == _nearest_by_delta(contracts, delta)
      legs      == UNION { { [short |-> s, long |-> l] : l \in LongLegs(s, contracts, width) } : s \in shorts }
      fit       == { s \in legs : InTolerance(s, width, sel) /\ credit(s) > 0 }
      capped    == \A s \in shorts : Protecting(s, contracts) # {}
  IN  { {s} : s \in fit } \cup (IF shorts # {} /\ capped /\ fit = legs THEN {} ELSE { {} })

(***************************************************************************)
(* The same chain seen from the other side: puts for calls, and the        *)
(* strikes reflected about one.                                            *)
(***************************************************************************)
MirrorQuote(q, about) ==
  [q EXCEPT !.right = IF @ = "put" THEN "call" ELSE "put", !.strike = 2 * about - @]
MirrorChain(chain, about)   == { MirrorQuote(q, about) : q \in chain }
MirrorSpread(s, about)      == [short |-> MirrorQuote(s.short, about), long |-> MirrorQuote(s.long, about)]
MirrorSpreads(found, about) == { { MirrorSpread(s, about) : s \in f } : f \in found }

=============================================================================
