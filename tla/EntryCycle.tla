------------------------------ MODULE EntryCycle ------------------------------
(***************************************************************************)
(* One cycle of the entries job on one underlying, call by call            *)
(* (agent/loop.py run_cycle): the expiry, the spreads of both sides, the   *)
(* question to the LLM (agent/analyzer.py propose), the gates and the      *)
(* ladder of limits.  Any call may fail.                                   *)
(*                                                                         *)
(* Days are counted from today, which is 0; confidences and ratios are in  *)
(* hundredths.  What a row or an order does after it is sent is            *)
(* OrderLifecycle's subject, the gates that read the book are EntryPass's: *)
(* here a wing fills or not, and the book vetoes or not.                   *)
(***************************************************************************)
EXTENDS SpreadSelection

CONSTANTS
  Configs,       \* [mode, retry, native, fallback]: volatile_mode and the settings of the LLM
  Markets,       \* [sessions, listed]: days the exchange opens, expiries of the underlying
  EXPIRY_MIN, EXPIRY_MAX, EXPIRY_FALLBACK,      \* in sessions
  Chains,        \* chains of puts an expiry may have; those of calls are their mirror images
  About,         \* ... about this strike
  Spots,         \* sets of at most one price: none when the quote fails
  sel,           \* SelectParams, but for volatile_mode
  Answers,       \* [kind, direction, confidence]: what an LLM endpoint may do
  min_confidence, min_reward_risk,
  Requotes,      \* sets of at most one [short, long]: the quotes of both legs at a rung
  limit_step, max_steps                          \* EntryLadder

\* Days are numbered, and the broker lists finitely many.
ASSUME MarketsAssumption ==
  /\ \A m \in Markets : \A days \in {m.sessions, m.listed} : days \subseteq Int /\ IsFiniteSet(days)
  /\ EXPIRY_MIN \in Nat \ {0} /\ {EXPIRY_MAX, EXPIRY_FALLBACK} \subseteq Int

\* A chain is finite, with prices in whole cents, as those of the ladder, which does
\* not walk up; the fractions of the selection are integers in their units.
OptionQuote ==
  [right : {"put", "call"}, strike : Int, bid : Int, ask : Int, delta : Int, oi : Int, volume : Int]
ASSUME QuotesAssumption ==
  /\ About \in Int
  /\ \A c \in Chains : /\ IsFiniteSet(c) /\ c \subseteq { q \in OptionQuote : q.right = "put" }
                       /\ \A q \in c : q.bid % Cent = 0 /\ q.ask % Cent = 0
  /\ \A spot \in Spots : spot \subseteq Int /\ \A x, y \in spot : x = y
  /\ {sel.short_delta, sel.short_delta_volatile, sel.width_pct, sel.width_tolerance,
      sel.max_quote_spread_pct} \subseteq Int
  /\ \A r \in Requotes : \A p \in r :
       /\ r = {p}
       /\ \A x \in {p.short.bid, p.short.ask, p.long.bid, p.long.ask} : x \in Int /\ x % Cent = 0
  /\ limit_step \in Nat /\ limit_step % Cent = 0 /\ max_steps \in Nat

\* A confidence is one number, or none.
ASSUME AnswersAssumption ==
  /\ \A a \in Answers : a.confidence \subseteq Int /\ \A x, y \in a.confidence : x = y
  /\ \A c \in Configs : c.retry \in BOOLEAN
  /\ {min_confidence, min_reward_risk} \subseteq Int

VARIABLES
  config, pc, outcome,
  market, expiry, ahead, dead, known,    \* the lookup; dead: expiries with no spread; known: no calendar read failed
  regime, seen, bull, bear,              \* seen: what the spreads were built from; both of them, if any
  asked, proposal,                       \* answers so far, and what they came to
  wings, limits, quotes, placed          \* wings to place, limits of the first one's rungs, last quotes, wings recorded

lookup   == <<market, expiry, ahead, dead, known>>
sides    == <<regime, seen, bull, bear>>
decision == <<asked, proposal>>
placing  == <<wings, limits, quotes, placed>>
vars     == <<config, pc, outcome, lookup, sides, decision, placing>>

_ABSTAIN == [direction |-> "abstain", confidence |-> 0]
NoMarket == [sessions |-> {}, listed |-> {}]
Regimes  == {"volatil", "tranquilo"}      \* none known counts as a quiet one

Init ==
  /\ config \in Configs /\ pc = "expiry" /\ outcome = "none"
  /\ market = NoMarket /\ expiry = 0 /\ ahead = {} /\ dead = {} /\ known = TRUE
  /\ regime = "tranquilo" /\ seen = {} /\ bull = {} /\ bear = {}
  /\ asked = <<>> /\ proposal = _ABSTAIN
  /\ wings = <<>> /\ limits = <<>> /\ quotes = {} /\ placed = <<>>

End(result) == pc' = "done" /\ outcome' = result
Go(to)      == pc' = to /\ UNCHANGED outcome

-----------------------------------------------------------------------------
(***************************************************************************)
(* The expiry.                                                             *)
(***************************************************************************)
Nth(S, n) == CHOOSE d \in S : Cardinality({ e \in S : e =< d }) = n

\* A plausible slip: today counts as a session.
_session_window_mutant(sessions, min, max) ==
  LET n == Cardinality(sessions)
  IN  IF n < min THEN {} ELSE { <<Nth(sessions, min), Nth(sessions, Min({max, n}))>> }

\* The first and last day of the window, if the calendar reaches it.
_session_window(sessions, min, max) ==
  LET future == { d \in sessions : d > 0 }
      n      == Cardinality(future)
  IN  IF n < min THEN {} ELSE { <<Nth(future, min), Nth(future, Min({max, n}))>> }

\* Counted in calendar days when the calendar was not read.
listed_expiries(m, min, max, read) ==
  LET windows == IF max < min THEN {}
                 ELSE IF read THEN _session_window(m.sessions, min, max) ELSE { <<min, max>> }
  IN  { d \in m.listed : \E w \in windows : w[1] =< d /\ d =< w[2] }

\* nearest_expiry, then the signals, of which the regime is kept.
FindExpiry(m, read, r) ==
  LET found == listed_expiries(m, EXPIRY_MIN, EXPIRY_MAX, read)
  IN  /\ pc = "expiry"
      /\ IF found = {} THEN End("abstain") /\ UNCHANGED <<lookup, regime>>
         ELSE /\ Go("spreads")
              /\ market' = m /\ expiry' = Min(found) /\ known' = read /\ regime' = r
              /\ UNCHANGED <<ahead, dead>>
      /\ UNCHANGED <<config, seen, bull, bear, decision, placing>>

_width(spot, chain) == IF spot = {} THEN 5 * Dollar ELSE width_for(Max(spot), strike_step(chain), sel)

\* Both chains are read and both spreads built, or not.
Build(puts, calls, spot, exp) ==
  LET width == _width(spot, puts \cup calls)
      delta == delta_for(regime, sel)
      At(f) == { [short |-> s.short, long |-> s.long, expiry |-> exp] : s \in f }
      from  == [puts |-> puts, calls |-> calls, spot |-> spot, width |-> width]
  IN  /\ bull' \in { At(f) : f \in build_spread(puts, "bullish", delta, width, sel) }
      /\ bear' \in { At(f) : f \in build_spread(calls, "bearish", delta, width, sel) }
      /\ seen' = IF bull' \cup bear' = {} THEN {} ELSE {from}

Tradable == bull' \cup bear' # {}

ReadSpreads(puts, calls, spot) ==
  /\ pc = "spreads"
  /\ Build(puts, calls, spot, expiry)
  /\ IF Tradable THEN Go("screen") /\ UNCHANGED dead
     ELSE /\ IF EXPIRY_FALLBACK > EXPIRY_MAX THEN Go("further") ELSE End("abstain")
          /\ dead' = dead \cup {expiry}
  /\ UNCHANGED <<config, market, expiry, ahead, known, regime, decision, placing>>

\* next_expiries, if it does not fail.
LookFurther(read) ==
  /\ pc = "further"
  /\ ahead' = listed_expiries(market, EXPIRY_MAX + 1, EXPIRY_FALLBACK, read)
  /\ known' = (known /\ read)
  /\ IF ahead' = {} THEN End("abstain") ELSE Go("walk")
  /\ UNCHANGED <<config, market, expiry, dead, sides, decision, placing>>

NoFurther ==
  /\ pc = "further"
  /\ End("abstain")
  /\ UNCHANGED <<config, lookup, sides, decision, placing>>

\* The nearest of the expiries ahead; the next one if this is dead too.
WalkOn(puts, calls, spot) ==
  LET alt == Min(ahead)
  IN  /\ pc = "walk"
      /\ Build(puts, calls, spot, alt)
      /\ IF Tradable THEN Go("screen") /\ expiry' = alt /\ UNCHANGED <<ahead, dead>>
         ELSE /\ ahead' = ahead \ {alt} /\ dead' = dead \cup {alt} /\ UNCHANGED expiry
              /\ IF ahead' = {} THEN End("abstain") ELSE Go("walk")
      /\ UNCHANGED <<config, market, known, regime, decision, placing>>

\* What is not read again.
ForgetLookup ==
  market' = NoMarket /\ expiry' = 0 /\ ahead' = {} /\ dead' = {} /\ known' = TRUE /\ seen' = {}

\* The volatile regime may forbid entries.
Screen ==
  /\ pc = "screen"
  /\ IF regime = "volatil" /\ config.mode = "none" THEN End("abstain") ELSE Go("ask")
  /\ ForgetLookup
  /\ UNCHANGED <<config, regime, bull, bear, decision, placing>>

-----------------------------------------------------------------------------
(***************************************************************************)
(* The question to the LLM.  An answer is a failed call, a body with no    *)
(* content, one with blanks only, one that is no JSON object, or an        *)
(* object, whose confidence may be no number at all (the empty set).       *)
(***************************************************************************)
Directions == {"bullish", "bearish", "neutral", "abstain"}

\* Into 0..1; NaN, over which every comparison is false, ends at 1.0 as 9 does.
Clamp(confidence) == IF confidence = {} THEN 0 ELSE Max({ 0, Min({ 100, Max(confidence) }) })

_parse_proposal(answer) ==
  IF answer.kind # "object" \/ answer.direction \notin Directions THEN _ABSTAIN
  ELSE [direction |-> answer.direction, confidence |-> Clamp(answer.confidence)]

\* The OpenAI path raises on an answer without content; the native one returns it.
Raises(answer, native) == answer.kind = "error" \/ (~native /\ answer.kind \in {"empty", "blank"})

attempts == IF config.retry THEN 2 ELSE 1

Decide(answer) == Go("route") /\ proposal' = _parse_proposal(answer)

AskPrimary(answer) ==
  LET failed == Raises(answer, config.native)
  IN  /\ pc = "ask"
      /\ asked' = Append(asked, answer)
      /\ CASE failed /\ Len(asked') < attempts -> Go("ask") /\ UNCHANGED proposal
           [] IF failed THEN Len(asked') = attempts ELSE answer.kind = "empty" ->
                Go(IF config.fallback THEN "fallback" ELSE "route") /\ UNCHANGED proposal
           [] OTHER -> Decide(answer)
      /\ UNCHANGED <<config, lookup, sides, placing>>

\* Always a native endpoint; if it fails too, the proposal stays an abstention.
AskFallback(answer) ==
  /\ pc = "fallback"
  /\ asked' = Append(asked, answer)
  /\ IF Raises(answer, TRUE) \/ answer.kind = "empty" THEN Go("route") /\ UNCHANGED proposal
     ELSE Decide(answer)
  /\ UNCHANGED <<config, lookup, sides, placing>>

-----------------------------------------------------------------------------
(***************************************************************************)
(* From the proposal to the wings, and the gates.                          *)
(***************************************************************************)
\* A plausible slip: a condor is tried only if both sides are there.
Condor_mutant ==
  \/ proposal.direction = "neutral"
  \/ /\ regime = "volatil" /\ config.mode = "neutral" /\ bull # {} /\ bear # {}
     /\ proposal.direction \in {"bullish", "bearish"}

\* In a volatile regime a direction is taken for a condor.
Condor ==
  \/ proposal.direction = "neutral"
  \/ /\ regime = "volatil" /\ config.mode = "neutral"
     /\ proposal.direction \in {"bullish", "bearish"}

Wings == CASE Condor -> { <<s, t>> : s \in bull, t \in bear }
           [] proposal.direction = "bullish" /\ ~Condor -> { <<s>> : s \in bull }
           [] proposal.direction = "bearish" /\ ~Condor -> { <<s>> : s \in bear }
           [] OTHER -> {}

Route ==
  /\ pc = "route"
  /\ IF Wings = {} THEN End("abstain") /\ UNCHANGED wings ELSE Go("gates") /\ wings' \in Wings
  /\ bull' = {} /\ bear' = {}
  /\ UNCHANGED <<config, lookup, regime, seen, decision, limits, quotes, placed>>

\* Gates 0, 5b and 6 on a wing; the others may veto too.
Passes(s) ==
  /\ proposal.confidence >= min_confidence
  /\ max_loss(s) > 0
  /\ RoundHalfEven(100 * credit(s), max_loss(s)) >= min_reward_risk

Approve ==
  /\ pc = "gates"
  /\ \A i \in DOMAIN wings : Passes(wings[i])
  /\ Go("submit")
  /\ UNCHANGED <<config, lookup, sides, decision, placing>>

Veto ==
  /\ pc = "gates"
  /\ End("vetoed")
  /\ wings' = <<>>
  /\ UNCHANGED <<config, lookup, sides, decision, limits, quotes, placed>>

-----------------------------------------------------------------------------
(***************************************************************************)
(* The ladder (_place).  Quotes are sets of at most one [mid, natural].    *)
(***************************************************************************)
spread_quotes(q) ==
  { [mid     |-> Max({ 0, mid(p.short) - mid(p.long) }),
     natural |-> Max({ 0, p.short.bid - p.long.ask })] : p \in q }

\* Half a cent goes either way: it depends on how the price is represented.  Alone it
\* is a little more, and makes a cent.
Cents(x) == IF x % Cent = 0 THEN {x} ELSE { x - 1, x + 1 } \ {0}

\* A plausible slip: a rising market is chased.
Rung_mutant(k, prev, now) ==
  Max({ Cent, IF now = {} THEN prev - limit_step
              ELSE Max({ q.natural : q \in now } \cup { q.mid - limit_step * k : q \in now }) })

\* ladder_price for k > 0, before it is rounded.
Rung(k, prev, now) ==
  LET price == CASE now = {} -> prev - limit_step
                 [] now # {} /\ k >= max_steps -> Max({ q.natural : q \in now })
                 [] OTHER -> Max({ q.natural : q \in now } \cup { q.mid - limit_step * k : q \in now })
  IN  Max({ Cent, Min({ price, prev }) })

SubmitFirst ==
  /\ pc = "submit" /\ limits = <<>>
  /\ \E price \in Cents(credit(Head(wings))) : limits' = <<price>>
  /\ Go("wait")
  /\ UNCHANGED <<config, lookup, sides, decision, wings, quotes, placed>>

SubmitNext(q) ==
  LET k == Len(limits)
  IN  /\ pc = "submit" /\ k > 0
      /\ quotes' = spread_quotes(q)
      /\ \E price \in Cents(Rung(k, limits[k], quotes')) : limits' = Append(limits, price)
      /\ Go("wait")
      /\ UNCHANGED <<config, lookup, sides, decision, wings, placed>>

\* The broker dropped the order, or it was canceled still working: the next rung.
NextRung ==
  /\ pc = "wait" /\ Len(limits) =< max_steps
  /\ Go("submit")
  /\ UNCHANGED <<config, lookup, sides, decision, placing>>

Leave(result) == End(result) /\ wings' = <<>> /\ limits' = <<>> /\ quotes' = {}

Record(fill) == placed' = Append(placed, [spread |-> Head(wings), fill |-> fill])

\* Filled, at once or against the cancel, or acknowledged without an id.
Filled ==
  /\ pc = "wait"
  /\ Record("filled")
  /\ IF Len(wings) = 1 THEN Leave("opened")
     ELSE Go("submit") /\ wings' = Tail(wings) /\ limits' = <<>> /\ quotes' = {}
  /\ UNCHANGED <<config, lookup, sides, decision>>

\* Dropped at the last rung: the first wing of a condor takes the second with it.
Unfilled ==
  /\ pc = "wait" /\ Len(limits) = max_steps + 1
  /\ Leave(IF placed = <<>> THEN "unfilled" ELSE "opened")
  /\ UNCHANGED <<config, lookup, sides, decision, placed>>

\* Still working at the last rung, or its status is unreadable: the row is recorded
\* as pending.  The first wing of a condor is canceled, and the cycle reports unfilled.
Pending ==
  /\ pc = "wait"
  /\ Record("pending")
  /\ Leave(IF Len(wings) = 2 THEN "unfilled" ELSE "opened")
  /\ UNCHANGED <<config, lookup, sides, decision>>

\* A read, the state of the book, the submission or the second wait raises.
CycleRaises ==
  /\ pc \in {"expiry", "spreads", "walk", "gates", "submit", "wait"}
  /\ Leave("error")
  /\ UNCHANGED <<config, lookup, sides, decision, placed>>

\* The next pass comes to the underlying again.
NextPass ==
  /\ pc = "done"
  /\ pc' = "expiry" /\ outcome' = "none"
  /\ ForgetLookup /\ regime' = "tranquilo" /\ bull' = {} /\ bear' = {}
  /\ asked' = <<>> /\ proposal' = _ABSTAIN
  /\ wings' = <<>> /\ limits' = <<>> /\ quotes' = {} /\ placed' = <<>>
  /\ UNCHANGED config

Next ==
  \/ \E m \in Markets, read \in BOOLEAN, r \in Regimes : FindExpiry(m, read, r)
  \/ \E puts \in Chains, calls \in { MirrorChain(c, About) : c \in Chains }, spot \in Spots :
       ReadSpreads(puts, calls, spot) \/ WalkOn(puts, calls, spot)
  \/ \E read \in BOOLEAN : LookFurther(read)
  \/ NoFurther \/ Screen
  \/ \E answer \in Answers : AskPrimary(answer) \/ AskFallback(answer)
  \/ Route \/ Approve \/ Veto
  \/ SubmitFirst \/ (\E q \in Requotes : SubmitNext(q))
  \/ NextRung \/ Filled \/ Unfilled \/ Pending
  \/ CycleRaises \/ NextPass

Spec == Init /\ [][Next]_vars

-----------------------------------------------------------------------------
(***************************************************************************)
(* Properties.                                                             *)
(***************************************************************************)
Natural(s) == s.short.bid - s.long.ask

\* A spread loses less than its width, which is the width wanted give or take the
\* tolerance; that is the share of the spot, to half a strike step, unless the step
\* is more; what crossing both legs costs is bounded by the liquidity gate; no liquid
\* contract is nearer the delta; and both sides are built alike, as mirror images.
SpreadsAsAsked ==
  \A from \in seen :
    LET delta == delta_for(regime, sel)
        chain == from.puts \cup from.calls
        step  == strike_step(chain)
        Rivals(s) == { q \in chain : q.right = s.short.right /\ is_liquid(q, sel) }
        Bullish(c) == build_spread(c, "bullish", delta, from.width, sel)
        Bearish(c) == build_spread(c, "bearish", delta, from.width, sel)
    IN  /\ \A s \in bull \cup bear :
             /\ IF s \in bull THEN s.short.right = "put" /\ s.long.strike < s.short.strike
                              ELSE s.short.right = "call" /\ s.long.strike > s.short.strike
             /\ s.long.right = s.short.right
             /\ max_loss(s) < Width(s)
             /\ 100 * Abs(Width(s) - from.width) =< sel.width_tolerance * from.width
             /\ 200 * (credit(s) - Natural(s)) =< sel.max_quote_spread_pct * (mid(s.short) + mid(s.long))
             /\ \A q \in Rivals(s) : Abs(s.short.delta - delta) =< Abs(q.delta - delta)
        /\ from.spot = {} \/ from.width = step
             \/ Abs(10000 * from.width - RawWidth(Max(from.spot), sel)) =< 5000 * step
        /\ MirrorSpreads(Bullish(from.puts), About) = Bearish(MirrorChain(from.puts, About))
        /\ MirrorSpreads(Bearish(from.calls), About) = Bullish(MirrorChain(from.calls, About))

SessionsTo(d) == Cardinality({ e \in market.sessions : 0 < e /\ e =< d })

\* The spreads that are traded expire on one listed day, never today, at least the
\* minimum of days and at most the last window's sessions away.  While the calendar can be
\* read, weekends and holidays do not bring it nearer, it is the nearest of its
\* window or that one's spreads were dead, and nothing nearer past the window was
\* passed over.
ExpiryInReach ==
  pc = "screen" =>
    LET InWindow == { d \in market.listed : SessionsTo(d) >= EXPIRY_MIN }
    IN  /\ \A s \in bull \cup bear : s.expiry = expiry
        /\ expiry \in market.listed
        /\ expiry >= EXPIRY_MIN
        /\ SessionsTo(expiry) =< Max({EXPIRY_MAX, EXPIRY_FALLBACK})
        /\ known => /\ expiry \in InWindow
                    /\ Min(InWindow) \in dead \cup {expiry}
                    /\ \A d \in market.listed :
                         (d < expiry /\ SessionsTo(d) > EXPIRY_MAX) => d \in dead

Traded == { wings[i] : i \in DOMAIN wings } \cup { placed[i].spread : i \in DOMAIN placed }

\* What is traded was asked for: the last answer names a side or both, with
\* confidence enough, and every answer before it was none; in a volatile regime
\* no side is traded alone by decision; both wings of a condor stand at the gates,
\* on one expiry, and the second is placed only after the first filled; every one
\* pays for its risk.
OpenedAsDecided ==
  /\ Traded # {} =>
       LET said    == asked[Len(asked)]
           both    == said.direction = "neutral" \/ (regime = "volatil" /\ config.mode = "neutral")
           earlier == { asked[i].kind : i \in 1..(Len(asked) - 1) }
       IN  /\ said.kind = "object" /\ said.direction \in Directions \ {"abstain"}
           /\ earlier \subseteq {"error", "empty", "blank"}
           /\ Len(asked) = 3 => config.retry
           /\ ~(regime = "volatil" /\ config.mode = "none")
           /\ ~both => { SideOf(s) : s \in Traded } = {said.direction}
           /\ both /\ (wings # <<>> \/ Len(placed) = 2) =>
                /\ { SideOf(s) : s \in Traded } = {"bullish", "bearish"}
                /\ Cardinality({ s.expiry : s \in Traded }) = 1
           /\ pc # "gates" =>
                /\ min_confidence > 0 => \E x \in said.confidence : x >= min_confidence
                /\ \A s \in Traded : max_loss(s) > 0 /\ 200 * credit(s) >= (2 * min_reward_risk - 1) * max_loss(s)
  /\ Len(placed) + Len(wings) =< 2
  /\ \A i \in DOMAIN placed : (i < Len(placed) \/ wings # <<>>) => placed[i].fill = "filled"

\* Each limit of an entry asks no more than the one before it and a cent at least;
\* a rung without quotes gives up one step; one with quotes never goes below what
\* the market gives at once unless an earlier one did; and the last rung, if the
\* market is known, asks for just that.
RungsWalkDown ==
  /\ \A k \in DOMAIN limits : limits[k] >= Cent /\ limits[k] % Cent = 0
  /\ \A k \in 2..Len(limits) : limits[k] =< limits[k - 1]
  /\ Len(limits) > 1 =>
       LET last == limits[Len(limits)]
           prev == limits[Len(limits) - 1]
       IN  /\ quotes = {} => last = Max({ Cent, prev - limit_step })
           /\ \A q \in quotes : /\ last >= Min({ prev, q.natural })
                               /\ Len(limits) = max_steps + 1 => last =< Max({ Cent, q.natural })

=============================================================================
