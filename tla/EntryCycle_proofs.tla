--------------------------- MODULE EntryCycle_proofs ---------------------------
(***************************************************************************)
(* Whatever the market, the answers of the LLM and the failures of calls,  *)
(* an entry is on an expiry in reach, of what an answer decided, and at    *)
(* limits that only walk down.  The invariant has one part for each        *)
(* stretch of a cycle: the expiry, the answers, the wings, the ladder.     *)
(* What the selection gives is proved of its operators.                    *)
(***************************************************************************)
EXTENDS EntryCycle, Sums_proofs, SequenceTheorems

Spread == [short : OptionQuote, long : OptionQuote, expiry : Int]

\* The pc before an answer is asked for, and before the wings are chosen.
Looking  == {"expiry", "spreads", "further", "walk", "screen"}
Deciding == Looking \cup {"ask", "fallback", "route"}

\* Both sides are built as asked, on the same expiry.
SidesInv ==
  /\ bull \cup bear \subseteq Spread
  /\ \A s \in bull : SideOf(s) = "bullish" /\ credit(s) > 0
  /\ \A s \in bear : SideOf(s) = "bearish" /\ credit(s) > 0
  /\ \A s, t \in bull \cup bear : s.expiry = t.expiry

(***************************************************************************)
(* The expiry.                                                             *)
(***************************************************************************)
Sess(m, d) == Cardinality({ e \in m.sessions : 0 < e /\ e =< d })

\* What every expiry that may be traded satisfies.
InReach(d) ==
  /\ d \in market.listed
  /\ EXPIRY_MIN =< d /\ Sess(market, d) =< Max({EXPIRY_MAX, EXPIRY_FALLBACK})
  /\ known => EXPIRY_MIN =< Sess(market, d)

\* d is the nearest of the first window.
Nearest(d) ==
  /\ d \in market.listed
  /\ known => /\ EXPIRY_MIN =< Sess(market, d) /\ Sess(market, d) =< EXPIRY_MAX
              /\ \A e \in market.listed : EXPIRY_MIN =< Sess(market, e) => d =< e

LookupInv ==
  /\ pc \in {"spreads", "further", "walk", "screen"} =>
       market \in Markets /\ known \in BOOLEAN /\ EXPIRY_MIN =< EXPIRY_MAX /\ InReach(expiry)
  /\ pc \in {"spreads", "further"} => Nearest(expiry)
  /\ pc = "further" => expiry \in dead
  /\ pc = "walk" =>
       /\ ahead # {} /\ Nearest(expiry) /\ expiry \in dead
       /\ \A d \in ahead : InReach(d)
       /\ known => \A d \in market.listed : \A e \in ahead :
            (d < e /\ EXPIRY_MAX < Sess(market, d)) => d \in dead \cup ahead
  /\ pc = "screen" =>
       /\ \A s \in bull \cup bear : s.expiry = expiry
       /\ known => /\ \E d \in dead \cup {expiry} : Nearest(d)
                   /\ \A d \in market.listed :
                        (d < expiry /\ EXPIRY_MAX < Sess(market, d)) => d \in dead

(***************************************************************************)
(* The answers.                                                            *)
(***************************************************************************)
Mute(i) == asked[i].kind \in {"error", "empty", "blank"}

AnswersInv ==
  /\ config \in Configs /\ regime \in Regimes
  /\ asked \in Seq(Answers) /\ Len(asked) =< attempts + 1
  /\ pc \in Looking => asked = <<>>
  /\ pc = "ask" => Len(asked) < attempts
  /\ pc = "fallback" => Len(asked) =< attempts
  /\ \/ proposal = _ABSTAIN /\ (pc \in {"ask", "fallback"} => \A i \in DOMAIN asked : Mute(i))
     \/ /\ asked # <<>> /\ proposal = _parse_proposal(asked[Len(asked)])
        /\ pc \notin Looking \cup {"ask", "fallback"}
        /\ \A i \in 1..(Len(asked) - 1) : Mute(i)
  /\ pc \in {"ask", "fallback", "route"} => ~(regime = "volatil" /\ config.mode = "none")

(***************************************************************************)
(* The wings.                                                              *)
(***************************************************************************)
\* s stands alone: by decision, or as what is left of a condor.
Single(s)  == /\ s \in Spread
              /\ \/ ~Condor /\ SideOf(s) = proposal.direction
                 \/ Condor /\ wings = <<>>
Pair(s, t) == /\ Condor
              /\ {s, t} \subseteq Spread /\ SideOf(s) = "bullish" /\ SideOf(t) = "bearish"
              /\ s.expiry = t.expiry

Placed(s, fill) == [spread |-> s, fill |-> fill]
Fills           == {"filled", "pending"}

\* Nothing, or one wing or two of which the first is placed first, and filled first.
WingsStand ==
  \/ wings = <<>> /\ placed = <<>>
  \/ \E s \in Traded :
       /\ Single(s)
       /\ \/ wings = <<s>> /\ placed = <<>>
          \/ \E f \in Fills : wings = <<>> /\ placed = << Placed(s, f) >>
  \/ \E s, t \in Traded :
       /\ Pair(s, t)
       /\ \/ wings = <<s, t>> /\ placed = <<>>
          \/ wings = <<t>> /\ placed = << Placed(s, "filled") >>
          \/ \E f \in Fills : wings = <<>> /\ placed = << Placed(s, "filled"), Placed(t, f) >>

WingsInv ==
  /\ WingsStand
  /\ pc \in Deciding => wings = <<>> /\ placed = <<>>
  /\ pc = "gates" => wings # <<>> /\ placed = <<>>
  /\ pc \in {"submit", "wait"} => wings # <<>>
  /\ pc = "done" => wings = <<>>
  /\ \A s \in Traded : credit(s) > 0 /\ (pc # "gates" => Passes(s))
  /\ Traded # {} => ~(regime = "volatil" /\ config.mode = "none")

(***************************************************************************)
(* The ladder.                                                             *)
(***************************************************************************)
LadderInv ==
  /\ limits \in Seq(Int) /\ quotes \subseteq [mid : Int, natural : Int]
  /\ RungsWalkDown

CycleInv ==
  /\ pc \in Deciding \cup {"gates", "submit", "wait", "done"}
  /\ SidesInv /\ LookupInv /\ AnswersInv /\ WingsInv /\ LadderInv

-----------------------------------------------------------------------------
(***************************************************************************)
(* What build_spread returns.                                              *)
(***************************************************************************)
LEMMA BuildGives ==
  ASSUME NEW chain, NEW direction, NEW delta, NEW width,
         NEW f \in build_spread(chain, direction, delta, width, sel), NEW s \in f
  PROVE  /\ s = [short |-> s.short, long |-> s.long]
         /\ s.short \in chain /\ s.long \in chain
         /\ s.short.right = RightOf(direction) /\ s.long.right = RightOf(direction)
         /\ credit(s) > 0
<1> DEFINE contracts == liquid_contracts(chain, RightOf(direction), sel)
           shorts    == _nearest_by_delta(contracts, delta)
           legs      == UNION { { [short |-> a, long |-> l] : l \in LongLegs(a, contracts, width) } : a \in shorts }
           fit       == { a \in legs : InTolerance(a, width, sel) /\ credit(a) > 0 }
<1>1. s \in fit
  BY DEF build_spread
<1>2. PICK a \in shorts : \E l \in LongLegs(a, contracts, width) : s = [short |-> a, long |-> l]
  BY <1>1
<1>3. PICK l \in LongLegs(a, contracts, width) : s = [short |-> a, long |-> l]
  BY <1>2
<1>4. a \in contracts /\ l \in contracts
  BY <1>2, <1>3 DEF _nearest_by_delta, LongLegs, Protecting
<1> QED BY <1>1, <1>3, <1>4 DEF liquid_contracts

LEMMA MirrorQuotes ==
  ASSUME NEW c \in Chains
  PROVE  /\ c \subseteq OptionQuote
         /\ MirrorChain(c, About) \subseteq OptionQuote
<1>1. c \subseteq OptionQuote /\ About \in Int
  BY QuotesAssumption
<1>2. ASSUME NEW q \in OptionQuote PROVE MirrorQuote(q, About) \in OptionQuote
  <2>1. PICK right \in {"put", "call"}, strike \in Int :
          right = (IF q.right = "put" THEN "call" ELSE "put") /\ strike = 2 * About - q.strike
    BY <1>1 DEF OptionQuote
  <2>2. MirrorQuote(q, About) = [q EXCEPT !.right = right, !.strike = strike]
    BY <2>1 DEF MirrorQuote
  <2> QED BY <2>2 DEF OptionQuote
<1> QED BY <1>1, <1>2 DEF MirrorChain

\* Both sides are built for the expiry they were asked for.
LEMMA BuildSides ==
  ASSUME NEW puts \in Chains, NEW calls \in { MirrorChain(c, About) : c \in Chains },
         NEW spot, NEW exp \in Int, Build(puts, calls, spot, exp)
  PROVE  SidesInv' /\ \A s \in bull' \cup bear' : s.expiry = exp
<1> DEFINE At(f) == { [short |-> s.short, long |-> s.long, expiry |-> exp] : s \in f }
           width == _width(spot, puts \cup calls)
           delta == delta_for(regime, sel)
<1>1. puts \subseteq OptionQuote /\ calls \subseteq OptionQuote
  BY MirrorQuotes
<1>2. PICK f \in build_spread(puts, "bullish", delta, width, sel) : bull' = At(f)
  BY DEF Build
<1>3. PICK g \in build_spread(calls, "bearish", delta, width, sel) : bear' = At(g)
  BY DEF Build
<1> HIDE DEF width, delta
<1>4. ASSUME NEW s \in bull'
      PROVE  s \in Spread /\ SideOf(s) = "bullish" /\ credit(s) > 0 /\ s.expiry = exp
  <2>1. PICK a \in f : s = [short |-> a.short, long |-> a.long, expiry |-> exp]
    BY <1>2, <1>4
  <2>2. /\ a.short \in puts /\ a.long \in puts
        /\ a.short.right = "put" /\ credit(a) > 0
    BY <1>2, BuildGives DEF RightOf
  <2>3. credit(s) = credit(a)
    BY <2>1 DEF credit
  <2> QED BY <1>1, <2>1, <2>2, <2>3 DEF Spread, SideOf
<1>5. ASSUME NEW s \in bear'
      PROVE  s \in Spread /\ SideOf(s) = "bearish" /\ credit(s) > 0 /\ s.expiry = exp
  <2>1. PICK a \in g : s = [short |-> a.short, long |-> a.long, expiry |-> exp]
    BY <1>3, <1>5
  <2>2. /\ a.short \in calls /\ a.long \in calls
        /\ a.short.right = "call" /\ credit(a) > 0
    BY <1>3, BuildGives DEF RightOf
  <2>3. credit(s) = credit(a)
    BY <2>1 DEF credit
  <2> QED BY <1>1, <2>1, <2>2, <2>3 DEF Spread, SideOf
<1> QED BY <1>4, <1>5 DEF SidesInv

-----------------------------------------------------------------------------
(***************************************************************************)
(* The calendar.                                                           *)
(***************************************************************************)
\* Counting to a later day counts no less, and a day of the set one more.
LEMMA CountMono ==
  ASSUME NEW S, IsFiniteSet(S), S \subseteq Int, NEW a \in Int, NEW b \in Int, a =< b
  PROVE  /\ Cardinality({ e \in S : e =< a }) \in Nat
         /\ Cardinality({ e \in S : e =< a }) =< Cardinality({ e \in S : e =< b })
         /\ Cardinality({ e \in S : e =< b }) =< Cardinality(S)
         /\ b \in S /\ a < b => Cardinality({ e \in S : e =< a }) < Cardinality({ e \in S : e =< b })
<1> DEFINE upto(x) == { e \in S : e =< x }
<1>1. IsFiniteSet(upto(b)) /\ Cardinality(upto(b)) \in Nat /\ Cardinality(upto(b)) =< Cardinality(S)
  <2>1. upto(b) \in SUBSET S
    OBVIOUS
  <2> HIDE DEF upto
  <2> QED BY <2>1, FS_Subset, FS_CardinalityType
<1>2. upto(a) \in SUBSET upto(b)
  <2>1. \A e \in S : e =< a => e =< b
    OBVIOUS
  <2> QED BY <2>1
<1>3. IsFiniteSet(upto(a)) /\ Cardinality(upto(a)) \in Nat /\ Cardinality(upto(a)) =< Cardinality(upto(b))
  <2> HIDE DEF upto
  <2> QED BY <1>1, <1>2, FS_Subset, FS_CardinalityType
<1>4. ASSUME b \in S, a < b PROVE upto(a) # upto(b)
  BY <1>4
<1>5. Cardinality(upto(a)) = Cardinality(upto(b)) => upto(a) = upto(b)
  <2> HIDE DEF upto
  <2> QED BY <1>1, <1>2, FS_Subset
<1> HIDE DEF upto
<1>6. b \in S /\ a < b => Cardinality(upto(a)) < Cardinality(upto(b))
  BY <1>1, <1>3, <1>4, <1>5
<1> QED BY <1>1, <1>3, <1>6 DEF upto

\* A finite set of days has an n-th one, up to as many as there are.
LEMMA NthIs ==
  ASSUME NEW S, IsFiniteSet(S), S \subseteq Int, NEW n \in 1..Cardinality(S)
  PROVE  Nth(S, n) \in S /\ Cardinality({ e \in S : e =< Nth(S, n) }) = n
<1> DEFINE upto(x) == { e \in S : e =< x }
           A == { k \in Nat : k \in 1..Cardinality(S) => \E d \in S : Cardinality(upto(d)) = k }
<1>0. Cardinality(S) \in Nat
  BY FS_CardinalityType
<1>1. 0 \in A
  OBVIOUS
<1>2. ASSUME NEW k \in Nat, k \in A PROVE k + 1 \in A
  <2> SUFFICES ASSUME k + 1 =< Cardinality(S) PROVE \E d \in S : Cardinality(upto(d)) = k + 1
    BY <1>0
  <2>1. PICK low \in SUBSET S : /\ IsFiniteSet(low) /\ Cardinality(low) = k
                                /\ \A x \in low : \A y \in S : y =< x => y \in low
    <3>1. CASE k = 0
      BY <3>1, FS_EmptySet
    <3>2. CASE k > 0
      <4>1. PICK d \in S : Cardinality(upto(d)) = k
        BY <1>0, <1>2, <3>2
      <4>2. IsFiniteSet(upto(d)) /\ upto(d) \in SUBSET S
        BY FS_Subset
      <4>3. \A x \in upto(d) : \A y \in S : y =< x => y \in upto(d)
        BY <4>1
      <4> HIDE DEF upto
      <4> QED BY <4>1, <4>2, <4>3
    <3> QED BY <3>1, <3>2
  <2> DEFINE rest == S \ low
  <2>2. IsFiniteSet(rest) /\ rest # {} /\ rest \subseteq Int
    BY <1>0, <2>1, FS_Subset
  <2>3. PICK d \in rest : \A y \in rest : d =< y
    BY <2>2, MinIs
  <2>4. upto(d) = low \cup {d} /\ d \notin low
    <3>1. ASSUME NEW y \in low PROVE y =< d
      BY <2>1, <2>3, <3>1
    <3>2. ASSUME NEW y \in S, y =< d, y \notin low PROVE y = d
      BY <2>3, <3>2
    <3> QED BY <2>1, <2>3, <3>1, <3>2
  <2>5. Cardinality(low \cup {d}) = k + 1
    BY <2>1, <2>4, FS_AddElement
  <2> HIDE DEF upto
  <2> QED BY <2>3, <2>4, <2>5
<1>3. Nat \subseteq A
  <2> HIDE DEF A
  <2> QED BY <1>1, <1>2, NatSetInduction
<1>4. \E d \in S : Cardinality({ e \in S : e =< d }) = n
  BY <1>0, <1>3
<1> QED BY <1>4 DEF Nth

Future(m) == { d \in m.sessions : d > 0 }

LEMMA FutureIs ==
  ASSUME NEW m \in Markets
  PROVE  /\ IsFiniteSet(Future(m)) /\ Future(m) \subseteq Int /\ Cardinality(Future(m)) \in Nat
         /\ \A d : Sess(m, d) = Cardinality({ e \in Future(m) : e =< d })
         /\ m.listed \subseteq Int /\ IsFiniteSet(m.listed)
<1>1. \A days \in {m.sessions, m.listed} : days \subseteq Int /\ IsFiniteSet(days)
  BY MarketsAssumption
<1>2. Future(m) \in SUBSET m.sessions
  BY DEF Future
<1>3. IsFiniteSet(Future(m)) /\ Cardinality(Future(m)) \in Nat
  BY <1>1, <1>2, FS_Subset, FS_CardinalityType
<1>4. ASSUME NEW d PROVE Sess(m, d) = Cardinality({ e \in Future(m) : e =< d })
  <2>1. \A e \in m.sessions : e \in Int /\ (0 < e <=> e > 0)
    BY <1>1
  <2>2. { e \in m.sessions : 0 < e /\ e =< d } = { e \in Future(m) : e =< d }
    BY <2>1 DEF Future
  <2> QED BY <2>2 DEF Sess
<1> QED BY <1>1, <1>2, <1>3, <1>4

\* A later day is no fewer sessions away, and none is more sessions away than days.
LEMMA SessMono ==
  ASSUME NEW m \in Markets, NEW a \in Int, NEW b \in Int, a =< b
  PROVE  Sess(m, a) \in Nat /\ Sess(m, a) =< Sess(m, b)
<1>1. Sess(m, a) = Cardinality({ e \in Future(m) : e =< a })
      /\ Sess(m, b) = Cardinality({ e \in Future(m) : e =< b })
  BY FutureIs
<1>2. IsFiniteSet(Future(m)) /\ Future(m) \subseteq Int
  BY FutureIs
<1> QED BY <1>1, <1>2, CountMono

LEMMA SessBound ==
  ASSUME NEW m \in Markets, NEW d \in Int
  PROVE  Sess(m, d) = 0 \/ Sess(m, d) =< d
<1> DEFINE near == { e \in Future(m) : e =< d }
<1>1. \A e \in Future(m) : e \in Int /\ e > 0
  BY FutureIs DEF Future
<1>2. near \in SUBSET (1..d)
  BY <1>1
<1>3. Sess(m, d) = Cardinality(near)
  BY FutureIs
<1> HIDE DEF near
<1>4. IsFiniteSet(1..d) /\ Cardinality(1..d) = (IF 1 > d THEN 0 ELSE d - 1 + 1)
  BY FS_Interval
<1>5. Cardinality(near) \in Nat /\ Cardinality(near) =< Cardinality(1..d)
  BY <1>2, <1>4, FS_Subset, FS_CardinalityType
<1> QED BY <1>3, <1>4, <1>5

LEMMA MinOfTwo ==
  ASSUME NEW a \in Int, NEW b \in Int
  PROVE  Min({a, b}) = IF a =< b THEN a ELSE b
BY DEF Min

LEMMA MaxOfTwo ==
  ASSUME NEW a \in Int, NEW b \in Int
  PROVE  Max({a, b}) = IF a =< b THEN b ELSE a
BY DEF Max

\* The window goes from the min-th session to the max-th, or to the last one known.
LEMMA WindowIs ==
  ASSUME NEW m \in Markets, NEW min \in Nat \ {0}, NEW max \in Int, min =< max,
         NEW w \in _session_window(m.sessions, min, max)
  PROVE  /\ {w[1], w[2]} \subseteq Int
         /\ w[1] \in Future(m) /\ Sess(m, w[1]) = min
         /\ Sess(m, w[2]) =< max
<1> DEFINE n == Cardinality(Future(m))
<1>1. IsFiniteSet(Future(m)) /\ Future(m) \subseteq Int /\ n \in Nat
  BY FutureIs
<1>2. min =< n /\ w = <<Nth(Future(m), min), Nth(Future(m), Min({max, n}))>>
  BY <1>1 DEF _session_window, Future
<1>3. PICK k \in 1..n : k = Min({max, n}) /\ k =< max
  BY <1>1, <1>2, MinOfTwo
<1>4. min \in 1..n
  BY <1>1, <1>2
<1>5. /\ Nth(Future(m), min) \in Future(m)
      /\ Cardinality({ e \in Future(m) : e =< Nth(Future(m), min) }) = min
      /\ Nth(Future(m), k) \in Future(m)
      /\ Cardinality({ e \in Future(m) : e =< Nth(Future(m), k) }) = k
  BY <1>1, <1>4, NthIs
<1>6. w[1] = Nth(Future(m), min) /\ w[2] = Nth(Future(m), k)
  BY <1>2, <1>3
<1>7. Sess(m, w[1]) = min /\ Sess(m, w[2]) = k
  BY <1>5, <1>6, FutureIs
<1> QED BY <1>1, <1>3, <1>5, <1>6, <1>7

\* What is found is listed and in the window.
LEMMA Listed ==
  ASSUME NEW m \in Markets, NEW min \in Nat \ {0}, NEW max \in Int, NEW read \in BOOLEAN,
         NEW d \in listed_expiries(m, min, max, read)
  PROVE  /\ d \in m.listed /\ d \in Int
         /\ min =< max /\ min =< d
         /\ Sess(m, d) \in Nat /\ Sess(m, d) =< max
         /\ read => min =< Sess(m, d)
<1>1. d \in m.listed /\ d \in Int
  BY FutureIs DEF listed_expiries
<1>2. min =< max
  BY DEF listed_expiries
<1>3. CASE read
  <2>1. PICK w \in _session_window(m.sessions, min, max) : w[1] =< d /\ d =< w[2]
    BY <1>2, <1>3 DEF listed_expiries
  <2>2. {w[1], w[2]} \subseteq Int /\ Sess(m, w[1]) = min /\ Sess(m, w[2]) =< max
    BY <1>2, WindowIs
  <2>3. Sess(m, d) \in Nat /\ min =< Sess(m, d) /\ Sess(m, d) =< max
    <3>1. Sess(m, w[1]) =< Sess(m, d) /\ Sess(m, d) \in Nat
      BY <1>1, <2>1, <2>2, SessMono
    <3>2. Sess(m, d) =< Sess(m, w[2]) /\ Sess(m, w[2]) \in Nat
      BY <1>1, <2>1, <2>2, SessMono
    <3> QED BY <2>2, <3>1, <3>2
  <2>4. Sess(m, d) =< d
    BY <1>1, <2>3, SessBound
  <2> QED BY <1>1, <1>2, <2>3, <2>4
<1>4. CASE ~read
  <2>1. min =< d /\ d =< max
    BY <1>2, <1>4 DEF listed_expiries
  <2>2. Sess(m, d) \in Nat /\ Sess(m, d) =< d
    BY <1>1, <2>1, SessMono, SessBound
  <2> QED BY <1>1, <1>2, <1>4, <2>1, <2>2
<1> QED BY <1>3, <1>4

\* And nothing nearer, but what is fewer sessions away.
LEMMA NonePassedOver ==
  ASSUME NEW m \in Markets, NEW min \in Nat \ {0}, NEW max \in Int,
         NEW e \in listed_expiries(m, min, max, TRUE),
         NEW d \in m.listed, min =< Sess(m, d), d =< e
  PROVE  d \in listed_expiries(m, min, max, TRUE)
<1>1. min =< max
  BY DEF listed_expiries
<1>2. d \in Int /\ e \in Int
  BY FutureIs DEF listed_expiries
<1>3. PICK w \in _session_window(m.sessions, min, max) : w[1] =< e /\ e =< w[2]
  BY <1>1 DEF listed_expiries
<1>4. {w[1], w[2]} \subseteq Int /\ w[1] \in Future(m) /\ Sess(m, w[1]) = min
  BY <1>1, WindowIs
<1>5. w[1] =< d
  <2> SUFFICES ASSUME d < w[1] PROVE FALSE
    BY <1>2, <1>4
  <2>1. IsFiniteSet(Future(m)) /\ Future(m) \subseteq Int
    BY FutureIs
  <2>3. PICK a \in Future(m) : a = w[1] /\ d < a /\ a \in Int /\ d =< a
    BY <1>2, <1>4
  <2>4. Cardinality({ x \in Future(m) : x =< d }) < Cardinality({ x \in Future(m) : x =< a })
    BY <1>2, <2>1, <2>3, CountMono
  <2>2. Sess(m, d) < min /\ Sess(m, d) \in Nat
    BY <1>2, <1>4, <2>3, <2>4, FutureIs, SessMono
  <2> QED BY <2>2
<1> QED BY <1>1, <1>2, <1>3, <1>4, <1>5 DEF listed_expiries

-----------------------------------------------------------------------------
(***************************************************************************)
(* The steps of the lookup.                                                *)
(***************************************************************************)
LEMMA FindExpiryKeeps ==
  ASSUME NEW m \in Markets, NEW read \in BOOLEAN, NEW r, FindExpiry(m, read, r)
  PROVE  LookupInv'
<1> DEFINE found == listed_expiries(m, EXPIRY_MIN, EXPIRY_MAX, read)
<1>0. EXPIRY_MIN \in Nat \ {0} /\ EXPIRY_MAX \in Int /\ EXPIRY_FALLBACK \in Int
  BY MarketsAssumption
<1>1. CASE found = {}
  BY <1>1 DEF FindExpiry, End, LookupInv
<1>2. CASE found # {}
  <2>1. /\ pc' = "spreads" /\ market' = m /\ expiry' = Min(found) /\ known' = read
    BY <1>2 DEF FindExpiry, Go
  <2>2. IsFiniteSet(found) /\ found \subseteq Int
    <3>1. found \in SUBSET m.listed
      BY DEF listed_expiries
    <3> HIDE DEF found
    <3> QED BY <3>1, FutureIs, FS_Subset
  <2>3. PICK d \in found : d = Min(found) /\ \A e \in found : d =< e
    BY <1>2, <2>2, MinIs
  <2>4. /\ d \in m.listed /\ d \in Int
        /\ EXPIRY_MIN =< EXPIRY_MAX /\ EXPIRY_MIN =< d
        /\ Sess(m, d) \in Nat /\ Sess(m, d) =< EXPIRY_MAX
        /\ read => EXPIRY_MIN =< Sess(m, d)
    BY <1>0, Listed
  <2>5. ASSUME read, NEW e \in m.listed, EXPIRY_MIN =< Sess(m, e) PROVE d =< e
    <3>1. e \in Int
      BY FutureIs
    <3>2. CASE e =< d
      <4>1. read = TRUE
        BY <2>5
      <4>2. e \in found
        BY <1>0, <2>5, <3>2, <4>1, NonePassedOver
      <4> QED BY <2>3, <4>2
    <3> QED BY <2>4, <3>1, <3>2
  <2>6. InReach(d)'
    BY <1>0, <2>1, <2>4, MaxOfTwo DEF InReach, Sess
  <2>7. Nearest(d)'
    BY <2>1, <2>4, <2>5 DEF Nearest, Sess
  <2> HIDE DEF found
  <2> QED BY <2>1, <2>3, <2>4, <2>6, <2>7 DEF LookupInv
<1> QED BY <1>1, <1>2

LEMMA ReadSpreadsKeeps ==
  ASSUME LookupInv, NEW puts \in Chains, NEW calls \in { MirrorChain(c, About) : c \in Chains },
         NEW spot, ReadSpreads(puts, calls, spot)
  PROVE  SidesInv' /\ LookupInv'
<1>0. EXPIRY_MAX \in Int
  BY MarketsAssumption
<1>1. /\ pc = "spreads" /\ market \in Markets /\ known \in BOOLEAN /\ EXPIRY_MIN =< EXPIRY_MAX
      /\ InReach(expiry) /\ Nearest(expiry)
      /\ market' = market /\ known' = known /\ expiry' = expiry /\ ahead' = ahead
      /\ Build(puts, calls, spot, expiry)
  BY DEF ReadSpreads, LookupInv
<1>2. expiry \in Int
  BY <1>1, FutureIs DEF InReach
<1>3. SidesInv' /\ \A s \in bull' \cup bear' : s.expiry = expiry
  BY <1>1, <1>2, BuildSides
<1>4. InReach(expiry)' /\ Nearest(expiry)'
  BY <1>1 DEF InReach, Nearest, Sess
<1>5. CASE Tradable
  <2>1. pc' = "screen" /\ dead' = dead
    BY <1>5 DEF ReadSpreads, Go
  <2>2. ASSUME known, NEW d \in market.listed, d < expiry, EXPIRY_MAX < Sess(market, d) PROVE FALSE
    <3>1. d \in Int
      BY <1>1, FutureIs
    <3>2. Sess(market, d) \in Nat /\ Sess(market, d) =< Sess(market, expiry)
      BY <1>1, <1>2, <2>2, <3>1, SessMono
    <3>3. Sess(market, expiry) =< EXPIRY_MAX /\ Sess(market, expiry) \in Nat
      BY <1>1, <1>2, <2>2, SessMono DEF Nearest
    <3> QED BY <1>0, <2>2, <3>2, <3>3
  <2>3. \E d \in (dead \cup {expiry})' : Nearest(d)'
    BY <1>1, <1>4
  <2> QED BY <1>1, <1>3, <1>4, <2>1, <2>2, <2>3 DEF LookupInv, Sess
<1>6. CASE ~Tradable
  <2>1. pc' \in {"further", "done"} /\ expiry \in dead'
    BY <1>6 DEF ReadSpreads, Go, End
  <2> QED BY <1>1, <1>3, <1>4, <2>1 DEF LookupInv
<1> QED BY <1>5, <1>6

LEMMA LookFurtherKeeps ==
  ASSUME LookupInv, NEW read \in BOOLEAN, LookFurther(read)
  PROVE  LookupInv'
<1> DEFINE min == EXPIRY_MAX + 1
           found == listed_expiries(market, min, EXPIRY_FALLBACK, read)
<1>1. /\ pc = "further" /\ market \in Markets /\ known \in BOOLEAN /\ EXPIRY_MIN =< EXPIRY_MAX
      /\ InReach(expiry) /\ Nearest(expiry) /\ expiry \in dead
      /\ market' = market /\ expiry' = expiry /\ dead' = dead
      /\ ahead' = found /\ known' = (known /\ read)
  BY DEF LookFurther, LookupInv
<1>2. /\ EXPIRY_MIN \in Nat \ {0} /\ EXPIRY_MAX \in Int /\ EXPIRY_FALLBACK \in Int
      /\ min \in Nat \ {0} /\ EXPIRY_MIN =< min
  BY <1>1, MarketsAssumption
<1>3. CASE found = {}
  BY <1>1, <1>3 DEF LookFurther, End, LookupInv
<1>4. CASE found # {}
  <2>1. pc' = "walk"
    BY <1>1, <1>4 DEF LookFurther, Go
  <2>2. ASSUME NEW d \in found PROVE InReach(d)'
    <3>1. /\ d \in market.listed /\ d \in Int
          /\ min =< d /\ Sess(market, d) \in Nat /\ Sess(market, d) =< EXPIRY_FALLBACK
          /\ read => min =< Sess(market, d)
      BY <1>1, <1>2, Listed
    <3>2. /\ read => EXPIRY_MIN =< Sess(market, d)
          /\ Sess(market, d) =< Max({EXPIRY_MAX, EXPIRY_FALLBACK})
      BY <1>2, <3>1, MaxOfTwo
    <3>3. EXPIRY_MIN =< d
      BY <1>2, <3>1
    <3> HIDE DEF min, found
    <3> QED BY <1>1, <3>1, <3>2, <3>3 DEF InReach, Sess
  <2>3. ASSUME known', NEW d \in market.listed, NEW e \in found, d < e, EXPIRY_MAX < Sess(market, d)
        PROVE  d \in found
    <3>1. d \in Int /\ e \in Int /\ read = TRUE
      BY <1>1, <2>3, FutureIs DEF listed_expiries
    <3>2. Sess(market, d) \in Nat /\ d =< e
      BY <1>1, <2>3, <3>1, SessMono
    <3>3. min =< Sess(market, d)
      BY <1>2, <2>3, <3>2
    <3> HIDE DEF min
    <3> QED BY <1>1, <1>2, <2>3, <3>1, <3>2, <3>3, NonePassedOver
  <2>4. InReach(expiry)' /\ Nearest(expiry)'
    BY <1>1 DEF InReach, Nearest, Sess
  <2> HIDE DEF found, min
  <2> QED BY <1>1, <1>4, <2>1, <2>2, <2>3, <2>4 DEF LookupInv, Sess
<1> QED BY <1>3, <1>4

LEMMA WalkOnKeeps ==
  ASSUME LookupInv, NEW puts \in Chains, NEW calls \in { MirrorChain(c, About) : c \in Chains },
         NEW spot, WalkOn(puts, calls, spot)
  PROVE  SidesInv' /\ LookupInv'
<1>1. /\ pc = "walk" /\ market \in Markets /\ known \in BOOLEAN /\ EXPIRY_MIN =< EXPIRY_MAX
      /\ InReach(expiry) /\ Nearest(expiry) /\ expiry \in dead
      /\ ahead # {} /\ \A d \in ahead : InReach(d)
      /\ known => \A d \in market.listed : \A e \in ahead :
           (d < e /\ EXPIRY_MAX < Sess(market, d)) => d \in dead \cup ahead
      /\ market' = market /\ known' = known
  BY DEF WalkOn, LookupInv
<1>2. ahead \subseteq Int /\ IsFiniteSet(ahead)
  <2>1. ahead \in SUBSET market.listed
    BY <1>1 DEF InReach
  <2> QED BY <1>1, <2>1, FutureIs, FS_Subset
<1>3. PICK alt \in ahead : alt = Min(ahead) /\ \A e \in ahead : alt =< e
  BY <1>1, <1>2, MinIs
<1>4. Build(puts, calls, spot, alt)
  BY <1>3 DEF WalkOn
<1>5. SidesInv' /\ \A s \in bull' \cup bear' : s.expiry = alt
  BY <1>2, <1>4, BuildSides
<1>6. ASSUME NEW d, InReach(d) PROVE InReach(d)'
  BY <1>1, <1>6 DEF InReach, Sess
<1>7. Nearest(expiry) => \A d : d = expiry => Nearest(d)'
  BY <1>1 DEF Nearest, Sess
<1>8. CASE Tradable
  <2>1. pc' = "screen" /\ expiry' = alt /\ dead' = dead
    BY <1>3, <1>8 DEF WalkOn, Go
  <2>2. ASSUME known, NEW d \in market.listed, d < alt, EXPIRY_MAX < Sess(market, d) PROVE d \in dead
    <3>1. d \in dead \cup ahead
      BY <1>1, <1>3, <2>2
    <3>2. d \notin ahead
      <4>1. d \in Int
        BY <1>1, FutureIs
      <4> QED BY <1>2, <1>3, <2>2, <4>1
    <3> QED BY <3>1, <3>2
  <2>3. \E d \in (dead \cup {expiry})' : Nearest(d)'
    BY <1>1, <1>7, <2>1
  <2>4. InReach(alt)'
    BY <1>1, <1>6
  <2> QED BY <1>1, <1>5, <2>1, <2>2, <2>3, <2>4 DEF LookupInv, Sess
<1>9. CASE ~Tradable
  <2>1. /\ ahead' = ahead \ {alt} /\ dead' = dead \cup {alt} /\ expiry' = expiry
        /\ pc' = IF ahead' = {} THEN "done" ELSE "walk"
    BY <1>3, <1>9 DEF WalkOn, Go, End
  <2>2. ASSUME known, NEW d \in market.listed, NEW e \in ahead', d < e, EXPIRY_MAX < Sess(market, d)
        PROVE  d \in dead' \cup ahead'
    BY <1>1, <2>1, <2>2
  <2>3. Nearest(expiry)' /\ InReach(expiry)' /\ \A d \in ahead' : InReach(d)'
    BY <1>1, <1>6, <1>7, <2>1 DEF InReach, Nearest, Sess
  <2> QED BY <1>1, <1>5, <2>1, <2>2, <2>3 DEF LookupInv, Sess
<1> QED BY <1>8, <1>9

LEMMA ReachFollows ==
  ASSUME LookupInv
  PROVE  ExpiryInReach
<1> SUFFICES ASSUME pc = "screen" PROVE ExpiryInReach
  BY DEF ExpiryInReach
<1> DEFINE InWindow == { d \in market.listed : SessionsTo(d) >= EXPIRY_MIN }
<1>1. /\ market \in Markets /\ InReach(expiry)
      /\ \A s \in bull \cup bear : s.expiry = expiry
      /\ known => /\ \E d \in dead \cup {expiry} : Nearest(d)
                  /\ \A d \in market.listed : (d < expiry /\ EXPIRY_MAX < Sess(market, d)) => d \in dead
  BY DEF LookupInv
<1>2. \A d : SessionsTo(d) = Sess(market, d)
  BY DEF SessionsTo, Sess
<1>3. /\ market.listed \subseteq Int /\ {EXPIRY_MIN, EXPIRY_MAX} \subseteq Int
      /\ \A d \in market.listed : Sess(market, d) \in Nat
  BY <1>1, FutureIs, SessMono, MarketsAssumption
<1>4. ASSUME known PROVE expiry \in InWindow /\ Min(InWindow) \in dead \cup {expiry}
  <2>1. PICK d \in dead \cup {expiry} : Nearest(d)
    BY <1>1, <1>4
  <2>2. d \in InWindow /\ \A e \in InWindow : d =< e
    BY <1>2, <1>3, <1>4, <2>1 DEF Nearest
  <2>3. Min(InWindow) = d
    <3>1. InWindow \subseteq Int
      BY <1>3
    <3> HIDE DEF InWindow
    <3>2. PICK least \in InWindow : least = Min(InWindow) /\ \A e \in InWindow : least =< e
      BY <2>2 DEF Min
    <3>3. least =< d /\ d =< least /\ least \in Int /\ d \in Int
      BY <2>2, <3>1, <3>2
    <3> QED BY <3>2, <3>3
  <2>4. expiry \in InWindow
    BY <1>1, <1>2, <1>3, <1>4 DEF InReach
  <2> QED BY <2>1, <2>3, <2>4
<1>5. /\ expiry \in market.listed /\ expiry >= EXPIRY_MIN
      /\ SessionsTo(expiry) =< Max({EXPIRY_MAX, EXPIRY_FALLBACK})
  BY <1>1, <1>2, <1>3 DEF InReach
<1>6. known => \A d \in market.listed : (d < expiry /\ SessionsTo(d) > EXPIRY_MAX) => d \in dead
  BY <1>1, <1>2, <1>3
<1> HIDE DEF InWindow
<1>7. \/ pc # "screen"
      \/ /\ \A s \in bull \cup bear : s.expiry = expiry
         /\ expiry \in market.listed /\ expiry >= EXPIRY_MIN
         /\ SessionsTo(expiry) =< Max({EXPIRY_MAX, EXPIRY_FALLBACK})
         /\ known => /\ expiry \in InWindow /\ Min(InWindow) \in dead \cup {expiry}
                     /\ \A d \in market.listed : (d < expiry /\ SessionsTo(d) > EXPIRY_MAX) => d \in dead
  BY <1>1, <1>4, <1>5, <1>6
<1> QED BY <1>7 DEF ExpiryInReach, InWindow

-----------------------------------------------------------------------------
(***************************************************************************)
(* The answers.                                                            *)
(***************************************************************************)
LEMMA AskedOnce ==
  ASSUME AnswersInv, NEW answer \in Answers, asked' = Append(asked, answer)
  PROVE  /\ asked' \in Seq(Answers) /\ Len(asked') = Len(asked) + 1 /\ Len(asked) \in Nat
         /\ asked' # <<>> /\ asked'[Len(asked')] = answer
         /\ \A i \in 1..Len(asked) : asked'[i] = asked[i]
         /\ DOMAIN asked = 1..Len(asked) /\ DOMAIN asked' = 1..(Len(asked) + 1)
<1>1. asked \in Seq(Answers)
  BY DEF AnswersInv
<1> QED BY <1>1

LEMMA AskPrimaryKeeps ==
  ASSUME AnswersInv, NEW answer \in Answers, AskPrimary(answer)
  PROVE  AnswersInv' /\ pc' \in {"ask", "fallback", "route"}
<1> DEFINE failed == Raises(answer, config.native)
<1>1. /\ pc = "ask" /\ asked' = Append(asked, answer)
      /\ UNCHANGED <<config, regime>>
  BY DEF AskPrimary, sides
<1>2. /\ proposal = _ABSTAIN /\ \A i \in DOMAIN asked : Mute(i)
      /\ Len(asked) < attempts /\ attempts \in {1, 2} /\ attempts' = attempts
      /\ ~(regime = "volatil" /\ config.mode = "none")
      /\ config \in Configs /\ regime \in Regimes
  BY <1>1 DEF AnswersInv, attempts
<1>3. /\ asked' \in Seq(Answers) /\ Len(asked') = Len(asked) + 1 /\ Len(asked) \in Nat
      /\ asked' # <<>> /\ asked'[Len(asked')] = answer
      /\ \A i \in 1..Len(asked) : asked'[i] = asked[i]
      /\ DOMAIN asked = 1..Len(asked) /\ DOMAIN asked' = 1..(Len(asked) + 1)
  BY <1>1, AskedOnce
<1>4. \A i \in 1..Len(asked) : Mute(i)'
  BY <1>2, <1>3 DEF Mute
<1>5. ASSUME answer.kind \in {"error", "empty", "blank"} PROVE \A i \in DOMAIN asked' : Mute(i)'
  <2>1. \A i : i = Len(asked) + 1 => Mute(i)'
    BY <1>3, <1>5 DEF Mute
  <2> QED BY <1>3, <1>4, <2>1
<1>6. failed => answer.kind \in {"error", "empty", "blank"}
  BY DEF Raises
<1> HIDE DEF failed
<1>7. CASE failed /\ Len(asked') < attempts
  <2>1. pc' = "ask" /\ proposal' = proposal
    BY <1>7 DEF AskPrimary, Go, failed
  <2> QED BY <1>1, <1>2, <1>3, <1>5, <1>6, <1>7, <2>1 DEF AnswersInv, Looking
<1>8. CASE IF failed THEN Len(asked') = attempts ELSE answer.kind = "empty"
  <2>1. pc' \in {"fallback", "route"} /\ proposal' = proposal
    BY <1>2, <1>3, <1>8 DEF AskPrimary, Go, failed
  <2>2. \A i \in DOMAIN asked' : Mute(i)'
    BY <1>5, <1>6, <1>8
  <2> QED BY <1>1, <1>2, <1>3, <2>1, <2>2 DEF AnswersInv, Looking
<1>9. CASE ~failed /\ answer.kind # "empty"
  <2>1. pc' = "route" /\ proposal' = _parse_proposal(answer)
    BY <1>9 DEF AskPrimary, Decide, Go, failed
  <2> QED BY <1>1, <1>2, <1>3, <1>4, <2>1 DEF AnswersInv, Looking
<1>10. failed => Len(asked') < attempts \/ Len(asked') = attempts
  BY <1>2, <1>3
<1> QED BY <1>7, <1>8, <1>9, <1>10

LEMMA AskFallbackKeeps ==
  ASSUME AnswersInv, NEW answer \in Answers, AskFallback(answer)
  PROVE  AnswersInv' /\ pc' = "route"
<1>1. /\ pc = "fallback" /\ asked' = Append(asked, answer) /\ pc' = "route"
      /\ UNCHANGED <<config, regime>>
      /\ proposal' = proposal \/ proposal' = _parse_proposal(answer)
  BY DEF AskFallback, sides, Decide, Go
<1>2. /\ proposal = _ABSTAIN /\ \A i \in DOMAIN asked : Mute(i)
      /\ Len(asked) =< attempts /\ attempts \in {1, 2} /\ attempts' = attempts
      /\ ~(regime = "volatil" /\ config.mode = "none")
      /\ config \in Configs /\ regime \in Regimes
  BY <1>1 DEF AnswersInv, attempts
<1>3. /\ asked' \in Seq(Answers) /\ Len(asked') = Len(asked) + 1 /\ Len(asked) \in Nat
      /\ asked' # <<>> /\ asked'[Len(asked')] = answer
      /\ \A i \in 1..Len(asked) : asked'[i] = asked[i]
      /\ DOMAIN asked = 1..Len(asked) /\ DOMAIN asked' = 1..(Len(asked) + 1)
  BY <1>1, AskedOnce
<1>4. \A i \in 1..(Len(asked') - 1) : Mute(i)'
  BY <1>2, <1>3 DEF Mute
<1> QED BY <1>1, <1>2, <1>3, <1>4 DEF AnswersInv, Looking

\* The other steps ask nothing.
LEMMA AnswersKept ==
  ASSUME AnswersInv, UNCHANGED <<config, decision>>, regime' \in Regimes,
         pc \in Looking => pc' \in Looking \cup {"ask", "done"},
         pc \notin Looking => pc' \in {"gates", "submit", "wait", "done"},
         pc' = "ask" => ~(regime' = "volatil" /\ config.mode = "none")
  PROVE  AnswersInv'
<1>1. /\ UNCHANGED <<config, asked, proposal>> /\ attempts' = attempts /\ attempts \in {1, 2}
      /\ \A i : Mute(i)' = Mute(i)
  BY DEF decision, attempts, Mute
<1>2. CASE pc \in Looking
  <2>1. asked = <<>> /\ proposal = _ABSTAIN /\ Len(asked) = 0 /\ DOMAIN asked = {}
    BY <1>2 DEF AnswersInv
  <2> QED BY <1>1, <1>2, <2>1 DEF AnswersInv, Looking
<1>3. CASE pc \notin Looking
  BY <1>1, <1>3 DEF AnswersInv, Looking
<1> QED BY <1>2, <1>3

-----------------------------------------------------------------------------
(***************************************************************************)
(* The wings.                                                              *)
(***************************************************************************)
TradedOf(w, p) == { w[i] : i \in DOMAIN w } \cup { p[i].spread : i \in DOMAIN p }

LEMMA TradedIs ==
  /\ Traded = TradedOf(wings, placed) /\ Traded' = TradedOf(wings', placed')
  /\ TradedOf(<<>>, <<>>) = {}
  /\ \A s : TradedOf(<<s>>, <<>>) = {s}
  /\ \A s, f : TradedOf(<<>>, << Placed(s, f) >>) = {s}
  /\ \A s, t : TradedOf(<<s, t>>, <<>>) = {s, t}
  /\ \A s, t, f : TradedOf(<<t>>, << Placed(s, f) >>) = {s, t}
  /\ \A s, t, f, g : TradedOf(<<>>, << Placed(s, f), Placed(t, g) >>) = {s, t}
<1>1. /\ DOMAIN <<>> = {} /\ \A x : DOMAIN <<x>> = {1} /\ <<x>>[1] = x
      /\ \A x, y : DOMAIN <<x, y>> = {1, 2} /\ <<x, y>>[1] = x /\ <<x, y>>[2] = y
  OBVIOUS
<1>2. \A s, f : Placed(s, f).spread = s
  BY DEF Placed
<1> QED BY <1>1, <1>2 DEF Traded, TradedOf

\* While wings are left to place, it is one or two of them, or the second of two.
LEMMA Standing ==
  ASSUME WingsInv, wings # <<>>
  PROVE  \/ \E s \in Spread : Single(s) /\ wings = <<s>> /\ placed = <<>>
         \/ \E s, t \in Spread : Pair(s, t) /\ wings = <<s, t>> /\ placed = <<>>
         \/ \E s, t \in Spread : Pair(s, t) /\ wings = <<t>> /\ placed = << Placed(s, "filled") >>
BY DEF WingsInv, WingsStand, Single, Pair

\* What a step leaves of the wings stays good.
LEMMA WingsKept ==
  ASSUME WingsInv, UNCHANGED <<config, regime, proposal>>, WingsStand', Traded' \subseteq Traded,
         pc = "gates" /\ pc' # "gates" => \A s \in Traded' : Passes(s),
         pc' \in {"submit", "wait"} => wings' # <<>>,
         pc' = "done" => wings' = <<>>,
         pc' = "gates" => wings' # <<>> /\ placed' = <<>>,
         pc' \in Deciding => wings' = <<>> /\ placed' = <<>>
  PROVE  WingsInv'
<1>1. \A s : Passes(s)' <=> Passes(s)
  BY DEF Passes
<1>2. ASSUME NEW s \in Traded' PROVE credit(s) > 0 /\ (pc' # "gates" => Passes(s))
  BY <1>2 DEF WingsInv
<1> QED BY <1>1, <1>2 DEF WingsInv

\* Nothing more is placed: what was placed stands.
LEMMA LeavingKept ==
  ASSUME WingsInv, UNCHANGED <<config, regime, proposal, placed>>, wings' = <<>>, pc' = "done"
  PROVE  WingsInv'
<1>1. \A s, t : Pair(s, t) => Single(s)'
  BY DEF Pair, Single, Condor
<1>2. WingsStand' /\ Traded' \subseteq Traded /\ (pc = "gates" => Traded' = {})
  <2>1. CASE placed = <<>>
    <3>1. Traded' = {}
      BY <2>1, TradedIs
    <3> QED BY <2>1, <3>1 DEF WingsStand
  <2>2. CASE wings = <<>>
    <3>1. WingsStand' /\ Traded' = Traded
      BY <2>2, TradedIs DEF WingsInv, WingsStand, Single, Pair, Condor
    <3> QED BY <2>2, <3>1 DEF WingsInv
  <2>3. ASSUME NEW s \in Spread, NEW t \in Spread,
               Pair(s, t), wings = <<t>>, placed = << Placed(s, "filled") >>
        PROVE  WingsStand' /\ Traded' \subseteq Traded /\ pc # "gates"
    <3>1. Traded = {s, t} /\ Traded' = {s}
      BY <2>3, TradedIs
    <3>2. Single(s)' /\ "filled" \in Fills
      BY <1>1, <2>3 DEF Fills
    <3>3. placed # <<>>
      BY <2>3
    <3> QED BY <2>3, <3>1, <3>2, <3>3 DEF WingsStand, WingsInv
  <2> QED BY <2>1, <2>2, <2>3, Standing
<1> QED BY <1>2, WingsKept DEF Deciding, Looking

LEMMA RouteKeeps ==
  ASSUME SidesInv, AnswersInv, WingsInv, Route
  PROVE  WingsInv'
<1>1. /\ pc = "route" /\ wings = <<>> /\ placed = <<>> /\ UNCHANGED <<config, regime, proposal, placed>>
      /\ ~(regime = "volatil" /\ config.mode = "none")
  BY DEF Route, decision, WingsInv, Deciding, AnswersInv
<1>2. CASE Wings = {}
  BY <1>1, <1>2, LeavingKept DEF Route, End
<1>3. ASSUME NEW w \in Wings, wings' = w, pc' = "gates"
      PROVE  WingsInv'
  <2>1. CASE Condor
    <3>1. PICK s \in bull, t \in bear : w = <<s, t>>
      BY <1>3, <2>1 DEF Wings
    <3>2. Pair(s, t)' /\ credit(s) > 0 /\ credit(t) > 0
      BY <1>1, <2>1 DEF SidesInv, Pair, Condor
    <3>3. Traded' = {s, t}
      BY <1>1, <1>3, <3>1, TradedIs
    <3> QED BY <1>1, <1>3, <3>1, <3>2, <3>3 DEF WingsInv, WingsStand, Deciding, Looking
  <2>2. CASE ~Condor
    <3>1. PICK s \in bull \cup bear : w = <<s>> /\ SideOf(s) = proposal.direction
      BY <1>3, <2>2 DEF Wings, Condor, SidesInv
    <3>2. Single(s)' /\ credit(s) > 0
      BY <1>1, <2>2, <3>1 DEF SidesInv, Single, Condor
    <3>3. Traded' = {s}
      BY <1>1, <1>3, <3>1, TradedIs
    <3> QED BY <1>1, <1>3, <3>1, <3>2, <3>3 DEF WingsInv, WingsStand, Deciding, Looking
  <2> QED BY <2>1, <2>2
<1> QED BY <1>2, <1>3 DEF Route, Go

LEMMA ApproveKeeps ==
  ASSUME WingsInv, Approve
  PROVE  WingsInv'
<1>1. /\ pc = "gates" /\ pc' = "submit" /\ UNCHANGED <<config, regime, proposal, wings, placed>>
      /\ \A i \in DOMAIN wings : Passes(wings[i])
      /\ wings # <<>> /\ placed = <<>>
  BY DEF Approve, Go, sides, decision, placing, WingsInv
<1>2. WingsStand' /\ Traded' = Traded
  BY <1>1 DEF WingsInv, WingsStand, Traded, Single, Pair, Condor
<1>3. \A s \in Traded : Passes(s)
  BY <1>1 DEF Traded
<1> QED BY <1>1, <1>2, <1>3, WingsKept DEF Deciding, Looking

LEMMA SmallSequences ==
  ASSUME NEW x, NEW y
  PROVE  /\ Head(<<x>>) = x /\ Head(<<x, y>>) = x /\ Tail(<<x, y>>) = <<y>>
         /\ Append(<<>>, x) = <<x>> /\ Append(<<x>>, y) = <<x, y>>
         /\ <<x>> # <<>> /\ Len(<<x>>) = 1 /\ Len(<<x, y>>) = 2
<1>1. <<x>> \in Seq({x, y}) /\ <<x, y>> \in Seq({x, y}) /\ Len(<<x, y>>) = 2 /\ <<x, y>>[2] = y
  OBVIOUS
<1>2. Tail(<<x, y>>) \in Seq({x, y}) /\ Len(Tail(<<x, y>>)) = 1 /\ Tail(<<x, y>>)[1] = y
  BY <1>1
<1>3. Append(<<x>>, y) \in Seq({x, y}) /\ Len(Append(<<x>>, y)) = 2
      /\ Append(<<x>>, y)[1] = x /\ Append(<<x>>, y)[2] = y
  <2>1. PICK s \in Seq({x, y}) : s = <<x>> /\ Len(s) = 1 /\ s[1] = x
    BY <1>1
  <2>2. Append(s, y) \in Seq({x, y}) /\ Len(Append(s, y)) = 2 /\ Append(s, y)[1] = x /\ Append(s, y)[2] = y
    BY <2>1, AppendProperties
  <2> QED BY <2>1, <2>2
<1>4. Tail(<<x, y>>) = <<y>>
  BY <1>2
<1>5. Append(<<x>>, y) = <<x, y>>
  <2>1. \A s \in Seq({x, y}) : Len(s) = 2 => s = <<s[1], s[2]>>
    OBVIOUS
  <2> QED BY <1>3, <2>1
<1>6. /\ Head(<<x>>) = x /\ Head(<<x, y>>) = x /\ Append(<<>>, x) = <<x>>
      /\ <<x>> # <<>> /\ Len(<<x>>) = 1 /\ Len(<<x, y>>) = 2
  OBVIOUS
<1> QED BY <1>4, <1>5, <1>6

\* The first of the wings is placed, and the second is left only if it filled.
LEMMA RecordKeeps ==
  ASSUME WingsInv, pc = "wait", UNCHANGED <<config, regime, proposal>>, NEW f \in Fills, Record(f),
         \/ pc' = "done" /\ wings' = <<>> /\ (f = "filled" => Len(wings) = 1)
         \/ pc' = "submit" /\ wings' = Tail(wings) /\ f = "filled" /\ Len(wings) # 1
  PROVE  WingsInv'
<1>1. wings # <<>>
  BY DEF WingsInv
<1>2. placed' = Append(placed, Placed(Head(wings), f))
  BY DEF Record, Placed
<1>3. pc' \notin Deciding /\ pc' # "gates" /\ "filled" \in Fills
  BY DEF Deciding, Looking, Fills
<1>4. ASSUME NEW s \in Spread, Single(s), wings = <<s>>, placed = <<>> PROVE WingsInv'
  <2>1. pc' = "done" /\ wings' = <<>> /\ placed' = << Placed(s, f) >>
    BY SmallSequences, <1>2, <1>4
  <2>2. Traded' = {s} /\ Traded = {s} /\ Single(s)'
    BY <1>4, <2>1, TradedIs DEF Single, Condor
  <2>3. WingsStand'
    BY <2>1, <2>2 DEF WingsStand
  <2> QED BY <1>3, <2>1, <2>2, <2>3, WingsKept
<1>5. ASSUME NEW s \in Spread, NEW t \in Spread, Pair(s, t), wings = <<s, t>>, placed = <<>> PROVE WingsInv'
  <2>1. placed' = << Placed(s, f) >> /\ Traded = {s, t}
    BY SmallSequences, <1>2, <1>5, TradedIs
  <2>2. CASE pc' = "done" /\ wings' = <<>>
    <3>1. Traded' = {s} /\ Single(s)'
      BY <1>5, <2>1, <2>2, TradedIs DEF Single, Pair, Condor
    <3>2. WingsStand'
      BY <2>1, <2>2, <3>1 DEF WingsStand
    <3> QED BY <1>3, <2>1, <2>2, <3>1, <3>2, WingsKept
  <2>3. CASE pc' = "submit" /\ wings' = Tail(wings) /\ f = "filled"
    <3>1. wings' = <<t>>
      BY SmallSequences, <1>5, <2>3
    <3>2. Traded' = {s, t} /\ Pair(s, t)'
      BY <1>5, <2>1, <2>3, <3>1, TradedIs DEF Pair, Condor
    <3>3. WingsStand'
      BY <2>1, <2>3, <3>1, <3>2 DEF WingsStand
    <3> QED BY SmallSequences, <1>3, <2>1, <2>3, <3>1, <3>2, <3>3, WingsKept
  <2> QED BY <2>2, <2>3
<1>6. ASSUME NEW s \in Spread, NEW t \in Spread,
             Pair(s, t), wings = <<t>>, placed = << Placed(s, "filled") >>
      PROVE  WingsInv'
  <2>1. pc' = "done" /\ wings' = <<>> /\ placed' = << Placed(s, "filled"), Placed(t, f) >>
    <3>1. Len(wings) = 1 /\ Head(wings) = t
      BY SmallSequences, <1>6
    <3>2. Append(<< Placed(s, "filled") >>, Placed(t, f)) = << Placed(s, "filled"), Placed(t, f) >>
      BY SmallSequences
    <3> QED BY <1>2, <1>6, <3>1, <3>2
  <2>2. Traded' = {s, t} /\ Traded = {s, t} /\ Pair(s, t)'
    BY <1>6, <2>1, TradedIs DEF Pair, Condor
  <2>3. WingsStand'
    BY <2>1, <2>2 DEF WingsStand
  <2> QED BY <1>3, <2>1, <2>2, <2>3, WingsKept
<1> QED BY <1>1, <1>4, <1>5, <1>6, Standing

\* The other steps leave the wings alone.
LEMMA WingsAlone ==
  ASSUME WingsInv, UNCHANGED <<wings, placed>>,
         \/ pc \in Deciding /\ pc' \in Deciding \cup {"done"}
         \/ pc \in {"submit", "wait"} /\ pc' \in {"submit", "wait"} /\ UNCHANGED <<config, regime, proposal>>
  PROVE  WingsInv'
<1>1. CASE pc \in Deciding /\ pc' \in Deciding \cup {"done"}
  <2>1. wings' = <<>> /\ placed' = <<>> /\ Traded' = {}
    BY <1>1, TradedIs DEF WingsInv
  <2> QED BY <1>1, <2>1 DEF WingsInv, WingsStand, Deciding, Looking
<1>2. CASE pc \in {"submit", "wait"} /\ pc' \in {"submit", "wait"} /\ UNCHANGED <<config, regime, proposal>>
  <2>1. WingsStand' /\ Traded' = Traded
    BY <1>2 DEF WingsInv, WingsStand, Traded, Single, Pair, Condor
  <2> QED BY <1>2, <2>1, WingsKept DEF WingsInv, Deciding, Looking
<1> QED BY <1>1, <1>2

(***************************************************************************)
(* What is traded was asked for.                                           *)
(***************************************************************************)
\* To half a unit, the ratio is the quotient.
LEMMA RatioHolds ==
  ASSUME NEW n \in Int, NEW d \in Nat \ {0}, NEW least \in Int, RoundHalfEven(n, d) >= least
  PROVE  2 * n >= (2 * least - 1) * d
<1>1. PICK q \in Int : q = n \div d /\ q * d =< n /\ n < q * d + d
  BY DivisionIs
<1>2. PICK r \in Int : r = n % d /\ n = (n \div d) * d + (n % d)
  BY RestIs
<1>3. PICK x \in Int : x = q * d
  OBVIOUS
<1>4. n = x + r
  BY <1>1, <1>2, <1>3
<1>5. (2 * r >= d /\ q + 1 >= least) \/ q >= least
  BY <1>1, <1>2 DEF RoundHalfEven
<1>6. PICK y \in Int : y = least * d
  OBVIOUS
<1>7. (2 * least - 1) * d = 2 * y - d
  BY <1>6
<1>8. CASE q >= least
  <2>1. y =< x
    BY <1>3, <1>6, <1>8, ProductMono
  <2> QED BY <1>1, <1>3, <1>7, <2>1
<1>9. CASE 2 * r >= d /\ q + 1 >= least
  <2>1. y =< (q + 1) * d
    BY <1>6, <1>9, ProductMono
  <2>2. (q + 1) * d = x + d
    BY <1>3
  <2> QED BY <1>4, <1>7, <1>9, <2>1, <2>2
<1> QED BY <1>5, <1>8, <1>9

LEMMA SpreadMoney ==
  ASSUME NEW s \in Spread
  PROVE  credit(s) \in Int /\ max_loss(s) \in Int
<1>1. /\ {s.short.bid, s.short.ask, s.short.strike} \subseteq Int
      /\ {s.long.bid, s.long.ask, s.long.strike} \subseteq Int
  BY DEF Spread, OptionQuote
<1>2. mid(s.short) \in Int /\ mid(s.long) \in Int
  BY <1>1 DEF mid
<1>3. Width(s) \in Int
  BY <1>1 DEF Width, Abs
<1> QED BY <1>2, <1>3 DEF credit, max_loss

\* The proposal of a trade is what the last answer says.
LEMMA TradedWasSaid ==
  ASSUME AnswersInv, WingsInv, Traded # {}
  PROVE  /\ asked # <<>> /\ asked \in Seq(Answers) /\ Len(asked) \in Nat \ {0}
         /\ asked[Len(asked)].kind = "object"
         /\ asked[Len(asked)].direction = proposal.direction
         /\ proposal.direction \in {"bullish", "bearish", "neutral"}
         /\ proposal.confidence = Clamp(asked[Len(asked)].confidence)
         /\ { asked[i].kind : i \in 1..(Len(asked) - 1) } \subseteq {"error", "empty", "blank"}
         /\ Traded \subseteq Spread
<1>1. /\ proposal.direction \in {"bullish", "bearish", "neutral"}
      /\ Traded \subseteq Spread
  <2>1. ASSUME NEW s, Single(s) PROVE proposal.direction \in {"bullish", "bearish", "neutral"}
    BY <2>1 DEF Single, Condor, SideOf
  <2>2. ASSUME NEW s, NEW t, Pair(s, t) PROVE proposal.direction \in {"bullish", "bearish", "neutral"}
    BY <2>2 DEF Pair, Condor
  <2>3. CASE wings = <<>> /\ placed = <<>>
    BY <2>3, TradedIs
  <2>4. ASSUME NEW s \in Traded, Single(s),
               \/ wings = <<s>> /\ placed = <<>>
               \/ \E f \in Fills : wings = <<>> /\ placed = << Placed(s, f) >>
        PROVE  Traded = {s} /\ s \in Spread
    BY <2>4, TradedIs DEF Single
  <2>5. ASSUME NEW s \in Traded, NEW t \in Traded, Pair(s, t),
               \/ wings = <<s, t>> /\ placed = <<>>
               \/ wings = <<t>> /\ placed = << Placed(s, "filled") >>
               \/ \E f \in Fills : wings = <<>> /\ placed = << Placed(s, "filled"), Placed(t, f) >>
        PROVE  Traded = {s, t} /\ {s, t} \subseteq Spread
    BY <2>5, TradedIs DEF Pair
  <2>6. WingsStand
    BY DEF WingsInv
  <2>7. Traded \subseteq Spread
    BY <2>3, <2>4, <2>5, <2>6 DEF WingsStand
  <2>8. proposal.direction \in {"bullish", "bearish", "neutral"}
    BY <2>1, <2>2, <2>3, <2>6 DEF WingsStand
  <2> QED BY <2>7, <2>8
<1>2. proposal # _ABSTAIN
  BY <1>1 DEF _ABSTAIN
<1>3. /\ asked # <<>> /\ asked \in Seq(Answers) /\ proposal = _parse_proposal(asked[Len(asked)])
      /\ \A i \in 1..(Len(asked) - 1) : Mute(i)
  BY <1>2 DEF AnswersInv
<1>4. Len(asked) \in Nat \ {0}
  BY <1>3, EmptySeq
<1>5. PICK said : said = asked[Len(asked)]
  OBVIOUS
<1>6. /\ said.kind = "object" /\ said.direction = proposal.direction
      /\ proposal.confidence = Clamp(said.confidence)
  BY <1>2, <1>3, <1>5 DEF _parse_proposal
<1> QED BY <1>1, <1>3, <1>4, <1>5, <1>6 DEF Mute

LEMMA DecidedFollows ==
  ASSUME AnswersInv, WingsInv
  PROVE  OpenedAsDecided
<1> DEFINE said    == asked[Len(asked)]
           both    == said.direction = "neutral" \/ (regime = "volatil" /\ config.mode = "neutral")
           sideset == { SideOf(s) : s \in Traded }
           days    == { s.expiry : s \in Traded }
           paid    == \A s \in Traded : max_loss(s) > 0 /\ 200 * credit(s) >= (2 * min_reward_risk - 1) * max_loss(s)
<1>1. ASSUME Traded # {}
      PROVE  /\ said.kind = "object" /\ said.direction \in Directions \ {"abstain"}
             /\ { asked[i].kind : i \in 1..(Len(asked) - 1) } \subseteq {"error", "empty", "blank"}
             /\ Len(asked) = 3 => config.retry
             /\ ~(regime = "volatil" /\ config.mode = "none")
             /\ said.direction = proposal.direction
             /\ proposal.confidence = Clamp(said.confidence)
             /\ both <=> Condor
             /\ said \in Answers
  <2>1. /\ asked \in Seq(Answers) /\ Len(asked) \in Nat \ {0}
        /\ said.kind = "object" /\ said.direction = proposal.direction
        /\ proposal.direction \in {"bullish", "bearish", "neutral"}
        /\ proposal.confidence = Clamp(said.confidence)
        /\ { asked[i].kind : i \in 1..(Len(asked) - 1) } \subseteq {"error", "empty", "blank"}
    BY <1>1, TradedWasSaid
  <2>2. said \in Answers
    BY <2>1
  <2>3. Len(asked) = 3 => config.retry
    BY DEF AnswersInv, attempts
  <2>4. ~(regime = "volatil" /\ config.mode = "none")
    BY <1>1 DEF WingsInv
  <2>5. both <=> Condor
    BY <2>1 DEF Condor
  <2> HIDE DEF both
  <2> QED BY <2>1, <2>2, <2>3, <2>4, <2>5 DEF Directions
<1>2. ASSUME Traded # {}, pc # "gates"
      PROVE  (min_confidence > 0 => \E x \in said.confidence : x >= min_confidence) /\ paid
  <2>1. min_confidence \in Int /\ min_reward_risk \in Int
    BY AnswersAssumption
  <2>2. \A s \in Traded : Passes(s)
    BY <1>2 DEF WingsInv
  <2>3. proposal.confidence >= min_confidence
    BY <1>2, <2>2 DEF Passes
  <2>4. ASSUME min_confidence > 0 PROVE \E x \in said.confidence : x >= min_confidence
    <3>1. /\ said.confidence \subseteq Int /\ \A x, y \in said.confidence : x = y
          /\ Clamp(said.confidence) >= min_confidence
      BY <1>1, <1>2, <2>3, AnswersAssumption
    <3>2. said.confidence # {}
      BY <2>1, <2>4, <3>1 DEF Clamp
    <3>3. PICK x \in said.confidence : said.confidence = {x} /\ x \in Int
      BY <3>1, <3>2
    <3>4. Clamp({x}) = Max({0, Min({100, x})})
      BY <3>3, MaxOfOne DEF Clamp
    <3>5. Min({100, x}) = (IF 100 =< x THEN 100 ELSE x)
      BY <3>3, MinOfTwo
    <3>6. PICK y \in Int : y = Min({100, x}) /\ y =< x
      BY <3>3, <3>5
    <3>7. Max({0, y}) = IF 0 =< y THEN y ELSE 0
      BY <3>6, MaxOfTwo, 0 \in Int
    <3> QED BY <2>1, <2>4, <3>1, <3>3, <3>4, <3>6, <3>7
  <2>5. ASSUME NEW s \in Traded
        PROVE  max_loss(s) > 0 /\ 200 * credit(s) >= (2 * min_reward_risk - 1) * max_loss(s)
    <3>1. s \in Spread
      BY <2>5, TradedWasSaid
    <3>2. PICK n \in Int, d \in Int : n = credit(s) /\ d = max_loss(s)
      BY <3>1, SpreadMoney
    <3>3. d > 0 /\ RoundHalfEven(100 * n, d) >= min_reward_risk
      BY <2>2, <2>5, <3>2 DEF Passes
    <3>4. 2 * (100 * n) >= (2 * min_reward_risk - 1) * d
      BY <2>1, <3>3, RatioHolds
    <3> QED BY <3>2, <3>3, <3>4
  <2> QED BY <2>4, <2>5
<1>3. ASSUME Traded # {}
      PROVE  /\ ~both => sideset = {said.direction}
             /\ both /\ (wings # <<>> \/ Len(placed) = 2) =>
                  sideset = {"bullish", "bearish"} /\ Cardinality(days) = 1
  <2>1. ASSUME NEW s, Single(s), Traded = {s}, wings = <<>> => placed \in { << Placed(s, f) >> : f \in Fills }
        PROVE  /\ ~both => sideset = {said.direction}
               /\ ~(both /\ (wings # <<>> \/ Len(placed) = 2))
    <3>1. ~Condor => sideset = {said.direction}
      BY <1>1, <1>3, <2>1 DEF Single
    <3>2. Condor => wings = <<>> /\ Len(placed) = 1
      BY <2>1 DEF Single
    <3>3. both <=> Condor
      BY <1>1, <1>3
    <3> HIDE DEF both, sideset, said
    <3> QED BY <3>1, <3>2, <3>3
  <2>2. ASSUME NEW s, NEW t, Pair(s, t), Traded = {s, t}
        PROVE  both /\ sideset = {"bullish", "bearish"} /\ Cardinality(days) = 1
    <3>1. both
      BY <1>1, <1>3, <2>2 DEF Pair
    <3>2. sideset = {"bullish", "bearish"}
      BY <2>2 DEF Pair
    <3>3. days = {s.expiry}
      BY <2>2 DEF Pair
    <3>4. Cardinality(days) = 1
      BY <3>3, FS_Singleton
    <3> QED BY <3>1, <3>2, <3>4
  <2>3. \/ \E s : Single(s) /\ Traded = {s} /\ (wings = <<>> => placed \in { << Placed(s, f) >> : f \in Fills })
        \/ \E s, t : Pair(s, t) /\ Traded = {s, t}
    <3>1. \A s : <<s>> # <<>>
      OBVIOUS
    <3> QED BY <1>3, <3>1, TradedIs DEF WingsInv, WingsStand
  <2> HIDE DEF both, sideset, days
  <2> QED BY <2>1, <2>2, <2>3
<1>4. /\ Len(placed) + Len(wings) =< 2
      /\ \A i \in DOMAIN placed : (i < Len(placed) \/ wings # <<>>) => placed[i].fill = "filled"
  <2>1. \A s, f : Placed(s, f).fill = f
    BY DEF Placed
  <2>2. /\ Len(<<>>) = 0 /\ DOMAIN <<>> = {} /\ \A x : Len(<<x>>) = 1 /\ DOMAIN <<x>> = {1} /\ <<x>>[1] = x
        /\ \A x, y : Len(<<x, y>>) = 2 /\ DOMAIN <<x, y>> = {1, 2} /\ <<x, y>>[1] = x /\ <<x, y>>[2] = y
    OBVIOUS
  <2>3. CASE wings = <<>> /\ placed = <<>>
    BY <2>2, <2>3
  <2>4. ASSUME NEW s, NEW f, \/ wings = <<s>> /\ placed = <<>>
                             \/ wings = <<>> /\ placed = << Placed(s, f) >>
        PROVE  /\ Len(placed) + Len(wings) =< 2
               /\ \A i \in DOMAIN placed : (i < Len(placed) \/ wings # <<>>) => placed[i].fill = "filled"
    BY <2>2, <2>4
  <2>5. ASSUME NEW s, NEW t, NEW f, \/ wings = <<s, t>> /\ placed = <<>>
                                    \/ wings = <<t>> /\ placed = << Placed(s, "filled") >>
                                    \/ wings = <<>> /\ placed = << Placed(s, "filled"), Placed(t, f) >>
        PROVE  /\ Len(placed) + Len(wings) =< 2
               /\ \A i \in DOMAIN placed : (i < Len(placed) \/ wings # <<>>) => placed[i].fill = "filled"
    <3>1. CASE wings = <<s, t>> /\ placed = <<>>
      BY <2>2, <3>1
    <3>2. CASE wings = <<t>> /\ placed = << Placed(s, "filled") >>
      <4>1. DOMAIN placed = {1} /\ placed[1] = Placed(s, "filled") /\ Len(placed) = 1 /\ Len(wings) = 1
        BY <2>2, <3>2
      <4> QED BY <2>1, <4>1
    <3>3. CASE wings = <<>> /\ placed = << Placed(s, "filled"), Placed(t, f) >>
      <4>1. /\ DOMAIN placed = {1, 2} /\ placed[1] = Placed(s, "filled") /\ Len(placed) = 2 /\ Len(wings) = 0
            /\ wings = <<>>
        BY <2>2, <3>3
      <4> QED BY <2>1, <4>1
    <3> QED BY <2>5, <3>1, <3>2, <3>3
  <2> QED BY <2>3, <2>4, <2>5 DEF WingsInv, WingsStand
<1> HIDE DEF both, sideset, days, paid, said
<1>5. /\ Traded # {} =>
           /\ said.kind = "object" /\ said.direction \in Directions \ {"abstain"}
           /\ { asked[i].kind : i \in 1..(Len(asked) - 1) } \subseteq {"error", "empty", "blank"}
           /\ Len(asked) = 3 => config.retry
           /\ ~(regime = "volatil" /\ config.mode = "none")
           /\ ~both => sideset = {said.direction}
           /\ both /\ (wings # <<>> \/ Len(placed) = 2) =>
                sideset = {"bullish", "bearish"} /\ Cardinality(days) = 1
           /\ pc # "gates" =>
                (min_confidence > 0 => \E x \in said.confidence : x >= min_confidence) /\ paid
      /\ Len(placed) + Len(wings) =< 2
      /\ \A i \in DOMAIN placed : (i < Len(placed) \/ wings # <<>>) => placed[i].fill = "filled"
  BY <1>1, <1>2, <1>3, <1>4
<1> QED BY <1>5 DEF OpenedAsDecided, both, sideset, days, paid, said

-----------------------------------------------------------------------------
(***************************************************************************)
(* The ladder.                                                             *)
(***************************************************************************)
\* A limit is in whole cents and, of an amount there is, never none.
LEMMA CentsIs ==
  ASSUME NEW x \in Int, x > 0, NEW p \in Cents(x)
  PROVE  /\ p \in Int /\ p % 2 = 0 /\ 2 =< p
         /\ x - 1 =< p /\ p =< x + 1
         /\ x % 2 = 0 => p = x
BY DEF Cents, Cent

LEMMA LadderNumbers ==
  /\ Cent = 2 /\ limit_step \in Nat /\ limit_step % 2 = 0 /\ max_steps \in Nat
BY QuotesAssumption DEF Cent

\* What a rung asks, given at most one quote: no more than before, a cent at least.
LEMMA RungIs ==
  ASSUME NEW k \in Nat, NEW prev \in Int, 2 =< prev, prev % 2 = 0,
         NEW now, \/ now = {}
                  \/ \E q \in [mid : Int, natural : Int] : now = {q} /\ q.natural % 2 = 0,
         NEW p \in Cents(Rung(k, prev, now))
  PROVE  /\ p \in Int /\ p % 2 = 0 /\ 2 =< p /\ p =< prev
         /\ now = {} => p = Max({Cent, prev - limit_step})
         /\ \A q \in now : /\ p >= Min({prev, q.natural})
                           /\ k >= max_steps => p =< Max({Cent, q.natural})
<1> DEFINE Floor(x) == IF x =< 2 THEN 2 ELSE IF x =< prev THEN x ELSE prev
<1>0. /\ Cent = 2 /\ limit_step \in Nat /\ limit_step % 2 = 0 /\ max_steps \in Nat
  BY LadderNumbers
<1>1. ASSUME NEW x \in Int PROVE Max({Cent, Min({x, prev})}) = Floor(x)
  <2>1. PICK y \in Int : y = Min({x, prev}) /\ y = IF x =< prev THEN x ELSE prev
    BY MinOfTwo
  <2>2. Max({2, y}) = IF 2 =< y THEN y ELSE 2
    BY <2>1, MaxOfTwo, 2 \in Int
  <2> QED BY <1>0, <2>1, <2>2
<1>2. ASSUME NEW x \in Int, Rung(k, prev, now) = Floor(x)
      PROVE  /\ p \in Int /\ p % 2 = 0 /\ 2 =< p /\ p =< prev
             /\ x % 2 = 0 => p = Floor(x)
             /\ \A y \in Int : (y % 2 = 0 /\ y =< x /\ y =< prev) => y =< p
  <2>1. PICK r \in Int : r = Floor(x) /\ r > 0 /\ r =< prev
    OBVIOUS
  <2>2. /\ p \in Int /\ p % 2 = 0 /\ 2 =< p
        /\ r - 1 =< p /\ p =< r + 1
        /\ r % 2 = 0 => p = r
    BY <1>2, <2>1, CentsIs
  <2>3. p =< prev
    BY <2>1, <2>2
  <2>4. x % 2 = 0 => r % 2 = 0
    BY <2>1
  <2>5. ASSUME NEW y \in Int, y % 2 = 0, y =< x, y =< prev PROVE y =< p
    BY <2>1, <2>2, <2>5
  <2> QED BY <2>1, <2>2, <2>3, <2>4, <2>5
<1>3. CASE now = {}
  <2>1. PICK x \in Int : x = prev - limit_step /\ x =< prev /\ x % 2 = 0
    BY <1>0
  <2>2. Rung(k, prev, now) = Max({Cent, Min({x, prev})})
    BY <1>3, <2>1 DEF Rung
  <2>3. p \in Int /\ p % 2 = 0 /\ 2 =< p /\ p =< prev /\ p = Floor(x)
    BY <1>1, <1>2, <2>1, <2>2
  <2>4. Max({Cent, x}) = IF 2 =< x THEN x ELSE 2
    BY <1>0, <2>1, MaxOfTwo
  <2> QED BY <1>3, <2>1, <2>3, <2>4
<1>4. CASE now # {}
  <2>1. PICK q \in [mid : Int, natural : Int] : now = {q} /\ q.natural % 2 = 0
    BY <1>4
  <2>2. PICK n \in Int : n = q.natural /\ n % 2 = 0
    BY <2>1
  <2>3. PICK m \in Int : m = q.mid - limit_step * k
    BY <1>0
  <2>4. { a.natural : a \in now } = {n} /\ { a.mid - limit_step * k : a \in now } = {m}
    BY <2>1, <2>2, <2>3
  <2>5. Max({n}) = n /\ Max({n} \cup {m}) = IF n =< m THEN m ELSE n
    <3>1. {n} \cup {m} = {n, m}
      OBVIOUS
    <3> QED BY <3>1, MaxOfOne, MaxOfTwo
  <2>6. PICK x \in Int : x = (IF k >= max_steps THEN Max({n}) ELSE Max({n} \cup {m})) /\ n =< x
    BY <1>0, <2>5
  <2>7. Rung(k, prev, now) = Max({Cent, Min({x, prev})})
    BY <1>4, <2>4, <2>6 DEF Rung
  <2>8. /\ p \in Int /\ p % 2 = 0 /\ 2 =< p /\ p =< prev
        /\ x % 2 = 0 => p = Floor(x)
        /\ \A y \in Int : (y % 2 = 0 /\ y =< x /\ y =< prev) => y =< p
    BY <1>1, <1>2, <2>7
  <2>9. p >= Min({prev, n})
    <3>1. PICK y \in Int : y = Min({prev, n}) /\ y =< prev /\ y =< n /\ y % 2 = 0
      BY <2>2, MinOfTwo
    <3>2. y =< x
      BY <2>2, <2>6, <3>1
    <3>3. y =< p
      BY <2>8, <3>1, <3>2
    <3> QED BY <2>8, <3>1, <3>3
  <2>10. ASSUME k >= max_steps PROVE p =< Max({Cent, n})
    <3>1. x = n
      BY <2>5, <2>6, <2>10
    <3>2. Max({Cent, n}) = IF 2 =< n THEN n ELSE 2
      BY <1>0, MaxOfTwo
    <3> QED BY <2>2, <2>8, <3>1, <3>2
  <2> QED BY <1>4, <2>1, <2>2, <2>8, <2>9, <2>10
<1> QED BY <1>3, <1>4

LEMMA QuotesAreOne ==
  ASSUME NEW q \in Requotes
  PROVE  \/ spread_quotes(q) = {}
         \/ \E x \in [mid : Int, natural : Int] : spread_quotes(q) = {x} /\ x.natural % 2 = 0
<1>1. CASE q = {}
  BY <1>1 DEF spread_quotes
<1>2. CASE q # {}
  <2>1. PICK p \in q : q = {p}
    BY <1>2, QuotesAssumption
  <2>2. /\ {p.short.bid, p.short.ask, p.long.bid, p.long.ask} \subseteq Int
        /\ p.short.bid % 2 = 0 /\ p.long.ask % 2 = 0
    BY QuotesAssumption DEF Cent
  <2>3. PICK a \in Int, b \in Int :
          /\ a = mid(p.short) - mid(p.long)
          /\ b = p.short.bid - p.long.ask /\ b % 2 = 0
    BY <2>2 DEF mid
  <2>4. PICK c \in Int, d \in Int : c = Max({0, a}) /\ d = Max({0, b}) /\ d % 2 = 0
    BY <2>3, MaxOfTwo
  <2>5. Max({0, mid(p.short) - mid(p.long)}) = c /\ Max({0, p.short.bid - p.long.ask}) = d
    BY <2>3, <2>4
  <2>6. [mid |-> c, natural |-> d] \in [mid : Int, natural : Int]
    OBVIOUS
  <2>7. PICK x \in [mid : Int, natural : Int] : x = [mid |-> c, natural |-> d]
    BY <2>6
  <2>8. x.natural = d
    BY <2>7
  <2>9. x.natural % 2 = 0
    BY <2>4, <2>8
  <2>10. spread_quotes(q) = { [mid     |-> Max({ 0, mid(y.short) - mid(y.long) }),
                               natural |-> Max({ 0, y.short.bid - y.long.ask })] : y \in {p} }
    BY <2>1 DEF spread_quotes
  <2>11. spread_quotes(q) = {x}
    BY <2>5, <2>7, <2>10
  <2> QED BY <2>9, <2>11
<1> QED BY <1>1, <1>2

LEMMA LimitsKept ==
  ASSUME LadderInv, UNCHANGED <<limits, quotes>>
  PROVE  LadderInv'
BY DEF LadderInv, RungsWalkDown

LEMMA LimitsReset ==
  ASSUME limits' = <<>>, quotes' = {}
  PROVE  LadderInv'
<1>1. limits' \in Seq(Int) /\ Len(limits') = 0 /\ DOMAIN limits' = {}
  OBVIOUS
<1> QED BY <1>1 DEF LadderInv, RungsWalkDown

LEMMA SubmitFirstKeeps ==
  ASSUME WingsInv, LadderInv, SubmitFirst
  PROVE  LadderInv'
<1>1. PICK s \in Spread : Head(wings) = s /\ s \in Traded
  <2>1. wings # <<>>
    BY DEF WingsInv, SubmitFirst
  <2>2. ASSUME NEW s \in Spread, NEW t \in Spread,
               \/ wings = <<s>> /\ placed = <<>>
               \/ wings = <<s, t>> /\ placed = <<>>
               \/ wings = <<s>> /\ placed = << Placed(t, "filled") >>
        PROVE  Head(wings) = s /\ s \in Traded
    BY <2>2, TradedIs, SmallSequences
  <2> QED BY <2>1, <2>2, Standing
<1>2. PICK x \in Int : x = credit(s) /\ x > 0
  BY <1>1, SpreadMoney DEF WingsInv
<1>3. PICK p \in Cents(x) : limits' = <<p>> /\ quotes' = quotes
  BY <1>1, <1>2 DEF SubmitFirst
<1>4. p \in Int /\ p % 2 = 0 /\ 2 =< p
  BY <1>2, CentsIs
<1>5. limits' \in Seq(Int) /\ Len(limits') = 1 /\ DOMAIN limits' = {1} /\ limits'[1] = p
  BY <1>3, <1>4
<1>6. \A k \in DOMAIN limits' : limits'[k] >= Cent /\ limits'[k] % Cent = 0
  BY <1>4, <1>5 DEF Cent
<1>7. 2..Len(limits') = {} /\ ~(Len(limits') > 1)
  BY <1>5
<1> QED BY <1>3, <1>5, <1>6, <1>7 DEF LadderInv, RungsWalkDown

LEMMA SubmitNextKeeps ==
  ASSUME LadderInv, NEW q \in Requotes, SubmitNext(q)
  PROVE  LadderInv'
<1>1. PICK k \in Nat \ {0} : k = Len(limits) /\ DOMAIN limits = 1..k
  <2>1. limits \in Seq(Int) /\ Len(limits) > 0
    BY DEF LadderInv, SubmitNext
  <2> QED BY <2>1
<1>2. PICK prev \in Int : prev = limits[k] /\ 2 =< prev /\ prev % 2 = 0
  <2>1. limits \in Seq(Int) /\ k \in DOMAIN limits
    BY <1>1 DEF LadderInv
  <2>2. limits[k] \in Int
    BY <2>1
  <2> QED BY <2>1, <2>2 DEF LadderInv, RungsWalkDown, Cent
<1>3. PICK p \in Cents(Rung(k, prev, quotes')) : limits' = Append(limits, p) /\ quotes' = spread_quotes(q)
  BY <1>1, <1>2 DEF SubmitNext
<1>4. \/ quotes' = {}
      \/ \E x \in [mid : Int, natural : Int] : quotes' = {x} /\ x.natural % 2 = 0
  BY <1>3, QuotesAreOne
<1>5. /\ p \in Int /\ p % 2 = 0 /\ 2 =< p /\ p =< prev
      /\ quotes' = {} => p = Max({Cent, prev - limit_step})
      /\ \A x \in quotes' : /\ p >= Min({prev, x.natural})
                            /\ k >= max_steps => p =< Max({Cent, x.natural})
  BY <1>1, <1>2, <1>4, RungIs
<1>6. /\ limits' \in Seq(Int) /\ Len(limits') = k + 1 /\ DOMAIN limits' = 1..(k + 1)
      /\ limits'[k + 1] = p /\ \A i \in 1..k : limits'[i] = limits[i]
  <2>1. limits \in Seq(Int)
    BY DEF LadderInv
  <2> QED BY <1>1, <1>3, <1>5, <2>1
<1>7. \A i \in 1..(k + 1) : limits'[i] >= Cent /\ limits'[i] % Cent = 0
  <2>1. ASSUME NEW i \in 1..k PROVE limits'[i] >= Cent /\ limits'[i] % Cent = 0
    BY <1>1, <1>6 DEF LadderInv, RungsWalkDown
  <2>2. limits'[k + 1] >= Cent /\ limits'[k + 1] % Cent = 0
    BY <1>5, <1>6 DEF Cent
  <2>3. \A i \in 1..(k + 1) : i \in 1..k \/ i = k + 1
    OBVIOUS
  <2> QED BY <2>1, <2>2, <2>3
<1>8. \A i \in 2..(k + 1) : limits'[i] =< limits'[i - 1]
  <2>1. ASSUME NEW i \in 2..k PROVE limits'[i] =< limits'[i - 1]
    <3>1. i \in 1..k /\ i - 1 \in 1..k /\ i \in 2..Len(limits)
      BY <1>1
    <3>2. limits[i] =< limits[i - 1]
      BY <3>1 DEF LadderInv, RungsWalkDown
    <3>3. limits'[i] = limits[i] /\ limits'[i - 1] = limits[i - 1]
      BY <1>6, <3>1
    <3> QED BY <3>2, <3>3
  <2>2. limits'[k + 1] =< limits'[k]
    BY <1>1, <1>2, <1>5, <1>6
  <2>3. \A i \in 2..(k + 1) : i \in 2..k \/ (i = k + 1 /\ i - 1 = k)
    BY <1>1
  <2> QED BY <2>1, <2>2, <2>3
<1>9. /\ limits'[Len(limits')] = p /\ limits'[Len(limits') - 1] = prev
      /\ Len(limits') = max_steps + 1 => k >= max_steps
  <2>1. (k + 1) - 1 = k /\ k \in 1..k /\ (k + 1 = max_steps + 1 => k >= max_steps)
    BY <1>1, LadderNumbers
  <2> QED BY <1>2, <1>6, <2>1
<1>10. RungsWalkDown'
  BY <1>5, <1>6, <1>7, <1>8, <1>9 DEF RungsWalkDown
<1>11. quotes' \subseteq [mid : Int, natural : Int]
  BY <1>4
<1> QED BY <1>6, <1>10, <1>11 DEF LadderInv

-----------------------------------------------------------------------------
(***************************************************************************)
(* The invariant, step by step.                                            *)
(***************************************************************************)
\* Until the answer is asked for, only the lookup and the sides change.
LEMMA LookingKeeps ==
  ASSUME AnswersInv, WingsInv, LadderInv, UNCHANGED <<config, decision, placing>>,
         pc \in Looking, pc' \in Looking \cup {"ask", "done"}, regime' \in Regimes,
         pc' = "ask" => ~(regime' = "volatil" /\ config.mode = "none")
  PROVE  AnswersInv' /\ WingsInv' /\ LadderInv'
<1>1. UNCHANGED <<wings, placed>> /\ UNCHANGED <<limits, quotes>>
  BY DEF placing
<1>2. pc \in Deciding /\ pc' \in Deciding \cup {"done"}
  BY DEF Deciding
<1>3. AnswersInv'
  BY AnswersKept
<1> QED BY <1>1, <1>2, <1>3, WingsAlone, LimitsKept

\* From the answer on, the expiry is not looked at, and the sides are what they were.
LEMMA SidesKept ==
  ASSUME SidesInv, pc' \notin {"spreads", "further", "walk", "screen"},
         UNCHANGED <<bull, bear>> \/ (bull' = {} /\ bear' = {})
  PROVE  SidesInv' /\ LookupInv'
BY DEF SidesInv, LookupInv

LEMMA InitKeeps ==
  ASSUME Init
  PROVE  CycleInv
<1>1. SidesInv /\ LookupInv
  BY DEF Init, SidesInv, LookupInv
<1>2. AnswersInv
  <2>1. asked = <<>> /\ config \in Configs /\ regime \in Regimes /\ proposal = _ABSTAIN /\ pc = "expiry"
    BY DEF Init, Regimes
  <2>2. attempts \in {1, 2}
    BY DEF attempts
  <2>3. asked \in Seq(Answers) /\ Len(asked) = 0
    BY <2>1
  <2> QED BY <2>1, <2>2, <2>3 DEF AnswersInv
<1>3. WingsInv
  <2>1. wings = <<>> /\ placed = <<>> /\ pc = "expiry" /\ Traded = {}
    BY TradedIs DEF Init
  <2> QED BY <2>1 DEF WingsInv, WingsStand
<1>4. LadderInv
  <2>1. limits = <<>> /\ quotes = {} /\ limits \in Seq(Int) /\ Len(limits) = 0 /\ DOMAIN limits = {}
    BY DEF Init
  <2> QED BY <2>1 DEF LadderInv, RungsWalkDown
<1> QED BY <1>1, <1>2, <1>3, <1>4 DEF CycleInv, Init, Deciding, Looking

\* A cycle begins as the first did.
LEMMA NextPassKeeps ==
  ASSUME CycleInv, NextPass
  PROVE  CycleInv'
<1>1. SidesInv' /\ LookupInv'
  BY DEF NextPass, SidesInv, LookupInv
<1>2. AnswersInv'
  <2>1. /\ asked' = <<>> /\ config' \in Configs /\ regime' \in Regimes /\ proposal' = _ABSTAIN
        /\ pc' = "expiry"
    BY DEF NextPass, Regimes, CycleInv, AnswersInv
  <2>2. attempts' = attempts /\ attempts \in {1, 2}
    BY DEF attempts, NextPass
  <2>3. asked' \in Seq(Answers) /\ Len(asked') = 0
    BY <2>1
  <2>4. /\ pc' # "ask" /\ pc' # "fallback" /\ pc' \notin {"ask", "fallback"}
        /\ pc' \notin {"ask", "fallback", "route"}
    BY <2>1
  <2>5. Len(asked') =< attempts' + 1
    BY <2>2, <2>3
  <2> QED BY <2>1, <2>3, <2>4, <2>5 DEF AnswersInv
<1>3. WingsInv'
  <2>1. wings' = <<>> /\ placed' = <<>> /\ pc' = "expiry" /\ Traded' = {}
    BY TradedIs DEF NextPass
  <2> QED BY <2>1 DEF WingsInv, WingsStand
<1>4. LadderInv'
  BY LimitsReset DEF NextPass
<1> QED BY <1>1, <1>2, <1>3, <1>4 DEF CycleInv, NextPass, Deciding, Looking

LEMMA NextKeeps ==
  ASSUME CycleInv, [Next]_vars
  PROVE  CycleInv'
<1> USE DEF CycleInv
<1>1. ASSUME NEW m \in Markets, NEW read \in BOOLEAN, NEW r \in Regimes, FindExpiry(m, read, r)
      PROVE  CycleInv'
  <2>1. /\ pc = "expiry" /\ pc' \in {"spreads", "done"} /\ regime' \in Regimes
        /\ UNCHANGED <<config, decision, placing>> /\ UNCHANGED <<bull, bear>>
    BY <1>1 DEF FindExpiry, End, Go, AnswersInv
  <2>2. LookupInv'
    BY <1>1, FindExpiryKeeps
  <2>3. SidesInv'
    BY <2>1 DEF SidesInv
  <2>4. AnswersInv' /\ WingsInv' /\ LadderInv'
    BY <2>1, LookingKeeps DEF Looking
  <2> QED BY <2>1, <2>2, <2>3, <2>4 DEF Deciding, Looking
<1>2. ASSUME NEW puts \in Chains, NEW calls \in { MirrorChain(c, About) : c \in Chains },
             NEW spot \in Spots, ReadSpreads(puts, calls, spot)
      PROVE  CycleInv'
  <2>1. /\ pc = "spreads" /\ pc' \in {"screen", "further", "done"} /\ regime' \in Regimes
        /\ UNCHANGED <<config, decision, placing>>
    BY <1>2 DEF ReadSpreads, End, Go, AnswersInv
  <2>2. SidesInv' /\ LookupInv'
    BY <1>2, ReadSpreadsKeeps
  <2>3. AnswersInv' /\ WingsInv' /\ LadderInv'
    BY <2>1, LookingKeeps DEF Looking
  <2> QED BY <2>1, <2>2, <2>3 DEF Deciding, Looking
<1>3. ASSUME NEW puts \in Chains, NEW calls \in { MirrorChain(c, About) : c \in Chains },
             NEW spot \in Spots, WalkOn(puts, calls, spot)
      PROVE  CycleInv'
  <2>1. /\ pc = "walk" /\ pc' \in {"screen", "walk", "done"} /\ regime' \in Regimes
        /\ UNCHANGED <<config, decision, placing>>
    BY <1>3 DEF WalkOn, End, Go, AnswersInv
  <2>2. SidesInv' /\ LookupInv'
    BY <1>3, WalkOnKeeps
  <2>3. AnswersInv' /\ WingsInv' /\ LadderInv'
    BY <2>1, LookingKeeps DEF Looking
  <2> QED BY <2>1, <2>2, <2>3 DEF Deciding, Looking
<1>4. ASSUME NEW read \in BOOLEAN, LookFurther(read) PROVE CycleInv'
  <2>1. /\ pc = "further" /\ pc' \in {"walk", "done"} /\ regime' \in Regimes
        /\ UNCHANGED <<config, decision, placing>> /\ UNCHANGED <<bull, bear>>
    BY <1>4 DEF LookFurther, End, Go, AnswersInv, sides
  <2>2. LookupInv'
    BY <1>4, LookFurtherKeeps
  <2>3. SidesInv'
    BY <2>1 DEF SidesInv
  <2>4. AnswersInv' /\ WingsInv' /\ LadderInv'
    BY <2>1, LookingKeeps DEF Looking
  <2> QED BY <2>1, <2>2, <2>3, <2>4 DEF Deciding, Looking
<1>5. ASSUME NoFurther \/ Screen PROVE CycleInv'
  <2>1. /\ pc \in {"further", "screen"} /\ pc' \in {"ask", "done"} /\ regime' = regime /\ regime \in Regimes
        /\ UNCHANGED <<config, decision, placing>> /\ UNCHANGED <<bull, bear>>
        /\ pc' = "ask" => ~(regime = "volatil" /\ config.mode = "none")
    BY <1>5 DEF NoFurther, Screen, End, Go, AnswersInv, sides
  <2>2. SidesInv' /\ LookupInv'
    BY <2>1, SidesKept
  <2>3. AnswersInv' /\ WingsInv' /\ LadderInv'
    BY <2>1, LookingKeeps DEF Looking
  <2> QED BY <2>1, <2>2, <2>3 DEF Deciding, Looking
<1>6. ASSUME NEW answer \in Answers, AskPrimary(answer) \/ AskFallback(answer) PROVE CycleInv'
  <2>1. /\ pc \in {"ask", "fallback"} /\ UNCHANGED <<bull, bear>>
        /\ UNCHANGED <<wings, placed>> /\ UNCHANGED <<limits, quotes>>
    BY <1>6 DEF AskPrimary, AskFallback, sides, placing
  <2>2. AnswersInv' /\ pc' \in {"ask", "fallback", "route"}
    BY <1>6, AskPrimaryKeeps, AskFallbackKeeps
  <2>3. SidesInv' /\ LookupInv'
    BY <2>1, <2>2, SidesKept
  <2>4. WingsInv' /\ LadderInv'
    <3>1. pc \in Deciding /\ pc' \in Deciding
      BY <2>1, <2>2 DEF Deciding
    <3> QED BY <2>1, <3>1, WingsAlone, LimitsKept
  <2> QED BY <2>2, <2>3, <2>4 DEF Deciding
<1>7. ASSUME Route PROVE CycleInv'
  <2>1. /\ pc = "route" /\ pc' \in {"gates", "done"} /\ bull' = {} /\ bear' = {}
        /\ UNCHANGED <<config, decision>> /\ UNCHANGED <<limits, quotes>> /\ regime' = regime
    BY <1>7 DEF Route, End, Go
  <2>2. SidesInv' /\ LookupInv'
    BY <2>1, SidesKept
  <2>3. AnswersInv'
    BY <2>1, AnswersKept DEF AnswersInv, Looking
  <2>4. WingsInv' /\ LadderInv'
    BY <1>7, <2>1, RouteKeeps, LimitsKept
  <2> QED BY <2>1, <2>2, <2>3, <2>4
\* The steps after it change neither the sides nor the answers.
<1>8. ASSUME pc \in {"gates", "submit", "wait"}, pc' \in {"gates", "submit", "wait", "done"},
             UNCHANGED <<config, sides, decision>>, WingsInv', LadderInv'
      PROVE  CycleInv'
  <2>1. UNCHANGED <<regime, bull, bear>>
    BY <1>8 DEF sides
  <2>2. SidesInv' /\ LookupInv'
    BY <1>8, <2>1, SidesKept
  <2>3. AnswersInv'
    BY <1>8, <2>1, AnswersKept DEF AnswersInv, Looking
  <2> QED BY <1>8, <2>2, <2>3
<1>9. CASE Approve
  <2>1. /\ pc = "gates" /\ pc' = "submit" /\ UNCHANGED <<config, sides, decision>>
        /\ UNCHANGED <<limits, quotes>>
    BY <1>9 DEF Approve, Go, placing
  <2> QED BY <1>8, <1>9, <2>1, ApproveKeeps, LimitsKept
<1>10. CASE Veto
  <2>1. /\ pc = "gates" /\ pc' = "done" /\ UNCHANGED <<config, sides, decision>>
        /\ UNCHANGED <<limits, quotes>> /\ wings' = <<>> /\ placed' = placed
        /\ UNCHANGED <<config, regime, proposal, placed>>
    BY <1>10 DEF Veto, End, sides, decision
  <2> QED BY <1>8, <2>1, LeavingKept, LimitsKept
<1>11. ASSUME SubmitFirst \/ \E q \in Requotes : SubmitNext(q) PROVE CycleInv'
  <2>1. /\ pc = "submit" /\ pc' = "wait" /\ UNCHANGED <<config, sides, decision>>
        /\ UNCHANGED <<wings, placed>> /\ UNCHANGED <<config, regime, proposal>>
    BY <1>11 DEF SubmitFirst, SubmitNext, Go, sides, decision
  <2>2. LadderInv'
    BY <1>11, SubmitFirstKeeps, SubmitNextKeeps
  <2> QED BY <1>8, <2>1, <2>2, WingsAlone
<1>12. CASE NextRung
  <2>1. /\ pc = "wait" /\ pc' = "submit" /\ UNCHANGED <<config, sides, decision>>
        /\ UNCHANGED <<wings, placed>> /\ UNCHANGED <<config, regime, proposal>>
        /\ UNCHANGED <<limits, quotes>>
    BY <1>12 DEF NextRung, Go, sides, decision, placing
  <2> QED BY <1>8, <2>1, WingsAlone, LimitsKept
<1>13. CASE Filled
  <2>1. /\ pc = "wait" /\ UNCHANGED <<config, sides, decision>> /\ UNCHANGED <<config, regime, proposal>>
        /\ Record("filled") /\ limits' = <<>> /\ quotes' = {}
        /\ \/ pc' = "done" /\ wings' = <<>> /\ Len(wings) = 1
           \/ pc' = "submit" /\ wings' = Tail(wings) /\ Len(wings) # 1
    BY <1>13 DEF Filled, Leave, End, Go, sides, decision
  <2>2. WingsInv'
    BY <2>1, RecordKeeps DEF Fills
  <2> QED BY <1>8, <2>1, <2>2, LimitsReset
<1>14. CASE Pending
  <2>1. /\ pc = "wait" /\ UNCHANGED <<config, sides, decision>> /\ UNCHANGED <<config, regime, proposal>>
        /\ Record("pending") /\ limits' = <<>> /\ quotes' = {}
        /\ pc' = "done" /\ wings' = <<>>
    BY <1>14 DEF Pending, Leave, End, sides, decision
  <2>2. WingsInv'
    BY <2>1, RecordKeeps DEF Fills
  <2> QED BY <1>8, <2>1, <2>2, LimitsReset
<1>15. CASE Unfilled \/ CycleRaises
  <2>1. /\ pc' = "done" /\ wings' = <<>> /\ limits' = <<>> /\ quotes' = {} /\ placed' = placed
        /\ UNCHANGED <<config, sides, decision>> /\ UNCHANGED <<config, regime, proposal, placed>>
        /\ regime' = regime /\ UNCHANGED <<bull, bear>> /\ UNCHANGED <<config, decision>>
    BY <1>15 DEF Unfilled, CycleRaises, Leave, End, sides, decision
  <2>2. WingsInv' /\ LadderInv'
    BY <2>1, LeavingKept, LimitsReset
  <2>3. SidesInv' /\ LookupInv'
    BY <2>1, SidesKept
  <2>4. AnswersInv'
    BY <2>1, AnswersKept DEF AnswersInv, Looking
  <2> QED BY <2>1, <2>2, <2>3, <2>4
<1>16. CASE NextPass
  BY <1>16, NextPassKeeps
<1>17. CASE UNCHANGED vars
  <2>1. /\ UNCHANGED <<config, pc, regime, bull, bear, asked, proposal, wings, placed>>
        /\ UNCHANGED <<limits, quotes>> /\ UNCHANGED <<market, expiry, ahead, dead, known>>
    BY <1>17 DEF vars, lookup, sides, decision, placing
  <2>2. SidesInv'
    BY <2>1 DEF SidesInv
  <2>3. LookupInv'
    BY <2>1 DEF LookupInv, InReach, Nearest, Sess
  <2>4. AnswersInv'
    BY <2>1 DEF AnswersInv, Mute, attempts
  <2>5. WingsInv'
    <3>1. WingsStand' /\ Traded' = Traded
      BY <2>1 DEF WingsInv, WingsStand, Traded, Single, Pair, Condor
    <3> QED BY <2>1, <3>1, WingsKept DEF WingsInv
  <2> QED BY <2>1, <2>2, <2>3, <2>4, <2>5, LimitsKept
<1> QED BY <1>1, <1>2, <1>3, <1>4, <1>5, <1>6, <1>7, <1>9, <1>10, <1>11, <1>12, <1>13, <1>14, <1>15,
           <1>16, <1>17 DEF Next

-----------------------------------------------------------------------------
(***************************************************************************)
(* The selection.                                                          *)
(***************************************************************************)
\* What is known of the quotes of a chain, of either right.
PlainChain(c) ==
  /\ IsFiniteSet(c) /\ c \subseteq OptionQuote
  /\ \A q \in c : q.bid % Cent = 0 /\ q.ask % Cent = 0

\* The spread that is seen was built as asked, and is not seen any more after the screen.
SeenInv == (seen # {} => pc = "screen") /\ SpreadsAsAsked

Other(right) == IF right = "put" THEN "call" ELSE "put"

\* A mirror image has the same market on the other side, and the original for its image.
LEMMA MirrorTells ==
  ASSUME NEW q \in OptionQuote
  PROVE  /\ MirrorQuote(q, About) \in OptionQuote
         /\ MirrorQuote(MirrorQuote(q, About), About) = q
         /\ MirrorQuote(q, About).right = Other(q.right)
         /\ MirrorQuote(q, About).strike = 2 * About - q.strike
         /\ MirrorQuote(q, About).bid = q.bid /\ MirrorQuote(q, About).ask = q.ask
         /\ MirrorQuote(q, About).delta = q.delta
         /\ mid(MirrorQuote(q, About)) = mid(q)
         /\ is_liquid(MirrorQuote(q, About), sel) <=> is_liquid(q, sel)
<1>0. About \in Int
  BY QuotesAssumption
<1>1. PICK right \in {"put", "call"}, strike \in Int : right = Other(q.right) /\ strike = 2 * About - q.strike
  BY <1>0 DEF OptionQuote, Other
<1> DEFINE m == [q EXCEPT !.right = right, !.strike = strike]
<1>2. MirrorQuote(q, About) = m
  BY <1>1 DEF MirrorQuote, Other
<1>3. /\ m \in OptionQuote /\ m.right = Other(q.right) /\ m.strike = 2 * About - q.strike
      /\ m.bid = q.bid /\ m.ask = q.ask /\ m.delta = q.delta /\ m.oi = q.oi /\ m.volume = q.volume
  BY <1>1 DEF OptionQuote
<1>4. MirrorQuote(m, About) = q
  <2>1. MirrorQuote(m, About) = [m EXCEPT !.right = Other(m.right), !.strike = 2 * About - m.strike]
    BY DEF MirrorQuote, Other
  <2>2. Other(m.right) = q.right /\ 2 * About - m.strike = q.strike
    BY <1>0, <1>3 DEF Other, OptionQuote
  <2>3. PICK r, x : r = q.right /\ x = q.strike
    OBVIOUS
  <2>4. [m EXCEPT !.right = r, !.strike = x] = q
    BY <2>3 DEF OptionQuote
  <2> QED BY <2>1, <2>2, <2>3, <2>4
<1> HIDE DEF m
<1>5. mid(m) = mid(q) /\ (is_liquid(m, sel) <=> is_liquid(q, sel))
  BY <1>3 DEF mid, is_liquid
<1> QED BY <1>2, <1>3, <1>4, <1>5

LEMMA MirrorMembers ==
  ASSUME NEW c, c \subseteq OptionQuote
  PROVE  /\ MirrorChain(c, About) \subseteq OptionQuote
         /\ \A q \in c : MirrorQuote(q, About) \in MirrorChain(c, About)
         /\ \A m \in MirrorChain(c, About) : \E q \in c : m = MirrorQuote(q, About)
         /\ \A q \in OptionQuote : MirrorQuote(q, About) \in MirrorChain(c, About) => q \in c
<1>1. ASSUME NEW m \in MirrorChain(c, About) PROVE \E q \in c : m = MirrorQuote(q, About)
  BY DEF MirrorChain
<1>2. ASSUME NEW q \in OptionQuote, MirrorQuote(q, About) \in MirrorChain(c, About) PROVE q \in c
  <2>1. PICK o \in c : MirrorQuote(q, About) = MirrorQuote(o, About)
    BY <1>1, <1>2
  <2>2. MirrorQuote(MirrorQuote(q, About), About) = q /\ MirrorQuote(MirrorQuote(o, About), About) = o
    BY MirrorTells
  <2> QED BY <2>1, <2>2
<1>3. \A q \in c : MirrorQuote(q, About) \in MirrorChain(c, About)
  BY DEF MirrorChain
<1>4. MirrorChain(c, About) \subseteq OptionQuote
  BY <1>1, MirrorTells
<1> QED BY <1>1, <1>2, <1>3, <1>4

\* Chains of both sides are plain.
LEMMA PlainChains ==
  /\ \A c \in Chains : PlainChain(c) /\ PlainChain(MirrorChain(c, About))
  /\ \A c \in Chains : \A q \in c : q.right = "put"
  /\ \A c \in Chains : \A q \in MirrorChain(c, About) : q.right = "call"
<1>1. ASSUME NEW c \in Chains
      PROVE  /\ PlainChain(c) /\ PlainChain(MirrorChain(c, About))
             /\ \A q \in c : q.right = "put"
             /\ \A q \in MirrorChain(c, About) : q.right = "call"
  <2>1. PlainChain(c) /\ \A q \in c : q.right = "put"
    BY QuotesAssumption DEF PlainChain
  <2>2. \A q \in MirrorChain(c, About) : q.right = "call" /\ q.bid % Cent = 0 /\ q.ask % Cent = 0
    BY <2>1, MirrorMembers, MirrorTells DEF PlainChain, Other
  <2>3. IsFiniteSet(MirrorChain(c, About)) /\ MirrorChain(c, About) \subseteq OptionQuote
    <3> DEFINE f == [q \in c |-> MirrorQuote(q, About)]
    <3>1. f \in Surjection(c, MirrorChain(c, About))
      BY DEF Surjection, MirrorChain
    <3> HIDE DEF f
    <3> QED BY <2>1, <3>1, FS_Surjection, MirrorMembers DEF PlainChain
  <2> QED BY <2>1, <2>2, <2>3 DEF PlainChain
<1> QED BY <1>1

\* Each step of the selection, from the other side: a set S of quotes picked from c by
\* what holds of the mirror images of the quotes picked from its mirror image.
LEMMA MirrorPicks ==
  ASSUME NEW c, c \subseteq OptionQuote, NEW S, S \subseteq c, NEW T, T \subseteq MirrorChain(c, About),
         \A q \in c : q \in S <=> MirrorQuote(q, About) \in T
  PROVE  T = MirrorChain(S, About)
<1>1. ASSUME NEW m \in T PROVE m \in MirrorChain(S, About)
  <2>1. PICK q \in c : m = MirrorQuote(q, About)
    BY <1>1, MirrorMembers
  <2> QED BY <1>1, <2>1, MirrorMembers
<1>2. ASSUME NEW m \in MirrorChain(S, About) PROVE m \in T
  <2>1. PICK q \in S : m = MirrorQuote(q, About)
    BY <1>2, MirrorMembers
  <2> QED BY <2>1
<1> QED BY <1>1, <1>2

LEMMA MirrorLiquid ==
  ASSUME NEW c, c \subseteq OptionQuote, NEW right \in {"put", "call"}
  PROVE  liquid_contracts(MirrorChain(c, About), Other(right), sel)
           = MirrorChain(liquid_contracts(c, right, sel), About)
<1> DEFINE S == liquid_contracts(c, right, sel)
           T == liquid_contracts(MirrorChain(c, About), Other(right), sel)
<1>1. S \subseteq c /\ T \subseteq MirrorChain(c, About)
  BY DEF liquid_contracts
<1>2. ASSUME NEW q \in c PROVE q \in S <=> MirrorQuote(q, About) \in T
  <2>1. /\ MirrorQuote(q, About).right = Other(q.right) /\ MirrorQuote(q, About) \in MirrorChain(c, About)
        /\ is_liquid(MirrorQuote(q, About), sel) <=> is_liquid(q, sel)
    BY MirrorTells, MirrorMembers
  <2>2. q.right \in {"put", "call"} /\ (Other(q.right) = Other(right) <=> q.right = right)
    BY DEF OptionQuote, Other
  <2> QED BY <2>1, <2>2 DEF liquid_contracts
<1>3. T = MirrorChain(S, About)
  <2> HIDE DEF S, T
  <2> QED BY <1>1, <1>2, MirrorPicks
<1> QED BY <1>3

LEMMA MirrorShorts ==
  ASSUME NEW c, c \subseteq OptionQuote, NEW delta
  PROVE  _nearest_by_delta(MirrorChain(c, About), delta) = MirrorChain(_nearest_by_delta(c, delta), About)
<1> DEFINE S == _nearest_by_delta(c, delta)
           T == _nearest_by_delta(MirrorChain(c, About), delta)
<1>1. S \subseteq c /\ T \subseteq MirrorChain(c, About)
  BY DEF _nearest_by_delta
<1>2. ASSUME NEW q \in c PROVE q \in S <=> MirrorQuote(q, About) \in T
  <2>1. /\ \A p \in c : MirrorQuote(p, About).delta = p.delta /\ MirrorQuote(p, About) \in MirrorChain(c, About)
        /\ \A m \in MirrorChain(c, About) : \E p \in c : m = MirrorQuote(p, About)
    BY MirrorTells, MirrorMembers
  <2> QED BY <2>1 DEF _nearest_by_delta
<1>3. T = MirrorChain(S, About)
  <2> HIDE DEF S, T
  <2> QED BY <1>1, <1>2, MirrorPicks
<1> QED BY <1>3

\* The distance of a strike from the one wanted, both reflected.
LEMMA MirrorOff ==
  ASSUME NEW s \in OptionQuote, NEW q \in OptionQuote, NEW width \in Int
  PROVE  /\ Abs(q.strike - Target(s, width)) \in Int
         /\ Abs(MirrorQuote(q, About).strike - Target(MirrorQuote(s, About), width))
              = Abs(q.strike - Target(s, width))
<1>1. PICK x, y, a : x = q.strike /\ y = s.strike /\ a = About /\ x \in Int /\ y \in Int /\ a \in Int
  BY QuotesAssumption DEF OptionQuote
<1>2. /\ MirrorQuote(q, About).strike = 2 * a - x /\ MirrorQuote(s, About).strike = 2 * a - y
      /\ MirrorQuote(s, About).right = Other(s.right) /\ s.right \in {"put", "call"}
  BY <1>1, MirrorTells DEF OptionQuote
<1>3. CASE s.right = "put"
  <2>1. Target(s, width) = y - width /\ Target(MirrorQuote(s, About), width) = 2 * a - y + width
    BY <1>1, <1>2, <1>3 DEF Target, Other
  <2> QED BY <1>1, <1>2, <2>1 DEF Abs
<1>4. CASE s.right = "call"
  <2>1. Target(s, width) = y + width /\ Target(MirrorQuote(s, About), width) = 2 * a - y - width
    BY <1>1, <1>2, <1>4 DEF Target, Other
  <2> QED BY <1>1, <1>2, <2>1 DEF Abs
<1> QED BY <1>2, <1>3, <1>4

LEMMA MirrorLongs ==
  ASSUME NEW c, c \subseteq OptionQuote, NEW s \in OptionQuote, NEW width \in Int
  PROVE  /\ Protecting(MirrorQuote(s, About), MirrorChain(c, About)) = MirrorChain(Protecting(s, c), About)
         /\ LongLegs(MirrorQuote(s, About), MirrorChain(c, About), width)
              = MirrorChain(LongLegs(s, c, width), About)
<1> DEFINE m == MirrorQuote(s, About)
           d == MirrorChain(c, About)
<1>1. Protecting(s, c) \subseteq c /\ Protecting(m, d) \subseteq d
  BY DEF Protecting
<1>2. ASSUME NEW q \in c PROVE q \in Protecting(s, c) <=> MirrorQuote(q, About) \in Protecting(m, d)
  <2>1. PICK x, y, a : x = q.strike /\ y = s.strike /\ a = About /\ x \in Int /\ y \in Int /\ a \in Int
    BY QuotesAssumption DEF OptionQuote
  <2>2. /\ MirrorQuote(q, About).strike = 2 * a - x /\ m.strike = 2 * a - y
        /\ m.right = Other(s.right) /\ s.right \in {"put", "call"} /\ MirrorQuote(q, About) \in d
    BY <2>1, MirrorTells, MirrorMembers DEF OptionQuote
  <2> HIDE DEF m, d
  <2> QED BY <2>1, <2>2 DEF Protecting, Other
<1>3. Protecting(m, d) = MirrorChain(Protecting(s, c), About)
  <2> HIDE DEF m
  <2>1. PICK S, T : S = Protecting(s, c) /\ T = Protecting(m, d)
    OBVIOUS
  <2>2. S \subseteq c /\ T \subseteq MirrorChain(c, About)
    BY <1>1, <2>1
  <2>3. \A q \in c : q \in S <=> MirrorQuote(q, About) \in T
    BY <1>2, <2>1
  <2>4. T = MirrorChain(S, About)
    BY <2>2, <2>3, MirrorPicks
  <2> QED BY <2>1, <2>4
<1>4. LongLegs(s, c, width) \subseteq Protecting(s, c) /\ LongLegs(m, d, width) \subseteq Protecting(m, d)
  BY DEF LongLegs
<1>5. ASSUME NEW q \in Protecting(s, c)
      PROVE  q \in LongLegs(s, c, width) <=> MirrorQuote(q, About) \in LongLegs(m, d, width)
  <2>1. \A p \in Protecting(s, c) :
          /\ MirrorQuote(p, About) \in Protecting(m, d)
          /\ Abs(MirrorQuote(p, About).strike - Target(m, width)) = Abs(p.strike - Target(s, width))
    BY <1>1, <1>2, MirrorOff
  <2>2. \A n \in Protecting(m, d) : \E p \in Protecting(s, c) : n = MirrorQuote(p, About)
    BY <1>1, <1>3, MirrorMembers
  <2> HIDE DEF m, d
  <2> QED BY <2>1, <2>2 DEF LongLegs
<1>6. LongLegs(m, d, width) = MirrorChain(LongLegs(s, c, width), About)
  <2>1. Protecting(s, c) \subseteq OptionQuote
    BY <1>1
  <2> HIDE DEF m, d
  <2> QED BY <1>3, <1>4, <1>5, <2>1, MirrorPicks
<1> QED BY <1>3, <1>6

\* The pairs of a short leg and one that protects it, those that fit, and whether
\* every short leg has a protecting one.
LegsOf(c, delta, width) ==
  UNION { { [short |-> s, long |-> l] : l \in LongLegs(s, c, width) } : s \in _nearest_by_delta(c, delta) }
Fits(s, width)   == InTolerance(s, width, sel) /\ credit(s) > 0
Capped(c, delta) ==
  _nearest_by_delta(c, delta) # {} /\ \A s \in _nearest_by_delta(c, delta) : Protecting(s, c) # {}

LEMMA BuildIs ==
  ASSUME NEW chain, NEW direction, NEW delta, NEW width, NEW c,
         c = liquid_contracts(chain, RightOf(direction), sel), NEW legs, legs = LegsOf(c, delta, width)
  PROVE  build_spread(chain, direction, delta, width, sel)
           = { {s} : s \in { s \in legs : Fits(s, width) } }
             \cup (IF Capped(c, delta) /\ \A s \in legs : Fits(s, width) THEN {} ELSE { {} })
<1>1. { s \in legs : Fits(s, width) } = legs <=> \A s \in legs : Fits(s, width)
  OBVIOUS
<1> QED BY <1>1 DEF build_spread, LegsOf, Fits, Capped

LEMMA LegsAre ==
  ASSUME NEW c, c \subseteq OptionQuote, NEW delta, NEW width, NEW s
  PROVE  /\ s \in LegsOf(c, delta, width) <=>
              \E a \in _nearest_by_delta(c, delta) : \E l \in LongLegs(a, c, width) : s = [short |-> a, long |-> l]
         /\ s \in LegsOf(c, delta, width) => s.short \in c /\ s.long \in c
<1>1. s \in LegsOf(c, delta, width) <=>
        \E a \in _nearest_by_delta(c, delta) : \E l \in LongLegs(a, c, width) : s = [short |-> a, long |-> l]
  BY DEF LegsOf
<1>2. _nearest_by_delta(c, delta) \subseteq c /\ \A a : LongLegs(a, c, width) \subseteq c
  BY DEF _nearest_by_delta, LongLegs, Protecting
<1> QED BY <1>1, <1>2

LEMMA MirrorLegs ==
  ASSUME NEW c, c \subseteq OptionQuote, NEW delta, NEW width \in Int
  PROVE  LET legs   == LegsOf(c, delta, width)
             mirror == LegsOf(MirrorChain(c, About), delta, width)
         IN  /\ \A s \in legs : MirrorSpread(s, About) \in mirror
             /\ \A t \in mirror : \E s \in legs : t = MirrorSpread(s, About)
             /\ \A s \in legs : Fits(MirrorSpread(s, About), width) <=> Fits(s, width)
             /\ Capped(MirrorChain(c, About), delta) <=> Capped(c, delta)
<1> DEFINE d      == MirrorChain(c, About)
           M(q)   == MirrorQuote(q, About)
           legs   == LegsOf(c, delta, width)
           mirror == LegsOf(d, delta, width)
           near   == _nearest_by_delta(c, delta)
<1>1. near \subseteq OptionQuote /\ _nearest_by_delta(d, delta) = MirrorChain(near, About) /\ d \subseteq OptionQuote
  BY MirrorShorts, MirrorMembers DEF _nearest_by_delta
<1>2. \A a \in near : /\ LongLegs(M(a), d, width) = MirrorChain(LongLegs(a, c, width), About)
                      /\ Protecting(M(a), d) = MirrorChain(Protecting(a, c), About)
                      /\ LongLegs(a, c, width) \subseteq OptionQuote /\ Protecting(a, c) \subseteq OptionQuote
  BY <1>1, MirrorLongs DEF LongLegs, Protecting
<1>3. ASSUME NEW s \in legs PROVE MirrorSpread(s, About) \in mirror
  <2>1. PICK a \in near : \E l \in LongLegs(a, c, width) : s = [short |-> a, long |-> l]
    BY <1>3, LegsAre
  <2>2. PICK l \in LongLegs(a, c, width) : s = [short |-> a, long |-> l]
    BY <2>1
  <2>3. MirrorSpread(s, About) = [short |-> M(a), long |-> M(l)]
    BY <2>2 DEF MirrorSpread
  <2>4. M(a) \in _nearest_by_delta(d, delta) /\ M(l) \in LongLegs(M(a), d, width)
    BY <1>1, <1>2, <2>2, MirrorMembers
  <2> QED BY <1>1, <2>3, <2>4, LegsAre
<1>4. ASSUME NEW t \in mirror PROVE \E s \in legs : t = MirrorSpread(s, About)
  <2>1. PICK m \in _nearest_by_delta(d, delta) : \E n \in LongLegs(m, d, width) : t = [short |-> m, long |-> n]
    BY <1>1, <1>4, LegsAre
  <2>2. PICK a \in near : m = M(a)
    BY <1>1, <2>1, MirrorMembers
  <2>3. PICK n \in LongLegs(M(a), d, width) : t = [short |-> M(a), long |-> n]
    BY <2>1, <2>2
  <2>4. PICK l \in LongLegs(a, c, width) : n = M(l)
    BY <1>2, <2>3, MirrorMembers
  <2>5. PICK s : s = [short |-> a, long |-> l]
    OBVIOUS
  <2>6. s \in legs
    BY <2>2, <2>4, <2>5, LegsAre
  <2>7. t = MirrorSpread(s, About)
    BY <2>3, <2>4, <2>5 DEF MirrorSpread
  <2> QED BY <2>6, <2>7
<1>5. ASSUME NEW s \in legs PROVE Fits(MirrorSpread(s, About), width) <=> Fits(s, width)
  <2>1. PICK a, l : a = s.short /\ l = s.long /\ a \in OptionQuote /\ l \in OptionQuote
    BY <1>5, LegsAre
  <2>2. PICK t : t = MirrorSpread(s, About)
    OBVIOUS
  <2>3. t.short = M(a) /\ t.long = M(l)
    BY <2>1, <2>2 DEF MirrorSpread
  <2>4. credit(t) = credit(s)
    BY <2>1, <2>3, MirrorTells DEF credit
  <2>5. Abs(t.long.strike - Target(t.short, width)) = Abs(s.long.strike - Target(s.short, width))
    BY <2>1, <2>3, MirrorOff
  <2> QED BY <2>2, <2>4, <2>5 DEF Fits, InTolerance
<1>6. Capped(d, delta) <=> Capped(c, delta)
  <2>1. _nearest_by_delta(d, delta) # {} <=> near # {}
    BY <1>1, MirrorMembers
  <2>2. \A a \in near : Protecting(M(a), d) # {} <=> Protecting(a, c) # {}
    BY <1>2, MirrorMembers
  <2>3. /\ \A a \in near : M(a) \in _nearest_by_delta(d, delta)
        /\ \A m \in _nearest_by_delta(d, delta) : \E a \in near : m = M(a)
    BY <1>1, MirrorMembers
  <2> HIDE DEF d, M
  <2> QED BY <2>1, <2>2, <2>3 DEF Capped
<1> QED BY <1>3, <1>4, <1>5, <1>6

\* Both sides of the market are read alike.
LEMMA MirrorBuilt ==
  ASSUME NEW chain, chain \subseteq OptionQuote, NEW direction, NEW opposite,
         <<direction, opposite>> \in { <<"bullish", "bearish">>, <<"bearish", "bullish">> },
         NEW delta, NEW width \in Int
  PROVE  MirrorSpreads(build_spread(chain, direction, delta, width, sel), About)
           = build_spread(MirrorChain(chain, About), opposite, delta, width, sel)
<1>1. PICK c, d : /\ c = liquid_contracts(chain, RightOf(direction), sel)
                  /\ d = liquid_contracts(MirrorChain(chain, About), RightOf(opposite), sel)
  OBVIOUS
<1>2. c \subseteq OptionQuote /\ d = MirrorChain(c, About)
  <2>1. RightOf(direction) \in {"put", "call"} /\ RightOf(opposite) = Other(RightOf(direction))
    BY DEF RightOf, Other
  <2> QED BY <1>1, <2>1, MirrorLiquid DEF liquid_contracts
<1>3. PICK legs, mirror : legs = LegsOf(c, delta, width) /\ mirror = LegsOf(d, delta, width)
  OBVIOUS
<1>4. /\ \A s \in legs : MirrorSpread(s, About) \in mirror
      /\ \A t \in mirror : \E s \in legs : t = MirrorSpread(s, About)
      /\ \A s \in legs : Fits(MirrorSpread(s, About), width) <=> Fits(s, width)
      /\ Capped(d, delta) <=> Capped(c, delta)
  BY <1>2, <1>3, MirrorLegs
<1>5. PICK all \in BOOLEAN : all <=> Capped(c, delta) /\ \A s \in legs : Fits(s, width)
  OBVIOUS
<1>6. all <=> Capped(d, delta) /\ \A t \in mirror : Fits(t, width)
  BY <1>4, <1>5
<1>7. PICK found : found = build_spread(chain, direction, delta, width, sel)
  OBVIOUS
<1>8. found = { {s} : s \in { s \in legs : Fits(s, width) } } \cup (IF all THEN {} ELSE { {} })
  BY <1>1, <1>3, <1>5, <1>7, BuildIs
<1>9. build_spread(MirrorChain(chain, About), opposite, delta, width, sel)
        = { {t} : t \in { t \in mirror : Fits(t, width) } } \cup (IF all THEN {} ELSE { {} })
  BY <1>1, <1>3, <1>6, BuildIs
<1>10. MirrorSpreads(found, About)
         = { {t} : t \in { t \in mirror : Fits(t, width) } } \cup (IF all THEN {} ELSE { {} })
  <2> DEFINE B == { {t} : t \in { t \in mirror : Fits(t, width) } } \cup (IF all THEN {} ELSE { {} })
  <2>1. ASSUME NEW f \in MirrorSpreads(found, About) PROVE f \in B
    <3>1. PICK g \in found : f = { MirrorSpread(s, About) : s \in g }
      BY <2>1 DEF MirrorSpreads
    <3>2. CASE g = {} /\ ~all
      <4>1. f = {}
        BY <3>1, <3>2
      <4> QED BY <3>2, <4>1
    <3>3. ASSUME NEW s \in legs, Fits(s, width), g = {s} PROVE f \in B
      <4>1. f = { MirrorSpread(s, About) }
        BY <3>1, <3>3
      <4>2. MirrorSpread(s, About) \in mirror /\ Fits(MirrorSpread(s, About), width)
        BY <1>4, <3>3
      <4> QED BY <4>1, <4>2
    <3> QED BY <1>8, <3>1, <3>2, <3>3
  <2>2. ASSUME NEW f \in B PROVE f \in MirrorSpreads(found, About)
    <3>1. CASE f = {} /\ ~all
      <4>1. {} \in found
        BY <1>8, <3>1
      <4>2. f = { MirrorSpread(s, About) : s \in {} }
        BY <3>1
      <4> QED BY <4>1, <4>2 DEF MirrorSpreads
    <3>2. ASSUME NEW t \in mirror, Fits(t, width), f = {t} PROVE f \in MirrorSpreads(found, About)
      <4>1. PICK s \in legs : t = MirrorSpread(s, About)
        BY <1>4
      <4>2. {s} \in found
        BY <1>4, <1>8, <3>2, <4>1
      <4>3. f = { MirrorSpread(r, About) : r \in {s} }
        BY <3>2, <4>1
      <4> QED BY <4>2, <4>3 DEF MirrorSpreads
    <3> QED BY <2>2, <3>1, <3>2
  <2> HIDE DEF B
  <2>3. MirrorSpreads(found, About) = B
    BY <2>1, <2>2
  <2> QED BY <2>3 DEF B
<1> QED BY <1>7, <1>9, <1>10

\* Rounding goes to the nearest, half way at most.
LEMMA RoundsNear ==
  ASSUME NEW n \in Int, NEW d \in Nat \ {0}
  PROVE  RoundHalfEven(n, d) \in Int /\ 2 * Abs(d * RoundHalfEven(n, d) - n) =< d
<1>1. PICK q \in Int : q = n \div d
  BY DivisionIs
<1>2. PICK r \in Int : r = n % d /\ 0 =< r /\ r < d /\ n = (n \div d) * d + (n % d)
  BY RestIs
<1>3. PICK x \in Int : x = q * d /\ x = d * q /\ x + d = d * (q + 1)
  OBVIOUS
<1>4. n = x + r
  BY <1>1, <1>2, <1>3
<1>5. \/ RoundHalfEven(n, d) = q /\ 2 * r =< d
      \/ RoundHalfEven(n, d) = q + 1 /\ 2 * r >= d
  BY <1>1, <1>2 DEF RoundHalfEven
<1>6. CASE RoundHalfEven(n, d) = q /\ 2 * r =< d
  <2>1. d * RoundHalfEven(n, d) - n = -r
    BY <1>3, <1>4, <1>6
  <2> QED BY <1>2, <1>6, <2>1 DEF Abs
<1>7. CASE RoundHalfEven(n, d) = q + 1 /\ 2 * r >= d
  <2>1. d * RoundHalfEven(n, d) - n = d - r
    BY <1>3, <1>4, <1>7
  <2> QED BY <1>2, <1>7, <2>1 DEF Abs
<1> QED BY <1>5, <1>6, <1>7

\* Strikes are apart.
LEMMA StepIs ==
  ASSUME NEW c, PlainChain(c)
  PROVE  strike_step(c) \in Nat \ {0}
<1> DEFINE strikes == { q.strike : q \in c }
           pairs   == { w \in strikes \X strikes : w[1] < w[2] }
           gaps    == { p[2] - p[1] : p \in pairs }
<1>1. IsFiniteSet(strikes) /\ strikes \subseteq Int
  <2> DEFINE f == [q \in c |-> q.strike]
  <2>1. f \in Surjection(c, strikes)
    BY DEF Surjection
  <2>2. strikes \subseteq Int
    BY DEF PlainChain, OptionQuote
  <2> HIDE DEF f, strikes
  <2> QED BY <2>1, <2>2, FS_Surjection DEF PlainChain
<1>2. IsFiniteSet(pairs)
  <2>1. IsFiniteSet(strikes \X strikes)
    <3> HIDE DEF strikes
    <3> QED BY <1>1, FS_Product
  <2>2. pairs \in SUBSET (strikes \X strikes)
    OBVIOUS
  <2> HIDE DEF pairs, strikes
  <2> QED BY <2>1, <2>2, FS_Subset
<1>3. IsFiniteSet(gaps)
  <2> DEFINE f == [p \in pairs |-> p[2] - p[1]]
  <2>1. f \in Surjection(pairs, gaps)
    <3> HIDE DEF pairs
    <3> QED BY DEF Surjection
  <2> HIDE DEF f, gaps, pairs
  <2> QED BY <1>2, <2>1, FS_Surjection
<1>4. ASSUME NEW g \in gaps PROVE g \in Nat \ {0}
  <2>1. PICK p \in pairs : g = p[2] - p[1]
    OBVIOUS
  <2>2. p[1] \in strikes /\ p[2] \in strikes /\ p[1] < p[2]
    BY <2>1
  <2>3. \A x \in Int, y \in Int : x < y => y - x \in Nat \ {0}
    OBVIOUS
  <2> HIDE DEF strikes
  <2>4. p[1] \in Int /\ p[2] \in Int
    BY <1>1, <2>2
  <2> QED BY <2>1, <2>2, <2>3, <2>4
<1>5. strike_step(c) = IF gaps = {} THEN Dollar ELSE Min(gaps)
  BY DEF strike_step
<1> HIDE DEF gaps
<1>6. CASE gaps = {}
  BY <1>5, <1>6 DEF Dollar
<1>7. CASE gaps # {}
  <2>1. gaps \subseteq Int
    BY <1>4
  <2> QED BY <1>3, <1>4, <1>5, <1>7, <2>1, MinIs
<1> QED BY <1>6, <1>7

\* The width is the share of the spot to half a step, or one step.
LEMMA WidthIs ==
  ASSUME NEW step \in Nat \ {0}, NEW spot \in Int
  PROVE  /\ width_for(spot, step, sel) \in Int
         /\ \/ width_for(spot, step, sel) = step
            \/ Abs(10000 * width_for(spot, step, sel) - RawWidth(spot, sel)) =< 5000 * step
<1>1. PICK raw \in Int : raw = RawWidth(spot, sel)
  <2>1. PICK x \in Int : x = spot * sel.width_pct
    BY QuotesAssumption
  <2>2. PICK y \in Int : y = Min({ 250000 * Dollar, x })
    BY MinOfTwo, 250000 * 200 \in Int DEF Dollar
  <2>3. Max({ 5000 * Dollar, y }) \in Int
    BY <2>2, MaxOfTwo, 5000 * 200 \in Int DEF Dollar
  <2> QED BY <2>1, <2>2, <2>3 DEF RawWidth
<1>2. PICK d \in Nat \ {0} : d = 10000 * step
  OBVIOUS
<1>3. PICK k \in Int : k = RoundHalfEven(raw, d) /\ 2 * Abs(d * k - raw) =< d
  BY RoundsNear
<1>4. PICK x \in Int : x = step * k /\ d * k = 10000 * x
  BY <1>2
<1>5. PICK w : w = width_for(spot, step, sel)
  OBVIOUS
<1>6. w = Max({ step, x })
  BY <1>1, <1>2, <1>3, <1>4, <1>5 DEF width_for
<1>7. w \in {step, x}
  BY <1>6, MaxOfTwo
<1>8. Abs(10000 * x - raw) =< 5000 * step
  BY <1>2, <1>3, <1>4 DEF Abs
<1> QED BY <1>1, <1>5, <1>7, <1>8

\* What the two legs of a spread that is built are to each other and to the chain.
LEMMA BuiltAsAsked ==
  ASSUME NEW chain, PlainChain(chain), NEW direction \in {"bullish", "bearish"}, NEW delta, NEW width \in Int,
         NEW f \in build_spread(chain, direction, delta, width, sel), NEW s \in f
  PROVE  /\ s.short.right = RightOf(direction) /\ s.long.right = s.short.right
         /\ IF direction = "bullish" THEN s.long.strike < s.short.strike ELSE s.long.strike > s.short.strike
         /\ max_loss(s) < Width(s)
         /\ 100 * Abs(Width(s) - width) =< sel.width_tolerance * width
         /\ 200 * (credit(s) - Natural(s)) =< sel.max_quote_spread_pct * (mid(s.short) + mid(s.long))
         /\ \A q \in liquid_contracts(chain, RightOf(direction), sel) :
              Abs(s.short.delta - delta) =< Abs(q.delta - delta)
<1>1. PICK c, legs : c = liquid_contracts(chain, RightOf(direction), sel) /\ legs = LegsOf(c, delta, width)
  OBVIOUS
<1>2. s \in legs /\ Fits(s, width)
  BY <1>1, BuildIs
<1>3. c \subseteq chain /\ c \subseteq OptionQuote
  BY <1>1 DEF liquid_contracts, PlainChain
<1>4. PICK a \in _nearest_by_delta(c, delta) : \E l \in LongLegs(a, c, width) : s = [short |-> a, long |-> l]
  BY <1>1, <1>2, <1>3, LegsAre
<1>5. PICK l \in LongLegs(a, c, width) : s = [short |-> a, long |-> l]
  BY <1>4
<1>6. /\ a \in c /\ l \in c /\ a.right = RightOf(direction) /\ l.right = RightOf(direction)
      /\ is_liquid(a, sel) /\ is_liquid(l, sel)
      /\ IF a.right = "put" THEN l.strike < a.strike ELSE l.strike > a.strike
  BY <1>1, <1>5 DEF _nearest_by_delta, LongLegs, Protecting, liquid_contracts
<1>7. s.short = a /\ s.long = l
  BY <1>5
<1>8. PICK x \in Int, y \in Int : x = a.strike /\ y = l.strike
  BY <1>3, <1>6 DEF OptionQuote
<1>9. max_loss(s) < Width(s)
  <2>1. credit(s) \in Int /\ credit(s) > 0
    <3>1. mid(a) \in Int /\ mid(l) \in Int
      BY <1>3, <1>6 DEF mid, OptionQuote
    <3> QED BY <1>2, <1>7, <3>1 DEF credit, Fits
  <2>2. Width(s) \in Int
    BY <1>7, <1>8 DEF Width, Abs
  <2> QED BY <2>1, <2>2 DEF max_loss
<1>10. 100 * Abs(Width(s) - width) =< sel.width_tolerance * width
  <2>1. 100 * Abs(y - Target(a, width)) =< sel.width_tolerance * width
    BY <1>2, <1>7, <1>8 DEF Fits, InTolerance
  <2>2. CASE a.right = "put"
    <3>1. Width(s) = x - y /\ Target(a, width) = x - width
      BY <1>6, <1>7, <1>8, <2>2 DEF Width, Abs, Target
    <3>2. Abs(Width(s) - width) = Abs(y - Target(a, width))
      BY <1>8, <3>1 DEF Abs
    <3> QED BY <2>1, <3>2
  <2>3. CASE a.right # "put"
    <3>1. Width(s) = y - x /\ Target(a, width) = x + width
      BY <1>6, <1>7, <1>8, <2>3 DEF Width, Abs, Target
    <3>2. Abs(Width(s) - width) = Abs(y - Target(a, width))
      BY <1>8, <3>1 DEF Abs
    <3> QED BY <2>1, <3>2
  <2> QED BY <2>2, <2>3
<1>11. 200 * (credit(s) - Natural(s)) =< sel.max_quote_spread_pct * (mid(s.short) + mid(s.long))
  <2>1. ASSUME NEW q \in c, is_liquid(q, sel)
        PROVE  /\ mid(q) \in Int /\ q.bid \in Int /\ q.ask \in Int
               /\ 2 * mid(q) = q.bid + q.ask
               /\ 100 * (q.ask - q.bid) =< sel.max_quote_spread_pct * mid(q)
    <3>1. PICK b \in Int, k \in Int : q.bid = b /\ q.ask = k /\ b % 2 = 0 /\ k % 2 = 0
      BY <1>3, <2>1 DEF OptionQuote, PlainChain, Cent
    <3>2. (b + k) \div 2 \in Int /\ 2 * ((b + k) \div 2) = b + k
      BY <3>1
    <3> QED BY <2>1, <3>1, <3>2 DEF mid, is_liquid
  <2>2. PICK m \in Int, n \in Int, ab \in Int, aa \in Int, lb \in Int, la \in Int :
          /\ m = mid(a) /\ n = mid(l) /\ ab = a.bid /\ aa = a.ask /\ lb = l.bid /\ la = l.ask
    BY <1>6, <2>1
  <2>3. /\ 2 * m = ab + aa /\ 2 * n = lb + la
        /\ 100 * (aa - ab) =< sel.max_quote_spread_pct * m
        /\ 100 * (la - lb) =< sel.max_quote_spread_pct * n
    BY <1>6, <2>1, <2>2
  <2>4. PICK t \in Int : t = sel.max_quote_spread_pct
    BY QuotesAssumption
  <2>5. PICK u \in Int, v \in Int : u = t * m /\ v = t * n /\ t * (m + n) = u + v
    OBVIOUS
  <2>6. credit(s) = m - n /\ Natural(s) = ab - la
    BY <1>7, <2>2 DEF credit, Natural
  <2>7. 200 * (m - n - (ab - la)) =< u + v
    BY <2>3, <2>4, <2>5
  <2> QED BY <1>7, <2>2, <2>4, <2>5, <2>6, <2>7
<1>12. \A q \in c : Abs(s.short.delta - delta) =< Abs(q.delta - delta)
  BY <1>4, <1>7 DEF _nearest_by_delta
<1> QED BY <1>1, <1>6, <1>7, <1>9, <1>10, <1>11, <1>12 DEF RightOf

LEMMA BuildShows ==
  ASSUME NEW puts \in Chains, NEW calls \in { MirrorChain(c, About) : c \in Chains }, NEW spot \in Spots,
         NEW exp, Build(puts, calls, spot, exp), regime' = regime
  PROVE  SpreadsAsAsked'
<1> DEFINE At(f) == { [short |-> s.short, long |-> s.long, expiry |-> exp] : s \in f }
<1>1. PICK width, delta : width = _width(spot, puts \cup calls) /\ delta = delta_for(regime, sel)
  OBVIOUS
<1>2. /\ bull' \in { At(f) : f \in build_spread(puts, "bullish", delta, width, sel) }
      /\ bear' \in { At(f) : f \in build_spread(calls, "bearish", delta, width, sel) }
      /\ seen' \subseteq { [puts |-> puts, calls |-> calls, spot |-> spot, width |-> width] }
  BY <1>1 DEF Build
<1>3. PICK f \in build_spread(puts, "bullish", delta, width, sel) : bull' = At(f)
  BY <1>2
<1>4. PICK g \in build_spread(calls, "bearish", delta, width, sel) : bear' = At(g)
  BY <1>2
<1>5. /\ PlainChain(puts) /\ PlainChain(calls)
      /\ \A q \in puts : q.right = "put"
      /\ \A q \in calls : q.right = "call"
  BY PlainChains
<1>6. PICK chain : chain = puts \cup calls /\ PlainChain(chain)
  <2>1. IsFiniteSet(puts \cup calls)
    BY <1>5, FS_Union DEF PlainChain
  <2> QED BY <1>5, <2>1 DEF PlainChain
<1>7. PICK step \in Nat \ {0} : step = strike_step(chain)
  BY <1>6, StepIs
<1>8. /\ width \in Int
      /\ spot = {} \/ width = step \/ Abs(10000 * width - RawWidth(Max(spot), sel)) =< 5000 * step
  <2>1. CASE spot = {}
    BY <1>1, <2>1 DEF _width, Dollar
  <2>2. CASE spot # {}
    <3>1. PICK x \in Int : spot = {x}
      BY <2>2, QuotesAssumption
    <3>2. Max(spot) = x
      BY <3>1, MaxOfOne
    <3>3. width = width_for(x, step, sel)
      BY <1>1, <1>6, <1>7, <2>2, <3>2 DEF _width
    <3> QED BY <3>2, <3>3, WidthIs
  <2> QED BY <2>1, <2>2
\* One side and its rivals: those of the other right are none.
<1>9. ASSUME NEW side \in { <<bull', "bullish", "put">>, <<bear', "bearish", "call">> }, NEW s \in side[1]
      PROVE  /\ s.short.right = side[3] /\ s.long.right = side[3]
             /\ IF side[3] = "put" THEN s.long.strike < s.short.strike ELSE s.long.strike > s.short.strike
             /\ max_loss(s) < Width(s)
             /\ 100 * Abs(Width(s) - width) =< sel.width_tolerance * width
             /\ 200 * (credit(s) - Natural(s)) =< sel.max_quote_spread_pct * (mid(s.short) + mid(s.long))
             /\ \A q \in chain : q.right = side[3] /\ is_liquid(q, sel)
                                   => Abs(s.short.delta - delta) =< Abs(q.delta - delta)
  <2>1. PICK own, direction, built :
          /\ <<own, direction, side[3]>> \in { <<puts, "bullish", "put">>, <<calls, "bearish", "call">> }
          /\ built \in build_spread(own, direction, delta, width, sel)
          /\ side[1] = { [short |-> r.short, long |-> r.long, expiry |-> exp] : r \in built }
    BY <1>3, <1>4, <1>9
  <2>2. PICK r \in built : s = [short |-> r.short, long |-> r.long, expiry |-> exp]
    BY <1>9, <2>1
  <2>3. PlainChain(own) /\ direction \in {"bullish", "bearish"} /\ side[3] = RightOf(direction)
    BY <1>5, <2>1 DEF RightOf
  <2>4. s.short = r.short /\ s.long = r.long
    BY <2>2
  <2>5. /\ max_loss(s) = max_loss(r) /\ Width(s) = Width(r) /\ credit(s) = credit(r) /\ Natural(s) = Natural(r)
    BY <2>4 DEF max_loss, Width, credit, Natural
  <2>6. /\ r.short.right = RightOf(direction) /\ r.long.right = r.short.right
        /\ IF direction = "bullish" THEN r.long.strike < r.short.strike ELSE r.long.strike > r.short.strike
        /\ max_loss(r) < Width(r)
        /\ 100 * Abs(Width(r) - width) =< sel.width_tolerance * width
        /\ 200 * (credit(r) - Natural(r)) =< sel.max_quote_spread_pct * (mid(r.short) + mid(r.long))
        /\ \A q \in liquid_contracts(own, RightOf(direction), sel) :
             Abs(r.short.delta - delta) =< Abs(q.delta - delta)
    BY <1>8, <2>1, <2>2, <2>3, BuiltAsAsked
  <2>7. \A q \in chain : q.right = side[3] /\ is_liquid(q, sel)
                           => q \in liquid_contracts(own, RightOf(direction), sel)
    BY <1>5, <1>6, <2>1, <2>3 DEF liquid_contracts
  <2>8. (direction = "bullish") <=> (side[3] = "put")
    BY <2>1
  <2> QED BY <2>3, <2>4, <2>5, <2>6, <2>7, <2>8
<1>10. /\ MirrorSpreads(build_spread(puts, "bullish", delta, width, sel), About)
            = build_spread(MirrorChain(puts, About), "bearish", delta, width, sel)
       /\ MirrorSpreads(build_spread(calls, "bearish", delta, width, sel), About)
            = build_spread(MirrorChain(calls, About), "bullish", delta, width, sel)
  BY <1>5, <1>8, MirrorBuilt DEF PlainChain
<1>11. ASSUME NEW s \in bull' \cup bear'
       PROVE  /\ IF s \in bull' THEN s.short.right = "put" /\ s.long.strike < s.short.strike
                                ELSE s.short.right = "call" /\ s.long.strike > s.short.strike
              /\ s.long.right = s.short.right
              /\ max_loss(s) < Width(s)
              /\ 100 * Abs(Width(s) - width) =< sel.width_tolerance * width
              /\ 200 * (credit(s) - Natural(s)) =< sel.max_quote_spread_pct * (mid(s.short) + mid(s.long))
              /\ \A q \in { q \in chain : q.right = s.short.right /\ is_liquid(q, sel) } :
                   Abs(s.short.delta - delta) =< Abs(q.delta - delta)
  <2>1. CASE s \in bull'
    <3>1. PICK side : side = <<bull', "bullish", "put">>
      OBVIOUS
    <3>2. side[1] = bull' /\ side[3] = "put"
      BY <3>1
    <3> QED BY <1>9, <2>1, <3>1, <3>2
  <2>2. CASE s \notin bull'
    <3>1. PICK side : side = <<bear', "bearish", "call">>
      OBVIOUS
    <3>2. side[1] = bear' /\ side[3] = "call"
      BY <3>1
    <3> QED BY <1>9, <1>11, <2>2, <3>1, <3>2
  <2> QED BY <2>1, <2>2
<1>12. ASSUME NEW from \in seen'
       PROVE  from.puts = puts /\ from.calls = calls /\ from.spot = spot /\ from.width = width
  BY <1>2, <1>12
<1>13. delta_for(regime', sel) = delta
  BY <1>1
<1> HIDE DEF At
<1>14. ASSUME NEW from \in seen'
       PROVE  LET chosen == delta_for(regime', sel)
                  all    == from.puts \cup from.calls
              IN  /\ \A s \in bull' \cup bear' :
                       /\ IF s \in bull' THEN s.short.right = "put" /\ s.long.strike < s.short.strike
                                         ELSE s.short.right = "call" /\ s.long.strike > s.short.strike
                       /\ s.long.right = s.short.right
                       /\ max_loss(s) < Width(s)
                       /\ 100 * Abs(Width(s) - from.width) =< sel.width_tolerance * from.width
                       /\ 200 * (credit(s) - Natural(s)) =< sel.max_quote_spread_pct * (mid(s.short) + mid(s.long))
                       /\ \A q \in { q \in all : q.right = s.short.right /\ is_liquid(q, sel) } :
                            Abs(s.short.delta - chosen) =< Abs(q.delta - chosen)
                  /\ from.spot = {} \/ from.width = strike_step(all)
                       \/ Abs(10000 * from.width - RawWidth(Max(from.spot), sel)) =< 5000 * strike_step(all)
                  /\ MirrorSpreads(build_spread(from.puts, "bullish", chosen, from.width, sel), About)
                       = build_spread(MirrorChain(from.puts, About), "bearish", chosen, from.width, sel)
                  /\ MirrorSpreads(build_spread(from.calls, "bearish", chosen, from.width, sel), About)
                       = build_spread(MirrorChain(from.calls, About), "bullish", chosen, from.width, sel)
  <2>1. from.puts \cup from.calls = chain /\ strike_step(from.puts \cup from.calls) = step
    BY <1>6, <1>7, <1>12
  <2> QED BY <1>8, <1>10, <1>11, <1>12, <1>13, <2>1
<1> QED BY <1>14 DEF SpreadsAsAsked

LEMMA SeenKeeps ==
  ASSUME SeenInv, [Next]_vars
  PROVE  SeenInv'
<1>1. ASSUME NEW puts \in Chains, NEW calls \in { MirrorChain(c, About) : c \in Chains }, NEW spot \in Spots,
             ReadSpreads(puts, calls, spot) \/ WalkOn(puts, calls, spot)
      PROVE  SeenInv'
  <2>1. \E exp : Build(puts, calls, spot, exp)
    BY <1>1 DEF ReadSpreads, WalkOn
  <2>2. regime' = regime /\ (bull' \cup bear' # {} => pc' = "screen")
    BY <1>1 DEF ReadSpreads, WalkOn, Go, Tradable
  <2>3. seen' # {} => bull' \cup bear' # {}
    BY <2>1 DEF Build
  <2> QED BY <2>1, <2>2, <2>3, BuildShows DEF SeenInv
<1>2. ASSUME seen' = {} PROVE SeenInv'
  BY <1>2 DEF SeenInv, SpreadsAsAsked
<1>3. ASSUME pc # "screen", seen' = seen PROVE SeenInv'
  BY <1>2, <1>3 DEF SeenInv
<1>4. CASE UNCHANGED vars
  <2>1. UNCHANGED <<pc, regime, seen, bull, bear>>
    BY <1>4 DEF vars, sides
  <2>2. SpreadsAsAsked' <=> SpreadsAsAsked
    BY <2>1 DEF SpreadsAsAsked
  <2> QED BY <2>1, <2>2 DEF SeenInv
<1>5. CASE Screen \/ NextPass
  BY <1>2, <1>5 DEF Screen, NextPass, ForgetLookup
<1>6. CASE \/ \E m \in Markets, read \in BOOLEAN, r \in Regimes : FindExpiry(m, read, r)
           \/ \E read \in BOOLEAN : LookFurther(read)
           \/ NoFurther
           \/ \E answer \in Answers : AskPrimary(answer) \/ AskFallback(answer)
  BY <1>3, <1>6 DEF FindExpiry, LookFurther, NoFurther, AskPrimary, AskFallback, sides
<1>7. CASE Route \/ Approve \/ Veto \/ SubmitFirst \/ (\E q \in Requotes : SubmitNext(q)) \/ NextRung
  BY <1>3, <1>7 DEF Route, Approve, Veto, SubmitFirst, SubmitNext, NextRung, sides
<1>8. CASE Filled \/ Unfilled \/ Pending \/ CycleRaises
  BY <1>3, <1>8 DEF Filled, Unfilled, Pending, CycleRaises, sides
<1> QED BY <1>1, <1>4, <1>5, <1>6, <1>7, <1>8 DEF Next

-----------------------------------------------------------------------------
(***************************************************************************)
(* The theorems.                                                           *)
(***************************************************************************)
\* Every cycle goes through its stretches in order, and each keeps what the next
\* relies on: an expiry in reach, answers of which the last decides, wings that were
\* decided, and a ladder that walks down (run_cycle, propose, _place).
THEOREM Cycles == Spec => []CycleInv
<1>1. Init => CycleInv
  BY InitKeeps
<1>2. CycleInv /\ [Next]_vars => CycleInv'
  BY NextKeeps
<1> QED BY <1>1, <1>2, PTL DEF Spec

\* What is traded expires on one listed day, in sessions neither too near nor too far,
\* and no nearer day was passed over that had a spread (nearest_expiry, next_expiries).
THEOREM ExpiriesAreInReach == Spec => []ExpiryInReach
<1>1. CycleInv => ExpiryInReach
  BY ReachFollows DEF CycleInv
<1> QED BY <1>1, Cycles, PTL

\* What is traded was asked for by an answer confident enough, a pair is placed one
\* wing after the other, and every wing pays for its risk (propose, run_cycle).
THEOREM TradesAreDecided == Spec => []OpenedAsDecided
<1>1. CycleInv => OpenedAsDecided
  BY DecidedFollows DEF CycleInv
<1> QED BY <1>1, Cycles, PTL

\* Both sides are built as asked: a loss less than the width, the width that was wanted,
\* liquid legs, none nearer the delta, and puts and calls alike (build_spread, width_for).
THEOREM SpreadsAreAsAsked == Spec => []SpreadsAsAsked
<1>1. Init => SeenInv
  BY DEF Init, SeenInv, SpreadsAsAsked
<1>2. SeenInv /\ [Next]_vars => SeenInv'
  BY SeenKeeps
<1>3. SeenInv => SpreadsAsAsked
  BY DEF SeenInv
<1> QED BY <1>1, <1>2, <1>3, PTL DEF Spec

\* The limits of an entry only walk down, no further than the market gives at once,
\* and end there (EntryLadder, ladder_price, _place).
THEOREM LimitsWalkDown == Spec => []RungsWalkDown
<1>1. CycleInv => RungsWalkDown
  BY DEF CycleInv, LadderInv
<1> QED BY <1>1, Cycles, PTL

=============================================================================
