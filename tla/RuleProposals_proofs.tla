------------------------ MODULE RuleProposals_proofs ------------------------
(***************************************************************************)
(* Proofs about the rules table and the proposals, for every set of        *)
(* groups, requests, nights, edits and environments and every bound.       *)
(*                                                                         *)
(* The invariant is ProposalsInv of RuleProposals: a request carries what  *)
(* its proposal says, a proposal what its night found, and each request    *)
(* that may write has its row of the history to come.  Every step is shown *)
(* to keep it; the history of the table is then read beside it.            *)
(***************************************************************************)
EXTENDS RuleProposals, Sums_proofs, SequenceTheorems

-----------------------------------------------------------------------------
(***************************************************************************)
(* What a night proposes.                                                  *)
(***************************************************************************)

\* The bounds of the registry.
LEMMA RegistryIs ==
  ASSUME NEW k \in Key
  PROVE  /\ REGISTRY[k].lo \in Nat /\ REGISTRY[k].hi \in Nat /\ REGISTRY[k].default \in Nat
         /\ 0 < REGISTRY[k].lo /\ REGISTRY[k].lo <= REGISTRY[k].default
         /\ REGISTRY[k].default <= REGISTRY[k].hi
<1>1. k = "take_profit_far" \/ k = "stop_delta"
  BY DEF Key, REGISTRY
<1>2. CASE k = "take_profit_far"
  BY <1>2 DEF REGISTRY, ParamSpec
<1>3. CASE k = "stop_delta"
  BY <1>3 DEF REGISTRY, ParamSpec
<1> QED BY <1>1, <1>2, <1>3

\* NaN is no number.
LEMMA Numbers == \A n \in Int : n # NaN
BY NaNAssumption

\* What the registry accepts is NaN or within the bounds.
LEMMA CoercesIs ==
  ASSUME NEW k \in Key, NEW v \in Int \cup {NaN}
  PROVE  Coerces(k, v) <=> v = NaN \/ v \in REGISTRY[k].lo..REGISTRY[k].hi
<1>1. PICK lo \in Nat, hi \in Nat : lo = REGISTRY[k].lo /\ hi = REGISTRY[k].hi
  BY RegistryIs
<1>2. lo # NaN /\ hi # NaN
  BY <1>1, Numbers
<1>3. CASE v = NaN
  BY <1>3 DEF Coerces, Less
<1>4. CASE v # NaN
  BY <1>1, <1>2, <1>4 DEF Coerces, Less
<1> QED BY <1>3, <1>4

\* The value in force is one the registry accepts.
LEMMA GetIs ==
  ASSUME TypeOK, NEW s \in Scope, NEW k \in Key
  PROVE  Get(rules, k, s) \in Value /\ Coerces(k, Get(rules, k, s))
<1>1. GLOBAL \in Scope
  BY DEF Scope
<1>2. ASSUME NEW t \in Scope, rules[t][k] # Absent
      PROVE  rules[t][k] \in Value /\ Coerces(k, rules[t][k])
  <2>1. rules[t][k] \in Value /\ rules[t][k] \in Int \cup {NaN}
    BY DEF TypeOK, Value
  <2>2. rules[t][k] = NaN \/ rules[t][k] \in REGISTRY[k].lo..REGISTRY[k].hi
    BY <1>2 DEF TypeOK
  <2> QED BY <2>1, <2>2, CoercesIs
<1>3. REGISTRY[k].default \in Value /\ Coerces(k, REGISTRY[k].default)
  BY RegistryIs, CoercesIs DEF Value
<1> QED BY <1>1, <1>2, <1>3 DEF Get

\* A step of a quarter at most, inside the registry.
LEMMA BoundedIs ==
  ASSUME NEW k \in Key, NEW c \in Nat, Coerces(k, c), NEW target \in Int
  PROVE  /\ _bounded(k, c, target) \in Nat /\ Coerces(k, _bounded(k, c, target))
         /\ 4 * _bounded(k, c, target) >= 3 * c - 2
<1>1. PICK lo \in Nat, hi \in Nat : lo = REGISTRY[k].lo /\ hi = REGISTRY[k].hi
  BY RegistryIs
<1>2. lo <= c /\ c <= hi /\ 0 < lo
  BY <1>1, RegistryIs, CoercesIs, Numbers
<1>3. PICK low \in Int, high \in Int : low = (3 * c + 2) \div 4 /\ high = (5 * c + 2) \div 4
  OBVIOUS
<1>4. 4 * low >= 3 * c - 2 /\ low <= c
  BY <1>2, <1>3
<1>5. _bounded(k, c, target) = Greatest(Greatest(lo, low), Least(Least(hi, high), target))
  BY <1>1, <1>3 DEF _bounded
<1>6. PICK b : b = _bounded(k, c, target)
  OBVIOUS
<1>7. b \in Int /\ b >= lo /\ b <= hi /\ b >= low
  BY <1>2, <1>4, <1>5, <1>6 DEF Greatest, Least
<1> QED BY <1>1, <1>2, <1>4, <1>6, <1>7, CoercesIs

\* What a night has to add, before it adds the first.
NightRow == { x \in Row : Sound(x) /\ InForce(x) /\ x.batch = props }

\* A bucket that asks for a lower value proposes one such row, or none.
LEMMA LowerIs ==
  ASSUME TypeOK, NEW g \in Groups, NEW k \in Key, NEW target \in Int, Get(rules, k, g) # NaN
  PROVE  Lower(g, k, Get(rules, k, g), target) \in Seq(NightRow)
<1>0. g \in Scope
  BY DEF Scope
<1>1. PICK c \in Nat : c = Get(rules, k, g) /\ Coerces(k, c)
  BY <1>0, GetIs DEF Value
<1>2. PICK b \in Nat : b = _bounded(k, c, target) /\ Coerces(k, b) /\ 4 * b >= 3 * c - 2
  BY <1>1, BoundedIs
<1>3. PICK n \in 0..MaxChanges : n = Len(history)
  BY BoundsAssumption, LenProperties DEF TypeOK
<1>4. PICK st \in BOOLEAN : st = Stored(rules, k, g)
  BY DEF Stored
<1> DEFINE x == [scope |-> g, key |-> k, current |-> c, proposed |-> b,
                 asof |-> n, batch |-> props, stored |-> st]
<1>5. x \in Row
  BY <1>0, <1>3 DEF Row, TypeOK
<1>6. ~Touched(x, Len(history))
  BY <1>3 DEF Touched
<1>7. InForce(x)
  BY <1>1, <1>4 DEF InForce
<1>8. b < c => Sound(x)
  BY <1>2, <1>3 DEF Sound
<1>9. b < c => x \in NightRow
  BY <1>5, <1>7, <1>8 DEF NightRow
<1>10. Lower(g, k, c, target) = IF b < c THEN <<x>> ELSE <<>>
  BY <1>2, <1>3, <1>4 DEF Lower
<1> HIDE DEF x
<1> QED BY <1>1, <1>9, <1>10

\* A bucket proposes such rows only.
LEMMA ProposeIs ==
  ASSUME TypeOK, NEW b, b.group \in Groups, b.agg.median_mfe_losers \subseteq Int
  PROVE  propose(b, Get(rules, "take_profit_far", b.group), Get(rules, "stop_delta", b.group))
           \in Seq(NightRow)
<1>1. "take_profit_far" \in Key /\ "stop_delta" \in Key /\ b.group \in Scope
  BY DEF Key, REGISTRY, Scope
<1>2. PICK tp \in Value, sd \in Value : /\ tp = Get(rules, "take_profit_far", b.group)
                                    /\ sd = Get(rules, "stop_delta", b.group)
  BY <1>1, GetIs
<1> DEFINE target == CHOOSE m \in b.agg.median_mfe_losers : TRUE
<1>3. tp # NaN /\ Greedy(b.agg, tp) => Lower(b.group, "take_profit_far", tp, target) \in Seq(NightRow)
  <2>1. Greedy(b.agg, tp) => target \in Int
    BY DEF Greedy
  <2> HIDE DEF target
  <2> QED BY <1>1, <1>2, <2>1, LowerIs
<1>4. sd # NaN => Lower(b.group, "stop_delta", sd, sd - 500) \in Seq(NightRow)
  BY <1>1, <1>2, LowerIs DEF Value
<1>5. <<>> \in Seq(NightRow)
  OBVIOUS
<1>6. \A s, t \in Seq(NightRow) : s \o t \in Seq(NightRow)
  BY ConcatProperties
<1> QED BY <1>2, <1>3, <1>4, <1>5, <1>6 DEF propose

\* g joins the first parts, one after the other.
Joins(g, parts, n) == g = [i \in 0..n |-> IF i = 0 THEN <<>> ELSE g[i - 1] \o parts[i]]

\* The function, index by index.
LEMMA JoinsIs ==
  ASSUME NEW g, NEW parts, NEW n \in Nat, Joins(g, parts, n)
  PROVE  g[0] = <<>> /\ \A i \in 1..n : g[i] = g[i - 1] \o parts[i]
<1> DEFINE e(i) == IF i = 0 THEN <<>> ELSE g[i - 1] \o parts[i]
<1>1. g = [i \in 0..n |-> e(i)]
  BY DEF Joins
<1>2. \A i \in 0..n : g[i] = e(i)
  <2> HIDE DEF e
  <2> QED BY <1>1
<1>3. 0 \in 0..n /\ \A i \in 1..n : i \in 0..n /\ i # 0
  OBVIOUS
<1>4. e(0) = <<>>
  BY Zenon
<1>5. \A i \in 1..n : e(i) = g[i - 1] \o parts[i]
  BY <1>3, Zenon
<1> HIDE DEF e
<1> QED BY <1>2, <1>3, <1>4, <1>5, Zenon

\* It exists, and gives sequences of what the parts are sequences of.
LEMMA JoinsExist ==
  ASSUME NEW T, NEW parts, NEW n \in Nat, \A i \in 1..n : parts[i] \in Seq(T)
  PROVE  \E g : Joins(g, parts, n) /\ g[n] \in Seq(T)
<1> DEFINE A == { m \in Nat : m <= n => \E g : Joins(g, parts, m) /\ g[m] \in Seq(T) }
<1>1. 0 \in A
  <2> DEFINE g == [i \in 0..0 |-> <<>>]
  <2>1. Joins(g, parts, 0) /\ g[0] \in Seq(T)
    BY DEF Joins
  <2> QED BY <2>1
<1>2. ASSUME NEW m \in Nat, m \in A PROVE m + 1 \in A
  <2> SUFFICES ASSUME m + 1 <= n PROVE \E g : Joins(g, parts, m + 1) /\ g[m + 1] \in Seq(T)
    OBVIOUS
  <2>1. PICK g : Joins(g, parts, m) /\ g[m] \in Seq(T)
    BY <1>2
  <2>2. g[0] = <<>> /\ \A i \in 1..m : g[i] = g[i - 1] \o parts[i]
    BY <2>1, JoinsIs
  <2> DEFINE h == [i \in 0..(m + 1) |-> IF i = 0 THEN <<>> ELSE g[i - 1] \o parts[i]]
  <2>3. ASSUME NEW i \in 0..m PROVE h[i] = g[i]
    <3>1. CASE i = 0
      BY <2>2, <3>1
    <3>2. CASE i # 0
      <4>1. i \in 1..m /\ i \in 0..(m + 1)
        BY <3>2
      <4> QED BY <2>2, <3>2, <4>1
    <3> QED BY <3>1, <3>2
  <2>4. ASSUME NEW i \in 0..(m + 1)
        PROVE  h[i] = IF i = 0 THEN <<>> ELSE h[i - 1] \o parts[i]
    <3>1. i # 0 => i - 1 \in 0..m
      OBVIOUS
    <3>2. h[i] = IF i = 0 THEN <<>> ELSE g[i - 1] \o parts[i]
      OBVIOUS
    <3> HIDE DEF h
    <3> QED BY <2>3, <3>1, <3>2
  <2>5. h = [i \in 0..(m + 1) |-> h[i]]
    OBVIOUS
  <2>6. h[m + 1] = g[m] \o parts[m + 1]
    OBVIOUS
  <2> HIDE DEF h
  <2>7. Joins(h, parts, m + 1)
    <3>1. h = [i \in 0..(m + 1) |-> IF i = 0 THEN <<>> ELSE h[i - 1] \o parts[i]]
      BY <2>4, <2>5
    <3> QED BY <3>1 DEF Joins
  <2>8. h[m + 1] \in Seq(T)
    <3>1. parts[m + 1] \in Seq(T)
      OBVIOUS
    <3> QED BY <2>1, <2>6, <3>1, ConcatProperties
  <2> QED BY <2>7, <2>8
<1>3. n \in A
  <2> HIDE DEF A
  <2> QED BY <1>1, <1>2, NatSetInduction
<1> QED BY <1>3

\* Joined, they are a sequence of what each is a sequence of.
LEMMA ConcatIs ==
  ASSUME NEW T, NEW n \in Nat, NEW parts, parts \in [1..n -> Seq(T)]
  PROVE  Concat(parts) \in Seq(T)
<1>1. parts \in Seq(Seq(T)) /\ Len(parts) = n
  OBVIOUS
<1>2. PICK g : Joins(g, parts, n) /\ g[n] \in Seq(T)
  BY JoinsExist
<1> DEFINE h == CHOOSE f : Joins(f, parts, n)
<1>3. Joins(h, parts, n)
  BY <1>2
<1>4. Concat(parts) = h[n]
  BY <1>1 DEF Concat, Joins
<1> HIDE DEF h
<1> DEFINE B == { i \in Nat : i <= n => h[i] = g[i] }
<1>5. 0 \in B
  BY <1>2, <1>3, JoinsIs
<1>6. ASSUME NEW i \in Nat, i \in B PROVE i + 1 \in B
  <2> SUFFICES ASSUME i + 1 <= n PROVE h[i + 1] = g[i + 1]
    OBVIOUS
  <2>1. PICK k \in 1..n : k = i + 1 /\ k - 1 = i
    OBVIOUS
  <2>2. h[k] = h[k - 1] \o parts[k]
    BY <1>3, JoinsIs, Zenon
  <2>3. g[k] = g[k - 1] \o parts[k]
    BY <1>2, JoinsIs, Zenon
  <2>4. h[k - 1] = g[k - 1]
    BY <1>6, <2>1
  <2> QED BY <2>1, <2>2, <2>3, <2>4
<1>7. n \in B
  <2> HIDE DEF B
  <2> QED BY <1>5, <1>6, NatSetInduction
<1> QED BY <1>2, <1>4, <1>7

\* So is a whole night: from one reading, sound, and the values it read in force.
LEMMA ProposalsIs ==
  ASSUME TypeOK, NEW buckets \in Nights
  PROVE  Proposals(buckets) \in Seq(NightRow)
<1>1. PICK n \in Nat : DOMAIN buckets = 1..n
  BY NightsAssumption
<1> DEFINE part(b) == propose(b, Get(rules, "take_profit_far", b.group), Get(rules, "stop_delta", b.group))
           parts   == [i \in DOMAIN buckets |-> part(buckets[i])]
<1>2. ASSUME NEW i \in 1..n PROVE part(buckets[i]) \in Seq(NightRow)
  <2>1. PICK b : b = buckets[i]
    OBVIOUS
  <2>2. b.group \in Groups /\ b.agg.median_mfe_losers \subseteq Int
    BY <1>1, <2>1, NightsAssumption
  <2>3. part(b) \in Seq(NightRow)
    BY <2>2, ProposeIs
  <2> QED BY <2>1, <2>3
<1>3. Proposals(buckets) = Concat(parts)
  BY DEF Proposals
<1>4. parts \in [1..n -> Seq(NightRow)]
  <2> HIDE DEF part
  <2> QED BY <1>1, <1>2
<1> HIDE DEF parts
<1> QED BY <1>3, <1>4, ConcatIs

-----------------------------------------------------------------------------
(***************************************************************************)
(* What the steps leave alone.                                             *)
(***************************************************************************)

\* Two rows of one content: what a request may not change.
SameContent(x, y) ==
  /\ y.scope = x.scope /\ y.key = x.key /\ y.current = x.current /\ y.proposed = x.proposed
  /\ y.asof = x.asof /\ y.batch = x.batch /\ y.stored = x.stored

\* What is typed.
LEMMA Types ==
  ASSUME ProposalsInv
  PROVE  /\ history \in Seq(Change) /\ Len(history) \in Nat /\ DOMAIN history = 1..Len(history)
         /\ \A i \in DOMAIN history : history[i] \in Change
         /\ \A p \in PropId : prop[p] \in RowKept /\ (prop[p].status = "none") = (p > props)
         /\ DOMAIN prop = PropId /\ DOMAIN req = Clients
         /\ \A c \in Clients : req[c] \in Request
         /\ props \in Nat /\ props <= MaxProposals
         /\ night \in Job /\ night.todo \in Seq(Row) /\ Len(night.todo) \in Nat
         /\ DOMAIN night.todo = 1..Len(night.todo)
         /\ \A i \in DOMAIN night.todo : night.todo[i] \in Row
<1>1. TypeOK
  BY DEF ProposalsInv
<1>2. /\ Len(history) \in Nat /\ DOMAIN history = 1..Len(history)
      /\ Len(night.todo) \in Nat /\ DOMAIN night.todo = 1..Len(night.todo)
  BY <1>1, LenProperties DEF TypeOK, Job
<1>3. /\ \A i \in DOMAIN history : history[i] \in Change
      /\ \A i \in DOMAIN night.todo : night.todo[i] \in Row
  BY <1>1, <1>2, ElementOfSeq DEF TypeOK, Job
<1>4. night.todo \in Seq(Row)
  BY <1>1 DEF TypeOK, Job
<1> QED BY <1>1, <1>2, <1>3, <1>4, BoundsAssumption DEF TypeOK

\* The content of a row decides whether it is sound and in force.
LEMMA ContentDecides ==
  ASSUME NEW x, NEW y, SameContent(x, y), Sound(x), InForce(x)
  PROVE  Sound(y) /\ InForce(y)
<1>1. Sound(y)
  BY DEF SameContent, Sound
<1>2. InForce(y)
  BY DEF SameContent, InForce, Touched
<1> QED BY <1>1, <1>2

\* A step that leaves the table and the history alone leaves a row sound and in force.
LEMMA RuledKept ==
  ASSUME NEW x, Sound(x), InForce(x), UNCHANGED <<rules, history>>
  PROVE  Sound(x)' /\ InForce(x)'
BY DEF Sound, InForce, Touched

\* A step that opens no row, changes no content and adds nothing to a night.
Quiet ==
  /\ props' = props
  /\ \A p \in PropId : /\ SameContent(prop[p], prop'[p])
                       /\ prop'[p].status = "pending" => prop[p].status = "pending"
                       /\ p > props => prop'[p] = prop[p]

NightLess == \A j \in DOMAIN night'.todo : \E i \in DOMAIN night.todo : night'.todo[j] = night.todo[i]

\* What was found is found still.
LEMMA FoundKept ==
  ASSUME ProposalsInv, Quiet, NightLess, UNCHANGED <<rules, history>>
  PROVE  Found'
<1>1. ASSUME NEW p \in PropId
      PROVE  (IF p <= props THEN Sound(prop[p]) /\ InForce(prop[p]) ELSE prop[p] = NoProp)'
  <2>1. PICK y : y = prop'[p] /\ SameContent(prop[p], y)
    BY DEF Quiet
  <2>2. CASE p <= props
    <3>1. Sound(y) /\ InForce(y)
      BY <2>1, <2>2, ContentDecides DEF ProposalsInv, Found
    <3>2. Sound(y)' /\ InForce(y)'
      BY <3>1, RuledKept
    <3> QED BY <2>1, <2>2, <3>2 DEF Quiet
  <2>3. CASE ~(p <= props)
    <3>1. p > props
      BY <2>3, Types DEF PropId
    <3> QED BY <2>3, <3>1 DEF Quiet, ProposalsInv, Found
  <2> QED BY <2>2, <2>3
<1>2. ASSUME NEW j \in DOMAIN night'.todo
      PROVE  (Sound(night.todo[j]) /\ InForce(night.todo[j]))'
  <2>1. PICK i \in DOMAIN night.todo : night'.todo[j] = night.todo[i]
    BY DEF NightLess
  <2>2. PICK y : y = night'.todo[j] /\ y = night.todo[i]
    BY <2>1
  <2>3. Sound(y)' /\ InForce(y)'
    BY <2>2, RuledKept DEF ProposalsInv, Found
  <2> QED BY <2>2, <2>3
<1> QED BY <1>1, <1>2 DEF Found

\* The history tells of the proposals what it told.
LEMMA ToldKept ==
  ASSUME ProposalsInv, history' = history, props' \in Nat, props <= props',
         \A p \in PropId : p <= props => SameContent(prop[p], prop'[p])
  PROVE  AsProposed' /\ MovesAtMostAQuarter'
<1>1. ASSUME NEW i \in DOMAIN history, history[i].by # 0
      PROVE  /\ history[i].by \in PropId /\ history[i].by <= props /\ history[i].by <= props'
             /\ SameContent(prop[history[i].by], prop'[history[i].by])
  <2>1. history[i].by \in PropId /\ history[i].by <= props
    BY <1>1, Types DEF Change, PropId, ProposalsInv, AsProposed
  <2> QED BY <2>1, Types DEF PropId
<1>2. AsProposed'
  BY <1>1 DEF ProposalsInv, AsProposed, SameContent
<1>3. MovesAtMostAQuarter'
  BY <1>1 DEF ProposalsInv, MovesAtMostAQuarter, SameContent
<1> QED BY <1>2, <1>3

\* A step that opens no proposal leaves at most one night with one open.
LEMMA OpenKept ==
  ASSUME ProposalsInv, Quiet
  PROVE  OneOpenAcrossNights'
BY DEF ProposalsInv, OneOpenAcrossNights, Quiet, SameContent

\* The night goes on as it was, or is over.
LEMMA NightKept ==
  ASSUME ProposalsInv, Quiet, night' = night \/ night' = Asleep
  PROVE  NightKnows' /\ NightLess
<1>1. CASE night' = night
  BY <1>1 DEF ProposalsInv, NightKnows, Quiet, SameContent, NightLess
<1>2. CASE night' = Asleep
  <2>1. night'.todo = <<>> /\ night'.pc = "idle" /\ Len(night'.todo) = 0 /\ DOMAIN night'.todo = {}
    BY <1>2 DEF Asleep
  <2> QED BY <2>1, Types DEF NightKnows, Quiet, NightLess
<1> QED BY <1>1, <1>2

\* A request known stays known while the proposals keep their content.
LEMMA KnownKept ==
  ASSUME ProposalsInv, NEW r \in Request, Known(r), props' \in Nat, props <= props',
         \A p \in PropId : p <= props => SameContent(prop[p], prop'[p])
  PROVE  Known(r)'
<1>1. CASE r.id = 0
  BY <1>1 DEF Known
<1>2. CASE r.id # 0
  <2>1. r.id \in PropId /\ r.id <= props /\ r.id <= props'
    BY <1>2, Types DEF Known, Request, PropId
  <2> QED BY <1>2, <2>1 DEF Known, SameContent
<1> QED BY <1>1, <1>2

-----------------------------------------------------------------------------
(***************************************************************************)
(* The requests.                                                           *)
(***************************************************************************)

\* One request becomes r.
LEMMA RequestBecomes ==
  ASSUME ProposalsInv, NEW c \in Clients, NEW r, SetRequest(c, r)
  PROVE  req'[c] = r /\ \A d \in Clients : d # c => req'[d] = req[d]
BY DEF SetRequest, ProposalsInv, TypeOK

\* The requests are known after a step of one of them.
LEMMA RequestKnown ==
  ASSUME ProposalsInv, NEW c \in Clients, NEW r, SetRequest(c, r), Known(r)', props' \in Nat, props <= props',
         \A p \in PropId : p <= props => SameContent(prop[p], prop'[p])
  PROVE  RequestsKnown'
<1>1. ASSUME NEW d \in Clients, d # c PROVE Known(req[d])'
  <2>1. PICK q \in Request : q = req[d] /\ q = req'[d]
    BY <1>1, RequestBecomes, Types
  <2>2. Known(q)
    BY <2>1 DEF ProposalsInv, RequestsKnown
  <2>3. Known(q)'
    BY <2>2, KnownKept
  <2> QED BY <2>1, <2>3
<1> QED BY <1>1, RequestBecomes DEF RequestsKnown

\* They keep their types.
LEMMA RequestTyped ==
  ASSUME ProposalsInv, NEW c \in Clients, NEW r \in Request, SetRequest(c, r)
  PROVE  req' \in [Clients -> Request]
BY DEF ProposalsInv, TypeOK, SetRequest

\* A thread that has no request.
LEMMA NoRequestIs ==
  /\ NoRequest \in Request /\ NoRequest.pc = "idle" /\ NoRequest.id = 0
  /\ Known(NoRequest) /\ Known(NoRequest)'
<1>1. "stop_delta" \in Key /\ GLOBAL \in Scope
  BY DEF Key, REGISTRY, Scope
<1>2. NoRequest \in Request
  BY <1>1, BoundsAssumption DEF NoRequest, Request, Value
<1> QED BY <1>2 DEF NoRequest, Known

\* The writers are some of the requests.
LEMMA WritersAre ==
  /\ IsFiniteSet(Clients) /\ Cardinality(Clients) \in Nat
  /\ Writers \subseteq Clients /\ IsFiniteSet(Writers) /\ Cardinality(Writers) \in Nat
<1>1. IsFiniteSet(Clients) /\ Writers \subseteq Clients
  BY ScopesAssumption DEF Writers
<1> QED BY <1>1, FS_Subset, FS_CardinalityType

\* With no new writer and no change there is room still.
LEMMA FewerWriters ==
  ASSUME ProposalsInv, history' = history, \A c \in Clients : c \in Writers' => c \in Writers
  PROVE  RoomLeft'
<1>1. PICK W : W = Writers'
  OBVIOUS
<1>2. W \in SUBSET Writers
  BY <1>1 DEF Writers
<1>3. Cardinality(W) <= Cardinality(Writers) /\ Cardinality(W) \in Nat
  BY <1>2, WritersAre, FS_Subset, FS_CardinalityType
<1> QED BY <1>1, <1>3, WritersAre, Types, BoundsAssumption DEF ProposalsInv, RoomLeft

\* A request that starts when there is room leaves the others theirs.
LEMMA OneMoreWriter ==
  ASSUME ProposalsInv, history' = history, Room, NEW c \in Clients,
         \A d \in Clients : d # c => req'[d] = req[d]
  PROVE  RoomLeft'
<1> DEFINE busy == { d \in Clients : req[d].pc # "idle" }
<1>1. PICK W : W = Writers'
  OBVIOUS
<1>2. W \subseteq Writers \cup {c} /\ Writers \subseteq busy /\ busy \subseteq Clients
  BY <1>1 DEF Writers
<1>3. IsFiniteSet(busy) /\ Cardinality(busy) \in Nat /\ Cardinality(Writers) <= Cardinality(busy)
  BY <1>2, WritersAre, FS_Subset, FS_CardinalityType
<1>4. /\ IsFiniteSet(Writers \cup {c})
      /\ Cardinality(Writers \cup {c}) <= Cardinality(Writers) + 1
  BY WritersAre, FS_AddElement
<1>5. Cardinality(W) <= Cardinality(Writers \cup {c}) /\ Cardinality(W) \in Nat
  BY <1>2, <1>4, FS_Subset, FS_CardinalityType
<1>6. Len(history) + Cardinality(busy) < MaxChanges
  BY DEF Room
<1>7. Cardinality(Writers \cup {c}) \in Nat
  BY <1>4, FS_CardinalityType
<1> HIDE DEF busy
<1> QED BY <1>1, <1>3, <1>4, <1>5, <1>6, <1>7, WritersAre, Types, BoundsAssumption DEF RoomLeft

\* Approved and not applied: no more than before, or some that a failure adds.
LEMMA UnappliedAre ==
  /\ Unapplied \subseteq PropId /\ IsFiniteSet(PropId) /\ IsFiniteSet(Unapplied)
  /\ Cardinality(Unapplied) \in Nat
<1>1. IsFiniteSet(PropId)
  BY BoundsAssumption, FS_Interval DEF PropId
<1>2. Unapplied \subseteq PropId
  BY DEF Unapplied
<1> QED BY <1>1, <1>2, FS_Subset, FS_CardinalityType

\* A step that marks without leaving over keeps the count.
LEMMA NoneLeftOver ==
  ASSUME ProposalsInv, faults' = faults, \A p \in PropId : p \in Unapplied' => p \in Unapplied
  PROVE  ApprovedIsApplied'
<1>1. PICK U : U = Unapplied'
  OBVIOUS
<1>2. U \in SUBSET Unapplied
  BY <1>1 DEF Unapplied
<1>3. Cardinality(U) <= Cardinality(Unapplied) /\ Cardinality(U) \in Nat
  BY <1>2, UnappliedAre, FS_Subset, FS_CardinalityType
<1>4. PICK most \in Nat : most = faults * Cardinality(Clients)
  <2>1. PICK a \in Nat, b \in Nat : a = faults /\ b = Cardinality(Clients)
    <3>1. faults \in Nat
      BY BoundsAssumption DEF ProposalsInv, TypeOK
    <3> QED BY <3>1, WritersAre
  <2>2. a * b \in Nat
    OBVIOUS
  <2> QED BY <2>1, <2>2
<1>5. Cardinality(Unapplied) <= most
  BY <1>4 DEF ProposalsInv, ApprovedIsApplied
<1>6. Cardinality(U) <= most
  BY <1>3, <1>5, UnappliedAre
<1> QED BY <1>1, <1>4, <1>6 DEF ApprovedIsApplied

\* A failure leaves over at most what the requests had in hand.
LEMMA OnePerRequest ==
  ASSUME ProposalsInv, faults' = faults + 1,
         \A p \in PropId : p \in Unapplied' => p \in Unapplied \/ \E c \in Clients : req[c].id = p
  PROVE  ApprovedIsApplied'
<1> DEFINE A == { req[c].id : c \in Clients }
           f == [c \in Clients |-> req[c].id]
<1>1. f \in Surjection(Clients, A)
  BY DEF Surjection
<1>2. IsFiniteSet(A) /\ Cardinality(A) <= Cardinality(Clients) /\ Cardinality(A) \in Nat
  BY <1>1, WritersAre, FS_Surjection, FS_CardinalityType
<1>3. PICK U : U = Unapplied'
  OBVIOUS
<1>4. U \subseteq Unapplied \cup A
  BY <1>3 DEF Unapplied
<1> HIDE DEF A, f
<1>5. /\ IsFiniteSet(Unapplied \cup A) /\ Cardinality(Unapplied \cup A) \in Nat
      /\ Cardinality(Unapplied \cup A) <= Cardinality(Unapplied) + Cardinality(A)
  <2>1. IsFiniteSet(Unapplied \cap A)
    BY <1>2, FS_Subset
  <2>2. Cardinality(Unapplied \cap A) \in Nat
    BY <2>1, FS_CardinalityType
  <2>3. PICK V \in SUBSET PropId : V = Unapplied /\ IsFiniteSet(V)
    BY UnappliedAre
  <2>4. /\ IsFiniteSet(V \cup A)
        /\ Cardinality(V \cup A) = Cardinality(V) + Cardinality(A) - Cardinality(V \cap A)
    BY <1>2, <2>3, FS_Union
  <2>5. Cardinality(V \cup A) \in Nat /\ Cardinality(V) \in Nat /\ Cardinality(V \cap A) \in Nat
    BY <2>2, <2>3, <2>4, FS_CardinalityType
  <2> QED BY <1>2, <2>3, <2>4, <2>5
<1>6. Cardinality(U) <= Cardinality(Unapplied \cup A) /\ Cardinality(U) \in Nat
  BY <1>4, <1>5, FS_Subset, FS_CardinalityType
<1>7. PICK a \in Nat, b \in Nat : a = faults /\ b = Cardinality(Clients)
  <2>1. faults \in Nat
    BY BoundsAssumption DEF ProposalsInv, TypeOK
  <2> QED BY <2>1, WritersAre
<1>8. Cardinality(Unapplied) <= a * b /\ a * b \in Nat
  <2>1. a * b \in Nat
    OBVIOUS
  <2>2. Cardinality(Unapplied) <= a * b
    BY <1>7 DEF ProposalsInv, ApprovedIsApplied
  <2> QED BY <2>1, <2>2
<1>9. (a + 1) * b = a * b + b
  OBVIOUS
<1>10. PICK most \in Nat : most = a * b
  BY <1>8
<1>11. Cardinality(U) <= most + b
  BY <1>2, <1>5, <1>6, <1>7, <1>8, <1>10, UnappliedAre
<1>12. Cardinality(U) <= (a + 1) * b
  BY <1>9, <1>10, <1>11
<1>13. faults' * Cardinality(Clients) = (a + 1) * b
  BY <1>7
<1> QED BY <1>3, <1>12, <1>13 DEF ApprovedIsApplied

-----------------------------------------------------------------------------
(***************************************************************************)
(* Decisions.                                                              *)
(***************************************************************************)

\* What Decided says of one proposal.
DecidedOf(p) ==
  prop[p].seen <= 1 =>
    /\ prop[p].seen = 0 => Asking(p) = {} /\ Applied(p) = {} /\ prop[p].status \in {"none", "pending", "expired"}
    /\ \A c, d \in Asking(p) : c = d
    /\ \A c \in Asking(p) :
         /\ Applied(p) = {}
         /\ prop[p].status \in IF req[c].pc = "mark" THEN {"pending", "expired"} ELSE {"approved"}
    /\ \A i, j \in Applied(p) : i = j
    /\ Applied(p) # {} => prop[p].status = "approved"

\* It is said of each.
LEMMA DecidedIs == Decided <=> \A p \in PropId : DecidedOf(p)
BY DEF Decided, DecidedOf

\* A proposal is opened, or expires before anything was decided.
LEMMA DecidedByTime ==
  ASSUME ProposalsInv, UNCHANGED <<req, history>>,
         \A p \in PropId : /\ prop'[p].seen = prop[p].seen
                           /\ \/ prop'[p].status = prop[p].status
                              \/ prop[p].status = "pending" /\ prop'[p].status = "expired"
                              \/ prop[p] = NoProp /\ prop'[p].status = "pending"
  PROVE  Decided'
<1>1. ASSUME NEW p \in PropId PROVE DecidedOf(p)'
  <2>1. DecidedOf(p) /\ Asking(p)' = Asking(p) /\ Applied(p)' = Applied(p)
    BY DecidedIs DEF ProposalsInv, Asking, Applied
  <2>2. CASE prop'[p].status = prop[p].status
    BY <2>1, <2>2 DEF DecidedOf, Asking
  <2>3. CASE prop[p].status = "pending" /\ prop'[p].status = "expired"
    BY <2>1, <2>3 DEF DecidedOf, Asking
  <2>4. CASE prop[p] = NoProp /\ prop'[p].status = "pending"
    <3>1. prop[p].seen = 0
      BY <2>4 DEF NoProp
    <3> QED BY <2>1, <2>4, <3>1 DEF DecidedOf
  <2> QED BY <2>2, <2>3, <2>4
<1> QED BY <1>1 DEF Decided, DecidedOf

\* Requests end, or go on to write; others come that decide nothing.
LEMMA DecidedByRequests ==
  ASSUME ProposalsInv, UNCHANGED <<prop, history>>,
         \A c \in Clients : \/ req'[c] = req[c]
                            \/ req'[c].id = 0
                            \/ req'[c].id = req[c].id /\ req[c].pc # "mark" /\ req'[c].pc # "mark"
  PROVE  Decided'
<1>1. ASSUME NEW p \in PropId PROVE DecidedOf(p)'
  <2>1. DecidedOf(p) /\ Applied(p)' = Applied(p)
    BY DecidedIs DEF ProposalsInv, Applied
  <2>2. p # 0
    BY DEF PropId
  <2>3. ASSUME NEW c \in Asking(p)'
        PROVE  c \in Asking(p) /\ (req'[c].pc = "mark") = (req[c].pc = "mark")
    BY <2>2 DEF Asking
  <2> QED BY <2>1, <2>3 DEF DecidedOf
<1> QED BY <1>1 DEF Decided, DecidedOf

\* What a proposal has applied, after one more change by b.
LEMMA AppliedAfter ==
  ASSUME ProposalsInv, NEW e \in Change, history' = Append(history, e), NEW p
  PROVE  Applied(p)' = IF e.by = p THEN Applied(p) \cup {Len(history) + 1} ELSE Applied(p)
<1>1. /\ DOMAIN history' = 1..(Len(history) + 1)
      /\ \A i \in 1..Len(history) : history'[i] = history[i]
      /\ history'[Len(history) + 1] = e
  BY Types, AppendProperties, LenProperties
<1> QED BY <1>1, Types DEF Applied

\* The property follows.
LEMMA DecisionsFollow ==
  ASSUME ProposalsInv
  PROVE  DecisionStands
<1> SUFFICES ASSUME NEW p \in PropId, prop[p].seen <= 1
             PROVE  /\ Cardinality(Applied(p)) <= 1
                    /\ Applied(p) # {} => prop[p].status = "approved"
                    /\ prop[p].status = "expired" => \A c \in Clients : req[c].id = p => req[c].pc = "mark"
  BY DEF DecisionStands
<1>1. DecidedOf(p)
  BY DecidedIs DEF ProposalsInv
<1>2. Cardinality(Applied(p)) <= 1
  <2>1. CASE Applied(p) = {}
    <3>1. Cardinality({}) = 0
      BY FS_EmptySet
    <3> QED BY <2>1, <3>1
  <2>2. CASE Applied(p) # {}
    <3>1. PICK i : Applied(p) = {i}
      BY <1>1, <2>2 DEF DecidedOf
    <3>2. Cardinality({i}) = 1
      BY FS_Singleton, Zenon
    <3> QED BY <3>1, <3>2
  <2> QED BY <2>1, <2>2
<1> QED BY <1>1, <1>2 DEF DecidedOf, Asking

-----------------------------------------------------------------------------
(***************************************************************************)
(* The steps of a request.                                                 *)
(***************************************************************************)

\* What holds again after a step that changes no content.
LEMMA QuietKeeps ==
  ASSUME ProposalsInv, Quiet, UNCHANGED <<rules, history>>, night' = night \/ night' = Asleep
  PROVE  (Found /\ NightKnows /\ AsProposed /\ OneOpenAcrossNights /\ MovesAtMostAQuarter)'
<1>1. props' \in Nat /\ props <= props' /\ \A p \in PropId : SameContent(prop[p], prop'[p])
  BY Types DEF Quiet
<1> QED BY <1>1, NightKept, FoundKept, ToldKept, OpenKept

\* The types, after a step of a request or the end of a night.
LEMMA TypedAgain ==
  ASSUME ProposalsInv, UNCHANGED <<rules, history, props>>, night' = night \/ night' = Asleep,
         prop' \in [PropId -> RowKept],
         \A p \in PropId : (prop'[p].status = "none") = (prop[p].status = "none"),
         req' \in [Clients -> Request], faults' \in 0..MaxFaults
  PROVE  TypeOK'
<1>1. Asleep \in Job
  BY DEF Asleep, Job
<1> QED BY <1>1 DEF ProposalsInv, TypeOK

\* A request idle carries nothing; one that decides has a proposal of the table.
LEMMA RequestIs ==
  ASSUME ProposalsInv, NEW c \in Clients
  PROVE  /\ req[c] \in Request /\ Known(req[c])
         /\ req[c].pc = "idle" => req[c].id = 0
         /\ req[c].id # 0 => /\ req[c].id \in PropId /\ req[c].id <= props
                             /\ Sound(prop[req[c].id]) /\ prop[req[c].id].status # "none"
<1>1. req[c] \in Request /\ Known(req[c])
  BY Types DEF ProposalsInv, RequestsKnown
<1>2. req[c].pc = "idle" => req[c].id = 0
  BY <1>1 DEF Known, NoRequest
<1>3. ASSUME req[c].id # 0
      PROVE  /\ req[c].id \in PropId /\ req[c].id <= props
             /\ Sound(prop[req[c].id]) /\ prop[req[c].id].status # "none"
  <2>1. req[c].id \in PropId /\ req[c].id <= props /\ ~(req[c].id > props)
    BY <1>1, <1>3, Types DEF Known, Request, PropId
  <2> QED BY <2>1 DEF ProposalsInv, Found, TypeOK
<1> QED BY <1>1, <1>2, <1>3

\* decide_proposal reads a pending row: from here the request has it in hand.
LEMMA StartDecideKeeps ==
  ASSUME ProposalsInv, NEW c \in Clients, NEW p \in PropId, NEW approve \in BOOLEAN,
         StartDecide(c, p, approve)
  PROVE  ProposalsInv'
<1>1. /\ req[c].pc = "idle" /\ prop[p].status = "pending" /\ (approve => Room)
      /\ prop' = [prop EXCEPT ![p].seen = Least(2, @ + 1)]
      /\ UNCHANGED <<rules, history, props, night, faults>>
  BY DEF StartDecide
<1>2. p <= props /\ p # 0 /\ p \in 0..MaxProposals /\ prop[p] \in RowKept
  BY <1>1, Types DEF PropId
<1>r. PICK r : /\ SetRequest(c, r)
               /\ r = [pc |-> "mark", id |-> p, approve |-> approve, scope |-> prop[p].scope,
                        key |-> prop[p].key, value |-> prop[p].proposed, old |-> 0]
  BY DEF StartDecide
<1>3. PICK n \in 0..2 : n = Least(2, prop[p].seen + 1) /\ (n <= 1 => prop[p].seen = 0 /\ n = 1)
  BY <1>2 DEF RowKept, Least
<1>4. /\ prop'[p] = [prop[p] EXCEPT !.seen = n]
      /\ \A q \in PropId : q # p => prop'[q] = prop[q]
  <2>1. prop' = [prop EXCEPT ![p] = [prop[p] EXCEPT !.seen = n]]
    BY <1>1, <1>3, Zenon
  <2> QED BY <2>1, Types
<1>5. /\ prop'[p] \in RowKept /\ prop'[p].seen = n /\ prop'[p].status = "pending"
      /\ SameContent(prop[p], prop'[p])
  BY <1>1, <1>2, <1>4 DEF RowKept, SameContent
<1>6. Quiet
  BY <1>1, <1>2, <1>4, <1>5, Types DEF Quiet, SameContent, PropId
<1>7. r \in Request /\ r.id = p /\ r.pc = "mark" /\ r.approve = approve
  BY <1>2, <1>r DEF Request, RowKept, Value
<1>8. Known(r)'
  BY <1>1, <1>2, <1>5, <1>r DEF Known, SameContent
<1>9. req'[c] = r /\ \A d \in Clients : d # c => req'[d] = req[d]
  BY <1>r, RequestBecomes
<1>10. req[c].id = 0
  BY <1>1, RequestIs
<1>11. TypeOK'
  <2>1. prop' \in [PropId -> RowKept]
    BY <1>1, <1>4, <1>5, Types DEF ProposalsInv, TypeOK
  <2>2. \A q \in PropId : (prop'[q].status = "none") = (prop[q].status = "none")
    BY <1>1, <1>4, <1>5
  <2>3. faults' \in 0..MaxFaults
    BY <1>1 DEF ProposalsInv, TypeOK
  <2> QED BY <1>1, <1>7, <1>r, <2>1, <2>2, <2>3, TypedAgain, RequestTyped
<1>12. RequestsKnown'
  <2>1. props' \in Nat /\ props <= props' /\ \A q \in PropId : SameContent(prop[q], prop'[q])
    BY <1>6, Types DEF Quiet
  <2> QED BY <1>r, <1>8, <2>1, RequestKnown
<1>13. RoomLeft'
  <2>1. CASE approve
    BY <1>1, <1>9, <2>1, OneMoreWriter
  <2>2. CASE ~approve
    <3>1. \A d \in Clients : d \in Writers' => d \in Writers
      BY <1>7, <1>9, <2>2 DEF Writers
    <3> QED BY <1>1, <3>1, FewerWriters
  <2> QED BY <2>1, <2>2
<1>14. ApprovedIsApplied'
  <2>1. \A q \in PropId : q \in Unapplied' => q \in Unapplied
    BY <1>1, <1>4, <1>5, <1>9 DEF Unapplied, Applied
  <2> QED BY <1>1, <2>1, NoneLeftOver
<1>15. Decided'
  <2>1. ASSUME NEW q \in PropId PROVE DecidedOf(q)'
    <3>1. DecidedOf(q) /\ Applied(q)' = Applied(q)
      BY <1>1, DecidedIs DEF ProposalsInv, Applied
    <3>2. CASE q = p
      <4>1. CASE n <= 1
        <5>1. Asking(p) = {} /\ Applied(p) = {}
          BY <1>3, <3>1, <3>2, <4>1 DEF DecidedOf
        <5>2. Asking(p)' = {c}
          BY <1>7, <1>9, <5>1 DEF Asking
        <5>3. Applied(p)' = {}
          BY <3>1, <3>2, <5>1
        <5>4. prop'[p].seen = 1 /\ prop'[p].status = "pending" /\ req'[c].pc = "mark"
          BY <1>3, <1>5, <1>7, <1>9, <4>1
        <5> QED BY <3>2, <5>2, <5>3, <5>4 DEF DecidedOf
      <4>2. CASE ~(n <= 1)
        BY <1>5, <3>2, <4>2 DEF DecidedOf
      <4> QED BY <4>1, <4>2
    <3>3. CASE q # p
      <4>1. Asking(q)' = Asking(q) /\ c \notin Asking(q)
        BY <1>7, <1>9, <1>10, <3>3 DEF Asking, PropId
      <4>2. prop'[q] = prop[q] /\ \A d \in Asking(q) : req'[d] = req[d]
        BY <1>4, <1>9, <3>3, <4>1 DEF Asking
      <4> QED BY <3>1, <4>1, <4>2 DEF DecidedOf
    <3> QED BY <3>2, <3>3
  <2> QED BY <2>1 DEF Decided, DecidedOf
<1> QED BY <1>1, <1>6, <1>11, <1>12, <1>13, <1>14, <1>15, QuietKeeps DEF ProposalsInv

\* It marks the row, pending still or not: approved, or rejected and done.
LEMMA MarkDecidedKeeps ==
  ASSUME ProposalsInv, NEW c \in Clients, MarkDecided(c)
  PROVE  ProposalsInv'
<1>1. /\ req[c].pc = "mark" /\ UNCHANGED <<rules, history, props, night, faults>>
  BY DEF MarkDecided
<1>2. /\ req[c] \in Request /\ Known(req[c]) /\ req[c].id # 0 /\ req[c].id \in PropId
      /\ req[c].id <= props /\ prop[req[c].id].status # "none"
  BY <1>1, RequestIs DEF Known
<1>3. PICK p \in PropId, approve \in BOOLEAN : p = req[c].id /\ approve = req[c].approve
  BY <1>2 DEF Request
<1>4. PICK st \in {"approved", "rejected"} : st = IF approve THEN "approved" ELSE "rejected"
  OBVIOUS
<1>5. /\ prop'[p] = [prop[p] EXCEPT !.status = st]
      /\ \A q \in PropId : q # p => prop'[q] = prop[q]
  <2>1. prop' = [prop EXCEPT ![p].status = st]
    BY <1>3, <1>4 DEF MarkDecided
  <2>2. prop' = [prop EXCEPT ![p] = [prop[p] EXCEPT !.status = st]]
    BY <2>1, Zenon
  <2> QED BY <2>2, Types
<1>6. /\ prop'[p] \in RowKept /\ prop'[p].seen = prop[p].seen /\ prop'[p].status = st
      /\ SameContent(prop[p], prop'[p])
  BY <1>4, <1>5, Types DEF RowKept, SameContent
<1>7. Quiet
  BY <1>1, <1>2, <1>3, <1>4, <1>5, <1>6, Types DEF Quiet, SameContent, PropId
<1>8. PICK r \in Request :
        /\ SetRequest(c, r) /\ Known(r)'
        /\ IF approve THEN r.id = p /\ r.pc = "old" ELSE r.id = 0 /\ r.pc = "idle"
  <2>1. CASE approve
    <3>1. PICK r : r = [req[c] EXCEPT !.pc = "old"]
      OBVIOUS
    <3>2. /\ r \in Request /\ r.id = p /\ r.pc = "old" /\ r.approve = approve
          /\ r.scope = req[c].scope /\ r.key = req[c].key /\ r.value = req[c].value
      BY <1>2, <1>3, <3>1 DEF Request
    <3>3. SetRequest(c, r)
      BY <1>3, <2>1, <3>1 DEF MarkDecided
    <3>4. Known(r)'
      BY <1>1, <1>2, <1>3, <1>6, <2>1, <3>2 DEF Known, SameContent
    <3> QED BY <2>1, <3>2, <3>3, <3>4
  <2>2. CASE ~approve
    <3>1. SetRequest(c, NoRequest)
      BY <1>3, <2>2 DEF MarkDecided
    <3> QED BY <2>2, <3>1, NoRequestIs
  <2> QED BY <2>1, <2>2
<1>9. req'[c] = r /\ \A d \in Clients : d # c => req'[d] = req[d]
  BY <1>8, RequestBecomes
<1>10. TypeOK'
  <2>1. prop' \in [PropId -> RowKept]
    BY <1>3, <1>5, <1>6, Types DEF MarkDecided
  <2>2. \A q \in PropId : (prop'[q].status = "none") = (prop[q].status = "none")
    BY <1>2, <1>3, <1>4, <1>5, <1>6
  <2>3. faults' \in 0..MaxFaults
    BY <1>1 DEF ProposalsInv, TypeOK
  <2> QED BY <1>1, <1>8, <2>1, <2>2, <2>3, TypedAgain, RequestTyped
<1>11. RequestsKnown'
  <2>1. props' \in Nat /\ props <= props' /\ \A q \in PropId : SameContent(prop[q], prop'[q])
    BY <1>7, Types DEF Quiet
  <2> QED BY <1>8, <2>1, RequestKnown
<1>12. RoomLeft'
  <2>1. \A d \in Clients : d \in Writers' => d \in Writers
    BY <1>1, <1>3, <1>8, <1>9 DEF Writers
  <2> QED BY <1>1, <2>1, FewerWriters
<1>13. ApprovedIsApplied'
  <2>1. ASSUME NEW q \in PropId, q \in Unapplied' PROVE q \in Unapplied
    <3>1. prop'[q].status = "approved" /\ Applied(q) = {}
      BY <1>1, <2>1 DEF Unapplied, Applied
    <3>2. q # p
      BY <1>4, <1>6, <1>8, <1>9, <2>1, <3>1 DEF Unapplied
    <3>3. prop[q].status = "approved" /\ req[c].id # q
      BY <1>3, <1>5, <3>1, <3>2
    <3>4. \A d \in Clients : req[d].id = q => req[d].pc = "idle"
      BY <1>9, <2>1, <3>3 DEF Unapplied
    <3> QED BY <3>1, <3>3, <3>4 DEF Unapplied
  <2> QED BY <1>1, <2>1, NoneLeftOver
<1>14. Decided'
  <2>1. ASSUME NEW q \in PropId PROVE DecidedOf(q)'
    <3>1. DecidedOf(q) /\ Applied(q)' = Applied(q)
      BY <1>1, DecidedIs DEF ProposalsInv, Applied
    <3>2. CASE q = p
      <4>1. CASE prop[p].seen <= 1
        <5>1. Asking(p) = {c} /\ Applied(p) = {} /\ prop[p].seen # 0
          BY <1>3, <3>1, <3>2, <4>1 DEF DecidedOf, Asking
        <5>2. Asking(p)' = IF approve THEN {c} ELSE {}
          BY <1>8, <1>9, <5>1 DEF Asking, PropId
        <5>3. Applied(p)' = {}
          BY <3>1, <3>2, <5>1
        <5>4. prop'[p].seen # 0 /\ prop'[p].status = st
          BY <1>6, <5>1
        <5>5. approve => req'[c].pc = "old" /\ st = "approved"
          BY <1>4, <1>8, <1>9
        <5> QED BY <3>2, <5>2, <5>3, <5>4, <5>5 DEF DecidedOf
      <4>2. CASE ~(prop[p].seen <= 1)
        BY <1>6, <3>2, <4>2 DEF DecidedOf
      <4> QED BY <4>1, <4>2
    <3>3. CASE q # p
      <4>1. Asking(q)' = Asking(q) /\ c \notin Asking(q)
        BY <1>3, <1>8, <1>9, <3>3 DEF Asking, PropId
      <4>2. prop'[q] = prop[q] /\ \A d \in Asking(q) : req'[d] = req[d]
        BY <1>5, <1>9, <3>3, <4>1 DEF Asking
      <4> QED BY <3>1, <4>1, <4>2 DEF DecidedOf
    <3> QED BY <3>2, <3>3
  <2> QED BY <2>1 DEF Decided, DecidedOf
<1> QED BY <1>1, <1>7, <1>10, <1>11, <1>12, <1>13, <1>14, QuietKeeps DEF ProposalsInv

\* A request begins, goes on or ends, and nothing else changes but the room it takes.
LEMMA RequestOnly ==
  ASSUME ProposalsInv, NEW c \in Clients, NEW r \in Request, SetRequest(c, r), Known(r),
         UNCHANGED <<rules, history, prop, props, night>>, faults' \in 0..MaxFaults,
         \/ r.id = 0
         \/ r.id = req[c].id /\ req[c].pc # "mark" /\ r.pc # "mark"
  PROVE  /\ TypeOK' /\ RequestsKnown' /\ Decided'
         /\ (Found /\ NightKnows /\ AsProposed /\ OneOpenAcrossNights /\ MovesAtMostAQuarter)'
<1>1. req'[c] = r /\ \A d \in Clients : d # c => req'[d] = req[d]
  BY RequestBecomes
<1>2. props' \in Nat /\ props <= props' /\ \A p \in PropId : SameContent(prop[p], prop'[p])
  BY Types DEF SameContent
<1>3. TypeOK'
  BY Types, TypedAgain, RequestTyped DEF ProposalsInv, TypeOK
<1>4. Known(r)'
  BY <1>2, KnownKept
<1>5. RequestsKnown'
  BY <1>2, <1>4, RequestKnown
<1>6. Decided'
  BY <1>1, DecidedByRequests
<1>7. Quiet
  BY <1>2 DEF Quiet
<1> QED BY <1>3, <1>5, <1>6, <1>7, QuietKeeps

\* A PATCH takes room of the history, and no proposal.
LEMMA StartPatchKeeps ==
  ASSUME ProposalsInv, NEW c \in Clients, NEW e \in Edits, StartPatch(c, e)
  PROVE  ProposalsInv'
<1>1. /\ req[c].pc = "idle" /\ Room /\ UNCHANGED <<rules, history, prop, props, night, faults>>
  BY DEF StartPatch
<1>2. PICK r : /\ SetRequest(c, r)
               /\ r = [pc |-> "old", id |-> 0, approve |-> FALSE, scope |-> e.scope, key |-> e.key,
                       value |-> e.value, old |-> 0]
  BY DEF StartPatch
<1>3. r \in Request /\ r.id = 0 /\ Known(r)
  BY <1>2, InputsAssumption, BoundsAssumption DEF Request, Known, Value
<1>4. req'[c] = r /\ \A d \in Clients : d # c => req'[d] = req[d]
  BY <1>2, RequestBecomes
<1>5. RoomLeft'
  BY <1>1, <1>4, OneMoreWriter
<1>6. req[c].id = 0
  BY <1>1, RequestIs
<1>7. ApprovedIsApplied'
  <2>1. \A q \in PropId : q \in Unapplied' => q \in Unapplied
    BY <1>1, <1>4, <1>6 DEF Unapplied, Applied, PropId
  <2> QED BY <1>1, <2>1, NoneLeftOver
<1>8. faults' \in 0..MaxFaults
  BY <1>1 DEF ProposalsInv, TypeOK
<1> QED BY <1>1, <1>2, <1>3, <1>5, <1>7, <1>8, RequestOnly DEF ProposalsInv

\* A value proposed is one the registry accepts: only a PATCH is refused.
LEMMA RefuseValueKeeps ==
  ASSUME ProposalsInv, NEW c \in Clients, RefuseValue(c)
  PROVE  ProposalsInv'
<1>1. /\ req[c].pc = "old" /\ ~Coerces(req[c].key, req[c].value) /\ SetRequest(c, NoRequest)
      /\ UNCHANGED <<rules, history, prop, props, night, faults>>
  BY DEF RefuseValue, EndRequest
<1>2. req[c].id = 0
  BY <1>1, RequestIs DEF Known, Sound
<1>3. req'[c] = NoRequest /\ \A d \in Clients : d # c => req'[d] = req[d]
  BY <1>1, RequestBecomes
<1>4. RoomLeft'
  <2>1. \A d \in Clients : d \in Writers' => d \in Writers
    BY <1>3, NoRequestIs DEF Writers
  <2> QED BY <1>1, <2>1, FewerWriters
<1>5. ApprovedIsApplied'
  <2>1. \A q \in PropId : q \in Unapplied' => q \in Unapplied
    BY <1>1, <1>2, <1>3 DEF Unapplied, Applied, PropId
  <2> QED BY <1>1, <2>1, NoneLeftOver
<1>6. faults' \in 0..MaxFaults
  BY <1>1 DEF ProposalsInv, TypeOK
<1> QED BY <1>1, <1>4, <1>5, <1>6, NoRequestIs, RequestOnly DEF ProposalsInv

\* set_rule reads the old value: the value it will write is accepted.
LEMMA ReadOldKeeps ==
  ASSUME ProposalsInv, NEW c \in Clients, ReadOld(c)
  PROVE  ProposalsInv'
<1>1. /\ req[c].pc = "old" /\ Coerces(req[c].key, req[c].value)
      /\ UNCHANGED <<rules, history, prop, props, night, faults>>
  BY DEF ReadOld
<1>2. req[c] \in Request /\ Known(req[c])
  BY RequestIs
<1>3. PICK old \in Value : old = rules[req[c].scope][req[c].key]
  BY <1>2 DEF ProposalsInv, TypeOK, Request
<1>4. PICK r : r = [req[c] EXCEPT !.pc = "write", !.old = old]
  OBVIOUS
<1>5. SetRequest(c, r)
  BY <1>3, <1>4, Zenon DEF ReadOld
<1>6. /\ r \in Request /\ r.pc = "write" /\ r.id = req[c].id /\ r.approve = req[c].approve
      /\ r.scope = req[c].scope /\ r.key = req[c].key /\ r.value = req[c].value
  BY <1>2, <1>4 DEF Request
<1>7. Known(r)
  BY <1>1, <1>2, <1>6 DEF Known
<1>8. req'[c] = r /\ \A d \in Clients : d # c => req'[d] = req[d]
  BY <1>5, RequestBecomes
<1>9. RoomLeft'
  <2>1. \A d \in Clients : d \in Writers' => d \in Writers
    BY <1>1, <1>8 DEF Writers
  <2> QED BY <1>1, <2>1, FewerWriters
<1>10. ApprovedIsApplied'
  <2>1. \A q \in PropId : q \in Unapplied' => q \in Unapplied
    BY <1>1, <1>6, <1>8 DEF Unapplied, Applied
  <2> QED BY <1>1, <2>1, NoneLeftOver
<1>11. faults' \in 0..MaxFaults
  BY <1>1 DEF ProposalsInv, TypeOK
<1> QED BY <1>1, <1>5, <1>6, <1>7, <1>9, <1>10, <1>11, RequestOnly DEF ProposalsInv

\* What a request writes.
Written(e, r) ==
  /\ r.pc = "write" /\ r \in Request /\ Known(r) /\ e \in Change
  /\ e.scope = r.scope /\ e.key = r.key /\ e.new = r.value /\ e.by = r.id
  /\ e.was = Get(rules, e.key, e.scope) /\ Coerces(e.key, e.new) /\ e.new # Absent
  /\ history' = Append(history, e)
  /\ rules' = [rules EXCEPT ![e.scope] = [rules[e.scope] EXCEPT ![e.key] = e.new]]

\* The step writes that.
LEMMA WrittenIs ==
  ASSUME ProposalsInv, NEW c \in Clients, WriteRule(c)
  PROVE  \E e : Written(e, req[c])
<1>1. PICK r : r = req[c] /\ r \in Request /\ Known(r) /\ r.pc = "write"
  BY RequestIs DEF WriteRule
<1>2. r.scope \in Scope /\ r.key \in Key /\ Coerces(r.key, r.value)
  BY <1>1 DEF Request, Known
<1>3. r.value \in Value /\ r.value # Absent
  <2>1. r.value \in Int \cup {NaN}
    BY <1>1 DEF Request
  <2>2. r.value = NaN \/ r.value \in REGISTRY[r.key].lo..REGISTRY[r.key].hi
    BY <1>2, <2>1, CoercesIs
  <2> QED BY <1>2, <2>2, RegistryIs, Numbers DEF Value, Absent
<1>4. PICK was \in Value : was = Get(rules, r.key, r.scope)
  BY <1>2, GetIs DEF ProposalsInv
<1>5. PICK e : e = [scope |-> r.scope, key |-> r.key, old |-> r.old, new |-> r.value,
                    by |-> r.id, was |-> was]
  OBVIOUS
<1>6. /\ e \in Change /\ e.scope = r.scope /\ e.key = r.key /\ e.new = r.value /\ e.by = r.id
      /\ e.was = was
  BY <1>1, <1>3, <1>5 DEF Change, Request
<1>7. history' = Append(history, e)
  BY <1>1, <1>4, <1>5 DEF WriteRule
<1>8. rules' = [rules EXCEPT ![r.scope] = [rules[r.scope] EXCEPT ![r.key] = r.value]]
  BY <1>1, Zenon DEF WriteRule
<1> QED BY <1>1, <1>2, <1>3, <1>4, <1>6, <1>7, <1>8 DEF Written

\* The table and the history after the change.
LEMMA WrittenMeans ==
  ASSUME ProposalsInv, NEW e, NEW r, Written(e, r)
  PROVE  /\ rules' \in [Scope -> [Key -> Value]]
         /\ \A s \in Scope, k \in Key :
              rules'[s][k] = IF s = e.scope /\ k = e.key THEN e.new ELSE rules[s][k]
         /\ history' \in Seq(Change) /\ Len(history') = Len(history) + 1
         /\ DOMAIN history' = 1..(Len(history) + 1) /\ history'[Len(history) + 1] = e
         /\ \A i \in 1..Len(history) : history'[i] = history[i]
<1>1. e \in Change /\ e.scope \in Scope /\ e.key \in Key /\ e.new \in Value
  BY DEF Written, Change
<1>2. PICK row : row = [rules[e.scope] EXCEPT ![e.key] = e.new]
  OBVIOUS
<1>3. rules \in [Scope -> [Key -> Value]]
  BY DEF ProposalsInv, TypeOK
<1>4. row \in [Key -> Value] /\ \A k \in Key : row[k] = IF k = e.key THEN e.new ELSE rules[e.scope][k]
  BY <1>1, <1>2, <1>3
<1>5. rules' = [rules EXCEPT ![e.scope] = row]
  BY <1>2 DEF Written
<1>6. /\ rules' \in [Scope -> [Key -> Value]]
      /\ \A s \in Scope : rules'[s] = IF s = e.scope THEN row ELSE rules[s]
  BY <1>1, <1>3, <1>4, <1>5
<1>7. history' = Append(history, e)
  BY DEF Written
<1>8. /\ history' \in Seq(Change) /\ Len(history') = Len(history) + 1
      /\ DOMAIN history' = 1..(Len(history) + 1) /\ history'[Len(history) + 1] = e
      /\ \A i \in 1..Len(history) : history'[i] = history[i]
  BY <1>1, <1>7, Types, AppendProperties, LenProperties
<1> QED BY <1>4, <1>6, <1>8

\* A change leaves in force what it does not touch.
LEMMA WrittenFinds ==
  ASSUME ProposalsInv, NEW e, NEW r, Written(e, r), NEW x, x.key \in Key, x.asof \in Nat,
         Sound(x), InForce(x)
  PROVE  Sound(x)' /\ InForce(x)'
<1>1. PICK n \in Nat : n = Len(history) /\ Len(history') = n + 1
  BY Types, WrittenMeans
<1>2. Sound(x)'
  BY <1>1 DEF Sound
<1>3. /\ x.scope \in Scope /\ GLOBAL \in Scope
      /\ \A s \in Scope : rules'[s][x.key] = IF s = e.scope /\ x.key = e.key THEN e.new ELSE rules[s][x.key]
  BY WrittenMeans DEF Sound, Scope
<1>4. x.stored => Stored(rules, x.key, x.scope)'
  BY <1>3 DEF InForce, Stored, Written
<1>5. ASSUME x.stored, ~Touched(x, Len(history))'
      PROVE  Get(rules, x.key, x.scope)' = x.current
  <2>1. /\ ~Touched(x, Len(history))
        /\ ~(e.key = x.key /\ e.scope \in {x.scope, GLOBAL})
    <3>1. \A j \in (x.asof + 1)..(n + 1) :
            ~(history'[j].key = x.key /\ history'[j].scope \in {x.scope, GLOBAL})
      BY <1>1, <1>5 DEF Touched
    <3>2. \A j \in (x.asof + 1)..n : history'[j] = history[j] /\ j \in (x.asof + 1)..(n + 1)
      BY <1>1, WrittenMeans
    <3>3. n + 1 \in (x.asof + 1)..(n + 1) /\ history'[n + 1] = e
      BY <1>1, WrittenMeans DEF Sound
    <3> QED BY <1>1, <3>1, <3>2, <3>3 DEF Touched
  <2>2. rules'[x.scope][x.key] = rules[x.scope][x.key] /\ rules'[GLOBAL][x.key] = rules[GLOBAL][x.key]
    BY <1>3, <2>1
  <2>3. Get(rules, x.key, x.scope) = x.current
    BY <1>5, <2>1 DEF InForce
  <2> QED BY <2>2, <2>3 DEF Get
<1> QED BY <1>2, <1>4, <1>5 DEF InForce

\* A proposal applied to a value that nobody touched moves it as it said.
LEMMA WrittenMoves ==
  ASSUME ProposalsInv, NEW e, NEW r, Written(e, r), UNCHANGED <<prop, props>>
  PROVE  AsProposed' /\ MovesAtMostAQuarter'
<1>1. PICK n \in Nat : n = Len(history) /\ DOMAIN history = 1..n
  BY Types
<1>2. /\ DOMAIN history' = 1..(n + 1) /\ history'[n + 1] = e
      /\ \A i \in 1..n : history'[i] = history[i]
  BY <1>1, WrittenMeans
<1>3. e.by # 0 => /\ e.by <= props /\ e.by \in PropId
                  /\ e.scope = prop[e.by].scope /\ e.key = prop[e.by].key /\ e.new = prop[e.by].proposed
  BY Types DEF Written, Known, Request, PropId
<1>4. AsProposed'
  BY <1>1, <1>2, <1>3 DEF ProposalsInv, AsProposed
<1> DEFINE touched(h, i) == \E j \in (prop[h.by].asof + 1)..(i - 1) :
                              history[j].key = h.key /\ history[j].scope \in {h.scope, GLOBAL}
           moved(h) == h.was # NaN /\ 4 * h.new >= 3 * h.was - 2 /\ h.new < h.was
<1>5. ASSUME NEW i \in 1..n, history[i].by # 0, prop[history[i].by].stored, ~touched(history[i], i)'
      PROVE  moved(history[i])
  <2>1. PICK h : h = history[i] /\ h = history'[i]
    BY <1>2
  <2>2. PICK a \in Nat : a = prop[h.by].asof
    <3>1. h \in Change /\ h.by # 0 /\ h.by <= props
      <4>1. h \in Change
        BY <1>1, <2>1, Types
      <4> QED BY <1>1, <1>5, <2>1, <4>1 DEF ProposalsInv, AsProposed
    <3>2. prop[h.by] \in RowKept
      BY <3>1, Types DEF Change, PropId
    <3> QED BY <3>2 DEF RowKept
  <2>3. \A j \in (a + 1)..(i - 1) : history'[j] = history[j]
    BY <1>2
  <2>4. ~touched(h, i)
    BY <1>5, <2>1, <2>2, <2>3
  <2> HIDE DEF touched
  <2>5. prop[history[i].by].stored /\ ~touched(history[i], i) => moved(history[i])
    <3> HIDE DEF moved
    <3> QED BY <1>1, <1>5 DEF ProposalsInv, MovesAtMostAQuarter, touched, moved
  <2> QED BY <1>5, <2>1, <2>4, <2>5
<1>6. ASSUME e.by # 0, prop[e.by].stored, ~touched(e, n + 1)'
      PROVE  moved(e)
  <2>1. PICK x : x = prop[e.by] /\ x \in RowKept
    BY <1>3, <1>6, Types
  <2>2. Sound(x) /\ InForce(x)
    BY <1>3, <1>6, <2>1 DEF ProposalsInv, Found
  <2>3. ~Touched(x, n)
    <3>1. \A j \in (x.asof + 1)..n : history'[j] = history[j]
      BY <1>2, <2>1 DEF RowKept
    <3> QED BY <1>3, <1>6, <2>1, <3>1 DEF Touched
  <2>4. e.was = x.current
    BY <1>1, <1>3, <1>6, <2>1, <2>2, <2>3 DEF InForce, Written
  <2>5. x.current # NaN
    BY <2>1, Numbers DEF RowKept
  <2> QED BY <1>3, <1>6, <2>1, <2>2, <2>4, <2>5 DEF Sound
<1>7. MovesAtMostAQuarter'
  <2>1. ASSUME NEW i \in 1..(n + 1), history'[i].by # 0, prop[history'[i].by].stored,
               ~touched(history[i], i)'
        PROVE  moved(history'[i])
    <3>1. CASE i = n + 1
      BY <1>2, <1>6, <2>1, <3>1
    <3>2. CASE i # n + 1
      <4>1. i \in 1..n /\ history'[i] = history[i]
        BY <1>2, <3>2
      <4> HIDE DEF touched, moved
      <4> QED BY <1>5, <2>1, <4>1
    <3> QED BY <3>1, <3>2
  <2> HIDE DEF moved
  <2> QED BY <1>2, <2>1 DEF MovesAtMostAQuarter, moved
<1> QED BY <1>4, <1>7

\* The change of a request, with its row of the history.
LEMMA WriteRuleKeeps ==
  ASSUME ProposalsInv, NEW c \in Clients, WriteRule(c)
  PROVE  ProposalsInv'
<1>1. UNCHANGED <<prop, props, night, faults>> /\ SetRequest(c, NoRequest)
  BY DEF WriteRule, EndRequest
<1>2. PICK r : r = req[c] /\ r \in Request /\ Known(r) /\ r.pc = "write"
  BY RequestIs DEF WriteRule
<1>3. PICK e \in Change : Written(e, r) /\ e.by = r.id /\ history' = Append(history, e)
  BY <1>2, WrittenIs DEF Written
<1>4. /\ req' \in [Clients -> Request] /\ req'[c] = NoRequest
      /\ \A d \in Clients : d # c => req'[d] = req[d]
  BY <1>1, RequestTyped, RequestBecomes, NoRequestIs
<1>5. Writers' \subseteq Writers \ {c} /\ c \in Writers
  BY <1>2, <1>4, NoRequestIs DEF Writers
<1>6. RoomLeft' /\ Len(history') <= MaxChanges
  <2>1. PICK W : W = Writers'
    OBVIOUS
  <2>2. /\ IsFiniteSet(Writers \ {c}) /\ Cardinality(Writers \ {c}) = Cardinality(Writers) - 1
        /\ Cardinality(Writers) \in Nat
    BY <1>5, WritersAre, FS_RemoveElement
  <2>3. Cardinality(W) <= Cardinality(Writers \ {c}) /\ Cardinality(W) \in Nat
    BY <1>5, <2>1, <2>2, FS_Subset, FS_CardinalityType
  <2>4. Len(history) \in Nat /\ Len(history') = Len(history) + 1
    BY <1>3, Types, WrittenMeans
  <2>5. Len(history) + Cardinality(Writers) <= MaxChanges
    BY DEF ProposalsInv, RoomLeft
  <2> QED BY <2>1, <2>2, <2>3, <2>4, <2>5, BoundsAssumption DEF RoomLeft
<1>7. TypeOK'
  <2>1. PICK key, new : key = e.key /\ new = e.new /\ Coerces(key, new)
    BY <1>3 DEF Written
  <2>2. \A s \in Scope, k \in Key :
          rules'[s][k] = IF s = e.scope /\ k = key THEN new ELSE rules[s][k]
    BY <1>3, <2>1, WrittenMeans
  <2>3. new \in Value /\ new \in Int \cup {NaN} /\ key \in Key
    BY <2>1 DEF Change, Value
  <2>4. new = NaN \/ new \in REGISTRY[key].lo..REGISTRY[key].hi
    BY <2>1, <2>3, CoercesIs
  <2>5. \A s \in Scope, k \in Key : rules'[s][k] \in {Absent, NaN} \/ rules'[s][k] \in REGISTRY[k].lo..REGISTRY[k].hi
    BY <2>2, <2>4 DEF ProposalsInv, TypeOK
  <2>6. rules' \in [Scope -> [Key -> Value]] /\ history' \in Seq(Change)
    BY <1>3, WrittenMeans
  <2> QED BY <1>1, <1>4, <1>6, <2>5, <2>6 DEF ProposalsInv, TypeOK
<1>8. RequestsKnown'
  <2>1. props' \in Nat /\ props <= props' /\ \A q \in PropId : SameContent(prop[q], prop'[q])
    BY <1>1, Types DEF SameContent
  <2> QED BY <1>1, <2>1, NoRequestIs, RequestKnown
<1>9. Found'
  <2>1. ASSUME NEW p \in PropId
        PROVE  (IF p <= props THEN Sound(prop[p]) /\ InForce(prop[p]) ELSE prop[p] = NoProp)'
    <3>1. CASE p <= props
      <4>1. PICK x \in RowKept : x = prop[p] /\ x = prop'[p]
        BY <1>1, Types
      <4>2. Sound(x) /\ InForce(x)
        BY <3>1, <4>1 DEF ProposalsInv, Found
      <4>3. x.key \in Key /\ x.asof \in Nat
        BY BoundsAssumption DEF RowKept
      <4>4. Sound(x)' /\ InForce(x)'
        BY <1>3, <4>2, <4>3, WrittenFinds
      <4> QED BY <1>1, <3>1, <4>1, <4>4
    <3>2. CASE ~(p <= props)
      BY <1>1, <3>2 DEF ProposalsInv, Found
    <3> QED BY <3>1, <3>2
  <2>2. ASSUME NEW j \in DOMAIN night.todo PROVE (Sound(night.todo[j]) /\ InForce(night.todo[j]))'
    <3>1. PICK x \in Row : x = night.todo[j] /\ x = night'.todo[j]
      BY <1>1, Types
    <3>2. Sound(x) /\ InForce(x)
      BY <3>1 DEF ProposalsInv, Found
    <3>3. x.key \in Key /\ x.asof \in Nat
      BY BoundsAssumption DEF Row
    <3>4. Sound(x)' /\ InForce(x)'
      BY <1>3, <3>2, <3>3, WrittenFinds
    <3> QED BY <3>1, <3>4
  <2> QED BY <1>1, <2>1, <2>2 DEF Found
<1>10. AsProposed' /\ MovesAtMostAQuarter'
  BY <1>1, <1>3, WrittenMoves
<1>11. NightKnows' /\ OneOpenAcrossNights'
  BY <1>1 DEF ProposalsInv, NightKnows, OneOpenAcrossNights
<1>12. \A q : Applied(q)' = IF r.id = q THEN Applied(q) \cup {Len(history) + 1} ELSE Applied(q)
  BY <1>3, AppliedAfter
<1>13. ApprovedIsApplied'
  <2>1. ASSUME NEW q \in PropId, q \in Unapplied' PROVE q \in Unapplied
    <3>1. Applied(q)' = {} /\ prop[q].status = "approved"
      BY <1>1, <2>1 DEF Unapplied
    <3>2. r.id # q /\ Applied(q) = {}
      BY <1>12, <3>1
    <3>3. \A d \in Clients : req[d].id = q => req[d].pc = "idle"
      BY <1>2, <1>4, <2>1, <3>2 DEF Unapplied
    <3> QED BY <3>1, <3>2, <3>3 DEF Unapplied
  <2> QED BY <1>1, <2>1, NoneLeftOver
<1>14. Decided'
  <2>1. ASSUME NEW q \in PropId PROVE DecidedOf(q)'
    <3>1. DecidedOf(q)
      BY DecidedIs DEF ProposalsInv
    <3>2. CASE q = r.id
      <4>1. CASE prop[q].seen <= 1
        <5>1. Asking(q) = {c} /\ Applied(q) = {} /\ prop[q].seen # 0 /\ prop[q].status = "approved"
          BY <1>2, <3>1, <3>2, <4>1 DEF DecidedOf, Asking
        <5>2. Asking(q)' = {}
          BY <1>4, <5>1, NoRequestIs DEF Asking, PropId
        <5>3. Applied(q)' = {Len(history) + 1}
          BY <1>12, <3>2, <5>1
        <5> QED BY <1>1, <5>1, <5>2, <5>3 DEF DecidedOf
      <4>2. CASE ~(prop[q].seen <= 1)
        BY <1>1, <4>2 DEF DecidedOf
      <4> QED BY <4>1, <4>2
    <3>3. CASE q # r.id
      <4>1. Applied(q)' = Applied(q)
        BY <1>12, <3>3
      <4>2. Asking(q)' = Asking(q) /\ c \notin Asking(q)
        BY <1>2, <1>4, <3>3, NoRequestIs DEF Asking, PropId
      <4>3. prop'[q] = prop[q] /\ \A d \in Asking(q) : req'[d] = req[d]
        BY <1>1, <1>4, <4>2 DEF Asking
      <4> QED BY <3>1, <4>1, <4>2, <4>3 DEF DecidedOf
    <3> QED BY <3>2, <3>3
  <2> QED BY <2>1 DEF Decided, DecidedOf
<1> QED BY <1>6, <1>7, <1>8, <1>9, <1>10, <1>11, <1>13, <1>14 DEF ProposalsInv

\* A request that is cut may leave a mark without its change.
LEMMA RequestFailsKeeps ==
  ASSUME ProposalsInv, NEW c \in Clients, RequestFails(c)
  PROVE  ProposalsInv'
<1>1. /\ SetRequest(c, NoRequest) /\ faults < MaxFaults /\ faults' = faults + 1
      /\ UNCHANGED <<rules, history, prop, props, night>>
  BY DEF RequestFails, EndRequest
<1>2. faults' \in 0..MaxFaults
  BY <1>1, BoundsAssumption DEF ProposalsInv, TypeOK
<1>3. req'[c] = NoRequest /\ \A d \in Clients : d # c => req'[d] = req[d]
  BY <1>1, RequestBecomes
<1>4. RoomLeft'
  <2>1. \A d \in Clients : d \in Writers' => d \in Writers
    BY <1>3, NoRequestIs DEF Writers
  <2> QED BY <1>1, <2>1, FewerWriters
<1>5. ApprovedIsApplied'
  <2>1. ASSUME NEW p \in PropId, p \in Unapplied', ~(\E d \in Clients : req[d].id = p)
        PROVE  p \in Unapplied
    BY <1>1, <2>1 DEF Unapplied, Applied
  <2> QED BY <1>1, <2>1, OnePerRequest
<1> QED BY <1>1, <1>2, <1>4, <1>5, NoRequestIs, RequestOnly DEF ProposalsInv

-----------------------------------------------------------------------------
(***************************************************************************)
(* The steps of the night and of the days.                                 *)
(***************************************************************************)

\* The requests wait.
LEMMA RequestsWait ==
  ASSUME ProposalsInv, UNCHANGED <<history, req>>, props' \in Nat, props <= props',
         \A p \in PropId : p <= props => SameContent(prop[p], prop'[p])
  PROVE  RequestsKnown' /\ RoomLeft' /\ AsProposed' /\ MovesAtMostAQuarter'
<1>1. ASSUME NEW c \in Clients PROVE Known(req[c])'
  <2>1. PICK r \in Request : r = req[c] /\ r = req'[c] /\ Known(r)
    BY RequestIs
  <2>2. Known(r)'
    BY <2>1, KnownKept
  <2> QED BY <2>1, <2>2
<1>2. \A c \in Clients : c \in Writers' => c \in Writers
  BY DEF Writers
<1> QED BY <1>1, <1>2, FewerWriters, ToldKept DEF RequestsKnown

\* Proposals expire or grow older; none is opened or decided.
LEMMA TimeKeeps ==
  ASSUME ProposalsInv, UNCHANGED <<rules, history, props, req, faults>>, prop' \in [PropId -> RowKept],
         \A p \in PropId : /\ SameContent(prop[p], prop'[p]) /\ prop'[p].seen = prop[p].seen
                           /\ \/ prop'[p] = prop[p]
                              \/ prop[p].status = "pending" /\ prop'[p].status \in {"pending", "expired"},
         night' \in Job, night'.todo = night.todo, night'.pending = night.pending,
         night'.pc \in {"expire", "read"} \/ night' = night
  PROVE  ProposalsInv'
<1>1. \A p \in PropId : (prop'[p].status = "none") = (prop[p].status = "none")
  OBVIOUS
<1>2. TypeOK'
  BY <1>1 DEF ProposalsInv, TypeOK
<1>3. Quiet
  BY <1>1, Types DEF Quiet
<1>4. NightKnows'
  BY <1>3 DEF ProposalsInv, NightKnows, Quiet, SameContent
<1>5. Found'
  BY <1>3, FoundKept DEF NightLess
<1>6. RequestsKnown' /\ RoomLeft' /\ AsProposed' /\ MovesAtMostAQuarter'
  BY Types, RequestsWait
<1>7. Decided'
  BY DecidedByTime
<1>8. ApprovedIsApplied'
  <2>1. \A p \in PropId : p \in Unapplied' => p \in Unapplied
    BY DEF Unapplied, Applied
  <2> QED BY <2>1, NoneLeftOver
<1>9. OneOpenAcrossNights'
  BY <1>3, OpenKept
<1> QED BY <1>2, <1>4, <1>5, <1>6, <1>7, <1>8, <1>9 DEF ProposalsInv

\* The night expires only what is pending.
LEMMA ExpireProposalsKeeps ==
  ASSUME ProposalsInv, ExpireProposals
  PROVE  ProposalsInv'
<1>1. /\ UNCHANGED <<rules, history, props, req, faults>> /\ night' = [night EXCEPT !.pc = "read"]
      /\ prop' = [p \in PropId |-> IF Stale(p) THEN [prop[p] EXCEPT !.status = "expired"] ELSE prop[p]]
  BY DEF ExpireProposals
<1>2. ASSUME NEW p \in PropId
      PROVE  /\ SameContent(prop[p], prop'[p]) /\ prop'[p].seen = prop[p].seen /\ prop'[p] \in RowKept
             /\ \/ prop'[p] = prop[p]
                \/ prop[p].status = "pending" /\ prop'[p].status \in {"pending", "expired"}
  <2>1. CASE Stale(p)
    <3>1. prop'[p] = [prop[p] EXCEPT !.status = "expired"] /\ prop[p] \in RowKept
      BY <1>1, <2>1, Types
    <3> QED BY <2>1, <3>1 DEF RowKept, SameContent, Stale
  <2>2. CASE ~Stale(p)
    <3>1. prop'[p] = prop[p] /\ prop[p] \in RowKept
      BY <1>1, <2>2, Types
    <3> QED BY <3>1 DEF SameContent
  <2> QED BY <2>1, <2>2
<1>3. prop' \in [PropId -> RowKept]
  BY <1>1, <1>2
<1>4. night' \in Job /\ night'.todo = night.todo /\ night'.pending = night.pending /\ night'.pc = "read"
  BY <1>1, Types DEF Job
<1> QED BY <1>1, <1>2, <1>3, <1>4, TimeKeeps

\* The days only age what is pending.
LEMMA NewDayKeeps ==
  ASSUME ProposalsInv, NewDay
  PROVE  ProposalsInv'
<1> DEFINE ages(p) == prop[p].status = "pending" /\ prop[p].age <= ProposalTTL
<1>1. /\ UNCHANGED <<rules, history, props, req, night, faults>>
      /\ prop' = [p \in PropId |-> IF ages(p) THEN [prop[p] EXCEPT !.age = @ + 1] ELSE prop[p]]
  BY DEF NewDay
<1>2. ASSUME NEW p \in PropId
      PROVE  /\ SameContent(prop[p], prop'[p]) /\ prop'[p].seen = prop[p].seen /\ prop'[p] \in RowKept
             /\ \/ prop'[p] = prop[p]
                \/ prop[p].status = "pending" /\ prop'[p].status \in {"pending", "expired"}
  <2>1. CASE ages(p)
    <3>1. PICK a \in 0..(ProposalTTL + 1) : a = prop[p].age + 1
      BY <2>1, Types, BoundsAssumption DEF RowKept
    <3>2. prop'[p] = [prop[p] EXCEPT !.age = a] /\ prop[p] \in RowKept
      BY <1>1, <2>1, <3>1, Types
    <3> QED BY <2>1, <3>2 DEF RowKept, SameContent
  <2>2. CASE ~ages(p)
    <3>1. prop'[p] = prop[p] /\ prop[p] \in RowKept
      BY <1>1, <2>2, Types
    <3> QED BY <3>1 DEF SameContent
  <2> QED BY <2>1, <2>2
<1>3. prop' \in [PropId -> RowKept]
  <2> HIDE DEF ages
  <2> QED BY <1>1, <1>2
<1>4. night' \in Job /\ night'.todo = night.todo /\ night'.pending = night.pending /\ night' = night
  BY <1>1, Types
<1> QED BY <1>1, <1>2, <1>3, <1>4, TimeKeeps

\* The night goes on; nothing else changes but failures that are counted.
LEMMA NightOnly ==
  ASSUME ProposalsInv, UNCHANGED <<rules, history, prop, props, req>>, night' \in Job,
         faults' = faults \/ (faults' = faults + 1 /\ faults < MaxFaults)
  PROVE  /\ TypeOK' /\ Decided' /\ OneOpenAcrossNights' /\ ApprovedIsApplied'
         /\ (RequestsKnown /\ RoomLeft /\ AsProposed /\ MovesAtMostAQuarter)'
<1>1. TypeOK'
  BY BoundsAssumption DEF ProposalsInv, TypeOK
<1>2. (RequestsKnown /\ RoomLeft /\ AsProposed /\ MovesAtMostAQuarter)'
  BY Types, RequestsWait DEF SameContent
<1>3. Decided' /\ OneOpenAcrossNights'
  BY DecidedByTime DEF ProposalsInv, OneOpenAcrossNights
<1>4. \A p \in PropId : p \in Unapplied' => p \in Unapplied
  BY DEF Unapplied, Applied
<1>5. ApprovedIsApplied'
  BY <1>4, NoneLeftOver, OnePerRequest
<1> QED BY <1>1, <1>2, <1>3, <1>5

\* What it found before, it finds again.
LEMMA StillFound ==
  ASSUME ProposalsInv, UNCHANGED <<rules, history, prop, props>>,
         \A j \in DOMAIN night'.todo : Sound(night'.todo[j]) /\ InForce(night'.todo[j])
  PROVE  Found'
<1>1. ASSUME NEW p \in PropId
      PROVE  (IF p <= props THEN Sound(prop[p]) /\ InForce(prop[p]) ELSE prop[p] = NoProp)'
  BY RuledKept DEF ProposalsInv, Found
<1>2. ASSUME NEW j \in DOMAIN night'.todo PROVE (Sound(night.todo[j]) /\ InForce(night.todo[j]))'
  <2>1. PICK x : x = night'.todo[j] /\ Sound(x) /\ InForce(x)
    OBVIOUS
  <2>2. Sound(x)' /\ InForce(x)'
    BY <2>1, RuledKept
  <2> QED BY <2>1, <2>2
<1> QED BY <1>1, <1>2 DEF Found

\* The night begins with what it read.
LEMMA StartNightlyKeeps ==
  ASSUME ProposalsInv, NEW buckets \in Nights, StartNightly(buckets)
  PROVE  ProposalsInv'
<1>1. PICK todo \in Seq(NightRow) : todo = Proposals(buckets)
  BY ProposalsIs DEF ProposalsInv
<1>2. /\ UNCHANGED <<rules, history, prop, props, req, faults>>
      /\ props + Len(todo) <= MaxProposals
      /\ night' = [Asleep EXCEPT !.pc = "expire", !.todo = todo]
  BY <1>1 DEF StartNightly
<1>3. night'.pc = "expire" /\ night'.todo = todo /\ night'.pending = {}
  BY <1>2 DEF Asleep
<1>4. \A j \in DOMAIN todo : todo[j] \in NightRow
  BY ElementOfSeq, LenProperties
<1>5. todo \in Seq(Row)
  BY LenProperties DEF NightRow
<1>6. night' \in Job
  BY <1>2, <1>5 DEF Job, Asleep
<1>7. Found'
  BY <1>2, <1>3, <1>4, StillFound DEF NightRow
<1>8. NightKnows'
  BY <1>2, <1>3, <1>4 DEF NightKnows, NightRow
<1> QED BY <1>2, <1>6, <1>7, <1>8, NightOnly DEF ProposalsInv

\* It looks at what is pending: from here it knows every open proposal.
LEMMA ReadPendingKeeps ==
  ASSUME ProposalsInv, ReadPending
  PROVE  ProposalsInv'
<1>1. /\ UNCHANGED <<rules, history, prop, props, req, faults>>
      /\ night' = [night EXCEPT !.pc = "add", !.pending = Pending]
  BY DEF ReadPending
<1>2. Pending \subseteq Scope \X Key
  BY Types DEF Pending, RowKept
<1>3. night' \in Job /\ night'.pc = "add" /\ night'.todo = night.todo /\ night'.pending = Pending
  BY <1>1, <1>2, Types DEF Job
<1>4. Found'
  BY <1>1, <1>3, StillFound DEF ProposalsInv, Found
<1>5. NightKnows'
  BY <1>1, <1>3 DEF ProposalsInv, NightKnows, Pending
<1> QED BY <1>1, <1>3, <1>4, <1>5, NightOnly DEF ProposalsInv

\* The night with its first proposal gone.
LEMMA TailIs ==
  ASSUME ProposalsInv, night.todo # <<>>, night' = [night EXCEPT !.todo = Tail(@)]
  PROVE  /\ night' \in Job /\ night'.pc = night.pc /\ night'.pending = night.pending
         /\ Len(night.todo) >= 1 /\ Head(night.todo) = night.todo[1]
         /\ Len(night'.todo) = Len(night.todo) - 1
         /\ DOMAIN night'.todo = 1..(Len(night.todo) - 1)
         /\ \A j \in DOMAIN night'.todo : j + 1 \in DOMAIN night.todo /\ night'.todo[j] = night.todo[j + 1]
<1>1. PICK todo \in Seq(Row) : todo = night.todo /\ todo # <<>>
  BY Types
<1>2. /\ Tail(todo) \in Seq(Row) /\ Len(todo) \in Nat /\ Len(todo) >= 1
      /\ Len(Tail(todo)) = Len(todo) - 1 /\ Head(todo) = todo[1]
      /\ \A j \in 1..(Len(todo) - 1) : Tail(todo)[j] = todo[j + 1]
      /\ DOMAIN todo = 1..Len(todo)
  BY <1>1, HeadTailProperties, LenProperties, EmptySeq
<1>3. DOMAIN Tail(todo) = 1..(Len(todo) - 1)
  BY <1>2, LenProperties
<1>4. night' \in Job /\ night'.pc = night.pc /\ night'.pending = night.pending /\ night'.todo = Tail(todo)
  BY <1>1, <1>2, Types DEF Job
<1>5. \A j \in 1..(Len(todo) - 1) : j + 1 \in 1..Len(todo)
  BY <1>2
<1> QED BY <1>1, <1>2, <1>3, <1>4, <1>5

\* It leaves out what is pending already.
LEMMA SkipProposalKeeps ==
  ASSUME ProposalsInv, SkipProposal
  PROVE  ProposalsInv'
<1>1. /\ UNCHANGED <<rules, history, prop, props, req, faults>> /\ night.todo # <<>> /\ night.pc = "add"
      /\ night' = [night EXCEPT !.todo = Tail(@)]
  BY DEF SkipProposal
<1>2. /\ night' \in Job /\ night'.pc = "add" /\ night'.pending = night.pending
      /\ Len(night'.todo) = Len(night.todo) - 1
      /\ \A j \in DOMAIN night'.todo : \E i \in DOMAIN night.todo : night'.todo[j] = night.todo[i]
  BY <1>1, TailIs
<1>3. Found'
  BY <1>1, <1>2, StillFound DEF ProposalsInv, Found
<1>4. NightKnows'
  <2>1. props + Len(night'.todo) <= MaxProposals
    BY <1>2, Types, BoundsAssumption DEF ProposalsInv, NightKnows
  <2> QED BY <1>1, <1>2, <2>1 DEF ProposalsInv, NightKnows
<1> QED BY <1>1, <1>2, <1>3, <1>4, NightOnly DEF ProposalsInv

\* It ends, or fails.
LEMMA NightOverKeeps ==
  ASSUME ProposalsInv, EndNightly \/ NightlyFails
  PROVE  ProposalsInv'
<1>1. /\ UNCHANGED <<rules, history, prop, props, req>> /\ night' = Asleep
      /\ faults' = faults \/ (faults' = faults + 1 /\ faults < MaxFaults)
  BY DEF EndNightly, NightlyFails
<1>2. Asleep \in Job
  BY DEF Asleep, Job
<1>3. Quiet
  BY <1>1 DEF Quiet, SameContent
<1>4. NightKnows' /\ Found'
  BY <1>1, <1>3, NightKept, FoundKept
<1> QED BY <1>1, <1>2, <1>4, NightOnly DEF ProposalsInv

\* It adds what was not pending: an open proposal of the same scope and key is its own.
LEMMA AddProposalKeeps ==
  ASSUME ProposalsInv, AddProposal
  PROVE  ProposalsInv'
<1>1. /\ UNCHANGED <<rules, history, req, faults>> /\ night.todo # <<>> /\ night.pc = "add"
      /\ night' = [night EXCEPT !.todo = Tail(@)] /\ props' = props + 1
  BY DEF AddProposal
<1>2. /\ night' \in Job /\ night'.pc = "add" /\ night'.pending = night.pending
      /\ Len(night.todo) >= 1 /\ Len(night'.todo) = Len(night.todo) - 1
      /\ DOMAIN night'.todo = 1..(Len(night.todo) - 1)
      /\ \A j \in DOMAIN night'.todo : j + 1 \in DOMAIN night.todo /\ night'.todo[j] = night.todo[j + 1]
  BY <1>1, TailIs
<1>3. 1 \in DOMAIN night.todo /\ Head(night.todo) = night.todo[1]
  BY <1>1, <1>2, Types, TailIs
<1>4. PICK new \in Row : new = night.todo[1] /\ Sound(new) /\ InForce(new)
  BY <1>3, Types DEF ProposalsInv, Found
<1>5. PICK n \in PropId : n = props + 1
  <2>1. props + Len(night.todo) <= MaxProposals
    BY DEF ProposalsInv, NightKnows
  <2>2. props + 1 \in 1..MaxProposals
    BY <1>2, <2>1, Types, BoundsAssumption
  <2> QED BY <2>2 DEF PropId
<1>6. PICK x : x = [status |-> "pending", scope |-> new.scope, key |-> new.key, current |-> new.current,
                    proposed |-> new.proposed, age |-> 0, asof |-> new.asof, batch |-> new.batch,
                    stored |-> new.stored, seen |-> 0]
  OBVIOUS
<1>7. x \in RowKept /\ SameContent(new, x) /\ x.status = "pending" /\ x.seen = 0
  BY <1>6, BoundsAssumption DEF Row, RowKept, SameContent
<1>8. prop' = [prop EXCEPT ![n] = x] /\ <<new.scope, new.key>> \notin night.pending
  BY <1>3, <1>4, <1>5, <1>6 DEF AddProposal
<1>9. /\ prop' \in [PropId -> RowKept] /\ prop'[n] = x /\ prop[n] = NoProp
      /\ \A p \in PropId : p # n => prop'[p] = prop[p]
  <2>1. ~(n <= props)
    BY <1>5, Types
  <2>2. prop[n] = NoProp
    BY <2>1 DEF ProposalsInv, Found
  <2>3. prop \in [PropId -> RowKept]
    BY DEF ProposalsInv, TypeOK
  <2> QED BY <1>7, <1>8, <2>2, <2>3
<1>10. \A p \in PropId : p <= props => SameContent(prop[p], prop'[p])
  BY <1>5, <1>9, Types DEF SameContent
<1>11. TypeOK'
  <2>1. props' \in 0..MaxProposals
    BY <1>1, <1>5 DEF PropId
  <2>2. \A p \in PropId : (prop'[p].status = "none") = (p > props')
    BY <1>1, <1>5, <1>7, <1>9, Types DEF PropId
  <2> QED BY <1>1, <1>2, <1>9, <2>1, <2>2 DEF ProposalsInv, TypeOK
<1>12. RequestsKnown' /\ RoomLeft' /\ AsProposed' /\ MovesAtMostAQuarter'
  <2>1. props' \in Nat /\ props <= props'
    BY <1>1, Types
  <2> QED BY <1>1, <1>10, <2>1, RequestsWait
<1>13. Found'
  <2>1. ASSUME NEW p \in PropId
        PROVE  (IF p <= props THEN Sound(prop[p]) /\ InForce(prop[p]) ELSE prop[p] = NoProp)'
    <3>1. CASE p = n
      <4>1. Sound(x) /\ InForce(x)
        BY <1>4, <1>7, ContentDecides
      <4>2. Sound(x)' /\ InForce(x)'
        BY <1>1, <4>1, RuledKept
      <4>3. p <= props' /\ prop'[p] = x
        BY <1>1, <1>5, <1>9, <3>1, Types
      <4> QED BY <4>2, <4>3
    <3>2. CASE p # n /\ p <= props
      <4>1. PICK y : y = prop[p] /\ y = prop'[p] /\ Sound(y) /\ InForce(y)
        BY <1>9, <3>2 DEF ProposalsInv, Found
      <4>2. Sound(y)' /\ InForce(y)'
        BY <1>1, <4>1, RuledKept
      <4>3. p <= props'
        BY <1>1, <3>2, Types DEF PropId
      <4> QED BY <4>1, <4>2, <4>3
    <3>3. CASE p # n /\ ~(p <= props)
      <4>1. prop'[p] = NoProp
        BY <1>9, <3>3 DEF ProposalsInv, Found
      <4>2. ~(p <= props')
        BY <1>1, <1>5, <3>3, Types DEF PropId
      <4> QED BY <4>1, <4>2
    <3> QED BY <3>1, <3>2, <3>3
  <2>2. ASSUME NEW j \in DOMAIN night'.todo PROVE (Sound(night.todo[j]) /\ InForce(night.todo[j]))'
    <3>1. PICK y : y = night'.todo[j] /\ Sound(y) /\ InForce(y)
      BY <1>2 DEF ProposalsInv, Found
    <3>2. Sound(y)' /\ InForce(y)'
      BY <1>1, <3>1, RuledKept
    <3> QED BY <3>1, <3>2
  <2> QED BY <2>1, <2>2 DEF Found
<1>14. NightKnows'
  <2>1. props' + Len(night'.todo) <= MaxProposals
    BY <1>1, <1>2, Types, BoundsAssumption DEF ProposalsInv, NightKnows
  <2>2. \A i \in DOMAIN night.todo : night.todo[i].batch = new.batch
    BY <1>3, <1>4 DEF ProposalsInv, NightKnows
  <2>3. \A j \in DOMAIN night'.todo : night'.todo[j].batch = new.batch
    BY <1>2, <2>2
  <2>4. \A p \in PropId :
          prop'[p].status = "pending" => \/ <<prop'[p].scope, prop'[p].key>> \in night.pending
                                         \/ prop'[p].batch = new.batch
    BY <1>1, <1>3, <1>4, <1>7, <1>9 DEF ProposalsInv, NightKnows, SameContent
  <2> QED BY <1>2, <2>1, <2>3, <2>4 DEF NightKnows
<1>15. OneOpenAcrossNights'
  <2>1. \A p \in PropId :
          /\ prop[p].status = "pending" /\ prop[p].scope = x.scope /\ prop[p].key = x.key
          => prop[p].batch = x.batch
    BY <1>1, <1>3, <1>4, <1>7, <1>8 DEF ProposalsInv, NightKnows, SameContent
  <2> QED BY <1>9, <2>1 DEF ProposalsInv, OneOpenAcrossNights
<1>16. Decided'
  <2>1. \A p \in PropId : /\ prop'[p].seen = prop[p].seen
                          /\ \/ prop'[p].status = prop[p].status
                             \/ prop[p] = NoProp /\ prop'[p].status = "pending"
    BY <1>7, <1>9 DEF NoProp
  <2> QED BY <1>1, <2>1, DecidedByTime
<1>17. ApprovedIsApplied'
  <2>1. \A p \in PropId : p \in Unapplied' => p \in Unapplied
    BY <1>1, <1>7, <1>9 DEF Unapplied, Applied
  <2> QED BY <1>1, <2>1, NoneLeftOver
<1> QED BY <1>11, <1>12, <1>13, <1>14, <1>15, <1>16, <1>17 DEF ProposalsInv

-----------------------------------------------------------------------------
(***************************************************************************)
(* The seed.                                                               *)
(***************************************************************************)

\* What a start writes.
LEMMA SeedIs ==
  ASSUME NEW env \in Seeds, NEW table, table \in [Scope -> [Key -> Value]]
  PROVE  /\ SeedRules(table, env) \in [Scope -> [Key -> Value]]
         /\ \A s \in Scope, k \in Key :
              \/ SeedRules(table, env)[s][k] = table[s][k]
              \/ /\ s = GLOBAL /\ table[s][k] = Absent /\ SeedRules(table, env)[s][k] = env[k]
                 /\ env[k] \in (REGISTRY[k].lo..REGISTRY[k].hi) \cup {NaN}
<1>1. PICK row : row = [k \in Key |-> IF table[GLOBAL][k] = Absent THEN env[k] ELSE table[GLOBAL][k]]
  OBVIOUS
<1>2. GLOBAL \in Scope
  BY DEF Scope
<1>3. \A k \in Key : env[k] \in (REGISTRY[k].lo..REGISTRY[k].hi) \cup {NaN} /\ env[k] \in Value
  BY InputsAssumption, RegistryIs DEF Value
<1>4. /\ row \in [Key -> Value]
      /\ \A k \in Key : \/ row[k] = table[GLOBAL][k]
                        \/ table[GLOBAL][k] = Absent /\ row[k] = env[k]
  BY <1>1, <1>2, <1>3
<1>5. SeedRules(table, env) = [table EXCEPT ![GLOBAL] = row]
  BY <1>1 DEF SeedRules
<1>6. /\ SeedRules(table, env) \in [Scope -> [Key -> Value]]
      /\ \A s \in Scope : SeedRules(table, env)[s] = IF s = GLOBAL THEN row ELSE table[s]
  BY <1>2, <1>4, <1>5
<1> QED BY <1>3, <1>4, <1>6

\* A stored value stays in force.
LEMMA SeededFinds ==
  ASSUME ProposalsInv, NEW env \in Seeds, rules' = SeedRules(rules, env), history' = history,
         NEW x, x.key \in Key, Sound(x), InForce(x)
  PROVE  Sound(x)' /\ InForce(x)'
<1>1. Sound(x)'
  BY DEF Sound
<1>2. x.scope \in Scope /\ x.scope # GLOBAL /\ GLOBAL \in Scope
  BY ScopesAssumption DEF Sound, Scope
<1>3. rules \in [Scope -> [Key -> Value]]
  BY DEF ProposalsInv, TypeOK
<1>4. rules'[x.scope][x.key] = rules[x.scope][x.key]
  BY <1>2, <1>3, SeedIs
<1>5. rules'[GLOBAL][x.key] = rules[GLOBAL][x.key] \/ rules[GLOBAL][x.key] = Absent
  BY <1>2, <1>3, SeedIs
<1>6. Stored(rules, x.key, x.scope) =>
        /\ Stored(rules, x.key, x.scope)'
        /\ Get(rules, x.key, x.scope)' = Get(rules, x.key, x.scope)
  BY <1>4, <1>5 DEF Stored, Get
<1>7. Touched(x, Len(history))' = Touched(x, Len(history))
  BY DEF Touched
<1> QED BY <1>1, <1>6, <1>7 DEF InForce

\* A restart cuts every request and the night, and seeds what has no row.
LEMMA ProposalsRestart ==
  ASSUME ProposalsInv, NEW env \in Seeds, Restart(env)
  PROVE  ProposalsInv'
<1>1. /\ rules' = SeedRules(rules, env) /\ req' = [c \in Clients |-> NoRequest] /\ night' = Asleep
      /\ UNCHANGED <<history, prop, props>> /\ faults < MaxFaults /\ faults' = faults + 1
  BY DEF Restart
<1>2. \A c \in Clients : req'[c] = NoRequest
  BY <1>1
<1>3. TypeOK'
  <2>1. rules \in [Scope -> [Key -> Value]]
    BY DEF ProposalsInv, TypeOK
  <2>2. /\ rules' \in [Scope -> [Key -> Value]]
        /\ \A s \in Scope, k \in Key :
             rules'[s][k] = rules[s][k] \/ rules'[s][k] \in (REGISTRY[k].lo..REGISTRY[k].hi) \cup {NaN}
    BY <1>1, <2>1, SeedIs
  <2>3. \A s \in Scope, k \in Key : rules'[s][k] \in {Absent, NaN} \/ rules'[s][k] \in REGISTRY[k].lo..REGISTRY[k].hi
    BY <2>2 DEF ProposalsInv, TypeOK
  <2>4. req' \in [Clients -> Request] /\ night' \in Job
    BY <1>1, NoRequestIs DEF Asleep, Job
  <2>5. faults' \in 0..MaxFaults
    BY <1>1, BoundsAssumption DEF ProposalsInv, TypeOK
  <2> QED BY <1>1, <2>2, <2>3, <2>4, <2>5 DEF ProposalsInv, TypeOK
<1>4. RequestsKnown'
  BY <1>2, NoRequestIs DEF RequestsKnown
<1>5. RoomLeft'
  <2>1. \A c \in Clients : c \in Writers' => c \in Writers
    BY <1>2, NoRequestIs DEF Writers
  <2> QED BY <1>1, <2>1, FewerWriters
<1>6. Quiet
  BY <1>1 DEF Quiet, SameContent
<1>7. NightKnows' /\ OneOpenAcrossNights' /\ night'.todo = <<>>
  BY <1>1, <1>6, NightKept, OpenKept DEF Asleep
<1>8. AsProposed' /\ MovesAtMostAQuarter'
  BY <1>1, Types, ToldKept DEF SameContent
<1>9. Found'
  <2>1. ASSUME NEW p \in PropId
        PROVE  (IF p <= props THEN Sound(prop[p]) /\ InForce(prop[p]) ELSE prop[p] = NoProp)'
    <3>1. CASE p <= props
      <4>1. PICK x \in RowKept : x = prop[p] /\ x = prop'[p]
        BY <1>1, Types
      <4>2. Sound(x) /\ InForce(x)
        BY <3>1, <4>1 DEF ProposalsInv, Found
      <4>3. x.key \in Key
        BY DEF RowKept
      <4>4. Sound(x)' /\ InForce(x)'
        BY <1>1, <4>2, <4>3, SeededFinds
      <4> QED BY <1>1, <3>1, <4>1, <4>4
    <3>2. CASE ~(p <= props)
      BY <1>1, <3>2 DEF ProposalsInv, Found
    <3> QED BY <3>1, <3>2
  <2>2. DOMAIN night'.todo = {}
    BY <1>7
  <2> QED BY <2>1, <2>2 DEF Found
<1>10. Decided'
  BY <1>1, <1>2, NoRequestIs, DecidedByRequests
<1>11. ApprovedIsApplied'
  <2>1. ASSUME NEW p \in PropId, p \in Unapplied', ~(\E c \in Clients : req[c].id = p)
        PROVE  p \in Unapplied
    BY <1>1, <2>1 DEF Unapplied, Applied
  <2> QED BY <1>1, <2>1, OnePerRequest
<1> QED BY <1>3, <1>4, <1>5, <1>7, <1>8, <1>9, <1>10, <1>11 DEF ProposalsInv

-----------------------------------------------------------------------------
(***************************************************************************)
(* The theorems.                                                           *)
(***************************************************************************)

\* At the first start there is nothing to decide.
LEMMA InitProposals == Init => ProposalsInv
<1> SUFFICES ASSUME Init PROVE ProposalsInv
  OBVIOUS
<1>1. /\ history = <<>> /\ prop = [p \in PropId |-> NoProp] /\ props = 0
      /\ req = [c \in Clients |-> NoRequest] /\ night = Asleep /\ faults = 0
  BY DEF Init
<1>2. /\ Len(history) = 0 /\ DOMAIN history = {} /\ history \in Seq(Change)
      /\ night.todo = <<>> /\ Len(night.todo) = 0 /\ DOMAIN night.todo = {} /\ night.pc = "idle"
  BY <1>1 DEF Asleep
<1>3. \A p \in PropId : prop[p] = NoProp /\ prop[p].status = "none" /\ prop[p].seen = 0 /\ p > props
  BY <1>1 DEF NoProp, PropId
<1>4. \A c \in Clients : req[c] = NoRequest /\ req[c].id = 0 /\ req[c].pc = "idle"
  BY <1>1, NoRequestIs
<1>5. TypeOK
  <2>1. PICK empty : empty = [s \in Scope |-> [k \in Key |-> Absent]]
    OBVIOUS
  <2>2. empty \in [Scope -> [Key -> Value]] /\ \A s \in Scope, k \in Key : empty[s][k] = Absent
    BY <2>1 DEF Absent, Value
  <2>3. rules = empty \/ \E env \in Seeds : rules = SeedRules(empty, env)
    BY <2>1 DEF Init
  <2>4. /\ rules \in [Scope -> [Key -> Value]]
        /\ \A s \in Scope, k \in Key : rules[s][k] \in {Absent, NaN} \/ rules[s][k] \in REGISTRY[k].lo..REGISTRY[k].hi
    <3>1. CASE rules = empty
      BY <2>2, <3>1
    <3>2. CASE rules # empty
      <4>1. PICK env \in Seeds : rules = SeedRules(empty, env)
        BY <2>3, <3>2
      <4> QED BY <2>2, <4>1, SeedIs
    <3> QED BY <3>1, <3>2
  <2>5. "stop_delta" \in Key /\ GLOBAL \in Scope
    BY DEF Key, REGISTRY, Scope
  <2>6. NoProp \in RowKept
    BY <2>5, BoundsAssumption DEF NoProp, RowKept
  <2>7. prop \in [PropId -> RowKept] /\ req \in [Clients -> Request] /\ night \in Job
    BY <1>1, <2>6, NoRequestIs DEF Asleep, Job
  <2>8. \A p \in PropId : (prop[p].status = "none") = (p > props)
    BY <1>3
  <2> QED BY <1>1, <1>2, <2>4, <2>7, <2>8, BoundsAssumption DEF TypeOK
<1>6. RequestsKnown
  BY <1>4, NoRequestIs DEF RequestsKnown
<1>7. Writers = {} /\ Unapplied = {}
  BY <1>3, <1>4 DEF Writers, Unapplied
<1>8. RoomLeft /\ ApprovedIsApplied
  <2>1. 0 * Cardinality(Clients) = 0
    BY WritersAre
  <2> QED BY <1>1, <1>2, <1>7, <2>1, FS_EmptySet, BoundsAssumption DEF RoomLeft, ApprovedIsApplied
<1>9. Found /\ NightKnows
  <2>1. \A p \in PropId : ~(p <= props)
    BY <1>1 DEF PropId
  <2> QED BY <1>1, <1>2, <1>3, <2>1, BoundsAssumption DEF Found, NightKnows
<1>10. AsProposed /\ MovesAtMostAQuarter
  BY <1>2 DEF AsProposed, MovesAtMostAQuarter
<1>11. Decided
  <2>1. \A p \in PropId : Asking(p) = {} /\ Applied(p) = {}
    BY <1>2, <1>4 DEF Asking, Applied, PropId
  <2> QED BY <1>3, <2>1 DEF Decided
<1>12. OneOpenAcrossNights
  BY <1>3 DEF OneOpenAcrossNights
<1> QED BY <1>5, <1>6, <1>8, <1>9, <1>10, <1>11, <1>12 DEF ProposalsInv

\* Every step keeps the invariant.
LEMMA ProposalsStep == ProposalsInv /\ [Next]_vars => ProposalsInv'
<1> SUFFICES ASSUME ProposalsInv, [Next]_vars PROVE ProposalsInv'
  OBVIOUS
<1>1. CASE UNCHANGED vars
  BY <1>1 DEF vars, ProposalsInv, TypeOK, RequestsKnown, Known, RoomLeft, Writers, Found, Sound, InForce, Touched,
     NightKnows, AsProposed, Decided, Asking, Applied, ApprovedIsApplied, Unapplied,
     OneOpenAcrossNights, MovesAtMostAQuarter
<1>2. ASSUME NEW c \in Clients, NEW p \in PropId, NEW approve \in BOOLEAN, StartDecide(c, p, approve)
      PROVE  ProposalsInv'
  BY <1>2, StartDecideKeeps
<1>3. ASSUME NEW c \in Clients, NEW e \in Edits, StartPatch(c, e) PROVE ProposalsInv'
  BY <1>3, StartPatchKeeps
<1>4. ASSUME NEW c \in Clients,
             MarkDecided(c) \/ RefuseValue(c) \/ ReadOld(c) \/ WriteRule(c) \/ RequestFails(c)
      PROVE  ProposalsInv'
  BY <1>4, MarkDecidedKeeps, RefuseValueKeeps, ReadOldKeeps, WriteRuleKeeps, RequestFailsKeeps
<1>5. CASE NightlyStep \/ NightlyFails
  BY <1>5, StartNightlyKeeps, ExpireProposalsKeeps, ReadPendingKeeps, SkipProposalKeeps, AddProposalKeeps,
     NightOverKeeps DEF NightlyStep
<1>6. CASE NewDay
  BY <1>6, NewDayKeeps
<1>7. ASSUME NEW env \in Seeds, Restart(env) PROVE ProposalsInv'
  BY <1>7, ProposalsRestart
<1> QED BY <1>1, <1>2, <1>3, <1>4, <1>5, <1>6, <1>7 DEF Next

\* So it always holds.
LEMMA ProposalsAreSafe == Spec => []ProposalsInv
<1> QED BY InitProposals, ProposalsStep, PTL DEF Spec

\* The types, and that every number of the table is within its bounds: the seed, a PATCH
\* and a proposal all pass ParamSpec.coerce (params.py 36-60, store.py set_rule), whose
\* two comparisons let nothing else through but NaN.
THEOREM TypeCorrect == Spec => []TypeOK
<1>1. ProposalsInv => TypeOK
  BY DEF ProposalsInv
<1> QED BY <1>1, ProposalsAreSafe, PTL

\* An approved proposal without its change is one that a failure cut between the two
\* transactions of decide_proposal (store.py 263-266): never more than there were
\* requests at a failure.
THEOREM MarksAreCounted == Spec => []ApprovedIsApplied
<1>1. ProposalsInv => ApprovedIsApplied
  BY DEF ProposalsInv
<1> QED BY <1>1, ProposalsAreSafe, PTL

\* A proposal that one request decides is applied at most once, and only when it is
\* approved (store.py decide_proposal, expire_proposals).
THEOREM DecisionsStand == Spec => []DecisionStands
<1>1. ProposalsInv => DecisionStands
  BY DecisionsFollow
<1> QED BY <1>1, ProposalsAreSafe, PTL

\* Two nights never leave open proposals for one scope and key, whatever is decided
\* while they run (learning.py run_nightly).
THEOREM NightsAddOnce == Spec => []OneOpenAcrossNights
<1>1. ProposalsInv => OneOpenAcrossNights
  BY DEF ProposalsInv
<1> QED BY <1>1, ProposalsAreSafe, PTL

\* A proposal applied moves the value it read by a quarter at most, if the value was
\* stored and nobody touched it meanwhile (learning.py _bounded, api/main.py).
THEOREM AQuarterAtMost == Spec => []MovesAtMostAQuarter
<1>1. ProposalsInv => MovesAtMostAQuarter
  BY DEF ProposalsInv
<1> QED BY <1>1, ProposalsAreSafe, PTL

-----------------------------------------------------------------------------
(***************************************************************************)
(* The history and the table.                                              *)
(***************************************************************************)

\* The last change of each scope and key is in the table, and a value that was
\* written is never the mark of a missing row, which a seed would fill.
Present == \A i \in DOMAIN history : history[i].new # Absent
Seeded(s, k) == rules[s][k] = Absent \/ (s = GLOBAL /\ \E env \in Seeds : rules[s][k] = env[k])
Told(s, k)   == \E i \in Changes(s, k) : /\ \A j \in Changes(s, k) : j <= i
                                         /\ rules[s][k] = history[i].new
Tells == \A s \in Scope, k \in Key : IF Changes(s, k) = {} THEN Seeded(s, k) ELSE Told(s, k)

HistoryInv == ProposalsInv /\ Present /\ Tells

\* At the first start the table is empty or seeded.
LEMMA InitHistory == Init => HistoryInv
<1> SUFFICES ASSUME Init PROVE HistoryInv
  OBVIOUS
<1>1. history = <<>> /\ DOMAIN history = {}
  BY DEF Init
<1>2. PICK empty : empty = [s \in Scope |-> [k \in Key |-> Absent]]
  OBVIOUS
<1>3. empty \in [Scope -> [Key -> Value]] /\ \A s \in Scope, k \in Key : empty[s][k] = Absent
  BY <1>2 DEF Absent, Value
<1>4. rules = empty \/ \E env \in Seeds : rules = SeedRules(empty, env)
  BY <1>2 DEF Init
<1>5. \A s \in Scope, k \in Key : Seeded(s, k)
  <2>1. CASE rules = empty
    BY <1>3, <2>1 DEF Seeded
  <2>2. CASE rules # empty
    <3>1. PICK env \in Seeds : rules = SeedRules(empty, env)
      BY <1>4, <2>2
    <3> QED BY <1>3, <3>1, SeedIs DEF Seeded
  <2> QED BY <2>1, <2>2
<1>6. Present /\ Tells
  BY <1>1, <1>5 DEF Present, Tells, Changes
<1> QED BY <1>6, InitProposals DEF HistoryInv

\* The one step that writes a value writes its history.
LEMMA WriteRuleTells ==
  ASSUME HistoryInv, NEW c \in Clients, WriteRule(c)
  PROVE  Present' /\ Tells'
<1>1. ProposalsInv
  BY DEF HistoryInv
<1>2. PICK e : Written(e, req[c]) /\ e.new # Absent
  BY <1>1, WrittenIs DEF Written
<1>3. PICK n \in Nat : n = Len(history) /\ DOMAIN history = 1..n
  BY <1>1, Types
<1>4. /\ DOMAIN history' = 1..(n + 1) /\ history'[n + 1] = e
      /\ \A i \in 1..n : history'[i] = history[i]
  BY <1>1, <1>2, <1>3, WrittenMeans
<1>5. \A s \in Scope, k \in Key :
        rules'[s][k] = IF s = e.scope /\ k = e.key THEN e.new ELSE rules[s][k]
  BY <1>1, <1>2, WrittenMeans
<1>6. Present'
  BY <1>2, <1>3, <1>4 DEF HistoryInv, Present
<1>7. ASSUME NEW s \in Scope, NEW k \in Key
      PROVE  IF Changes(s, k)' = {} THEN Seeded(s, k)' ELSE Told(s, k)'
  <2>1. CASE s = e.scope /\ k = e.key
    <3>1. n + 1 \in Changes(s, k)' /\ \A j \in Changes(s, k)' : j <= n + 1
      BY <1>4, <2>1 DEF Changes
    <3>2. rules'[s][k] = history'[n + 1].new
      BY <1>4, <1>5, <2>1
    <3> QED BY <3>1, <3>2 DEF Told
  <2>2. CASE ~(s = e.scope /\ k = e.key)
    <3>1. Changes(s, k)' = Changes(s, k) /\ Changes(s, k) \subseteq 1..n
      BY <1>3, <1>4, <2>2 DEF Changes
    <3>2. rules'[s][k] = rules[s][k]
      BY <1>5, <2>2
    <3> QED BY <1>4, <3>1, <3>2 DEF HistoryInv, Tells, Seeded, Told
  <2> QED BY <2>1, <2>2
<1> QED BY <1>6, <1>7 DEF Tells

\* A seed takes no value for a missing row.
LEMMA RestartTells ==
  ASSUME HistoryInv, NEW env \in Seeds, Restart(env)
  PROVE  Present' /\ Tells'
<1>1. rules' = SeedRules(rules, env) /\ history' = history
  BY DEF Restart
<1>2. rules \in [Scope -> [Key -> Value]]
  BY DEF HistoryInv, ProposalsInv, TypeOK
<1>3. \A s \in Scope, k \in Key :
        \/ rules'[s][k] = rules[s][k]
        \/ s = GLOBAL /\ rules[s][k] = Absent /\ rules'[s][k] = env[k]
  BY <1>1, <1>2, SeedIs
<1>4. Present'
  BY <1>1 DEF HistoryInv, Present
<1>5. ASSUME NEW s \in Scope, NEW k \in Key
      PROVE  IF Changes(s, k)' = {} THEN Seeded(s, k)' ELSE Told(s, k)'
  <2>1. Changes(s, k)' = Changes(s, k)
    BY <1>1 DEF Changes
  <2>2. CASE Changes(s, k) = {}
    BY <1>3, <2>1, <2>2 DEF HistoryInv, Tells, Seeded
  <2>3. CASE Changes(s, k) # {}
    <3>1. PICK i \in Changes(s, k) : /\ \A j \in Changes(s, k) : j <= i
                                     /\ rules[s][k] = history[i].new
      BY <2>3 DEF HistoryInv, Tells, Told
    <3>2. rules[s][k] # Absent
      BY <3>1 DEF Changes, HistoryInv, Present
    <3> QED BY <1>1, <1>3, <2>1, <2>3, <3>1, <3>2 DEF Told
  <2> QED BY <2>2, <2>3
<1> QED BY <1>4, <1>5 DEF Tells

\* No other step touches the table or its history.
LEMMA HistoryStep == HistoryInv /\ [Next]_vars => HistoryInv'
<1> SUFFICES ASSUME HistoryInv, [Next]_vars PROVE HistoryInv'
  OBVIOUS
<1>1. ProposalsInv'
  BY ProposalsStep DEF HistoryInv
<1>2. CASE UNCHANGED <<rules, history>>
  <2>1. Present' /\ Tells'
    BY <1>2 DEF HistoryInv, Present, Tells, Seeded, Told, Changes
  <2> QED BY <1>1, <2>1 DEF HistoryInv
<1>3. ASSUME NEW c \in Clients, WriteRule(c) PROVE HistoryInv'
  BY <1>1, <1>3, WriteRuleTells DEF HistoryInv
<1>4. ASSUME NEW env \in Seeds, Restart(env) PROVE HistoryInv'
  BY <1>1, <1>4, RestartTells DEF HistoryInv
<1>5. \/ UNCHANGED <<rules, history>>
      \/ \E c \in Clients : WriteRule(c)
      \/ \E env \in Seeds : Restart(env)
  BY DEF Next, NightlyStep, vars, StartDecide, StartPatch, MarkDecided, RefuseValue, ReadOld, RequestFails,
     StartNightly, ExpireProposals, ReadPending, SkipProposal, AddProposal, EndNightly, NightlyFails, NewDay
<1> QED BY <1>2, <1>3, <1>4, <1>5

\* The last change of a scope and key is the one the invariant names.
LEMMA TellsImplies == HistoryInv => HistoryTellsTable
<1> SUFFICES ASSUME HistoryInv, NEW s \in Scope, NEW k \in Key
             PROVE  IF Changes(s, k) # {} THEN rules[s][k] = history[Last(Changes(s, k))].new
                    ELSE Seeded(s, k)
  BY DEF HistoryTellsTable, Seeded
<1>1. CASE Changes(s, k) = {}
  BY <1>1 DEF HistoryInv, Tells
<1>2. CASE Changes(s, k) # {}
  <2>1. PICK i \in Changes(s, k) : /\ \A j \in Changes(s, k) : j <= i
                                   /\ rules[s][k] = history[i].new
    BY <1>2 DEF HistoryInv, Tells, Told
  <2>2. Changes(s, k) \subseteq Nat
    <3>1. DOMAIN history = 1..Len(history) /\ Len(history) \in Nat
      BY Types DEF HistoryInv
    <3> QED BY <3>1 DEF Changes
  <2>3. Last(Changes(s, k)) = i
    <3>1. /\ Last(Changes(s, k)) \in Changes(s, k)
          /\ \A j \in Changes(s, k) : j <= Last(Changes(s, k))
      BY <2>1 DEF Last
    <3> QED BY <2>1, <2>2, <3>1
  <2> QED BY <1>2, <2>1, <2>3
<1> QED BY <1>1, <1>2

\* Whatever requests run at once, whatever fails and whatever the environment of a
\* restart says, the rules table is what its history tells (store.py set_rule,
\* seed_rules).
THEOREM HistoryTells == Spec => []HistoryTellsTable
<1>1. Init => HistoryInv
  BY InitHistory
<1>2. HistoryInv /\ [Next]_vars => HistoryInv'
  BY HistoryStep
<1>3. HistoryInv => HistoryTellsTable
  BY TellsImplies
<1> QED BY <1>1, <1>2, <1>3, PTL DEF Spec

=============================================================================
