------------------------ MODULE ReconcilerCheck_proofs ------------------------
(***************************************************************************)
(* What one pass of the reconciler comes to: proof of AgreeOrAsked and of  *)
(* ExplainedIsHeld for any legs and spreads, any broker book and evidence, *)
(* and any two rows and one the agent gave up on.                          *)
(*                                                                         *)
(* The properties are about the state a pass ends in.  The invariant says  *)
(* it of every state from the decision on: a row is counted with what the  *)
(* decision leaves it, and the row a decision will add is counted before   *)
(* it exists (Final).  The decision makes the sums right (DecideKept): the *)
(* rows take what is missing of the broker book (TakenIs), and what is     *)
(* left of a leg arrives with its pair or goes to a person (LegsArrive).   *)
(* Applying a resolution, in any order, moves a row from one side to the   *)
(* other and leaves the sums as they were (ApplyKept).                     *)
(***************************************************************************)
EXTENDS ReconcilerCheck, OrderLifecycle_proofs, Sums_proofs

\* What is decided of live row i, and the contracts the row will stand for.
Fate(res, i) == { d \in res : d.kind \in RowKinds /\ d.pid = i }
Stays(r, fate) ==
  IF fate = {} THEN r.qty
  ELSE LET d == CHOOSE x \in fate : TRUE
       IN  IF d.kind = "adjust_qty" THEN d.qty ELSE 0

\* The rows no person was asked about, and what each will have on a leg.
Settled == live_legs_rows \ askedRows
Will(leg) ==
  [i \in RowId |-> IF i \in Settled
                   THEN Stays(row[i], Fate(xRes, i)) * LegSign(row[i].spread, leg) ELSE 0]

\* The row yet to be made or revived for a leg, and what it will have on it.
Arrivals(res, leg) == { d \in res : d.kind \notin RowKinds /\ leg \in {d.spread[1], d.spread[2]} }
Arrives(arrivals, leg) ==
  IF arrivals = {} THEN 0
  ELSE LET d == CHOOSE x \in arrivals : TRUE
       IN  d.qty * LegSign(d.spread, leg)

\* What the rows no person was asked about will have on a leg at the end of the pass.
Final(leg) == SumFunctionOnSet(Will(leg), RowId) + Arrives(Arrivals(xRes, leg), leg)

Between(n, m) == n \in m..0 \/ n \in 0..m

Outcome ==
  /\ \A r \in xRes : r.kind \in RowKinds => r.pid \notin askedRows
  /\ \A r \in xRes : r.kind \in {"adjust_qty", "reactivate", "adopt"} => r.qty > 0
  /\ \A q, r \in xRes : (q.kind \notin RowKinds /\ r.kind \notin RowKinds /\ q # r) =>
       {q.spread[1], q.spread[2]} \cap {r.spread[1], r.spread[2]} = {}
  /\ askedRows \subseteq live_legs_rows \cup {0}
  /\ \A i \in askedRows \ {0} : {row[i].spread[1], row[i].spread[2]} \subseteq asked
  /\ \A leg \in Leg : /\ Between(Final(leg), book[leg])
                      /\ leg \notin asked => Final(leg) = book[leg]

PassInv ==
  /\ Inv
  /\ xpc \in {"live", "broker", "evidence", "apply", "log", "idle"}
  /\ \A i \in live_legs_rows : row[i].qty > 0
  /\ xpc \in {"broker", "evidence"} => xLive \in Listings(live_legs_rows)
  /\ xpc = "evidence" => xBook = book
  /\ xpc \in {"apply", "log"} => Outcome

-----------------------------------------------------------------------------
(***************************************************************************)
(* The legs of a set of rows.                                              *)
(***************************************************************************)
LEMMA SpreadIs ==
  ASSUME NEW v \in Spread
  PROVE  v[1] \in Leg /\ v[2] \in Leg /\ v[1] # v[2] /\ v = <<v[1], v[2]>>
BY SpreadAssumption

\* n contracts of a spread on one of its legs.
LEMMA SignIs ==
  ASSUME NEW v, NEW leg, NEW n \in Int
  PROVE  /\ n * LegSign(v, leg) = IF leg = v[1] THEN -n ELSE IF leg = v[2] THEN n ELSE 0
         /\ n * LegSign(v, leg) \in Int
<1>1. n * (-1) = -n /\ n * 1 = n /\ n * 0 = 0
  OBVIOUS
<1> QED BY <1>1 DEF LegSign

\* What each of a set of rows has on a leg.
OnLeg(S, at, leg) == [i \in S |-> at[i].qty * LegSign(at[i].spread, leg)]

\* expected_legs is a sum over the rows.
LEMMA ExpectedIs ==
  ASSUME NEW S, IsFiniteSet(S), NEW at, NEW leg \in Leg
  PROVE  expected_legs(S, at)[leg] = SumFunctionOnSet(OnLeg(S, at, leg), S)
<1> DEFINE f == OnLeg(S, at, leg)
           It(g) == g = [s \in SUBSET S |->
                           IF s = {} THEN 0
                           ELSE at[Chosen(s)].qty * LegSign(at[Chosen(s)].spread, leg)
                                + g[s \ {Chosen(s)}]]
<1>1. \A s \in SUBSET S : s # {} => Chosen(s) \in S
  BY DEF Chosen
<1>2. \A s \in SUBSET S : s # {} =>
        f[Chosen(s)] = at[Chosen(s)].qty * LegSign(at[Chosen(s)].spread, leg)
  BY <1>1 DEF OnLeg
<1>3. ASSUME NEW g PROVE It(g) <=> AddsUp(g, f, SUBSET S)
  <2> HIDE DEF f
  <2>1. [s \in SUBSET S |->
           IF s = {} THEN 0
           ELSE at[Chosen(s)].qty * LegSign(at[Chosen(s)].spread, leg) + g[s \ {Chosen(s)}]]
        = [s \in SUBSET S |-> IF s = {} THEN 0 ELSE f[Chosen(s)] + g[s \ {Chosen(s)}]]
    BY <1>2
  <2> QED BY <2>1 DEF AddsUp
<1>4. PICK g : AddsUp(g, f, SUBSET S) /\ SumFunctionOnSet(f, S) = g[S]
  BY SumIs
<1>5. It(g)
  BY <1>3, <1>4
<1>6. It(CHOOSE k : It(k))
  BY <1>5
<1>7. PICK h : h = (CHOOSE k : It(k))
  OBVIOUS
<1>8. It(h)
  BY <1>6, <1>7
<1>9. AddsUp(h, f, SUBSET S)
  BY <1>3, <1>8
<1>10. g[S] = h[S]
  BY <1>4, <1>9, AddsUpUnique
<1>11. expected_legs(S, at)[leg] = (CHOOSE k : It(k))[S]
  BY DEF expected_legs, MapThenSumSet, MapThenFoldSet, Chosen
<1> QED BY <1>4, <1>7, <1>10, <1>11

-----------------------------------------------------------------------------
(***************************************************************************)
(* The first half of resolve: what the listed rows take from the broker    *)
(* book, and what they leave.                                              *)
(***************************************************************************)
\* What row k of the listing leaves.
After(listing, at, k, left) ==
  [leg \in Leg |-> left[leg] - Consumed(at[listing[k]], left) * LegSign(at[listing[k]].spread, leg)]

\* Remaining satisfies its recursive definition.
LEMMA RemainingIs ==
  ASSUME NEW listing, NEW at, NEW start, Len(listing) \in Nat
  PROVE  /\ Remaining(listing, at, start)[0] = start
         /\ \A k \in 1..Len(listing) :
              Remaining(listing, at, start)[k] =
                After(listing, at, k, Remaining(listing, at, start)[k - 1])
<1> DEFINE It(g, m) == g = [k \in 0..m |-> IF k = 0 THEN start ELSE After(listing, at, k, g[k - 1])]
           A == { m \in Nat : \E g : It(g, m) }
<1>1. 0 \in A
  <2>1. It([k \in 0..0 |-> start], 0)
    OBVIOUS
  <2> QED BY <2>1
<1>2. ASSUME NEW m \in Nat, m \in A PROVE m + 1 \in A
  <2>1. PICK g : It(g, m)
    BY <1>2
  <2> DEFINE h == [k \in 0..(m + 1) |-> IF k = 0 THEN start ELSE After(listing, at, k, g[k - 1])]
  <2>2. \A k \in 0..m : h[k] = g[k]
    BY <2>1
  <2>3. \A k \in 1..(m + 1) : h[k - 1] = g[k - 1]
    BY <2>2
  <2>4. PICK f : f = h
    OBVIOUS
  <2>5. \A k \in 0..(m + 1) : k # 0 => g[k - 1] = f[k - 1]
    <3> HIDE DEF h
    <3> QED BY <2>3, <2>4
  <2>6. It(f, m + 1)
    BY <2>4, <2>5
  <2> QED BY <2>6
<1>3. Nat \subseteq A
  <2> HIDE DEF A
  <2> QED BY <1>1, <1>2, NatSetInduction
<1>4. PICK g : It(g, Len(listing))
  BY <1>3
<1>5. It(CHOOSE left : It(left, Len(listing)), Len(listing))
  BY <1>4
<1>6. Remaining(listing, at, start) = CHOOSE left : It(left, Len(listing))
  BY DEF Remaining, After
<1>7. PICK r : r = Remaining(listing, at, start) /\ It(r, Len(listing))
  <2> HIDE DEF It
  <2> QED BY <1>5, <1>6
<1> QED BY <1>7

\* A listing names every row once.
LEMMA ListingIs ==
  ASSUME NEW S, IsFiniteSet(S), NEW l \in Listings(S)
  PROVE  /\ Len(l) \in Nat /\ DOMAIN l = 1..Len(l)
         /\ \A k \in 1..Len(l) : l[k] \in S
         /\ \A j, k \in 1..Len(l) : l[j] = l[k] => j = k
         /\ \A i \in S : \E k \in 1..Len(l) : l[k] = i
<1>1. PICK n \in Nat : n = Cardinality(S)
  BY FS_CardinalityType
<1>2. l \in [1..n -> S] /\ \A j, k \in 1..n : l[j] = l[k] => j = k
  BY <1>1 DEF Listings
<1>3. Len(l) = n /\ DOMAIN l = 1..n
  BY <1>2
<1>4. l \in Injection(1..n, S)
  BY <1>2 DEF Injection, IsInjective
<1>5. IsFiniteSet(1..n) /\ Cardinality(1..n) = n
  BY FS_Interval
<1>6. l \in Surjection(1..n, S)
  BY <1>1, <1>4, <1>5, FS_Injection
<1> QED BY <1>2, <1>3, <1>6 DEF Surjection

GoodRow(r) == r.spread \in Spread /\ r.qty \in Nat /\ r.qty > 0

\* A row takes what is there: it leaves nothing of the other sign.
LEMMA ConsumedIs ==
  ASSUME NEW r, GoodRow(r), NEW left \in [Leg -> Int]
  PROVE  /\ Consumed(r, left) \in Nat
         /\ Consumed(r, left) # 0 => /\ left[r.spread[1]] <= -Consumed(r, left)
                                     /\ left[r.spread[2]] >= Consumed(r, left)
<1>1. left[r.spread[1]] \in Int /\ left[r.spread[2]] \in Int /\ r.qty \in Nat
  BY SpreadIs DEF GoodRow
<1>2. CASE Present(r, left)
  BY <1>1, <1>2 DEF Consumed, Present
<1>3. CASE ~Present(r, left) /\ Partial(r, left)
  BY <1>1, <1>3 DEF Consumed, Partial
<1>4. CASE ~Present(r, left) /\ ~Partial(r, left)
  BY <1>4 DEF Consumed
<1> QED BY <1>2, <1>3, <1>4

LEMMA AfterBetween ==
  ASSUME NEW listing, NEW at, NEW k, GoodRow(at[listing[k]]), NEW start \in [Leg -> Int],
         NEW left \in [Leg -> Int], \A leg \in Leg : Between(left[leg], start[leg])
  PROVE  /\ After(listing, at, k, left) \in [Leg -> Int]
         /\ \A leg \in Leg : Between(After(listing, at, k, left)[leg], start[leg])
<1>1. PICK v \in Spread : v = at[listing[k]].spread
  BY DEF GoodRow
<1>2. PICK n \in Nat : /\ n = Consumed(at[listing[k]], left)
                       /\ n # 0 => left[v[1]] <= -n /\ left[v[2]] >= n
  BY <1>1, ConsumedIs
<1>3. After(listing, at, k, left) = [leg \in Leg |-> left[leg] - n * LegSign(v, leg)]
  BY <1>1, <1>2 DEF After
<1>4. ASSUME NEW leg \in Leg
      PROVE  /\ left[leg] - n * LegSign(v, leg) \in Int
             /\ Between(left[leg] - n * LegSign(v, leg), start[leg])
  <2>1. left[leg] \in Int /\ start[leg] \in Int /\ Between(left[leg], start[leg])
    OBVIOUS
  <2>2. /\ n * LegSign(v, leg) = IF leg = v[1] THEN -n ELSE IF leg = v[2] THEN n ELSE 0
        /\ v[1] # v[2]
    BY SignIs, SpreadIs
  <2>3. CASE leg = v[1]
    BY <1>2, <2>1, <2>2, <2>3 DEF Between
  <2>4. CASE leg = v[2]
    BY <1>2, <2>1, <2>2, <2>4 DEF Between
  <2>5. CASE leg # v[1] /\ leg # v[2]
    BY <2>1, <2>2, <2>5 DEF Between
  <2> QED BY <2>3, <2>4, <2>5
<1> QED BY <1>3, <1>4

\* What is left on a leg lies between nothing and what the broker holds.
LEMMA LeftBetween ==
  ASSUME NEW S, IsFiniteSet(S), NEW listing \in Listings(S), NEW at,
         \A i \in S : GoodRow(at[i]), NEW start \in [Leg -> Int]
  PROVE  \A k \in 0..Len(listing) :
           /\ Remaining(listing, at, start)[k] \in [Leg -> Int]
           /\ \A leg \in Leg : Between(Remaining(listing, at, start)[k][leg], start[leg])
<1> DEFINE left == Remaining(listing, at, start)
           A == { k \in Nat : k <= Len(listing) =>
                    /\ left[k] \in [Leg -> Int]
                    /\ \A leg \in Leg : Between(left[k][leg], start[leg]) }
<1>1. /\ Len(listing) \in Nat /\ left[0] = start
      /\ \A k \in 1..Len(listing) : left[k] = After(listing, at, k, left[k - 1]) /\ listing[k] \in S
  BY ListingIs, RemainingIs
<1> HIDE DEF left
<1>2. 0 \in A
  BY <1>1 DEF Between
<1>3. ASSUME NEW k \in Nat, k \in A PROVE k + 1 \in A
  <2>1. SUFFICES ASSUME k + 1 <= Len(listing)
        PROVE  /\ left[k + 1] \in [Leg -> Int]
               /\ \A leg \in Leg : Between(left[k + 1][leg], start[leg])
    OBVIOUS
  <2>2. k + 1 \in 1..Len(listing) /\ (k + 1) - 1 = k /\ k <= Len(listing)
    BY <1>1, <2>1
  <2>3. left[k] \in [Leg -> Int] /\ \A leg \in Leg : Between(left[k][leg], start[leg])
    BY <1>3, <2>2
  <2>4. left[k + 1] = After(listing, at, k + 1, left[k]) /\ GoodRow(at[listing[k + 1]])
    BY <1>1, <2>2
  <2> QED BY <2>3, <2>4, AfterBetween
<1>4. Nat \subseteq A
  <2> HIDE DEF A
  <2> QED BY <1>2, <1>3, NatSetInduction
<1> QED BY <1>1, <1>4 DEF left

\* What each of a set of rows takes of a leg.
Takes(S, at, takes, leg) == [i \in S |-> takes[i] * LegSign(at[i].spread, leg)]

\* What the listed rows take of a leg is what is missing of it in the end.
LEMMA TakenIs ==
  ASSUME NEW S, IsFiniteSet(S), NEW listing \in Listings(S), NEW at,
         \A i \in S : GoodRow(at[i]), NEW start \in [Leg -> Int], NEW takes \in [S -> Nat],
         \A k \in 1..Len(listing) :
           takes[listing[k]] = Consumed(at[listing[k]], Remaining(listing, at, start)[k - 1]),
         NEW leg \in Leg
  PROVE  SumFunctionOnSet(Takes(S, at, takes, leg), S)
           = start[leg] - Remaining(listing, at, start)[Len(listing)][leg]
<1> DEFINE left == Remaining(listing, at, start)
           f == Takes(S, at, takes, leg)
           Seen(k) == { i \in S : \E j \in 1..k : listing[j] = i }
           A == { k \in Nat : k <= Len(listing) =>
                    SumFunctionOnSet(f, Seen(k)) = start[leg] - left[k][leg] }
<1>1. /\ Len(listing) \in Nat /\ left[0] = start
      /\ \A k \in 1..Len(listing) : left[k] = After(listing, at, k, left[k - 1]) /\ listing[k] \in S
      /\ \A j, k \in 1..Len(listing) : listing[j] = listing[k] => j = k
      /\ \A i \in S : \E k \in 1..Len(listing) : listing[k] = i
  BY ListingIs, RemainingIs
<1>2. \A k \in 0..Len(listing) : left[k] \in [Leg -> Int]
  BY LeftBetween
<1>3. \A k \in 1..Len(listing) : takes[listing[k]] = Consumed(at[listing[k]], left[k - 1])
  OBVIOUS
<1> HIDE DEF left
<1>4. \A i \in S : f[i] \in Int /\ f[i] = takes[i] * LegSign(at[i].spread, leg)
  BY SignIs DEF Takes
<1> HIDE DEF f
<1>5. 0 \in A
  <2>1. Seen(0) = {}
    OBVIOUS
  <2> HIDE DEF Seen
  <2>2. SumFunctionOnSet(f, Seen(0)) = 0
    BY <2>1, SumEmpty
  <2>3. start[leg] - left[0][leg] = 0
    BY <1>1
  <2> QED BY <2>2, <2>3
<1>6. ASSUME NEW k \in Nat, k \in A PROVE k + 1 \in A
  <2>1. SUFFICES ASSUME k + 1 <= Len(listing)
        PROVE  SumFunctionOnSet(f, Seen(k + 1)) = start[leg] - left[k + 1][leg]
    OBVIOUS
  <2>2. k + 1 \in 1..Len(listing) /\ (k + 1) - 1 = k /\ k \in 0..Len(listing)
    BY <1>1, <2>1
  <2>3. PICK i \in S : i = listing[k + 1]
    BY <1>1, <2>2
  <2>4. Seen(k + 1) = Seen(k) \cup {i} /\ i \notin Seen(k)
    <3>1. \A j \in 1..(k + 1) : j \in 1..k \/ j = k + 1
      OBVIOUS
    <3>2. \A j \in 1..k : j \in 1..Len(listing) /\ j # k + 1
      BY <1>1, <2>2
    <3>3. i \notin Seen(k)
      BY <1>1, <2>2, <2>3, <3>2
    <3>4. 1..k \subseteq 1..(k + 1) /\ k + 1 \in 1..(k + 1)
      OBVIOUS
    <3>5. Seen(k + 1) = Seen(k) \cup {i}
      BY <2>3, <3>1, <3>4
    <3> QED BY <3>3, <3>5
  <2>5. IsFiniteSet(Seen(k)) /\ Seen(k) \subseteq S
    BY FS_Subset
  <2>6. SumFunctionOnSet(f, Seen(k)) = start[leg] - left[k][leg]
    BY <1>1, <1>6, <2>2
  <2> HIDE DEF Seen
  <2>7. SumFunctionOnSet(f, Seen(k + 1)) = f[i] + SumFunctionOnSet(f, Seen(k))
    BY <1>4, <2>4, <2>5, SumAdd
  <2>8. left[k + 1][leg] = left[k][leg] - f[i]
    <3>1. left[k + 1] = After(listing, at, k + 1, left[k])
      BY <1>1, <2>2
    <3>2. f[i] = Consumed(at[i], left[k]) * LegSign(at[i].spread, leg)
      BY <1>3, <1>4, <2>2, <2>3
    <3> QED BY <2>3, <3>1, <3>2 DEF After
  <2>9. left[k][leg] \in Int /\ start[leg] \in Int /\ f[i] \in Int
    BY <1>2, <1>4, <2>2
  <2> QED BY <2>6, <2>7, <2>8, <2>9
<1>7. Nat \subseteq A
  <2>1. \A k \in Nat : k \in A => k + 1 \in A
    BY <1>6
  <2> HIDE DEF A
  <2> QED BY <1>5, <2>1, NatSetInduction
<1>8. Seen(Len(listing)) = S
  BY <1>1
<1>9. SumFunctionOnSet(f, Seen(Len(listing))) = start[leg] - left[Len(listing)][leg]
  <2> HIDE DEF Seen
  <2> QED BY <1>1, <1>7
<1> QED BY <1>8, <1>9 DEF f, left

-----------------------------------------------------------------------------
(***************************************************************************)
(* What is decided of a row and of a leg.                                  *)
(***************************************************************************)
LEMMA StaysIs ==
  ASSUME NEW r, NEW d
  PROVE  /\ Stays(r, {}) = r.qty
         /\ Stays(r, {d}) = IF d.kind = "adjust_qty" THEN d.qty ELSE 0
BY DEF Stays

LEMMA ArrivesIs ==
  ASSUME NEW d, NEW leg
  PROVE  Arrives({}, leg) = 0 /\ Arrives({d}, leg) = d.qty * LegSign(d.spread, leg)
BY DEF Arrives

LEMMA ResolutionIs ==
  ASSUME NEW kind, NEW pid, NEW v, NEW o, NEW n
  PROVE  \E d : /\ d = Resolution(kind, pid, v, o, n)
               /\ d.kind = kind /\ d.pid = pid /\ d.spread = v /\ d.order = o /\ d.qty = n
<1>1. PICK d : d = Resolution(kind, pid, v, o, n)
  OBVIOUS
<1>2. d.kind = kind /\ d.pid = pid /\ d.spread = v /\ d.order = o /\ d.qty = n
  BY <1>1 DEF Resolution
<1> QED BY <1>1, <1>2

LEMMA HumanIs ==
  ASSUME NEW i, NEW v
  PROVE  Human(i, v).kind = "human" /\ Human(i, v).pid = i /\ Human(i, v).spread = v
BY DEF Human, Resolution

\* A live row that the broker explains is left alone; of another there is one decision,
\* and it leaves the row the contracts it took or hands it to a person.
LEMMA RowFate ==
  ASSUME BrokerInv, TableInv, NEW i \in live_legs_rows, GoodRow(row[i]), NEW left \in [Leg -> Int]
  PROVE  \/ /\ RowResolution(i, row[i], left, order, acts) = {}
            /\ Consumed(row[i], left) = row[i].qty
         \/ \E d : /\ RowResolution(i, row[i], left, order, acts) = {d}
                   /\ d.pid = i /\ d.kind \in RowKinds
                   /\ IF d.kind = "adjust_qty" THEN d.qty = Consumed(row[i], left) /\ d.qty > 0
                      ELSE Consumed(row[i], left) = 0
         \/ /\ RowResolution(i, row[i], left, order, acts) = {Human(i, row[i].spread)}
            /\ Consumed(row[i], left) = 0
<1> DEFINE R == RowResolution(i, row[i], left, order, acts)
           close == _find_order(order, row[i].spread, "close", row[i].born)
<1>1. /\ left[row[i].spread[1]] \in Int /\ left[row[i].spread[2]] \in Int
      /\ row[i].qty \in Nat /\ row[i].qty > 0
  BY SpreadIs DEF GoodRow
<1>2. row[i].born \in Nat
  BY DEF live_legs_rows, WithStatus, TableInv, TableType, RowType
<1>3. CASE Present(row[i], left)
  BY <1>3 DEF RowResolution, Consumed
<1>4. CASE ~Present(row[i], left) /\ Gone(row[i], left)
  <2>1. R = GoneResolution(i, row[i], order, acts) /\ Consumed(row[i], left) = 0
    BY <1>1, <1>4 DEF RowResolution, Consumed, Gone, Partial
  <2>2. CASE close # {}
    <3>1. PICK o \in close : \A p \in close : p = o
      BY <1>2, <2>2, FoundOrder
    <3>2. close = {o}
      BY <3>1
    <3>3. R = {Resolution("close_fill", i, row[i].spread, o, row[i].qty)}
      <4> HIDE DEF close
      <4>1. R = { Resolution("close_fill", i, row[i].spread, p, row[i].qty) : p \in close }
        BY <2>1, <2>2 DEF GoneResolution, close
      <4> QED BY <3>2, <4>1
    <3>4. PICK d : R = {d} /\ d.kind = "close_fill" /\ d.pid = i
      BY <3>3, ResolutionIs
    <3> QED BY <2>1, <3>4 DEF RowKinds
  <2>3. CASE close = {}
    <3>1. \/ R = { Resolution("close_expired", i, row[i].spread, 0, row[i].qty) }
          \/ R = { Human(i, row[i].spread) }
      BY <2>1, <2>3 DEF GoneResolution
    <3>2. CASE R = { Resolution("close_expired", i, row[i].spread, 0, row[i].qty) }
      <4>1. PICK d : R = {d} /\ d.kind = "close_expired" /\ d.pid = i
        BY <3>2, ResolutionIs
      <4> QED BY <2>1, <4>1 DEF RowKinds
    <3> QED BY <2>1, <3>1, <3>2
  <2> QED BY <2>2, <2>3
<1>5. CASE ~Present(row[i], left) /\ ~Gone(row[i], left) /\ Partial(row[i], left)
  <2>1. /\ R = { Resolution("adjust_qty", i, row[i].spread, 0, left[row[i].spread[2]]) }
        /\ Consumed(row[i], left) = left[row[i].spread[2]] /\ left[row[i].spread[2]] > 0
    BY <1>1, <1>5 DEF RowResolution, Consumed, Partial
  <2>2. PICK d : R = {d} /\ d.kind = "adjust_qty" /\ d.pid = i /\ d.qty = left[row[i].spread[2]]
    BY <2>1, ResolutionIs
  <2> QED BY <2>1, <2>2 DEF RowKinds
<1>6. CASE ~Present(row[i], left) /\ ~Gone(row[i], left) /\ ~Partial(row[i], left)
  BY <1>6 DEF RowResolution, Consumed
<1> QED BY <1>3, <1>4, <1>5, <1>6

\* A short leg nobody explains becomes one row with its partner or is handed over with it.
LEMMA LegFate ==
  ASSUME BrokerInv, NEW left, NEW pair, NEW prev, NEW S
  PROVE  \/ LeftoverResolution(S, left, pair, order, prev) = {Human(0, <<S, pair[S]>>)}
         \/ \E d : /\ LeftoverResolution(S, left, pair, order, prev) = {d}
                   /\ d.kind \in {"reactivate", "adopt"} /\ pair[S] # S
                   /\ d.spread = <<S, pair[S]>> /\ d.qty = left[pair[S]]
<1> DEFINE v == <<S, pair[S]>>
           entry == _find_order(order, v, "entry", 0)
<1> HIDE DEF v
<1>1. CASE pair[S] = S \/ entry = {}
  BY <1>1 DEF LeftoverResolution, v
<1>2. CASE ~(pair[S] = S \/ entry = {})
  <2>1. PICK o \in entry : \A p \in entry : p = o
    BY <1>2, FoundOrder
  <2>2. entry = {o}
    BY <2>1
  <2>3. LeftoverResolution(S, left, pair, order, prev) =
          IF prev[v] # 0 THEN { Resolution("reactivate", prev[v], v, p, left[pair[S]]) : p \in entry }
                         ELSE { Resolution("adopt", 0, v, p, left[pair[S]]) : p \in entry }
    BY <1>2 DEF LeftoverResolution, v
  <2> HIDE DEF entry
  <2>4. LeftoverResolution(S, left, pair, order, prev) =
          IF prev[v] # 0 THEN { Resolution("reactivate", prev[v], v, o, left[pair[S]]) }
                         ELSE { Resolution("adopt", 0, v, o, left[pair[S]]) }
    BY <2>2, <2>3
  <2>5. PICK d : /\ LeftoverResolution(S, left, pair, order, prev) = {d}
                 /\ d.kind \in {"reactivate", "adopt"}
                 /\ d.spread = v /\ d.qty = left[pair[S]]
    BY <2>4, ResolutionIs
  <2> QED BY <1>2, <2>5 DEF v
<1> QED BY <1>1, <1>2

\* The pairs are verticals of one size, and no two share a leg.
LEMMA PairsIs ==
  ASSUME NEW left \in [Leg -> Int], NEW pair \in Pairings(left), NEW S \in Shorts(left)
  PROVE  /\ S \in Leg /\ left[S] < 0
         /\ pair[S] # S => /\ pair[S] \in Leg /\ left[pair[S]] > 0 /\ left[pair[S]] = -left[S]
                           /\ <<S, pair[S]>> \in Spread
         /\ \A T \in Shorts(left) :
              (T # S /\ pair[S] # S) => pair[S] # T /\ pair[S] # pair[T]
<1>1. S \in Leg /\ left[S] < 0
  BY DEF Shorts
<1>2. \A T \in Shorts(left) : pair[T] # T => pair[T] \in Partners(T, left, pair)
  BY DEF Pairings
<1>3. \A T \in Shorts(left) : pair[T] # T =>
        /\ pair[T] \in Leg /\ left[pair[T]] > 0 /\ left[pair[T]] = -left[T] /\ <<T, pair[T]>> \in Spread
        /\ \A U \in Shorts(left) : Rank(U) < Rank(T) => pair[U] # pair[T]
  <2> SUFFICES ASSUME NEW T \in Shorts(left), pair[T] # T
      PROVE  /\ pair[T] \in Leg /\ left[pair[T]] > 0 /\ left[pair[T]] = -left[T] /\ <<T, pair[T]>> \in Spread
             /\ \A U \in Shorts(left) : Rank(U) < Rank(T) => pair[U] # pair[T]
    OBVIOUS
  <2>1. /\ pair[T] \in Longs(left) /\ left[pair[T]] = -left[T] /\ <<T, pair[T]>> \in Spread
        /\ \A U \in Shorts(left) : Rank(U) < Rank(T) => pair[U] # pair[T]
    BY <1>2 DEF Partners
  <2>2. pair[T] \in Leg /\ left[pair[T]] > 0
    BY <2>1 DEF Longs
  <2> QED BY <2>1, <2>2
<1>4. ASSUME NEW T \in Shorts(left), T # S, pair[S] # S
      PROVE  pair[S] # T /\ pair[S] # pair[T]
  <2>1. T \in Leg /\ left[T] < 0 /\ left[pair[S]] > 0
    BY <1>3, <1>4 DEF Shorts
  <2>2. pair[S] # T
    BY <1>3, <1>4, <2>1
  <2>3. CASE pair[T] = T
    BY <2>2, <2>3
  <2>4. CASE pair[T] # T
    <3>1. Rank(S) \in Nat /\ Rank(T) \in Nat /\ Rank(S) # Rank(T)
      BY <1>1, <1>4, <2>1, RankAssumption
    <3>2. Rank(S) < Rank(T) \/ Rank(T) < Rank(S)
      BY <3>1
    <3>3. CASE Rank(S) < Rank(T)
      BY <1>3, <2>2, <2>4, <3>3
    <3>4. CASE Rank(T) < Rank(S)
      BY <1>3, <1>4, <2>2, <3>4
    <3> QED BY <2>2, <3>2, <3>3, <3>4
  <2> QED BY <2>2, <2>3, <2>4
<1> QED BY <1>1, <1>3, <1>4

-----------------------------------------------------------------------------
(***************************************************************************)
(* The decision of a pass.                                                 *)
(***************************************************************************)
NewKinds == {"reactivate", "adopt"}

\* The parts of a decision: of each row, of each short leg, of the long legs left over.
OfRow(k) ==
  RowResolution(xLive[k], row[xLive[k]], Remaining(xLive, row, xBook)[k - 1], order, acts)
OfLeg(S, pair, prev) == LeftoverResolution(S, Unexplained, pair, order, prev)

\* What a pass may decide.
Decision(D, pair, prev) ==
  /\ xpc = "evidence" /\ pair \in Pairings(Unexplained)
  /\ D = resolve(xLive, row, xBook, order, acts, pair, prev)

LEMMA DecisionFrom ==
  ASSUME NEW pair, NEW prev, NEW d \in resolve(xLive, row, xBook, order, acts, pair, prev)
  PROVE  \/ \E k \in DOMAIN xLive : d \in OfRow(k)
         \/ \E S \in Shorts(Unexplained) : d \in OfLeg(S, pair, prev)
         \/ \E L : d = Human(0, <<L, L>>)
<1>1. CASE d \in RowResolutions(xLive, row, xBook, order, acts)
  BY <1>1 DEF RowResolutions, OfRow
<1>2. CASE d \in LeftoverResolutions(Unexplained, pair, order, prev)
  <2>1. \/ d \in UNION { OfLeg(S, pair, prev) : S \in Shorts(Unexplained) }
        \/ d \in { Human(0, <<L, L>>) : L \in Longs(Unexplained) \ { pair[S] : S \in Shorts(Unexplained) } }
    BY <1>2 DEF LeftoverResolutions, OfLeg
  <2> QED BY <2>1
<1> QED BY <1>1, <1>2 DEF resolve, Unexplained

LEMMA DecisionHas ==
  ASSUME NEW pair, NEW prev, NEW D, D = resolve(xLive, row, xBook, order, acts, pair, prev)
  PROVE  /\ \A k \in DOMAIN xLive : OfRow(k) \subseteq D
         /\ \A S \in Shorts(Unexplained) : OfLeg(S, pair, prev) \subseteq D
         /\ \A L \in Longs(Unexplained) :
              (\A S \in Shorts(Unexplained) : pair[S] # L) => Human(0, <<L, L>>) \in D
<1>1. \A k \in DOMAIN xLive : OfRow(k) \subseteq RowResolutions(xLive, row, xBook, order, acts)
  BY DEF RowResolutions, OfRow
<1>2. /\ \A S \in Shorts(Unexplained) :
           OfLeg(S, pair, prev) \subseteq LeftoverResolutions(Unexplained, pair, order, prev)
      /\ \A L \in Longs(Unexplained) : (\A S \in Shorts(Unexplained) : pair[S] # L) =>
           Human(0, <<L, L>>) \in LeftoverResolutions(Unexplained, pair, order, prev)
  BY DEF LeftoverResolutions, OfLeg
<1>3. D = RowResolutions(xLive, row, xBook, order, acts)
          \cup LeftoverResolutions(Unexplained, pair, order, prev)
  BY DEF resolve, Unexplained
<1> QED BY <1>1, <1>2, <1>3

\* The rows of the table a pass works on.
LEMMA LiveRows ==
  ASSUME PassInv
  PROVE  /\ IsFiniteSet(RowId) /\ RowId \subseteq Nat /\ 0 \notin RowId
         /\ live_legs_rows \subseteq RowId /\ IsFiniteSet(live_legs_rows)
         /\ \A i \in live_legs_rows :
              GoodRow(row[i]) /\ row[i] \in RowType /\ row[i].status \in LIVE_STATUSES /\ i <= rows
<1>1. IsFiniteSet(RowId) /\ RowId \subseteq Nat /\ 0 \notin RowId
  BY FS_Interval, BoundsAssumption DEF RowId
<1>2. live_legs_rows \subseteq RowId /\ IsFiniteSet(live_legs_rows)
  BY <1>1, FS_Subset DEF live_legs_rows, WithStatus
<1>3. ASSUME NEW i \in live_legs_rows
      PROVE  GoodRow(row[i]) /\ row[i] \in RowType /\ row[i].status \in LIVE_STATUSES /\ i <= rows
  <2>1. i \in RowId /\ row[i].status \in LIVE_STATUSES /\ row[i].qty > 0
    BY DEF live_legs_rows, WithStatus, PassInv
  <2>2. row[i].status # "none" /\ row[i] \in RowType
    BY <2>1 DEF LIVE_STATUSES, PassInv, Inv, TableInv, TableType
  <2>3. row[i].spread \in Spread /\ i <= rows
    BY <2>1, <2>2 DEF PassInv, Inv, TableInv, RowsNumbered, NoRow
  <2> QED BY <2>1, <2>2, <2>3 DEF GoodRow, RowType
<1> QED BY <1>1, <1>2, <1>3

\* What the listing takes and leaves when the decision is made.
LEMMA Taken ==
  ASSUME PassInv, xpc = "evidence"
  PROVE  /\ Unexplained \in [Leg -> Int]
         /\ \A leg \in Leg : Between(Unexplained[leg], book[leg])
         /\ DOMAIN xLive = 1..Len(xLive) /\ \A k \in DOMAIN xLive : xLive[k] \in live_legs_rows
         /\ \A j, k \in DOMAIN xLive : xLive[j] = xLive[k] => j = k
         /\ \E takes \in [live_legs_rows -> Nat] :
              /\ \A i \in live_legs_rows : \E k \in DOMAIN xLive :
                   /\ xLive[k] = i
                   /\ Remaining(xLive, row, xBook)[k - 1] \in [Leg -> Int]
                   /\ takes[i] = Consumed(row[i], Remaining(xLive, row, xBook)[k - 1])
              /\ \A leg \in Leg :
                   SumFunctionOnSet(Takes(live_legs_rows, row, takes, leg), live_legs_rows)
                     = book[leg] - Unexplained[leg]
<1> DEFINE left == Remaining(xLive, row, xBook)
<1>1. /\ xLive \in Listings(live_legs_rows) /\ xBook = book /\ book \in [Leg -> Int]
      /\ IsFiniteSet(live_legs_rows) /\ \A i \in live_legs_rows : GoodRow(row[i])
  BY LiveRows DEF PassInv, Inv, BrokerInv, BrokerType
<1>2. /\ Len(xLive) \in Nat /\ DOMAIN xLive = 1..Len(xLive)
      /\ \A k \in 1..Len(xLive) : xLive[k] \in live_legs_rows
      /\ \A j, k \in 1..Len(xLive) : xLive[j] = xLive[k] => j = k
      /\ \A i \in live_legs_rows : \E k \in 1..Len(xLive) : xLive[k] = i
  BY <1>1, ListingIs
<1>3. \A k \in 0..Len(xLive) :
        left[k] \in [Leg -> Int] /\ \A leg \in Leg : Between(left[k][leg], book[leg])
  BY <1>1, LeftBetween
<1>4. Unexplained = left[Len(xLive)]
  BY DEF Unexplained
<1> HIDE DEF left
<1>5. \A k \in 1..Len(xLive) : k - 1 \in 0..Len(xLive)
  BY <1>2
<1> DEFINE place(i) == CHOOSE k \in 1..Len(xLive) : xLive[k] = i
           takes == [i \in live_legs_rows |-> Consumed(row[i], left[place(i) - 1])]
<1>6. ASSUME NEW i \in live_legs_rows
      PROVE  place(i) \in 1..Len(xLive) /\ xLive[place(i)] = i
  BY <1>2
<1>7. ASSUME NEW k \in 1..Len(xLive) PROVE place(xLive[k]) = k
  BY <1>2, <1>6
<1> HIDE DEF place
<1>8. takes \in [live_legs_rows -> Nat]
  BY <1>1, <1>3, <1>5, <1>6, ConsumedIs
<1>9. \A k \in 1..Len(xLive) : takes[xLive[k]] = Consumed(row[xLive[k]], left[k - 1])
  BY <1>2, <1>7
<1>10. \A i \in live_legs_rows : takes[i] = Consumed(row[i], left[place(i) - 1])
  OBVIOUS
<1> HIDE DEF takes
<1>11. ASSUME NEW leg \in Leg
       PROVE  SumFunctionOnSet(Takes(live_legs_rows, row, takes, leg), live_legs_rows)
                = book[leg] - Unexplained[leg]
  <2>1. \A k \in 1..Len(xLive) :
          takes[xLive[k]] = Consumed(row[xLive[k]], Remaining(xLive, row, book)[k - 1])
    BY <1>1, <1>9 DEF left
  <2>2. Unexplained = Remaining(xLive, row, book)[Len(xLive)]
    BY <1>1, <1>4 DEF left
  <2>3. xLive \in Listings(live_legs_rows) /\ book \in [Leg -> Int] /\ IsFiniteSet(live_legs_rows)
        /\ (\A i \in live_legs_rows : GoodRow(row[i]))
    BY <1>1
  <2>4. SumFunctionOnSet(Takes(live_legs_rows, row, takes, leg), live_legs_rows)
          = book[leg] - Remaining(xLive, row, book)[Len(xLive)][leg]
    BY <1>8, <2>1, <2>3, TakenIs, Z3
  <2> QED BY <2>2, <2>4
<1>12. ASSUME NEW i \in live_legs_rows
       PROVE  \E k \in DOMAIN xLive : /\ xLive[k] = i /\ left[k - 1] \in [Leg -> Int]
                                      /\ takes[i] = Consumed(row[i], left[k - 1])
  <2>1. PICK k \in 1..Len(xLive) : k = place(i)
    BY <1>6
  <2>2. xLive[k] = i /\ takes[i] = Consumed(row[i], left[k - 1]) /\ k - 1 \in 0..Len(xLive)
    BY <1>5, <1>6, <1>10, <2>1
  <2> QED BY <1>2, <1>3, <2>2
<1>13. Unexplained \in [Leg -> Int] /\ \A leg \in Leg : Between(Unexplained[leg], book[leg])
  BY <1>2, <1>3, <1>4
<1>14. DOMAIN xLive = 1..Len(xLive) /\ (\A k \in DOMAIN xLive : xLive[k] \in live_legs_rows)
       /\ \A j, k \in DOMAIN xLive : xLive[j] = xLive[k] => j = k
  BY <1>2
<1>15. \A i \in live_legs_rows : \E k \in DOMAIN xLive :
         /\ xLive[k] = i
         /\ Remaining(xLive, row, xBook)[k - 1] \in [Leg -> Int]
         /\ takes[i] = Consumed(row[i], Remaining(xLive, row, xBook)[k - 1])
  BY <1>12 DEF left
<1>16. \A leg \in Leg :
         SumFunctionOnSet(Takes(live_legs_rows, row, takes, leg), live_legs_rows)
           = book[leg] - Unexplained[leg]
  BY <1>11
<1>17. \E t \in [live_legs_rows -> Nat] :
         /\ \A i \in live_legs_rows : \E k \in DOMAIN xLive :
              /\ xLive[k] = i
              /\ Remaining(xLive, row, xBook)[k - 1] \in [Leg -> Int]
              /\ t[i] = Consumed(row[i], Remaining(xLive, row, xBook)[k - 1])
         /\ \A leg \in Leg :
              SumFunctionOnSet(Takes(live_legs_rows, row, t, leg), live_legs_rows)
                = book[leg] - Unexplained[leg]
  BY <1>8, <1>15, <1>16, Zenon
<1> QED BY <1>13, <1>14, <1>17, Zenon

\* Whom a resolution is about.
LEMMA RowPid ==
  ASSUME NEW k, NEW d \in OfRow(k)
  PROVE  d.pid = xLive[k] /\ d.kind \in RowKinds \cup {"human"}
BY DEF OfRow, RowResolution, GoneResolution, Human, Resolution, RowKinds

LEMMA LegPid ==
  ASSUME BrokerInv, NEW S, NEW pair, NEW prev, NEW d \in OfLeg(S, pair, prev)
  PROVE  /\ d.spread = <<S, pair[S]>>
         /\ \/ d.kind = "human" /\ d.pid = 0
            \/ d.kind \in NewKinds /\ pair[S] # S /\ d.qty = Unexplained[pair[S]]
<1>1. CASE OfLeg(S, pair, prev) = {Human(0, <<S, pair[S]>>)}
  <2>1. d = Human(0, <<S, pair[S]>>)
    BY <1>1
  <2> QED BY <2>1, HumanIs
<1>2. ASSUME NEW e, OfLeg(S, pair, prev) = {e}, e.kind \in {"reactivate", "adopt"}, pair[S] # S,
             e.spread = <<S, pair[S]>>, e.qty = Unexplained[pair[S]]
      PROVE  d.spread = <<S, pair[S]>> /\ d.kind \in NewKinds /\ d.qty = Unexplained[pair[S]]
  <2>1. d = e
    BY <1>2
  <2> QED BY <1>2, <2>1 DEF NewKinds
<1> QED BY <1>1, <1>2, LegFate DEF OfLeg

\* One resolution of each short leg.
LEMMA LegOnce ==
  ASSUME BrokerInv, NEW S, NEW pair, NEW prev,
         NEW d \in OfLeg(S, pair, prev), NEW e \in OfLeg(S, pair, prev)
  PROVE  d = e
<1>1. CASE OfLeg(S, pair, prev) = {Human(0, <<S, pair[S]>>)}
  BY <1>1
<1>2. CASE \E x : OfLeg(S, pair, prev) = {x}
  BY <1>2
<1> QED BY <1>1, <1>2, LegFate DEF OfLeg

\* What is decided of the live rows leaves each the contracts it took, none if it is
\* for a person.
LEMMA RowsDecided ==
  ASSUME PassInv, NEW D, NEW pair, NEW prev, Decision(D, pair, prev),
         NEW i \in live_legs_rows, NEW k \in DOMAIN xLive, xLive[k] = i,
         NEW left \in [Leg -> Int], left = Remaining(xLive, row, xBook)[k - 1]
  PROVE  \/ /\ Consumed(row[i], left) = row[i].qty
            /\ \A d \in D : d.kind \notin NewKinds => d.pid # i
         \/ \E d \in D :
              /\ d.pid = i /\ d.kind \in RowKinds
              /\ IF d.kind = "adjust_qty" THEN d.qty = Consumed(row[i], left) /\ d.qty > 0
                 ELSE Consumed(row[i], left) = 0
              /\ \A q \in D : (q.kind \notin NewKinds /\ q.pid = i) => q = d
         \/ /\ Human(i, row[i].spread) \in D
            /\ Consumed(row[i], left) = 0
            /\ \A q \in D : (q.kind \notin NewKinds /\ q.pid = i) => q = Human(i, row[i].spread)
<1>1. BrokerInv /\ TableInv /\ GoodRow(row[i]) /\ i # 0
  BY LiveRows DEF PassInv, Inv
<1>2. OfRow(k) = RowResolution(i, row[i], left, order, acts)
  BY DEF OfRow
<1>3. ASSUME NEW d \in D, d.kind \notin NewKinds, d.pid = i PROVE d \in OfRow(k)
  <2>1. ~\E S \in Shorts(Unexplained) : d \in OfLeg(S, pair, prev)
    BY <1>1, <1>3, LegPid
  <2>2. ~\E L : d = Human(0, <<L, L>>)
    BY <1>1, <1>3, HumanIs
  <2>3. PICK j \in DOMAIN xLive : d \in OfRow(j)
    BY <2>1, <2>2, DecisionFrom DEF Decision
  <2>4. xLive[j] = i
    BY <1>3, <2>3, RowPid
  <2> QED BY <2>3, <2>4, Taken DEF Decision
<1>4. \A d : d \in OfRow(k) => d \in D
  BY DecisionHas DEF Decision
<1>5. CASE /\ RowResolution(i, row[i], left, order, acts) = {}
           /\ Consumed(row[i], left) = row[i].qty
  BY <1>2, <1>3, <1>5
<1>6. ASSUME NEW d, RowResolution(i, row[i], left, order, acts) = {d},
             d.pid = i, d.kind \in RowKinds,
             IF d.kind = "adjust_qty" THEN d.qty = Consumed(row[i], left) /\ d.qty > 0
             ELSE Consumed(row[i], left) = 0
      PROVE  \E e \in D :
               /\ e.pid = i /\ e.kind \in RowKinds
               /\ IF e.kind = "adjust_qty" THEN e.qty = Consumed(row[i], left) /\ e.qty > 0
                  ELSE Consumed(row[i], left) = 0
               /\ \A q \in D : (q.kind \notin NewKinds /\ q.pid = i) => q = e
  <2>1. d \in D /\ \A q \in D : (q.kind \notin NewKinds /\ q.pid = i) => q = d
    BY <1>2, <1>3, <1>4, <1>6
  <2> QED BY <1>6, <2>1
<1>7. CASE /\ RowResolution(i, row[i], left, order, acts) = {Human(i, row[i].spread)}
           /\ Consumed(row[i], left) = 0
  BY <1>2, <1>3, <1>4, <1>7
<1> QED BY <1>1, <1>5, <1>6, <1>7, RowFate

\* What is decided of the legs no row explains.
LEMMA LegsDecided ==
  ASSUME PassInv, NEW D, NEW pair, NEW prev, Decision(D, pair, prev)
  PROVE  /\ \A d \in D : d.kind \in NewKinds =>
              \E S \in Shorts(Unexplained) :
                /\ pair[S] # S /\ d.spread = <<S, pair[S]>> /\ d.qty = Unexplained[pair[S]]
                /\ \A q \in D : (q.kind \in NewKinds /\ q.spread[1] = S) => q = d
         /\ \A S \in Shorts(Unexplained) :
              \/ Human(0, <<S, pair[S]>>) \in D
              \/ \E d \in D : d.kind \in NewKinds /\ d.spread = <<S, pair[S]>>
         /\ \A L \in Longs(Unexplained) :
              (\A S \in Shorts(Unexplained) : pair[S] # L) => Human(0, <<L, L>>) \in D
<1>1. BrokerInv
  BY DEF PassInv, Inv
<1>2. ASSUME NEW d \in D, d.kind \in NewKinds
      PROVE  \E S \in Shorts(Unexplained) : d \in OfLeg(S, pair, prev)
  <2>1. ~\E k \in DOMAIN xLive : d \in OfRow(k)
    BY <1>2, RowPid DEF NewKinds, RowKinds
  <2>2. ~\E L : d = Human(0, <<L, L>>)
    <3> SUFFICES ASSUME NEW L, d = Human(0, <<L, L>>) PROVE FALSE
      OBVIOUS
    <3>1. d.kind = "human"
      BY HumanIs
    <3> QED BY <1>2, <3>1 DEF NewKinds
  <2> QED BY <2>1, <2>2, DecisionFrom DEF Decision
<1>3. ASSUME NEW d \in D, d.kind \in NewKinds
      PROVE  \E S \in Shorts(Unexplained) :
                /\ pair[S] # S /\ d.spread = <<S, pair[S]>> /\ d.qty = Unexplained[pair[S]]
                /\ \A q \in D : (q.kind \in NewKinds /\ q.spread[1] = S) => q = d
  <2>1. PICK S \in Shorts(Unexplained) : d \in OfLeg(S, pair, prev)
    BY <1>2, <1>3
  <2>2. d.spread = <<S, pair[S]>> /\ pair[S] # S /\ d.qty = Unexplained[pair[S]]
    BY <1>1, <1>3, <2>1, LegPid DEF NewKinds
  <2>3. ASSUME NEW q \in D, q.kind \in NewKinds, q.spread[1] = S PROVE q = d
    <3>1. PICK T \in Shorts(Unexplained) : q \in OfLeg(T, pair, prev)
      BY <1>2, <2>3
    <3>2. T = S
      BY <1>1, <2>3, <3>1, LegPid
    <3> QED BY <1>1, <2>1, <3>1, <3>2, LegOnce
  <2> QED BY <2>2, <2>3
<1>4. ASSUME NEW S \in Shorts(Unexplained)
      PROVE  \/ Human(0, <<S, pair[S]>>) \in D
             \/ \E d \in D : d.kind \in NewKinds /\ d.spread = <<S, pair[S]>>
  <2>1. \A d : d \in OfLeg(S, pair, prev) => d \in D
    BY DecisionHas DEF Decision
  <2> QED BY <1>1, <2>1, LegFate DEF OfLeg, NewKinds
<1>5. ASSUME NEW L \in Longs(Unexplained), \A S \in Shorts(Unexplained) : pair[S] # L
      PROVE  Human(0, <<L, L>>) \in D
  BY <1>5, DecisionHas DEF Decision
<1> QED BY <1>3, <1>4, <1>5

-----------------------------------------------------------------------------
(***************************************************************************)
(* The step that decides.                                                  *)
(***************************************************************************)
Deciding(D, pair, prev) ==
  /\ Decision(D, pair, prev) /\ xpc' = "apply"
  /\ xRes' = { r \in D : r.kind # "human" }
  /\ asked' = UNION { {r.spread[1], r.spread[2]} : r \in { q \in D : q.kind = "human" } }
  /\ askedRows' = { r.pid : r \in { q \in D : q.kind = "human" } }
  /\ UNCHANGED <<broker, table>>

LEMMA DecideIs ==
  ASSUME Decide
  PROVE  \E D, pair, prev : Deciding(D, pair, prev)
<1>1. PICK pair \in Pairings(Unexplained), prev \in UnfilledByLegs(unfilled_rows, row) :
        /\ ReadEvidence(pair, prev)
        /\ asked' = UNION { {r.spread[1], r.spread[2]} :
             r \in { r \in resolve(xLive, row, xBook, order, acts, pair, prev) : r.kind = "human" } }
        /\ askedRows' = { r.pid :
             r \in { r \in resolve(xLive, row, xBook, order, acts, pair, prev) : r.kind = "human" } }
  BY DEF Decide
<1>2. PICK D : D = resolve(xLive, row, xBook, order, acts, pair, prev)
  OBVIOUS
<1>3. Deciding(D, pair, prev)
  BY <1>1, <1>2 DEF Deciding, Decision, ReadEvidence
<1> QED BY <1>3

\* Whom a decision is about, and who is asked.
LEMMA Handed ==
  ASSUME PassInv, NEW D, NEW pair, NEW prev, Deciding(D, pair, prev)
  PROVE  /\ row' = row /\ book' = book /\ live_legs_rows' = live_legs_rows
         /\ \A d \in D :
              /\ d.kind \in RowKinds \cup NewKinds \cup {"human"}
              /\ d.kind \notin NewKinds => d.pid \in live_legs_rows \cup {0}
              /\ d.kind \in RowKinds => d.pid \in live_legs_rows
              /\ d.kind # "human" <=> d \in xRes'
              /\ d.kind = "human" =>
                   d.spread[1] \in asked' /\ d.spread[2] \in asked' /\ d.pid \in askedRows'
         /\ xRes' \subseteq D
         /\ \A p \in askedRows' : \E d \in D : d.kind = "human" /\ d.pid = p
<1>1. row' = row /\ book' = book
  BY DEF Deciding, table, broker
<1>2. live_legs_rows' = live_legs_rows
  BY <1>1 DEF live_legs_rows, WithStatus
<1>3. ASSUME NEW d \in D
      PROVE  /\ d.kind \in RowKinds \cup NewKinds \cup {"human"}
             /\ d.kind \notin NewKinds => d.pid \in live_legs_rows \cup {0}
             /\ d.kind \in RowKinds => d.pid \in live_legs_rows
  <2>1. CASE \E k \in DOMAIN xLive : d \in OfRow(k)
    <3>1. PICK k \in DOMAIN xLive : d \in OfRow(k)
      BY <2>1
    <3> QED BY <3>1, RowPid, Taken DEF Deciding, Decision
  <2>2. CASE \E S \in Shorts(Unexplained) : d \in OfLeg(S, pair, prev)
    <3>1. BrokerInv
      BY DEF PassInv, Inv
    <3>2. PICK S \in Shorts(Unexplained) : d \in OfLeg(S, pair, prev)
      BY <2>2
    <3>3. (d.kind = "human" /\ d.pid = 0) \/ d.kind \in NewKinds
      BY <3>1, <3>2, LegPid
    <3> QED BY <3>3 DEF RowKinds, NewKinds
  <2>3. CASE \E L : d = Human(0, <<L, L>>)
    BY <2>3, HumanIs DEF RowKinds
  <2> QED BY <2>1, <2>2, <2>3, DecisionFrom DEF Deciding, Decision
<1>4. \A d \in D : /\ d.kind # "human" <=> d \in xRes'
                   /\ d.kind = "human" =>
                        d.spread[1] \in asked' /\ d.spread[2] \in asked' /\ d.pid \in askedRows'
  BY DEF Deciding
<1>5. xRes' \subseteq D /\ \A p \in askedRows' : \E d \in D : d.kind = "human" /\ d.pid = p
  BY DEF Deciding
<1> QED BY <1>1, <1>2, <1>3, <1>4, <1>5

\* A live row will stand for the contracts it took, or a person is asked about it.
LEMMA RowsStay ==
  ASSUME PassInv, NEW D, NEW pair, NEW prev, Deciding(D, pair, prev),
         NEW i \in live_legs_rows, NEW k \in DOMAIN xLive, xLive[k] = i,
         NEW left \in [Leg -> Int], left = Remaining(xLive, row, xBook)[k - 1]
  PROVE  /\ \A leg \in Leg : Will(leg)'[i] = Consumed(row[i], left) * LegSign(row[i].spread, leg)
         /\ i \in askedRows' => row[i].spread[1] \in asked' /\ row[i].spread[2] \in asked'
         /\ \A r \in xRes' : r.kind \in RowKinds /\ r.pid = i =>
              i \notin askedRows' /\ (r.kind = "adjust_qty" => r.qty > 0)
<1>1. i \in RowId /\ Decision(D, pair, prev)
  BY LiveRows DEF Deciding
<1>2. /\ row' = row /\ live_legs_rows' = live_legs_rows
      /\ \A d \in D : /\ d.kind \in RowKinds \cup NewKinds \cup {"human"}
                      /\ d.kind # "human" <=> d \in xRes'
                      /\ d.kind = "human" =>
                           d.spread[1] \in asked' /\ d.spread[2] \in asked' /\ d.pid \in askedRows'
      /\ xRes' \subseteq D
      /\ \A p \in askedRows' : \E d \in D : d.kind = "human" /\ d.pid = p
  BY Handed
<1>3. "human" \notin NewKinds /\ "human" \notin RowKinds /\ \A kind \in RowKinds : kind \notin NewKinds
  BY DEF NewKinds, RowKinds
<1>4. PICK n \in Nat : n = Consumed(row[i], left)
  BY LiveRows, ConsumedIs
<1>5. ASSUME NEW leg \in Leg
      PROVE  Will(leg)'[i] = IF i \in askedRows' THEN 0
                             ELSE Stays(row[i], Fate(xRes', i)) * LegSign(row[i].spread, leg)
  BY <1>1, <1>2 DEF Will, Settled
<1>6. \A leg \in Leg : 0 * LegSign(row[i].spread, leg) = 0
  BY DEF LegSign
<1>7. CASE n = row[i].qty /\ \A d \in D : d.kind \notin NewKinds => d.pid # i
  <2>1. i \notin askedRows'
    BY <1>2, <1>3, <1>7
  <2>2. Fate(xRes', i) = {}
    BY <1>2, <1>3, <1>7 DEF Fate
  <2>3. Stays(row[i], Fate(xRes', i)) = n
    BY <1>7, <2>2, StaysIs
  <2>4. \A r \in xRes' : ~(r.kind \in RowKinds /\ r.pid = i)
    BY <1>2, <1>3, <1>7
  <2> QED BY <1>4, <1>5, <2>1, <2>3, <2>4
<1>8. ASSUME NEW d \in D, d.pid = i, d.kind \in RowKinds,
             IF d.kind = "adjust_qty" THEN d.qty = n /\ d.qty > 0 ELSE n = 0,
             \A q \in D : (q.kind \notin NewKinds /\ q.pid = i) => q = d
      PROVE  /\ \A leg \in Leg : Will(leg)'[i] = n * LegSign(row[i].spread, leg)
             /\ i \in askedRows' => row[i].spread[1] \in asked' /\ row[i].spread[2] \in asked'
             /\ \A r \in xRes' : r.kind \in RowKinds /\ r.pid = i =>
                  i \notin askedRows' /\ (r.kind = "adjust_qty" => r.qty > 0)
  <2>1. i \notin askedRows'
    BY <1>2, <1>3, <1>8
  <2>2. Fate(xRes', i) = {d}
    <3>1. d \in xRes'
      BY <1>2, <1>3, <1>8
    <3>2. \A q \in xRes' : q.kind \in RowKinds /\ q.pid = i => q = d
      BY <1>2, <1>3, <1>8
    <3> QED BY <1>8, <3>1, <3>2 DEF Fate
  <2>3. Stays(row[i], Fate(xRes', i)) = n
    BY <1>8, <2>2, StaysIs
  <2>4. \A r \in xRes' : r.kind \in RowKinds /\ r.pid = i => r = d
    BY <1>2, <1>3, <1>8
  <2> QED BY <1>5, <1>8, <2>1, <2>3, <2>4
<1>9. CASE /\ Human(i, row[i].spread) \in D /\ n = 0
           /\ \A q \in D : (q.kind \notin NewKinds /\ q.pid = i) => q = Human(i, row[i].spread)
  <2>1. i \in askedRows' /\ row[i].spread[1] \in asked' /\ row[i].spread[2] \in asked'
    <3>1. PICK h \in D : h = Human(i, row[i].spread)
      BY <1>9
    <3>2. h.kind = "human" /\ h.pid = i /\ h.spread = row[i].spread
      BY <3>1, HumanIs
    <3> QED BY <1>2, <3>2
  <2>2. \A r \in xRes' : ~(r.kind \in RowKinds /\ r.pid = i)
    BY <1>2, <1>3, <1>9, HumanIs
  <2> QED BY <1>4, <1>5, <1>6, <1>9, <2>1, <2>2
<1>10. \/ n = row[i].qty /\ \A d \in D : d.kind \notin NewKinds => d.pid # i
       \/ \E d \in D :
              /\ d.pid = i /\ d.kind \in RowKinds
              /\ IF d.kind = "adjust_qty" THEN d.qty = n /\ d.qty > 0 ELSE n = 0
              /\ \A q \in D : (q.kind \notin NewKinds /\ q.pid = i) => q = d
       \/ /\ Human(i, row[i].spread) \in D /\ n = 0
          /\ \A q \in D : (q.kind \notin NewKinds /\ q.pid = i) => q = Human(i, row[i].spread)
  BY <1>1, <1>4, RowsDecided
<1> QED BY <1>4, <1>7, <1>8, <1>9, <1>10

\* A row to be made or revived stands for a pair of legs in full, and a leg is in one.
LEMMA PairsArrive ==
  ASSUME PassInv, NEW D, NEW pair, NEW prev, Deciding(D, pair, prev)
  PROVE  /\ \A d \in xRes' : d.kind \notin RowKinds =>
              /\ d.kind \in NewKinds /\ d.qty \in Int /\ d.qty > 0
              /\ d.spread[1] \in Leg /\ Unexplained[d.spread[1]] = -d.qty
              /\ d.spread[2] \in Leg /\ Unexplained[d.spread[2]] = d.qty
         /\ \A d, e \in xRes' : (d.kind \notin RowKinds /\ e.kind \notin RowKinds /\ d # e) =>
              {d.spread[1], d.spread[2]} \cap {e.spread[1], e.spread[2]} = {}
<1>1. /\ \A d \in xRes' : d \in D /\ (d.kind \notin RowKinds => d.kind \in NewKinds)
      /\ Unexplained \in [Leg -> Int]
  BY Handed, Taken DEF Deciding, Decision
<1>2. ASSUME NEW d \in xRes', d.kind \notin RowKinds
      PROVE  \E S \in Shorts(Unexplained) :
                /\ pair[S] # S /\ d.spread = <<S, pair[S]>> /\ d.qty = Unexplained[pair[S]]
                /\ \A q \in D : (q.kind \in NewKinds /\ q.spread[1] = S) => q = d
  <2>1. d \in D /\ d.kind \in NewKinds
    BY <1>1, <1>2
  <2> QED BY <2>1, LegsDecided DEF Deciding
<1>3. ASSUME NEW S \in Shorts(Unexplained), pair[S] # S
      PROVE  /\ S \in Leg /\ pair[S] \in Leg /\ Unexplained[pair[S]] > 0
             /\ Unexplained[pair[S]] = -Unexplained[S]
             /\ \A T \in Shorts(Unexplained) : T # S => pair[S] # T /\ pair[S] # pair[T]
  <2>1. Unexplained \in [Leg -> Int] /\ pair \in Pairings(Unexplained)
    BY <1>1 DEF Deciding, Decision
  <2>2. PICK left \in [Leg -> Int] : left = Unexplained
    BY <2>1
  <2>3. /\ S \in Leg /\ left[S] < 0
        /\ pair[S] # S => /\ pair[S] \in Leg /\ left[pair[S]] > 0 /\ left[pair[S]] = -left[S]
                          /\ <<S, pair[S]>> \in Spread
        /\ \A T \in Shorts(left) :
             (T # S /\ pair[S] # S) => pair[S] # T /\ pair[S] # pair[T]
    <3>1. pair \in Pairings(left) /\ S \in Shorts(left)
      BY <2>1, <2>2
    <3> QED BY <3>1, PairsIs
  <2> QED BY <1>3, <2>2, <2>3
<1>4. ASSUME NEW d \in xRes', d.kind \notin RowKinds
      PROVE  /\ d.kind \in NewKinds /\ d.qty \in Int /\ d.qty > 0
             /\ d.spread[1] \in Leg /\ Unexplained[d.spread[1]] = -d.qty
             /\ d.spread[2] \in Leg /\ Unexplained[d.spread[2]] = d.qty
  <2>1. PICK S \in Shorts(Unexplained) :
          pair[S] # S /\ d.spread = <<S, pair[S]>> /\ d.qty = Unexplained[pair[S]]
    BY <1>2, <1>4
  <2>2. PICK a, b \in Int : a = Unexplained[S] /\ b = Unexplained[pair[S]] /\ b > 0 /\ b = -a
    BY <1>1, <1>3, <2>1
  <2> QED BY <1>1, <1>3, <1>4, <2>1, <2>2
<1>5. ASSUME NEW d \in xRes', NEW e \in xRes', d.kind \notin RowKinds, e.kind \notin RowKinds, d # e
      PROVE  {d.spread[1], d.spread[2]} \cap {e.spread[1], e.spread[2]} = {}
  <2>1. PICK S \in Shorts(Unexplained) : pair[S] # S /\ d.spread = <<S, pair[S]>>
    BY <1>2, <1>5
  <2>2. PICK T \in Shorts(Unexplained) :
          /\ pair[T] # T /\ e.spread = <<T, pair[T]>>
          /\ \A q \in D : (q.kind \in NewKinds /\ q.spread[1] = T) => q = e
    BY <1>2, <1>5
  <2>3. S # T
    BY <1>1, <1>5, <2>1, <2>2
  <2> QED BY <1>3, <2>1, <2>2, <2>3
<1> QED BY <1>4, <1>5

\* What no row explains of a leg arrives with a row, or a person is asked about it.
LEMMA LegsArrive ==
  ASSUME PassInv, NEW D, NEW pair, NEW prev, Deciding(D, pair, prev), NEW leg \in Leg
  PROVE  \/ Arrives(Arrivals(xRes', leg), leg) = Unexplained[leg]
         \/ Arrives(Arrivals(xRes', leg), leg) = 0 /\ leg \in asked'
<1> DEFINE arrivals == Arrivals(xRes', leg)
<1>1. /\ Unexplained[leg] \in Int
      /\ \A d \in arrivals : d \in xRes' /\ d.kind \notin RowKinds /\ leg \in {d.spread[1], d.spread[2]}
  BY Taken DEF Deciding, Decision, Arrivals
<1>2. ASSUME NEW d \in arrivals PROVE Arrives(arrivals, leg) = Unexplained[leg]
  <2>1. \A e \in arrivals : e = d
    BY <1>1, PairsArrive
  <2>2. arrivals = {d}
    BY <2>1
  <2>3. PICK n \in Int : n = d.qty /\ Unexplained[d.spread[1]] = -n /\ Unexplained[d.spread[2]] = n
    BY <1>1, PairsArrive
  <2>4. Arrives(arrivals, leg) = n * LegSign(d.spread, leg)
    BY <2>2, <2>3, ArrivesIs
  <2> QED BY <1>1, <2>3, <2>4, SignIs
<1>3. ASSUME arrivals = {} PROVE Arrives(arrivals, leg) = 0 /\ (Unexplained[leg] # 0 => leg \in asked')
  <2>1. Arrives(arrivals, leg) = 0
    BY <1>3, ArrivesIs
  <2>2. \A d \in D : d.kind \in NewKinds => leg \notin {d.spread[1], d.spread[2]}
    <3>1. \A d \in D : d.kind \in NewKinds => d \in xRes' /\ d.kind \notin RowKinds
      BY Handed DEF NewKinds, RowKinds
    <3> QED BY <1>3, <3>1 DEF Arrivals
  <2>3. ASSUME NEW S, NEW L, Human(0, <<S, L>>) \in D PROVE S \in asked' /\ L \in asked'
    <3>1. PICK h \in D : h = Human(0, <<S, L>>)
      BY <2>3
    <3>2. h.kind = "human" /\ h.spread = <<S, L>>
      BY <3>1, HumanIs
    <3> QED BY <3>2, Handed
  <2>4. ASSUME NEW S \in Shorts(Unexplained), leg \in {S, pair[S]} PROVE leg \in asked'
    <3>1. \/ Human(0, <<S, pair[S]>>) \in D
          \/ \E d \in D : d.kind \in NewKinds /\ d.spread = <<S, pair[S]>>
      BY LegsDecided DEF Deciding
    <3> QED BY <2>2, <2>3, <2>4, <3>1
  <2>5. CASE Unexplained[leg] < 0
    BY <2>1, <2>4, <2>5 DEF Shorts
  <2>6. CASE Unexplained[leg] > 0
    <3>1. leg \in Longs(Unexplained)
      BY <1>1, <2>6 DEF Longs
    <3>2. CASE \E S \in Shorts(Unexplained) : pair[S] = leg
      BY <2>1, <2>4, <3>2
    <3>3. CASE \A S \in Shorts(Unexplained) : pair[S] # leg
      <4>1. Human(0, <<leg, leg>>) \in D
        BY <3>1, <3>3, LegsDecided DEF Deciding
      <4> QED BY <2>1, <2>3, <4>1
    <3> QED BY <3>2, <3>3
  <2> QED BY <1>1, <2>1, <2>5, <2>6
<1> QED BY <1>1, <1>2, <1>3

\* The decision accounts for what the broker holds.
LEMMA DecideKept ==
  ASSUME PassInv, Decide
  PROVE  Outcome'
<1>1. PICK D, pair, prev : Deciding(D, pair, prev)
  BY DecideIs
<1>2. /\ row' = row /\ book' = book /\ live_legs_rows' = live_legs_rows
      /\ \A d \in D : /\ d.kind \in RowKinds \cup NewKinds \cup {"human"}
                      /\ d.kind \notin NewKinds => d.pid \in live_legs_rows \cup {0}
                      /\ d.kind \in RowKinds => d.pid \in live_legs_rows
                      /\ d.kind # "human" <=> d \in xRes'
      /\ xRes' \subseteq D
      /\ \A p \in askedRows' : \E d \in D : d.kind = "human" /\ d.pid = p
  BY <1>1, Handed
<1>3. /\ "human" \notin NewKinds /\ "adjust_qty" \notin NewKinds /\ "adjust_qty" \in RowKinds
      /\ NewKinds = {"reactivate", "adopt"} /\ \A kind \in RowKinds : kind \notin NewKinds
  BY DEF NewKinds, RowKinds
<1>4. /\ \A d \in xRes' : d.kind \notin RowKinds => d.kind \in NewKinds /\ d.qty > 0
      /\ \A d, e \in xRes' : (d.kind \notin RowKinds /\ e.kind \notin RowKinds /\ d # e) =>
           {d.spread[1], d.spread[2]} \cap {e.spread[1], e.spread[2]} = {}
  BY <1>1, PairsArrive
<1>5. /\ Unexplained \in [Leg -> Int] /\ \A leg \in Leg : Between(Unexplained[leg], book[leg])
      /\ IsFiniteSet(RowId) /\ live_legs_rows \subseteq RowId /\ 0 \notin RowId
      /\ IsFiniteSet(live_legs_rows) /\ book \in [Leg -> Int]
  BY <1>1, Taken, LiveRows DEF Deciding, Decision, PassInv, Inv, BrokerInv, BrokerType
<1>6. PICK takes \in [live_legs_rows -> Nat] :
        /\ \A i \in live_legs_rows : \E k \in DOMAIN xLive :
             /\ xLive[k] = i
             /\ Remaining(xLive, row, xBook)[k - 1] \in [Leg -> Int]
             /\ takes[i] = Consumed(row[i], Remaining(xLive, row, xBook)[k - 1])
        /\ \A leg \in Leg :
             SumFunctionOnSet(Takes(live_legs_rows, row, takes, leg), live_legs_rows)
               = book[leg] - Unexplained[leg]
  BY <1>1, Taken DEF Deciding, Decision
<1>7. ASSUME NEW i \in live_legs_rows
      PROVE  /\ \A leg \in Leg : Will(leg)'[i] = takes[i] * LegSign(row[i].spread, leg)
             /\ i \in askedRows' => row[i].spread[1] \in asked' /\ row[i].spread[2] \in asked'
             /\ \A r \in xRes' : r.kind \in RowKinds /\ r.pid = i =>
                  i \notin askedRows' /\ (r.kind = "adjust_qty" => r.qty > 0)
  <2>1. PICK k \in DOMAIN xLive, left \in [Leg -> Int] :
          /\ xLive[k] = i /\ left = Remaining(xLive, row, xBook)[k - 1]
          /\ takes[i] = Consumed(row[i], left)
    BY <1>6
  <2> QED BY <1>1, <2>1, RowsStay
<1>8. ASSUME NEW r \in xRes', r.kind \in RowKinds PROVE r.pid \in live_legs_rows
  BY <1>2, <1>8
<1>9. ASSUME NEW leg \in Leg
      PROVE  Final(leg)' = (book[leg] - Unexplained[leg]) + Arrives(Arrivals(xRes', leg), leg)
  <2>1. PICK f : f = Will(leg)'
    OBVIOUS
  <2>2. \A i \in RowId : f[i] = IF i \in live_legs_rows THEN f[i] ELSE 0
    BY <1>2, <2>1 DEF Will, Settled
  <2>3. PICK g : g = Takes(live_legs_rows, row, takes, leg)
    OBVIOUS
  <2>4. \A i \in live_legs_rows : g[i] \in Int /\ g[i] = f[i]
    BY <1>7, <2>1, <2>3, SignIs DEF Takes
  <2>5. SumFunctionOnSet(f, RowId) = SumFunctionOnSet(g, live_legs_rows)
    BY <1>5, <2>2, <2>4, SumPadded
  <2> QED BY <1>6, <2>1, <2>3, <2>5 DEF Final
<1>10. ASSUME NEW leg \in Leg
       PROVE  Between(Final(leg)', book[leg]) /\ (leg \notin asked' => Final(leg)' = book[leg])
  <2>1. PICK b \in Int, u \in Int : b = book[leg] /\ u = Unexplained[leg] /\ Between(u, b)
    BY <1>5
  <2>2. \/ Arrives(Arrivals(xRes', leg), leg) = u
        \/ Arrives(Arrivals(xRes', leg), leg) = 0 /\ leg \in asked'
    BY <1>1, <2>1, LegsArrive
  <2>3. Between(b, b) /\ Between(b - u, b)
    BY <2>1 DEF Between
  <2>4. Final(leg)' = (b - u) + Arrives(Arrivals(xRes', leg), leg)
    BY <1>9, <2>1
  <2>5. CASE Arrives(Arrivals(xRes', leg), leg) = u
    <3>1. Final(leg)' = b
      BY <2>1, <2>4, <2>5
    <3> QED BY <2>1, <2>3, <3>1
  <2>6. CASE Arrives(Arrivals(xRes', leg), leg) = 0 /\ leg \in asked'
    <3>1. Final(leg)' = b - u
      BY <2>1, <2>4, <2>6
    <3> QED BY <2>1, <2>3, <2>6, <3>1
  <2> QED BY <2>2, <2>5, <2>6
<1>11. \A r \in xRes' : r.kind \in RowKinds => r.pid \notin askedRows'
  BY <1>7, <1>8
<1>12. \A r \in xRes' : r.kind \in {"adjust_qty", "reactivate", "adopt"} => r.qty > 0
  BY <1>3, <1>4, <1>7, <1>8
<1>13. askedRows' \subseteq live_legs_rows \cup {0}
  BY <1>2, <1>3
<1>14. \A i \in askedRows' \ {0} : {row[i].spread[1], row[i].spread[2]} \subseteq asked'
  BY <1>7, <1>13
<1>15. \A leg \in Leg : Between(Final(leg), book[leg])' /\ (leg \notin asked => Final(leg) = book[leg])'
  BY <1>2, <1>10 DEF Between
<1> QED BY <1>2, <1>4, <1>11, <1>12, <1>13, <1>14, <1>15 DEF Outcome

-----------------------------------------------------------------------------
(***************************************************************************)
(* The step that applies a decision.                                       *)
(***************************************************************************)
LEMMA ApplyIs ==
  ASSUME PassInv, NEW r \in xRes, ApplyFix(r), UNCHANGED history
  PROVE  /\ xRes' = xRes \ {r} /\ book' = book /\ asked' = asked /\ askedRows' = askedRows
         /\ xpc' = "log" /\ Outcome /\ row \in [RowId -> RowType] /\ r \in ResType
         /\ \A q \in xRes : DecisionStands(q) /\ (q.kind # "adopt" => q.pid \in RowId)
         /\ \A q \in xRes : q.kind # "adopt" /\ q.pid = r.pid => q = r
<1>1. /\ xRes' = xRes \ {r} /\ book' = book /\ asked' = asked /\ askedRows' = askedRows
      /\ xpc' = "log" /\ xpc = "apply"
  BY DEF ApplyFix, broker, history
<1> QED BY <1>1 DEF PassInv, Inv, TableInv, TableType, ExitsInv, ExitsType, DecisionsStand, Reconciling

\* A fix of a live row closes it or leaves it the contracts decided.
LEMMA RowFixed ==
  ASSUME PassInv, NEW r \in xRes, ApplyFix(r), UNCHANGED history, r.kind \in RowKinds
  PROVE  /\ r.pid \in live_legs_rows
         /\ \A j \in RowId \ {r.pid} : row'[j] = row[j]
         /\ \/ r.kind # "adjust_qty" /\ row'[r.pid].status = "closed"
            \/ /\ r.kind = "adjust_qty" /\ row'[r.pid].status = row[r.pid].status
               /\ row'[r.pid].spread = row[r.pid].spread /\ row'[r.pid].qty = r.qty
<1>1. PICK i, o, n : i = r.pid /\ o = r.order /\ n = r.qty
  OBVIOUS
<1>2. /\ r.kind # "adopt" /\ r.kind # "reactivate"
      /\ i \in live_legs_rows /\ i \in RowId /\ row[i] \in RowType /\ row \in [RowId -> RowType]
      /\ row[i].qty > 0
  <2>1. r.kind # "adopt" /\ r.kind # "reactivate"
    BY DEF RowKinds
  <2>2. i \in RowId /\ row[i].status \in LIVE_STATUSES /\ row \in [RowId -> RowType]
    BY <1>1, <2>1, ApplyIs DEF DecisionStands
  <2>3. i \in live_legs_rows
    BY <2>2 DEF live_legs_rows, WithStatus
  <2> QED BY <2>1, <2>2, <2>3, LiveRows DEF GoodRow
<1>3. CASE close_position(i, o, "fill") /\ r.kind # "adjust_qty"
  BY <1>1, <1>2, <1>3 DEF close_position, RowType
<1>4. CASE close_position(i, 0, "expired") /\ r.kind # "adjust_qty"
  BY <1>1, <1>2, <1>4 DEF close_position, RowType
<1>5. CASE adjust_contracts(i, n) /\ r.kind = "adjust_qty"
  BY <1>1, <1>2, <1>5 DEF adjust_contracts, RowType
<1> QED BY <1>1, <1>2, <1>3, <1>4, <1>5 DEF ApplyFix, _apply_resolution

\* The other fixes add a live row with the legs and the contracts decided.
LEMMA RowAdded ==
  ASSUME PassInv, NEW r \in xRes, ApplyFix(r), UNCHANGED history, r.kind \notin RowKinds
  PROVE  \E i \in RowId \ live_legs_rows :
           /\ \A j \in RowId \ {i} : row'[j] = row[j]
           /\ row'[i].status = "open" /\ row'[i].spread = r.spread /\ row'[i].qty = r.qty
<1>1. PICK p, o, n, v : p = r.pid /\ o = r.order /\ n = r.qty /\ v = r.spread
  OBVIOUS
<1>2. row \in [RowId -> RowType] /\ r \in ResType
  BY ApplyIs
<1>3. CASE r.kind = "reactivate" /\ reactivate_position(p, n)
  <2>1. p \in RowId /\ row[p].status = "unfilled" /\ row[p].spread = v
    BY <1>1, <1>3, ApplyIs DEF DecisionStands
  <2>2. p \notin live_legs_rows
    BY <2>1 DEF live_legs_rows, WithStatus, LIVE_STATUSES
  <2>3. /\ \A j \in RowId \ {p} : row'[j] = row[j]
        /\ row'[p].status = "open" /\ row'[p].spread = v /\ row'[p].qty = n
    BY <1>2, <1>3, <2>1 DEF reactivate_position, RowType
  <2> QED BY <1>1, <2>1, <2>2, <2>3
<1>4. CASE r.kind = "adopt" /\ adopt_position(v, n, o)
  <2>1. PICK i \in RowId :
          /\ i = rows + 1
          /\ row' = [row EXCEPT ![i] = [status |-> "open", spread |-> v, qty |-> n, order |-> 0,
                                       entry |-> o, born |-> sent, exit |-> 0, how |-> "none"]]
    BY <1>4 DEF adopt_position, Insert
  <2>2. i \notin live_legs_rows
    <3>1. rows \in Nat
      BY BoundsAssumption DEF PassInv, Inv, TableInv, TableType
    <3>2. row[i].status = "none"
      BY <2>1, <3>1 DEF PassInv, Inv, TableInv, RowsNumbered, NoRow
    <3> QED BY <3>2 DEF live_legs_rows, WithStatus, LIVE_STATUSES
  <2>3. /\ \A j \in RowId \ {i} : row'[j] = row[j]
        /\ row'[i].status = "open" /\ row'[i].spread = v /\ row'[i].qty = n
    BY <1>2, <2>1
  <2> QED BY <1>1, <2>1, <2>2, <2>3
<1> QED BY <1>1, <1>3, <1>4 DEF ApplyFix, _apply_resolution, RowKinds

\* A row the step does not touch will have what it would have.
LEMMA OtherRows ==
  ASSUME NEW j \in RowId, NEW leg, row'[j] = row[j], askedRows' = askedRows,
         Fate(xRes', j) = Fate(xRes, j)
  PROVE  Will(leg)'[j] = Will(leg)[j]
<1>1. j \in live_legs_rows' <=> j \in live_legs_rows
  BY DEF live_legs_rows, WithStatus
<1> QED BY <1>1 DEF Will, Settled

\* What a row will have is a number.
LEMMA WillType ==
  ASSUME PassInv, Outcome, NEW leg \in Leg
  PROVE  \A j \in RowId : Will(leg)[j] \in Int
<1> SUFFICES ASSUME NEW j \in RowId PROVE Will(leg)[j] \in Int
  OBVIOUS
<1>1. CASE j \notin Settled
  BY <1>1 DEF Will
<1>2. CASE j \in Settled
  <2>1. PICK n \in Int : n = Stays(row[j], Fate(xRes, j))
    <3>1. row[j].qty \in Int
      BY <1>2, LiveRows DEF Settled, GoodRow
    <3>2. \A d \in xRes : d.qty \in Int
      BY DEF PassInv, Inv, ExitsInv, ExitsType, ResType
    <3>3. CASE Fate(xRes, j) = {}
      BY <3>1, <3>3, StaysIs
    <3>4. CASE Fate(xRes, j) # {}
      <4>1. PICK d : d = (CHOOSE x \in Fate(xRes, j) : TRUE)
        OBVIOUS
      <4>2. d \in xRes
        BY <3>4, <4>1 DEF Fate
      <4>3. Stays(row[j], Fate(xRes, j)) = IF d.kind = "adjust_qty" THEN d.qty ELSE 0
        BY <3>4, <4>1 DEF Stays
      <4> QED BY <3>2, <4>2, <4>3
    <3> QED BY <3>3, <3>4
  <2>2. Will(leg)[j] = n * LegSign(row[j].spread, leg)
    BY <1>2, <2>1 DEF Will
  <2> QED BY <2>1, <2>2, SignIs
<1> QED BY <1>1, <1>2

\* A fix of a live row is what the pass counted with.
LEMMA FixedFinal ==
  ASSUME PassInv, NEW r \in xRes, ApplyFix(r), UNCHANGED history, r.kind \in RowKinds,
         NEW leg \in Leg
  PROVE  Final(leg)' = Final(leg)
<1>1. /\ xRes' = xRes \ {r} /\ askedRows' = askedRows /\ Outcome
      /\ \A q \in xRes : q.kind # "adopt" /\ q.pid = r.pid => q = r
  BY ApplyIs
<1>2. PICK i : i = r.pid
  OBVIOUS
<1>3. /\ i \in RowId /\ i \in live_legs_rows /\ i \notin askedRows
      /\ \A j \in RowId \ {i} : row'[j] = row[j]
      /\ \/ r.kind # "adjust_qty" /\ row'[i].status = "closed"
         \/ /\ r.kind = "adjust_qty" /\ row'[i].status = row[i].status
            /\ row'[i].spread = row[i].spread /\ row'[i].qty = r.qty
  BY <1>1, <1>2, RowFixed, LiveRows DEF Outcome
<1>4. Fate(xRes, i) = {r} /\ Fate(xRes', i) = {}
  <2>1. \A q \in xRes : (q.kind \in RowKinds /\ q.pid = i) <=> q = r
    BY <1>1, <1>2 DEF RowKinds
  <2> QED BY <1>1, <2>1 DEF Fate
<1>5. \A j \in RowId \ {i} : Fate(xRes', j) = Fate(xRes, j)
  BY <1>1, <1>2 DEF Fate
<1>6. Arrivals(xRes', leg) = Arrivals(xRes, leg)
  BY <1>1 DEF Arrivals
<1>7. Will(leg)'[i] = Will(leg)[i]
  <2>1. Will(leg)[i] = (IF r.kind = "adjust_qty" THEN r.qty ELSE 0) * LegSign(row[i].spread, leg)
    BY <1>3, <1>4, StaysIs DEF Will, Settled
  <2>2. CASE r.kind # "adjust_qty"
    <3>1. i \notin live_legs_rows'
      BY <1>3, <2>2 DEF live_legs_rows, WithStatus, LIVE_STATUSES
    <3>2. Will(leg)'[i] = 0
      BY <1>3, <3>1 DEF Will, Settled
    <3>3. Will(leg)[i] = 0
      BY <2>1, <2>2 DEF LegSign
    <3> QED BY <3>2, <3>3
  <2>3. CASE r.kind = "adjust_qty"
    <3>1. i \in Settled'
      BY <1>1, <1>3, <2>3 DEF Settled, live_legs_rows, WithStatus
    <3>2. Stays(row'[i], Fate(xRes', i)) = r.qty
      BY <1>3, <1>4, <2>3, StaysIs
    <3>3. Will(leg)'[i] = r.qty * LegSign(row[i].spread, leg)
      BY <1>3, <2>3, <3>1, <3>2 DEF Will
    <3> QED BY <2>1, <2>3, <3>3
  <2> QED BY <2>2, <2>3
<1>8. \A j \in RowId : Will(leg)'[j] = Will(leg)[j]
  BY <1>1, <1>3, <1>5, <1>7, OtherRows
<1>9. SumFunctionOnSet(Will(leg), RowId)' = SumFunctionOnSet(Will(leg), RowId)
  <2>1. PICK f, g : f = Will(leg) /\ g = Will(leg)'
    OBVIOUS
  <2>2. IsFiniteSet(RowId) /\ \A j \in RowId : f[j] \in Int /\ g[j] = f[j]
    BY <1>1, <1>8, <2>1, LiveRows, WillType
  <2>3. SumFunctionOnSet(f, RowId) = SumFunctionOnSet(g, RowId)
    BY <2>2, SumSame
  <2> QED BY <2>1, <2>3
<1> QED BY <1>6, <1>9 DEF Final

\* So is the row a fix adds, which was counted with its legs before.
LEMMA AddedFinal ==
  ASSUME PassInv, NEW r \in xRes, ApplyFix(r), UNCHANGED history, r.kind \notin RowKinds,
         NEW leg \in Leg
  PROVE  Final(leg)' = Final(leg)
<1>1. /\ xRes' = xRes \ {r} /\ askedRows' = askedRows /\ Outcome /\ r \in ResType
      /\ \A q \in xRes : DecisionStands(q)
  BY ApplyIs
<1>2. PICK n \in Int, v \in Spread : n = r.qty /\ v = r.spread
  BY <1>1 DEF ResType
<1>3. PICK i \in RowId \ live_legs_rows :
        /\ \A j \in RowId \ {i} : row'[j] = row[j]
        /\ row'[i].status = "open" /\ row'[i].spread = v /\ row'[i].qty = n
  BY <1>2, RowAdded
<1>4. i \notin askedRows
  BY <1>1, LiveRows DEF Outcome
<1>5. \A j \in RowId : Fate(xRes', j) = Fate(xRes, j)
  BY <1>1 DEF Fate
<1>6. Fate(xRes', i) = {}
  <2>1. ASSUME NEW q \in xRes, q.kind \in RowKinds, q.pid = i PROVE FALSE
    BY <1>1, <1>3, <2>1 DEF DecisionStands, live_legs_rows, WithStatus
  <2> QED BY <1>1, <2>1 DEF Fate
<1>7. Will(leg)[i] = 0 /\ Will(leg)'[i] = n * LegSign(v, leg)
  <2>1. Will(leg)[i] = 0
    BY <1>3 DEF Will, Settled
  <2>2. i \in Settled'
    BY <1>1, <1>3, <1>4 DEF Settled, live_legs_rows, WithStatus, LIVE_STATUSES
  <2>3. Stays(row'[i], Fate(xRes', i)) = n
    BY <1>3, <1>6, StaysIs
  <2> QED BY <1>3, <2>1, <2>2, <2>3 DEF Will
<1>8. \A j \in RowId \ {i} : Will(leg)'[j] = Will(leg)[j]
  BY <1>1, <1>3, <1>5, OtherRows
<1>9. PICK total \in Int : total = SumFunctionOnSet(Will(leg), RowId)
  BY <1>1, LiveRows, WillType, SumType
<1>10. SumFunctionOnSet(Will(leg), RowId)' = total + n * LegSign(v, leg)
  <2>1. PICK f, g : f = Will(leg) /\ g = Will(leg)'
    OBVIOUS
  <2>2. PICK m \in Int : m = n * LegSign(v, leg)
    BY SignIs
  <2>3. f[i] = 0 /\ g[i] = m
    BY <1>7, <2>1, <2>2
  <2>4. /\ IsFiniteSet(RowId) /\ \A j \in RowId : f[j] \in Int /\ g[j] \in Int
        /\ \A j \in RowId \ {i} : g[j] = f[j]
    <3>1. \A j \in RowId : f[j] \in Int
      BY <1>1, <2>1, WillType
    <3> QED BY <1>8, <2>1, <2>3, <3>1, LiveRows
  <2>5. SumFunctionOnSet(g, RowId) = (SumFunctionOnSet(f, RowId) + g[i]) - f[i]
    BY <2>4, SumChange
  <2> QED BY <1>9, <2>1, <2>2, <2>3, <2>5
<1>11. CASE leg \in {v[1], v[2]}
  <2>1. Arrivals(xRes, leg) = {r} /\ Arrivals(xRes', leg) = {}
    <3>1. \A q \in xRes : (q.kind \notin RowKinds /\ leg \in {q.spread[1], q.spread[2]}) <=> q = r
      BY <1>1, <1>2, <1>11 DEF Outcome
    <3> QED BY <1>1, <3>1 DEF Arrivals
  <2>2. Arrives(Arrivals(xRes, leg), leg) = n * LegSign(v, leg) /\ Arrives(Arrivals(xRes', leg), leg) = 0
    BY <1>2, <2>1, ArrivesIs
  <2>3. PICK m \in Int : m = n * LegSign(v, leg)
    BY SignIs
  <2>4. Final(leg) = total + m /\ Final(leg)' = (total + m) + 0
    BY <1>9, <1>10, <2>2, <2>3 DEF Final
  <2> QED BY <2>4
<1>12. CASE leg \notin {v[1], v[2]}
  <2>1. Arrivals(xRes', leg) = Arrivals(xRes, leg)
    BY <1>1, <1>2, <1>12 DEF Arrivals
  <2>2. n * LegSign(v, leg) = 0
    BY <1>12, SignIs
  <2>3. SumFunctionOnSet(Will(leg), RowId)' = total
    BY <1>10, <2>2
  <2> QED BY <1>9, <2>1, <2>3 DEF Final
<1> QED BY <1>11, <1>12

\* Applying a decision leaves what the pass will come to as it was.
LEMMA ApplyKept ==
  ASSUME PassInv, NEW r \in xRes, ApplyFix(r), UNCHANGED history
  PROVE  Outcome' /\ \A i \in live_legs_rows' : row'[i].qty > 0
<1>1. /\ xRes' = xRes \ {r} /\ book' = book /\ asked' = asked /\ askedRows' = askedRows
      /\ Outcome
  BY ApplyIs
<1>2. PICK i \in RowId :
        /\ i \notin askedRows
        /\ \A j \in RowId \ {i} : row'[j] = row[j]
        /\ i \in live_legs_rows' => row'[i].qty > 0
  <2>1. CASE r.kind \in RowKinds
    <3>1. PICK i : i = r.pid
      OBVIOUS
    <3>2. i \in RowId /\ i \notin askedRows /\ \A j \in RowId \ {i} : row'[j] = row[j]
      BY <1>1, <2>1, <3>1, RowFixed, LiveRows DEF Outcome
    <3>3. ASSUME i \in live_legs_rows' PROVE row'[i].qty > 0
      <4>1. row'[i].status # "closed"
        BY <3>3 DEF live_legs_rows, WithStatus, LIVE_STATUSES
      <4>2. r.kind = "adjust_qty" /\ row'[i].qty = r.qty
        BY <2>1, <3>1, <4>1, RowFixed
      <4> QED BY <1>1, <4>2 DEF Outcome
    <3> QED BY <3>2, <3>3
  <2>2. CASE r.kind \notin RowKinds
    <3>1. PICK i \in RowId \ live_legs_rows :
            /\ \A j \in RowId \ {i} : row'[j] = row[j]
            /\ row'[i].qty = r.qty
      BY <2>2, RowAdded
    <3>2. i \notin askedRows
      BY <1>1, <3>1, LiveRows DEF Outcome
    <3>3. r.qty > 0
      BY <1>1, <2>2, ApplyIs DEF Outcome, ResType, FixKinds
    <3> QED BY <3>1, <3>2, <3>3
  <2> QED BY <2>1, <2>2
<1>3. \A leg \in Leg : Final(leg)' = Final(leg)
  BY FixedFinal, AddedFinal
<1>4. \A j \in live_legs_rows \ {i} : j \in live_legs_rows'
  BY <1>2 DEF live_legs_rows, WithStatus
<1>5. \A j \in live_legs_rows' \ {i} : j \in live_legs_rows /\ row'[j] = row[j]
  BY <1>2 DEF live_legs_rows, WithStatus
<1>6. \A j \in live_legs_rows' : row'[j].qty > 0
  BY <1>2, <1>5, LiveRows DEF GoodRow
<1>7. askedRows' \subseteq live_legs_rows' \cup {0}
  BY <1>1, <1>2, <1>4 DEF Outcome
<1>8. \A j \in askedRows' \ {0} : {row'[j].spread[1], row'[j].spread[2]} \subseteq asked'
  <2>1. \A j \in askedRows \ {0} : row'[j] = row[j]
    BY <1>1, <1>2, LiveRows DEF Outcome
  <2> QED BY <1>1, <2>1 DEF Outcome
<1>9. \A leg \in Leg : Between(Final(leg), book[leg])' /\ (leg \notin asked => Final(leg) = book[leg])'
  BY <1>1, <1>3 DEF Outcome, Between
<1>10. /\ \A q \in xRes' : q.kind \in RowKinds => q.pid \notin askedRows'
       /\ \A q \in xRes' : q.kind \in {"adjust_qty", "reactivate", "adopt"} => q.qty > 0
       /\ \A p, q \in xRes' : (p.kind \notin RowKinds /\ q.kind \notin RowKinds /\ p # q) =>
            {p.spread[1], p.spread[2]} \cap {q.spread[1], q.spread[2]} = {}
  BY <1>1 DEF Outcome
<1> QED BY <1>6, <1>7, <1>8, <1>9, <1>10 DEF Outcome

-----------------------------------------------------------------------------
(***************************************************************************)
(* The invariant of a pass.                                                *)
(***************************************************************************)
LEMMA OutcomeFrame ==
  ASSUME Outcome, UNCHANGED <<row, book, xRes, asked, askedRows>>
  PROVE  Outcome'
<1>1. live_legs_rows' = live_legs_rows
  BY DEF live_legs_rows, WithStatus
<1>2. \A leg \in Leg : Final(leg)' = Final(leg)
  <2>1. \A leg \in Leg : Will(leg)' = Will(leg)
    BY <1>1 DEF Will, Settled
  <2> QED BY <2>1 DEF Final
<1>3. \A leg \in Leg : Between(Final(leg), book[leg])' /\ (leg \notin asked => Final(leg) = book[leg])'
  BY <1>2 DEF Outcome, Between
<1> QED BY <1>1, <1>3 DEF Outcome

\* A finite set is listed in full.
LEMMA SetToSeqIs ==
  ASSUME NEW S, IsFiniteSet(S)
  PROVE  SetToSeq(S) \in Seq(S) /\ Len(SetToSeq(S)) = Cardinality(S) /\ Cardinality(S) \in Nat
<1>1. PICK n \in Nat : n = Cardinality(S)
  BY FS_CardinalityType
<1>2. \E f \in [1..n -> S] : IsInjective(f)
  BY <1>1, FS_CardinalityType DEF ExistsBijection, Bijection, Injection
<1>3. SetToSeq(S) \in [1..n -> S]
  BY <1>1, <1>2 DEF SetToSeq
<1> QED BY <1>1, <1>3

\* The orders a pass starts with.
LEMMA StartOrders ==
  ASSUME NEW filled, IsFiniteSet(filled), filled \subseteq Spread \X Side,
         Cardinality(filled) <= MaxOrders
  PROVE  /\ Cardinality(filled) \in 0..MaxOrders
         /\ \A o \in OrderId :
              IF o <= Cardinality(filled)
              THEN \E v \in Spread, side \in Side : OrdersOf(filled)[o] = Filled(v, side, o)
              ELSE OrdersOf(filled)[o] = NoOrder
<1> DEFINE A == { f \in filled : f[2] = "entry" }
           B == { f \in filled : f[2] = "close" }
           list == SetToSeq(A) \o SetToSeq(B)
<1>1. A \cup B = filled /\ A \cap B = {} /\ A \subseteq filled /\ B \subseteq filled
  BY DEF Side
<1>2. \A o \in OrderId : OrdersOf(filled)[o] =
        IF o \in DOMAIN list THEN Filled(list[o][1], list[o][2], o) ELSE NoOrder
  BY DEF OrdersOf
<1> HIDE DEF A, B
<1>3. IsFiniteSet(A) /\ IsFiniteSet(B) /\ IsFiniteSet(A \cap B) /\ Cardinality(A \cap B) = 0
  BY <1>1, FS_Subset, FS_EmptySet
<1>4. Cardinality(filled) = Cardinality(A) + Cardinality(B) - Cardinality(A \cap B)
  BY <1>1, <1>3, FS_Union
<1>5. /\ SetToSeq(A) \in Seq(filled) /\ SetToSeq(B) \in Seq(filled)
      /\ Len(SetToSeq(A)) = Cardinality(A) /\ Len(SetToSeq(B)) = Cardinality(B)
      /\ Cardinality(A) \in Nat /\ Cardinality(B) \in Nat
  BY <1>1, <1>3, SetToSeqIs
<1>6. list \in Seq(filled) /\ Len(list) = Cardinality(A) + Cardinality(B)
  <2>1. PICK p \in Seq(filled), q \in Seq(filled) : p = SetToSeq(A) /\ q = SetToSeq(B)
    BY <1>5
  <2>2. p \o q \in Seq(filled) /\ Len(p \o q) = Len(p) + Len(q)
    OBVIOUS
  <2>3. list = p \o q
    BY <2>1
  <2> HIDE DEF list
  <2> QED BY <1>5, <2>1, <2>2, <2>3
<1>7. Len(list) = Cardinality(filled) /\ Len(list) \in Nat
  BY <1>3, <1>4, <1>5, <1>6
<1> HIDE DEF list
<1>8. DOMAIN list = 1..Len(list) /\ \A o \in 1..Len(list) : list[o] \in filled
  BY <1>6
<1>9. ASSUME NEW o \in OrderId, o <= Cardinality(filled)
      PROVE  \E v \in Spread, side \in Side : OrdersOf(filled)[o] = Filled(v, side, o)
  <2>1. o \in 1..Len(list)
    BY <1>7, <1>9 DEF OrderId
  <2>2. PICK v \in Spread, side \in Side : list[o] = <<v, side>>
    BY <1>8, <2>1
  <2>3. OrdersOf(filled)[o] = Filled(v, side, o)
    BY <1>2, <1>8, <2>1, <2>2
  <2> QED BY <2>3
<1>10. ASSUME NEW o \in OrderId, ~(o <= Cardinality(filled)) PROVE OrdersOf(filled)[o] = NoOrder
  BY <1>2, <1>7, <1>8, <1>10 DEF OrderId
<1>11. Cardinality(filled) \in 0..MaxOrders
  BY <1>7, BoundsAssumption
<1> QED BY <1>9, <1>10, <1>11

LEMMA PassInitInv == PassInit => PassInv
<1> SUFFICES ASSUME PassInit PROVE PassInv
  OBVIOUS
<1>1. PICK e \in Evidence : order = OrdersOf(e.filled) /\ sent = Cardinality(e.filled) /\ acts = e.acts
  BY DEF PassInit
<1>2. /\ IsFiniteSet(e.filled) /\ e.filled \subseteq Spread \X Side /\ Cardinality(e.filled) <= MaxOrders
      /\ acts \subseteq [leg : Leg, type : {"OPEXP", "OPASN", "OPEXC"}]
      /\ book \in [Leg -> Int] /\ MaxRows >= 3 /\ MaxRows \in Nat
  BY <1>1, StartAssumption, BoundsAssumption DEF PassInit
<1>3. BrokerInv /\ sent \in Nat
  <2>1. /\ sent \in 0..MaxOrders
        /\ \A o \in OrderId :
             IF o <= sent THEN \E v \in Spread, side \in Side : order[o] = Filled(v, side, o)
             ELSE order[o] = NoOrder
    BY <1>1, <1>2, StartOrders
  <2>2. \A v \in Spread, side \in Side, o \in OrderId :
          /\ Filled(v, side, o) \in OrderType
          /\ Filled(v, side, o).status = "filled" /\ Filled(v, side, o).spread = v
    BY DEF Filled, OrderType, OrderStatus, MaybeSpread
  <2>3. NoOrder \in OrderType
    BY DEF NoOrder, OrderType, OrderStatus, MaybeSpread, Side
  <2>4. \A o \in OrderId : order[o] \in OrderType
    BY <2>1, <2>2, <2>3
  <2>5. order = [o \in OrderId |-> order[o]]
    BY <1>1 DEF OrdersOf
  <2>6. BrokerType
    BY <1>2, <2>1, <2>4, <2>5 DEF BrokerType
  <2>7. OrdersNumbered
    BY <2>1, <2>2 DEF OrdersNumbered
  <2> QED BY <2>1, <2>6, <2>7, BoundsAssumption DEF BrokerInv
<1>4. PICK v \in Spread, m \in 1..MaxQty, w \in Spread, n \in 1..MaxQty, x \in Spread :
        row = [i \in RowId |-> IF i = 1 THEN StartRow("open", v, m)
                              ELSE IF i = 2 THEN StartRow("open", w, n)
                              ELSE IF i = 3 THEN StartRow("unfilled", x, 1) ELSE NoRow]
  BY DEF PassInit, StartTables
<1>5. ASSUME NEW i \in RowId
      PROVE  \/ /\ i <= 3 /\ \E status \in {"open", "unfilled"}, u \in Spread, q \in Nat \ {0} :
                              row[i] = StartRow(status, u, q)
             \/ i > 3 /\ row[i] = NoRow
  BY <1>2, <1>4, BoundsAssumption DEF RowId
<1>6. ASSUME NEW status \in {"open", "unfilled"}, NEW u \in Spread, NEW q \in Nat \ {0}
      PROVE  /\ StartRow(status, u, q) \in RowType
             /\ StartRow(status, u, q).status = status /\ StartRow(status, u, q).spread = u
             /\ StartRow(status, u, q).qty = q /\ StartRow(status, u, q).order = 0
             /\ StartRow(status, u, q).entry = 0 /\ StartRow(status, u, q).born = 0
  BY DEF StartRow, NoRow, RowType, RowStatus, MaybeSpread, How
<1>7. NoRow \in RowType /\ NoRow.status = "none" /\ NoRow.order = 0
  BY DEF NoRow, RowType, RowStatus, MaybeSpread, How
<1>8. ASSUME NEW i \in RowId
      PROVE  /\ row[i] \in RowType /\ row[i].order = 0 /\ row[i].status \in {"none", "open", "unfilled"}
             /\ row[i].status = "open" => row[i].entry = 0 /\ row[i].qty > 0
             /\ IF i <= 3 THEN row[i].status # "none" /\ row[i].spread \in Spread /\ row[i].born <= sent
                ELSE row[i] = NoRow
  <2>1. CASE i > 3 /\ row[i] = NoRow
    BY <1>7, <2>1 DEF RowId
  <2>2. ASSUME i <= 3, NEW status \in {"open", "unfilled"}, NEW u \in Spread, NEW q \in Nat \ {0},
               row[i] = StartRow(status, u, q)
        PROVE  /\ row[i] \in RowType /\ row[i].order = 0 /\ row[i].status \in {"none", "open", "unfilled"}
               /\ row[i].status = "open" => row[i].entry = 0 /\ row[i].qty > 0
               /\ IF i <= 3 THEN row[i].status # "none" /\ row[i].spread \in Spread /\ row[i].born <= sent
                  ELSE row[i] = NoRow
    BY <1>3, <1>6, <2>2
  <2> QED BY <1>5, <2>1, <2>2
<1>9. TableInv
  <2>1. row \in [RowId -> RowType]
    BY <1>4, <1>8
  <2>2. rows = 3 /\ rows \in 0..MaxRows
    BY <1>2 DEF PassInit
  <2>3. TableType /\ RowsNumbered
    BY <1>8, <2>1, <2>2 DEF TableType, RowsNumbered
  <2>4. OrderOwnership /\ ClosesAreLater /\ PnlHasEvidence
    BY <1>8 DEF OrderOwnership, ClosesAreLater, PnlHasEvidence
  <2>5. OpenHasFill
    BY <1>8 DEF OpenHasFill
  <2> QED BY <2>3, <2>4, <2>5 DEF TableInv
<1>10. EntriesInv
  BY BoundsAssumption DEF PassInit, EntriesInv, EntriesType, EntriesPc, MaybeSpread, Placing
<1>11. ExitsInv
  <2>1. DOMAIN xLive = {}
    BY DEF PassInit
  <2>2. xBook \in [Leg -> Int] /\ xRes = {}
    BY DEF PassInit
  <2>3. xFixed \in BOOLEAN
    BY DEF PassInit
  <2>4. xpc \in ExitsPc /\ xTodo \subseteq RowId /\ xRow \in 0..MaxRows /\ xOrder \in 0..MaxOrders
    BY BoundsAssumption DEF PassInit, ExitsPc
  <2>5. Managing /\ Reconciling /\ DecisionsStand
    BY <2>2 DEF PassInit, Managing, Reconciling, DecisionsStand
  <2> QED BY <2>1, <2>2, <2>3, <2>4, <2>5 DEF ExitsInv, ExitsType
<1>12. CountInv
  <2>1. ok \in BOOLEAN
    BY DEF PassInit
  <2> QED BY <2>1, BoundsAssumption DEF PassInit, CountInv, CountType, Budget
<1>13. \A i \in live_legs_rows : row[i].qty > 0
  BY <1>8 DEF live_legs_rows, WithStatus, LIVE_STATUSES
<1>14. xpc = "live"
  BY DEF PassInit
<1> QED BY <1>3, <1>9, <1>10, <1>11, <1>12, <1>13, <1>14 DEF PassInv, Inv

\* A pass on its own is made of steps of the order lifecycle.
LEMMA PassIsNext == [PassNext]_<<vars, history>> => [Next]_vars
<1>1. CASE UNCHANGED <<vars, history>>
  BY <1>1
<1>2. CASE Decide
  <2>1. \E pair \in Pairings(Unexplained), prev \in UnfilledByLegs(unfilled_rows, row) :
          ReadEvidence(pair, prev)
    BY <1>2 DEF Decide
  <2> QED BY <1>2, <2>1 DEF Decide, Next, ExitsStep, ReconcileStep
<1>3. CASE ReadLive \/ ReadBroker \/ LogFix \/ EndReconcile \/ \E r \in xRes : ApplyFix(r)
  BY <1>3 DEF Next, ExitsStep, ReconcileStep
<1> QED BY <1>1, <1>2, <1>3 DEF PassNext

LEMMA PassStep == PassInv /\ [PassNext]_<<vars, history>> => PassInv'
<1> SUFFICES ASSUME PassInv, [PassNext]_<<vars, history>> PROVE PassInv'
  OBVIOUS
<1>1. Inv'
  BY PassIsNext, NextInv DEF PassInv
<1>2. ASSUME row' = row
      PROVE  live_legs_rows' = live_legs_rows /\ \A i \in live_legs_rows' : row'[i].qty > 0
  BY <1>2 DEF PassInv, live_legs_rows, WithStatus
<1>3. CASE UNCHANGED <<vars, history>>
  <2>1. UNCHANGED <<row, book, xRes, asked, askedRows>> /\ UNCHANGED <<xpc, xLive, xBook>>
    BY <1>3 DEF vars, broker, table, exits, history
  <2> QED BY <1>1, <1>2, <2>1, OutcomeFrame DEF PassInv
<1>4. CASE ReadLive
  <2>1. xpc' = "broker" /\ row' = row /\ xLive' \in Listings(live_legs_rows)
    BY <1>4 DEF ReadLive, table
  <2> QED BY <1>1, <1>2, <2>1 DEF PassInv
<1>5. CASE ReadBroker
  <2>1. /\ row' = row /\ book' = book /\ xpc = "broker"
        /\ \/ xpc' = "idle"
           \/ xpc' = "evidence" /\ xBook' = book /\ xLive' = xLive
    BY <1>5 DEF ReadBroker, Clean, LeaveReconcile, table, broker
  <2> QED BY <1>1, <1>2, <2>1 DEF PassInv
<1>6. CASE LogFix /\ UNCHANGED history
  <2>1. UNCHANGED <<row, book, xRes, asked, askedRows>> /\ xpc = "log" /\ xpc' = "apply"
    BY <1>6 DEF LogFix, table, broker, history
  <2> QED BY <1>1, <1>2, <2>1, OutcomeFrame DEF PassInv
<1>7. CASE EndReconcile
  <2>1. xpc' = "idle" /\ row' = row
    BY <1>7 DEF EndReconcile, LeaveReconcile, table
  <2> QED BY <1>1, <1>2, <2>1 DEF PassInv
<1>8. ASSUME NEW r \in xRes, ApplyFix(r), UNCHANGED history PROVE PassInv'
  BY <1>1, <1>8, ApplyIs, ApplyKept DEF PassInv
<1>9. CASE Decide
  <2>1. xpc' = "apply" /\ row' = row
    BY <1>9 DEF Decide, ReadEvidence, table
  <2> QED BY <1>1, <1>2, <1>9, <2>1, DecideKept DEF PassInv
<1> QED BY <1>3, <1>4, <1>5, <1>6, <1>7, <1>8, <1>9 DEF PassNext

\* The invariant of a pass is inductive.
THEOREM PassInvariance == PassSpec => []PassInv
  BY PassInitInv, PassStep, PTL DEF PassSpec

\* What one pass does on its own is what the exits thread does in OrderLifecycle with
\* nothing going on beside it: every step is one of its steps (_reconcile).
THEOREM PassIsOfTheJob == PassSpec => [][Next]_vars
  BY PassIsNext, PTL DEF PassSpec

\* When nothing is left to apply, the settled rows have what the pass counted with.
LEMMA HeldIs ==
  ASSUME PassInv, Applied, NEW leg \in Leg
  PROVE  expected_legs(Settled, row)[leg] = Final(leg)
<1>1. xRes = {} /\ \A i \in RowId : Fate(xRes, i) = {}
  BY DEF Applied, Fate
<1>2. IsFiniteSet(RowId) /\ Settled \subseteq live_legs_rows /\ Settled \subseteq RowId /\ IsFiniteSet(Settled)
  BY LiveRows, FS_Subset DEF Settled
<1>3. PICK f, g : f = Will(leg) /\ g = OnLeg(Settled, row, leg)
  OBVIOUS
<1>4. ASSUME NEW i \in Settled PROVE g[i] \in Int /\ f[i] = g[i]
  <2>1. PICK q \in Int : q = row[i].qty
    BY <1>2, LiveRows DEF GoodRow
  <2>2. g[i] = q * LegSign(row[i].spread, leg)
    BY <1>3, <2>1 DEF OnLeg
  <2>3. f[i] = q * LegSign(row[i].spread, leg)
    BY <1>1, <1>2, <1>3, <2>1, StaysIs DEF Will
  <2> QED BY <2>1, <2>2, <2>3, SignIs
<1>5. \A i \in RowId : f[i] = IF i \in Settled THEN g[i] ELSE 0
  BY <1>3, <1>4 DEF Will
<1>6. SumFunctionOnSet(f, RowId) = SumFunctionOnSet(g, Settled)
  BY <1>2, <1>4, <1>5, SumPadded
<1>7. expected_legs(Settled, row)[leg] = SumFunctionOnSet(g, Settled) /\ SumFunctionOnSet(g, Settled) \in Int
  BY <1>2, <1>3, <1>4, ExpectedIs, SumType
<1>8. Arrives(Arrivals(xRes, leg), leg) = 0
  <2>1. Arrivals(xRes, leg) = {}
    BY <1>1 DEF Arrivals
  <2> QED BY <2>1, ArrivesIs
<1> QED BY <1>3, <1>6, <1>7, <1>8 DEF Final

\* When a pass has applied what it decided, the rows no person was asked about are at
\* the broker all at once (resolve): what one row takes of a leg is taken out of the
\* book before the next row, and before the legs left over are paired.
THEOREM ExplainedHeld == PassSpec => []ExplainedIsHeld
<1>1. PassInv => ExplainedIsHeld
  <2> SUFFICES ASSUME PassInv, Applied, NEW leg \in Leg
      PROVE  LET held == expected_legs(Settled, row)
             IN  held[leg] \in book[leg]..0 \/ held[leg] \in 0..book[leg]
    BY DEF ExplainedIsHeld, Settled
  <2>1. Between(Final(leg), book[leg])
    BY DEF PassInv, Applied, Outcome
  <2> QED BY <2>1, HeldIs DEF Between
<1> QED BY <1>1, PassInvariance, PTL

\* When a pass has applied what it decided, the two books agree on every leg no person
\* was asked about (_reconcile): of such a leg the decision explains all the broker
\* holds, and every row that has it stands for what was explained.
THEOREM BooksAgree == PassSpec => []AgreeOrAsked
<1>1. PassInv => AgreeOrAsked
  <2> SUFFICES ASSUME PassInv, Applied, NEW leg \in Leg, leg \notin asked
      PROVE  Table[leg] = book[leg]
    BY DEF AgreeOrAsked, diff
  <2>1. Final(leg) = book[leg]
    BY DEF PassInv, Applied, Outcome
  <2>2. /\ IsFiniteSet(live_legs_rows) /\ Settled \in SUBSET live_legs_rows /\ IsFiniteSet(Settled)
        /\ 0 \notin live_legs_rows
    BY LiveRows, FS_Subset DEF Settled
  <2>3. PICK f, g : f = OnLeg(live_legs_rows, row, leg) /\ g = OnLeg(Settled, row, leg)
    OBVIOUS
  <2>4. ASSUME NEW i \in live_legs_rows
        PROVE  f[i] \in Int /\ f[i] = IF i \in Settled THEN g[i] ELSE 0
    <3>1. PICK q \in Int : q = row[i].qty
      BY LiveRows DEF GoodRow
    <3>2. f[i] = q * LegSign(row[i].spread, leg)
      BY <2>3, <3>1 DEF OnLeg
    <3>3. CASE i \in Settled
      <4>1. g[i] = q * LegSign(row[i].spread, leg)
        BY <2>3, <3>1, <3>3 DEF OnLeg
      <4> QED BY <3>1, <3>2, <3>3, <4>1, SignIs
    <3>4. CASE i \notin Settled
      <4>1. i \in askedRows \ {0}
        BY <2>2, <3>4 DEF Settled
      <4>2. leg \notin {row[i].spread[1], row[i].spread[2]}
        BY <4>1 DEF PassInv, Applied, Outcome
      <4> QED BY <3>1, <3>2, <3>4, <4>2, SignIs
    <3> QED BY <3>3, <3>4
  <2>5. \A i \in Settled : g[i] \in Int
    BY <2>2, <2>4
  <2>6. SumFunctionOnSet(f, live_legs_rows) = SumFunctionOnSet(g, Settled)
    BY <2>2, <2>4, <2>5, SumPadded
  <2>7. Table[leg] = SumFunctionOnSet(f, live_legs_rows)
    BY <2>2, <2>3, ExpectedIs DEF Table
  <2>8. expected_legs(Settled, row)[leg] = SumFunctionOnSet(g, Settled)
    BY <2>2, <2>3, ExpectedIs
  <2> QED BY <2>1, <2>6, <2>7, <2>8, HeldIs
<1> QED BY <1>1, PassInvariance, PTL

=============================================================================
