--------------------------- MODULE EntryPass_proofs ---------------------------
(***************************************************************************)
(* Whatever the exits job does between the gates and the fill, the entries *)
(* stay within the caps, the day's budget and the cooldowns, and no two    *)
(* live spreads are one bet: for every set of parameters, every underlying *)
(* and every bound.                                                        *)
(***************************************************************************)
EXTENDS EntryPass, Sums_proofs, SequenceTheorems

(***************************************************************************)
(* The gates: what the size they give keeps.                               *)
(***************************************************************************)

\* What the gates read of the book, as far as they compute with it.
BookTyped(st) ==
  /\ st.premium_at_risk_today \in Nat
  /\ st.risk_by_direction \in [bullish : Nat, bearish : Nat]
  /\ st.net_delta_usd = {} \/ \E net \in Int : st.net_delta_usd = {net}

\* A candidate is a put or a call spread that can lose something.
LEMMA CandidateIs ==
  ASSUME NEW c \in Candidate
  PROVE  /\ c.u \in Underlying /\ c.right \in {"put", "call"} /\ c.loss \in Nat /\ c.loss > 0
         /\ c # NoSpread
<1>1. c \in [u : Underlying, right : {"put", "call"}, short : Int, long : Int, loss : Nat \ {0}]
  BY CandidatesAssumption
<1> QED BY <1>1 DEF NoSpread

\* The contracts of one loss budget are those whose losses it covers.
LEMMA LossFits ==
  ASSUME NEW c \in Candidate, NEW budget \in Int, NEW k \in Int
  PROVE  /\ _max_contracts_by_loss(c, budget) \in Int
         /\ k <= _max_contracts_by_loss(c, budget) <=> k * c.loss <= budget
<1>1. c.loss \in Nat \ {0} /\ ~(c.loss <= 0)
  BY CandidateIs
<1>2. _max_contracts_by_loss(c, budget) = budget \div c.loss
  BY <1>1 DEF _max_contracts_by_loss
<1> QED BY <1>1, <1>2, QuotientFits, DivisionIs

\* The side of a spread is one of the two.
LEMMA SidesTyped ==
  ASSUME NEW c \in Candidate, NEW st, BookTyped(st)
  PROVE  /\ RiskOf(DirectionOf(c.right), st) \in Nat
         /\ RiskOf(OtherSide(DirectionOf(c.right)), st) \in Nat
BY DEF BookTyped, RiskOf, DirectionOf, OtherSide

ShareHolds(c, k, st) ==
  LET side  == DirectionOf(c.right)
      same  == RiskOf(side, st) + k * c.loss
      other == RiskOf(OtherSide(side), st)
  IN  \/ RiskOf(side, st) + other = 0
      \/ same * rules.share_den =< rules.share_num * (same + other)

\* The room of the direction share is the number of contracts that keep the share.
LEMMA ShareFits ==
  ASSUME NEW c \in Candidate, NEW st, BookTyped(st), NEW k \in Nat
  PROVE  /\ ShareRoom(c, st) \subseteq Int /\ IsFiniteSet(ShareRoom(c, st))
         /\ (\A m \in ShareRoom(c, st) : k <= m) <=> ShareHolds(c, k, st)
<1>1. PICK same \in Nat, other \in Nat :
        same = RiskOf(DirectionOf(c.right), st) /\ other = RiskOf(OtherSide(DirectionOf(c.right)), st)
  BY SidesTyped
<1>2. PICK L \in Nat \ {0} : L = c.loss
  BY CandidateIs
<1>3. PICK num \in Nat, den \in Nat : num = rules.share_num /\ den = rules.share_den
  BY RulesAssumption
<1>4. ShareHolds(c, k, st) <=> \/ same + other = 0
                               \/ (same + k * L) * den <= num * (same + k * L + other)
  BY <1>1, <1>2, <1>3 DEF ShareHolds
<1>5. ShareRoom(c, st) = IF (same > 0 \/ other > 0) /\ den - num > 0
                         THEN { (num * other - (den - num) * same) \div (L * (den - num)) } ELSE {}
  BY <1>1, <1>2, <1>3 DEF ShareRoom
<1>6. CASE (same > 0 \/ other > 0) /\ den - num > 0
  <2>1. PICK rest \in Nat \ {0} : rest = den - num
    BY <1>6
  <2>2. PICK a \in Int : a = num * other - rest * same
    OBVIOUS
  <2>3. PICK b \in Nat \ {0} : b = L * rest
    <3>1. L * rest \in Nat \ {0}
      OBVIOUS
    <3> QED BY <3>1
  <2>4. ShareRoom(c, st) = {a \div b}
    BY <1>5, <1>6, <2>1, <2>2, <2>3
  <2>5. a \div b \in Int /\ (k <= a \div b <=> k * b <= a)
    BY QuotientFits, DivisionIs
  <2>6. PICK x \in Nat : x = k * L
    OBVIOUS
  <2>7. k * b = x * rest
    BY <2>3, <2>6
  <2>8. (same + x) * den <= num * (same + x + other) <=> x * rest <= a
    <3>1. den = num + rest
      BY <2>1
    <3>2. (same + x) * den = num * (same + x) + rest * same + x * rest
      BY <3>1
    <3>3. num * (same + x + other) = num * (same + x) + num * other
      OBVIOUS
    <3> QED BY <2>2, <3>2, <3>3
  <2>9. same + other # 0
    BY <1>6
  <2>10. ShareHolds(c, k, st) <=> k * b <= a
    BY <1>4, <2>6, <2>7, <2>8, <2>9
  <2>11. (\A m \in ShareRoom(c, st) : k <= m) <=> k <= a \div b
    BY <2>4
  <2>12. IsFiniteSet({a \div b}) /\ {a \div b} \subseteq Int
    BY <2>5, FS_Singleton
  <2> QED BY <2>4, <2>5, <2>10, <2>11, <2>12
<1>7. CASE ~(same > 0 \/ other > 0)
  BY <1>4, <1>5, <1>7, FS_EmptySet
<1>8. CASE den - num <= 0
  <2>1. PICK x \in Nat : x = same + k * L
    OBVIOUS
  <2>2. x * den <= num * x
    BY <1>8, ProductMono
  <2>3. num * (x + other) = num * x + num * other /\ num * other >= 0
    OBVIOUS
  <2>4. (same + k * L) * den <= num * (same + k * L + other)
    BY <2>1, <2>2, <2>3
  <2>5. ShareRoom(c, st) = {}
    BY <1>5, <1>8
  <2> QED BY <1>4, <2>4, <2>5, FS_EmptySet
<1> QED BY <1>6, <1>7, <1>8

\* The room of the net delta is the number of contracts that stay under the cap.
LEMMA DeltaFits ==
  ASSUME NEW c \in Candidate, NEW st, BookTyped(st), NEW k \in Int
  PROVE  /\ DeltaRoom(c, st) \subseteq Int /\ IsFiniteSet(DeltaRoom(c, st))
         /\ (\A m \in DeltaRoom(c, st) : k <= m)
              <=> \A net \in st.net_delta_usd :
                    _delta_sign(c.right) * net + k * rules.contract_delta =< rules.max_net_delta
<1>1. PICK sign \in Int : sign = _delta_sign(c.right)
  BY DEF _delta_sign
<1>2. PICK per \in Nat \ {0}, cap \in Nat : per = rules.contract_delta /\ cap = rules.max_net_delta
  BY RulesAssumption
<1>3. DeltaRoom(c, st) = { (cap - sign * net) \div per : net \in st.net_delta_usd }
  BY <1>1, <1>2 DEF DeltaRoom
<1>4. CASE st.net_delta_usd = {}
  BY <1>3, <1>4, FS_EmptySet
<1>5. ASSUME NEW net \in Int, st.net_delta_usd = {net}
      PROVE  /\ DeltaRoom(c, st) \subseteq Int /\ IsFiniteSet(DeltaRoom(c, st))
             /\ (\A m \in DeltaRoom(c, st) : k <= m) <=> sign * net + k * per <= cap
  <2>1. DeltaRoom(c, st) = {(cap - sign * net) \div per}
    BY <1>3, <1>5
  <2>2. PICK s \in Int : s = sign * net
    OBVIOUS
  <2>3. /\ (cap - s) \div per \in Int
        /\ k <= (cap - s) \div per <=> k * per <= cap - s
    BY QuotientFits, DivisionIs
  <2>4. PICK q \in Int : q = (cap - s) \div per
    BY <2>3
  <2>5. DeltaRoom(c, st) = {q}
    BY <2>1, <2>2, <2>4
  <2>6. IsFiniteSet({q}) /\ {q} \subseteq Int
    BY FS_Singleton
  <2>7. PICK x \in Int : x = k * per
    OBVIOUS
  <2>8. k <= q <=> s + x <= cap
    BY <2>3, <2>4, <2>7
  <2> QED BY <2>2, <2>5, <2>6, <2>7, <2>8
<1>6. st.net_delta_usd = {} \/ \E net \in Int : st.net_delta_usd = {net}
  BY DEF BookTyped
<1> QED BY <1>1, <1>2, <1>4, <1>5, <1>6

\* A size is within all the limits exactly when it was asked for and keeps what the
\* gates are documented to keep.
LEMMA LimitsFit ==
  ASSUME NEW c \in Candidate, NEW st, BookTyped(st), NEW requested \in Int, NEW k \in Nat
  PROVE  /\ Limits(c, requested, st) \subseteq Int /\ IsFiniteSet(Limits(c, requested, st))
         /\ requested \in Limits(c, requested, st)
         /\ (\A m \in Limits(c, requested, st) : k <= m) <=> k <= requested /\ Fits(c, k, st)
<1>1. PICK p : p = _max_contracts_by_loss(c, rules.max_loss)
  OBVIOUS
<1>2. PICK d : d = _max_contracts_by_loss(c, rules.daily_budget - st.premium_at_risk_today)
  OBVIOUS
<1>3. PICK S : S = ShareRoom(c, st)
  OBVIOUS
<1>4. PICK D : D = DeltaRoom(c, st)
  OBVIOUS
<1>5. /\ rules.max_loss \in Nat /\ rules.daily_budget \in Nat
      /\ st.premium_at_risk_today \in Nat
  BY RulesAssumption DEF BookTyped
<1>6. p \in Int /\ (k <= p <=> k * c.loss <= rules.max_loss)
  BY <1>1, <1>5, LossFits
<1>7. d \in Int /\ (k <= d <=> st.premium_at_risk_today + k * c.loss <= rules.daily_budget)
  <2>1. PICK budget \in Int : budget = rules.daily_budget - st.premium_at_risk_today
    BY <1>5
  <2>2. d \in Int /\ (k <= d <=> k * c.loss <= budget)
    BY <1>2, <2>1, LossFits
  <2>3. PICK x \in Nat : x = k * c.loss
    BY CandidateIs
  <2> QED BY <1>5, <2>1, <2>2, <2>3
<1>8. S \subseteq Int /\ IsFiniteSet(S) /\ ((\A m \in S : k <= m) <=> ShareHolds(c, k, st))
  BY <1>3, ShareFits
<1>9. /\ D \subseteq Int /\ IsFiniteSet(D)
      /\ (\A m \in D : k <= m)
           <=> \A net \in st.net_delta_usd :
                 _delta_sign(c.right) * net + k * rules.contract_delta =< rules.max_net_delta
  BY <1>4, DeltaFits
<1>10. Limits(c, requested, st) = {requested, p, d} \cup S \cup D
  BY <1>1, <1>2, <1>3, <1>4 DEF Limits
<1>11. Fits(c, k, st) <=> /\ k * c.loss <= rules.max_loss
                          /\ st.premium_at_risk_today + k * c.loss <= rules.daily_budget
                          /\ ShareHolds(c, k, st)
                          /\ \A net \in st.net_delta_usd :
                               _delta_sign(c.right) * net + k * rules.contract_delta =< rules.max_net_delta
  BY DEF Fits, ShareHolds
<1>12. IsFiniteSet({requested, p, d} \cup S \cup D)
  <2>1. IsFiniteSet({requested}) /\ IsFiniteSet({requested} \cup {p})
    BY FS_Singleton, FS_AddElement
  <2>2. IsFiniteSet(({requested} \cup {p}) \cup {d})
    BY <2>1, FS_AddElement
  <2>3. ({requested} \cup {p}) \cup {d} = {requested, p, d}
    OBVIOUS
  <2> QED BY <1>8, <1>9, <2>2, <2>3, FS_Union
<1>13. {requested, p, d} \cup S \cup D \subseteq Int
  BY <1>6, <1>7, <1>8, <1>9
<1>14. (\A m \in {requested, p, d} \cup S \cup D : k <= m)
         <=> k <= requested /\ k <= p /\ k <= d /\ (\A m \in S : k <= m) /\ (\A m \in D : k <= m)
  OBVIOUS
<1> QED BY <1>6, <1>7, <1>8, <1>9, <1>10, <1>11, <1>12, <1>13, <1>14

\* The size given to a spread: none when it is vetoed, else as large as the documented
\* inequalities allow and no larger.
LEMMA EvaluateIs ==
  ASSUME NEW c \in Candidate, NEW st, BookTyped(st), NEW n, n = evaluate(c, _SIZE_CEILING, st)
  PROVE  /\ n \in 0.._SIZE_CEILING
         /\ n >= 1 => ~Vetoed(c, st) /\ Fits(c, n, st)
         /\ ~Vetoed(c, st) => /\ \A k \in 1..n : Fits(c, k, st)
                              /\ n < _SIZE_CEILING => ~Fits(c, n + 1, st)
<1>1. PICK L : L = Limits(c, _SIZE_CEILING, st)
  OBVIOUS
<1>2. L \subseteq Int /\ IsFiniteSet(L) /\ 100 \in L
  BY <1>1, LimitsFit DEF _SIZE_CEILING
<1>3. \A k \in Nat : (\A m \in L : k <= m) <=> k <= 100 /\ Fits(c, k, st)
  BY <1>1, LimitsFit DEF _SIZE_CEILING
<1>4. PICK m : m = Min(L)
  OBVIOUS
<1>5. m \in L /\ m \in Int /\ m <= 100 /\ \A y \in L : m <= y
  BY <1>2, <1>4, MinIs
<1>6. n = IF Vetoed(c, st) \/ m < 1 THEN 0 ELSE m
  BY <1>1, <1>4 DEF evaluate
<1>7. ASSUME NEW k \in Nat, k <= m PROVE Fits(c, k, st)
  <2>1. \A y \in L : k <= y
    BY <1>2, <1>5, <1>7
  <2> QED BY <1>3, <2>1
<1>8. ASSUME NEW k \in Nat, m < k, k <= 100 PROVE ~Fits(c, k, st)
  BY <1>3, <1>5, <1>8
<1>9. CASE Vetoed(c, st) \/ m < 1
  <2>1. n = 0
    BY <1>6, <1>9
  <2>2. ~Vetoed(c, st) => ~Fits(c, 1, st)
    BY <1>5, <1>8, <1>9
  <2> QED BY <2>1, <2>2 DEF _SIZE_CEILING
<1>10. CASE ~Vetoed(c, st) /\ m >= 1
  <2>1. n = m
    BY <1>5, <1>6, <1>10
  <2>2. \A k \in 1..m : Fits(c, k, st)
    BY <1>5, <1>7
  <2>3. m < 100 => ~Fits(c, m + 1, st)
    BY <1>5, <1>8, <1>10
  <2>4. Fits(c, m, st)
    BY <1>5, <1>7, <1>10
  <2> QED BY <1>5, <1>10, <2>1, <2>2, <2>3, <2>4 DEF _SIZE_CEILING
<1> QED BY <1>5, <1>9, <1>10

-----------------------------------------------------------------------------
(***************************************************************************)
(* The book the gates read.                                                *)
(***************************************************************************)

\* The sets of rows are finite.
LEMMA RowsFinite ==
  ASSUME NEW S \in SUBSET RowId
  PROVE  IsFiniteSet(S) /\ Cardinality(S) \in Nat
<1>1. IsFiniteSet(RowId)
  BY BoundsAssumption, FS_Interval DEF RowId
<1> QED BY <1>1, FS_Subset, FS_CardinalityType

\* The numbers of a typed row.
LEMMA RowTyped ==
  ASSUME NEW q \in RowType
  PROVE  /\ q.spread.loss \in Nat /\ q.n \in Nat /\ q.max_loss \in Nat
         /\ q.born \in Nat /\ q.cycle \in Nat
         /\ q.delta # {} => \E d \in Int : q.delta = {d}
<1>1. q.spread \in Candidate \cup Strays \cup {NoSpread}
  BY DEF RowType
<1>2. q.spread.loss \in Nat
  <2>1. CASE q.spread \in Candidate
    BY <2>1, CandidateIs
  <2>2. CASE q.spread \in Strays
    BY <2>2, StraysAssumption
  <2>3. CASE q.spread = NoSpread
    BY <2>3 DEF NoSpread
  <2> QED BY <1>1, <2>1, <2>2, <2>3
<1>3. /\ q.n \in 0.._SIZE_CEILING /\ q.max_loss \in Nat
      /\ q.born \in 0..MaxTime /\ q.cycle \in 0..MaxRows
      /\ q.delta \in {{}} \cup { {d} : d \in Deltas }
  BY DEF RowType
<1>4. q.delta # {} => \E d \in Int : q.delta = {d}
  BY <1>3, DollarsAssumption
<1> QED BY <1>2, <1>3, <1>4, BoundsAssumption DEF _SIZE_CEILING

\* The fields of a row of the table.
LEMMA RowFields ==
  ASSUME TypeOK, NEW i \in RowId
  PROVE  /\ row[i] \in RowType
         /\ row[i].spread.loss \in Nat /\ row[i].n \in Nat /\ row[i].max_loss \in Nat
         /\ row[i].born \in Nat /\ row[i].cycle \in Nat
         /\ row[i].delta # {} => \E d \in Int : row[i].delta = {d}
<1>1. row[i] \in RowType
  BY DEF TypeOK
<1> QED BY <1>1, RowTyped

\* The live rows and the rows of some underlyings are rows.
LEMMA RowSets ==
  /\ Live \subseteq RowId /\ Counted \subseteq Gated /\ Gated \subseteq Live
  /\ Entered \subseteq RowId /\ CountedToday \subseteq Counted /\ Placed \subseteq Entered
  /\ \A S : On(S) \subseteq RowId
BY DEF Live, Counted, Gated, Entered, CountedToday, Placed, On

\* What the rows r in S put at risk.
RiskIn(r, S) == SumFunctionOnSet([i \in S |-> Risked(r[i])], S)

\* The risk of a set of rows in the state is that of the table.
LEMMA RiskedOnIs == \A S : RiskedOn(S) = RiskIn(row, S)
BY DEF RiskedOn, RiskIn, SumFunction

\* What a row counts for is the lesser of its risk at the mid and what it can lose.
LEMMA RiskedIs ==
  ASSUME NEW r \in RowType
  PROVE  /\ Risked(r) \in Nat /\ r.spread.loss * r.n \in Nat
         /\ Risked(r) <= r.max_loss /\ Risked(r) <= r.spread.loss * r.n
         /\ r.max_loss = r.spread.loss * r.n => Risked(r) = r.max_loss
<1>1. PICK a \in Nat, b \in Nat, m \in Nat : a = r.spread.loss /\ b = r.n /\ m = r.max_loss
  BY RowTyped
<1>2. PICK mid \in Nat : mid = a * b
  <2>1. a * b \in Nat
    OBVIOUS
  <2> QED BY <2>1
<1>3. Risked(r) = IF m < mid THEN m ELSE mid
  BY <1>1, <1>2 DEF Risked
<1> QED BY <1>1, <1>2, <1>3

\* So it is for the rows of a typed table.
LEMMA RiskedTerms ==
  ASSUME TypeOK, NEW i \in RowId
  PROVE  Risked(row[i]) \in Nat /\ Risked(row[i]) <= row[i].max_loss
BY RowFields, RiskedIs

\* Rows that count for as much are as much at risk.
LEMMA RiskSame ==
  ASSUME NEW S, IsFiniteSet(S), NEW r, NEW q,
         \A i \in S : Risked(q[i]) = Risked(r[i]) /\ Risked(r[i]) \in Int
  PROVE  RiskIn(q, S) = RiskIn(r, S)
<1> DEFINE f == [i \in S |-> Risked(r[i])]
           g == [i \in S |-> Risked(q[i])]
<1>1. \A i \in S : f[i] \in Int /\ g[i] = f[i]
  OBVIOUS
<1>2. SumFunctionOnSet(f, S) = SumFunctionOnSet(g, S)
  <2> HIDE DEF f, g
  <2> QED BY <1>1, SumSame
<1> QED BY <1>2 DEF RiskIn

\* Rows that count for less are less at risk.
LEMMA RiskLess ==
  ASSUME NEW S, IsFiniteSet(S), NEW r, NEW q,
         \A i \in S : Risked(q[i]) \in Int /\ Risked(r[i]) \in Int /\ Risked(q[i]) <= Risked(r[i])
  PROVE  RiskIn(q, S) <= RiskIn(r, S)
<1> DEFINE f == [i \in S |-> Risked(q[i])]
           g == [i \in S |-> Risked(r[i])]
<1>1. \A i \in S : f[i] \in Int /\ g[i] \in Int /\ f[i] <= g[i]
  OBVIOUS
<1>2. SumFunctionOnSet(f, S) <= SumFunctionOnSet(g, S)
  <2> HIDE DEF f, g
  <2> QED BY <1>1, SumMono
<1> QED BY <1>2 DEF RiskIn

\* Fewer rows risk no more.
LEMMA RiskPart ==
  ASSUME NEW T, IsFiniteSet(T), NEW S \in SUBSET T, NEW r,
         \A i \in T : Risked(r[i]) \in Nat
  PROVE  /\ RiskIn(r, T) \in Nat /\ RiskIn(r, S) \in Nat
         /\ RiskIn(r, S) <= RiskIn(r, T)
<1> DEFINE f == [i \in S |-> Risked(r[i])]
           g == [i \in T |-> Risked(r[i])]
<1>1. IsFiniteSet(S)
  BY FS_Subset
<1>2. \A i \in S : f[i] \in Nat /\ g[i] = f[i]
  OBVIOUS
<1>3. \A i \in T : g[i] \in Nat
  OBVIOUS
<1>4. SumFunctionOnSet(f, S) = SumFunctionOnSet(g, S)
  <2> HIDE DEF f, g
  <2>1. \A i \in S : f[i] \in Int /\ g[i] = f[i]
    BY <1>2
  <2> QED BY <1>1, <2>1, SumSame
<1>5. SumFunctionOnSet(g, S) <= SumFunctionOnSet(g, T)
  <2> HIDE DEF g
  <2> QED BY <1>3, SumPart
<1>6. SumFunctionOnSet(g, T) \in Nat /\ SumFunctionOnSet(g, S) \in Nat
  <2> HIDE DEF g
  <2>1. \A i \in T : g[i] \in Int
    BY <1>3
  <2> QED BY <1>1, <1>3, <2>1, SumType
<1> QED BY <1>4, <1>5, <1>6 DEF RiskIn

\* One row more risks what it can lose more.
LEMMA RiskAdd ==
  ASSUME NEW S, IsFiniteSet(S), NEW a, a \notin S, NEW r,
         \A i \in S \cup {a} : Risked(r[i]) \in Int
  PROVE  RiskIn(r, S \cup {a}) = RiskIn(r, S) + Risked(r[a])
<1> DEFINE f == [i \in S |-> Risked(r[i])]
           g == [i \in S \cup {a} |-> Risked(r[i])]
<1>1. \A i \in S : f[i] \in Int /\ g[i] = f[i]
  OBVIOUS
<1>2. g[a] = Risked(r[a]) /\ \A i \in S \cup {a} : g[i] \in Int
  OBVIOUS
<1>3. SumFunctionOnSet(f, S) = SumFunctionOnSet(g, S)
  <2> HIDE DEF f, g
  <2> QED BY <1>1, SumSame
<1>4. SumFunctionOnSet(g, S \cup {a}) = g[a] + SumFunctionOnSet(g, S)
  <2> HIDE DEF g
  <2> QED BY <1>2, SumAdd
<1>5. SumFunctionOnSet(g, S) \in Int /\ g[a] \in Int
  <2>1. \A i \in S : g[i] \in Int
    BY <1>2
  <2>2. SumFunctionOnSet(g, S) \in Int
    <3> HIDE DEF g
    <3> QED BY <2>1, SumType
  <2> QED BY <1>2, <2>2
<1> QED BY <1>2, <1>3, <1>4, <1>5 DEF RiskIn

\* What rows can lose is a natural, and at least what they count for.
LEMMA AtRiskIs ==
  ASSUME TypeOK, NEW S \in SUBSET RowId
  PROVE  AtRisk(S) \in Nat /\ RiskedOn(S) <= AtRisk(S)
<1> DEFINE f == [i \in S |-> Risked(row[i])]
           g == [i \in S |-> row[i].max_loss]
<1>1. IsFiniteSet(S)
  BY RowsFinite
<1>2. \A i \in S : f[i] \in Nat /\ g[i] \in Nat /\ f[i] <= g[i]
  BY RiskedTerms, RowFields
<1>3. AtRisk(S) = SumFunctionOnSet(g, S) /\ RiskedOn(S) = SumFunctionOnSet(f, S)
  BY DEF AtRisk, RiskedOn, SumFunction
<1>4. SumFunctionOnSet(g, S) \in Nat
  <2> HIDE DEF f, g
  <2>1. \A i \in S : g[i] \in Int
    BY <1>2
  <2> QED BY <1>1, <1>2, <2>1, SumType
<1>5. SumFunctionOnSet(f, S) <= SumFunctionOnSet(g, S)
  <2> HIDE DEF f, g
  <2>1. \A i \in S : f[i] \in Int /\ g[i] \in Int /\ f[i] <= g[i]
    BY <1>2
  <2> QED BY <1>1, <2>1, SumMono
<1> QED BY <1>3, <1>4, <1>5

\* The gates compute with numbers.
LEMMA BookIs ==
  ASSUME TypeOK, NEW u
  PROVE  BookTyped(build_policy_state(u))
<1>1. build_policy_state(u).premium_at_risk_today \in Nat
  <2>1. { i \in counted : Day(row[i].born) = Day(now) } \in SUBSET RowId
    BY DEF counted, Live
  <2>2. AtRisk({ i \in counted : Day(row[i].born) = Day(now) }) \in Nat
    BY <2>1, AtRiskIs
  <2> QED BY <2>2 DEF build_policy_state
<1>2. build_policy_state(u).risk_by_direction \in [bullish : Nat, bearish : Nat]
  <2>1. \A right : { i \in Live : row[i].spread.right = right } \in SUBSET RowId
    BY DEF Live
  <2>2. RiskOn("put") \in Nat /\ RiskOn("call") \in Nat
    BY <2>1, AtRiskIs DEF RiskOn
  <2> QED BY <2>2 DEF build_policy_state
<1>3. _net_delta_usd = {} \/ \E net \in Int : _net_delta_usd = {net}
  <2>1. CASE \E i \in Live : row[i].delta = {}
    BY <2>1 DEF _net_delta_usd
  <2>2. CASE \A i \in Live : row[i].delta # {}
    <3> DEFINE f == [i \in Live |-> _delta_sign(row[i].spread.right) * row[i].n * Max(row[i].delta)]
    <3>1. ASSUME NEW i \in Live PROVE f[i] \in Int
      <4>1. i \in RowId
        BY DEF Live
      <4>2. PICK d \in Int : row[i].delta = {d}
        BY <2>2, <4>1, RowFields
      <4>3. Max(row[i].delta) = d
        BY <4>2, MaxOfOne
      <4>4. PICK s \in Int, n \in Nat : s = _delta_sign(row[i].spread.right) /\ n = row[i].n
        BY <4>1, RowFields DEF _delta_sign
      <4>5. s * n * d \in Int
        OBVIOUS
      <4> QED BY <4>3, <4>4, <4>5
    <3>2. IsFiniteSet(Live)
      BY RowsFinite, RowSets
    <3>3. SumFunctionOnSet(f, Live) \in Int
      <4> HIDE DEF f
      <4> QED BY <3>1, <3>2, SumType
    <3>4. _net_delta_usd = {SumFunctionOnSet(f, Live)}
      BY <2>2 DEF _net_delta_usd, SumFunction
    <3> QED BY <3>3, <3>4
  <2> QED BY <2>1, <2>2
<1>4. build_policy_state(u).net_delta_usd = _net_delta_usd
  BY DEF build_policy_state
<1> QED BY <1>1, <1>2, <1>3, <1>4 DEF BookTyped

-----------------------------------------------------------------------------
(***************************************************************************)
(* A spread the gates approve.                                             *)
(***************************************************************************)

\* What the gates have seen when they approve a spread.
LEMMA Approved ==
  ASSUME TypeOK, RowsNumbered, NEW c \in Candidate, NEW n,
         n = evaluate(c, _SIZE_CEILING, build_policy_state(c.u)), n >= 1
  PROVE  /\ n \in 0.._SIZE_CEILING
         /\ Cardinality(Live) < rules.max_open_positions
         /\ Cardinality(Live \cap On({c.u})) < rules.max_per_underlying
         /\ Cardinality(Live \cap On(Peers(c.u))) < rules.max_per_group
         /\ \A i \in Live : (row[i].spread.u = c.u /\ row[i].spread.right = c.right)
                              => row[i].spread.short # c.short
         /\ \A i \in On({c.u}) : now - row[i].born >= rules.cooldown_seconds
         /\ \A i \in On(Peers(c.u)) : now - row[i].born >= rules.group_cooldown_seconds
         /\ RiskedOn(CountedToday) + c.loss * n =< rules.daily_budget
<1>1. PICK st : st = build_policy_state(c.u)
  OBVIOUS
<1>2. n \in 0.._SIZE_CEILING /\ ~Vetoed(c, st) /\ Fits(c, n, st)
  <2>1. BookTyped(st)
    BY <1>1, BookIs
  <2>2. n = evaluate(c, _SIZE_CEILING, st)
    BY <1>1
  <2> QED BY <2>1, <2>2, EvaluateIs
<1>3. ~AtCap(st) /\ ~SameBet(c, st) /\ ~TooSoon(st)
  BY <1>2 DEF Vetoed
<1>4. /\ st.open_positions = Cardinality(Live)
      /\ st.open_positions_underlying = Cardinality(Live \cap On({c.u}))
      /\ st.open_positions_group = Cardinality(Live \cap On(Peers(c.u)))
  BY <1>1 DEF build_policy_state, counted
<1>5. /\ Cardinality(Live) \in Nat /\ Cardinality(Live \cap On({c.u})) \in Nat
      /\ Cardinality(Live \cap On(Peers(c.u))) \in Nat
  <2>1. Live \in SUBSET RowId /\ \A S : Live \cap S \in SUBSET RowId
    BY RowSets
  <2> QED BY <2>1, RowsFinite
<1>6. /\ Cardinality(Live) < rules.max_open_positions
      /\ Cardinality(Live \cap On({c.u})) < rules.max_per_underlying
      /\ Cardinality(Live \cap On(Peers(c.u))) < rules.max_per_group
  BY <1>3, <1>4, <1>5, RulesAssumption DEF AtCap
<1>7. st.open_short_strikes = { <<row[i].spread.u, row[i].spread.right, row[i].spread.short>> : i \in Live }
  BY <1>1 DEF build_policy_state, counted
<1>8. \A i \in Live : (row[i].spread.u = c.u /\ row[i].spread.right = c.right)
                        => row[i].spread.short # c.short
  BY <1>3, <1>7 DEF SameBet
<1>9. /\ st.symbol_ages = { now - row[i].born : i \in On({c.u}) }
      /\ st.group_ages = { now - row[i].born : i \in On(Peers(c.u)) }
  BY <1>1 DEF build_policy_state, Traded, Ages
<1>10. \A i \in RowId : now - row[i].born \in Int
  BY RowFields DEF TypeOK
<1>11. /\ \A i \in On({c.u}) : now - row[i].born >= rules.cooldown_seconds
       /\ \A i \in On(Peers(c.u)) : now - row[i].born >= rules.group_cooldown_seconds
  <2>1. /\ \A age \in st.symbol_ages : ~(age < rules.cooldown_seconds)
        /\ \A age \in st.group_ages : ~(age < rules.group_cooldown_seconds)
    BY <1>3 DEF TooSoon
  <2>2. ASSUME NEW i \in On({c.u}) PROVE now - row[i].born >= rules.cooldown_seconds
    <3>1. ~(now - row[i].born < rules.cooldown_seconds) /\ i \in RowId
      BY <1>9, <2>1 DEF On
    <3> QED BY <1>10, <3>1, RulesAssumption
  <2>3. ASSUME NEW i \in On(Peers(c.u)) PROVE now - row[i].born >= rules.group_cooldown_seconds
    <3>1. ~(now - row[i].born < rules.group_cooldown_seconds) /\ i \in RowId
      BY <1>9, <2>1 DEF On
    <3> QED BY <1>10, <3>1, RulesAssumption
  <2> QED BY <2>2, <2>3
<1>12. RiskedOn(CountedToday) + c.loss * n =< rules.daily_budget
  <2> DEFINE T == { i \in counted : Day(row[i].born) = Day(now) }
  <2>1. T \in SUBSET RowId /\ CountedToday \in SUBSET T
    BY RowSets DEF counted, CountedToday, Live
  <2>2. st.premium_at_risk_today = AtRisk(T)
    BY <1>1 DEF build_policy_state
  <2> HIDE DEF T
  <2>4. AtRisk(T) \in Nat /\ RiskedOn(T) <= AtRisk(T)
    BY <2>1, AtRiskIs
  <2>5. /\ RiskedOn(T) \in Nat /\ RiskedOn(CountedToday) \in Nat
        /\ RiskedOn(CountedToday) <= RiskedOn(T)
    <3>1. IsFiniteSet(T) /\ \A i \in T : Risked(row[i]) \in Nat
      BY <2>1, RowsFinite, RiskedTerms
    <3>2. /\ RiskIn(row, T) \in Nat /\ RiskIn(row, CountedToday) \in Nat
          /\ RiskIn(row, CountedToday) <= RiskIn(row, T)
      BY <2>1, <3>1, RiskPart
    <3> QED BY <3>2, RiskedOnIs
  <2>6. AtRisk(T) + n * c.loss <= rules.daily_budget
    BY <1>2, <2>2 DEF Fits
  <2>7. n * c.loss = c.loss * n /\ c.loss * n \in Nat
    <3>1. c.loss \in Nat /\ n \in Nat
      BY <1>2, CandidateIs DEF _SIZE_CEILING
    <3> QED BY <3>1
  <2>8. rules.daily_budget \in Nat
    BY RulesAssumption
  <2> QED BY <2>4, <2>5, <2>6, <2>7, <2>8
<1> QED BY <1>2, <1>6, <1>8, <1>11, <1>12

\* The cardinality of a part of the rows.
LEMMA FewerRows ==
  ASSUME NEW T \in SUBSET RowId, NEW S \in SUBSET T
  PROVE  Cardinality(S) <= Cardinality(T) /\ Cardinality(S) \in Nat /\ Cardinality(T) \in Nat
BY RowsFinite, FS_Subset

\* The gates keep the invariant: what they approve has room.
LEMMA GatesStep ==
  ASSUME GatesInv, TypeOK', Idle, UNCHANGED <<row, rows, closes, now>>, cycle' = rows,
         NEW W \in SUBSET Candidate, wings' # <<>>, \A k \in DOMAIN wings' : wings'[k] \in W,
         Len(wings') = 2 => wings'[1].right # wings'[2].right,
         \A c \in W : LET n == evaluate(c, _SIZE_CEILING, build_policy_state(c.u))
                      IN  n >= 1 /\ size' <= n
  PROVE  GatesInv'
<1>1. TypeOK /\ RowsNumbered /\ CondorsStand
  BY DEF GatesInv
<1>2. /\ Live' = Live /\ Gated' = Gated /\ Counted' = Counted /\ Entered' = Entered
      /\ CountedToday' = CountedToday /\ \A S : On(S)' = On(S)
  BY DEF Live, Gated, Counted, SecondWings, Entered, CountedToday, On
<1>3. \A S : RiskedOn(S)' = RiskedOn(S)
  BY DEF RiskedOn
<1>4. (CapsHold /\ OneBetPerStrike /\ DayRiskBounded /\ EntriesSpaced)'
  BY <1>2, <1>3 DEF GatesInv, CapsHold, OneBetPerStrike, DayRiskBounded, EntriesSpaced
<1>5. RowsNumbered'
  BY <1>1 DEF RowsNumbered
<1>6. Placed' = {}
  <2>1. ASSUME NEW i \in Entered PROVE row[i].cycle # rows
    <3>1. i \in RowId /\ i =< rows
      BY <1>1, <2>1 DEF Entered, RowsNumbered, NoRow
    <3>2. row[i].cycle < i /\ row[i].cycle \in Nat /\ rows \in Nat
      BY <1>1, <3>1, RowFields DEF RowsNumbered, TypeOK
    <3> QED BY <3>1, <3>2 DEF RowId
  <2> QED BY <1>2, <2>1 DEF Placed
<1>7. CondorsStand'
  <2>1. \A i, j \in Entered' :
          (i < j /\ row'[i].cycle = row'[j].cycle) => row'[i].status \in {"open", "closed"}
    BY <1>1, <1>2 DEF CondorsStand
  <2>2. cycle' =< rows'
    BY <1>1 DEF TypeOK
  <2> QED BY <1>6, <2>1, <2>2 DEF CondorsStand
<1>8. ASSUME NEW c \in W
      PROVE  /\ Cardinality(Counted) < rules.max_open_positions
             /\ Cardinality(Counted \cap On({c.u})) < rules.max_per_underlying
             /\ Cardinality(Counted \cap On(Peers(c.u))) < rules.max_per_group
             /\ RiskedOn(CountedToday) + c.loss * size' =< rules.daily_budget
             /\ \A i \in Gated : (row[i].spread.u = c.u /\ row[i].spread.right = c.right)
                                   => row[i].spread.short # c.short
             /\ \A i \in On({c.u}) : now - row[i].born >= rules.cooldown_seconds
             /\ \A i \in On(Peers(c.u)) : now - row[i].born >= rules.group_cooldown_seconds
  <2>1. PICK n : n = evaluate(c, _SIZE_CEILING, build_policy_state(c.u)) /\ n >= 1 /\ size' <= n
    BY <1>8
  <2>2. /\ n \in 0.._SIZE_CEILING
        /\ Cardinality(Live) < rules.max_open_positions
        /\ Cardinality(Live \cap On({c.u})) < rules.max_per_underlying
        /\ Cardinality(Live \cap On(Peers(c.u))) < rules.max_per_group
        /\ \A i \in Live : (row[i].spread.u = c.u /\ row[i].spread.right = c.right)
                             => row[i].spread.short # c.short
        /\ \A i \in On({c.u}) : now - row[i].born >= rules.cooldown_seconds
        /\ \A i \in On(Peers(c.u)) : now - row[i].born >= rules.group_cooldown_seconds
        /\ RiskedOn(CountedToday) + c.loss * n =< rules.daily_budget
    BY <1>1, <2>1, Approved
  <2>3. \A S : Counted \cap S \subseteq Live \cap S
    BY RowSets
  <2>4. /\ Cardinality(Counted) <= Cardinality(Live)
        /\ Cardinality(Counted) \in Nat /\ Cardinality(Live) \in Nat
    BY RowSets, FewerRows
  <2>5. ASSUME NEW S, NEW cap \in Nat, Cardinality(Live \cap S) < cap
        PROVE  Cardinality(Counted \cap S) < cap
    <3>1. Live \cap S \in SUBSET RowId /\ Counted \cap S \in SUBSET (Live \cap S)
      BY <2>3, RowSets
    <3>2. /\ Cardinality(Counted \cap S) <= Cardinality(Live \cap S)
          /\ Cardinality(Counted \cap S) \in Nat /\ Cardinality(Live \cap S) \in Nat
      BY <3>1, FewerRows
    <3> QED BY <2>5, <3>2
  <2>6. RiskedOn(CountedToday) + c.loss * size' =< rules.daily_budget
    <3>1. PICK L \in Nat, N \in Nat, s \in Nat, budget \in Nat :
            L = c.loss /\ N = n /\ s = size' /\ budget = rules.daily_budget
      <4>1. c.loss \in Nat
        BY CandidateIs
      <4>2. n \in Nat /\ size' \in Nat
        BY <2>2 DEF _SIZE_CEILING, TypeOK
      <4> QED BY <4>1, <4>2, RulesAssumption
    <3>2. s * L <= N * L
      BY <2>1, <3>1, ProductMono
    <3>3. RiskedOn(CountedToday) \in Int
      <4>1. IsFiniteSet(CountedToday) /\ CountedToday \in SUBSET RowId
        BY RowSets, RowsFinite
      <4>2. RiskIn(row, CountedToday) \in Nat
        BY <1>1, <4>1, RiskedTerms, RiskPart
      <4> QED BY <4>2, RiskedOnIs
    <3>4. RiskedOn(CountedToday) + L * N =< budget
      BY <2>2, <3>1
    <3>5. L * s = s * L /\ L * N = N * L /\ L * s \in Int /\ L * N \in Int
      OBVIOUS
    <3>6. RiskedOn(CountedToday) + L * s =< budget
      BY <3>2, <3>3, <3>4, <3>5
    <3> QED BY <3>1, <3>6
  <2>7. \A i \in Gated : (row[i].spread.u = c.u /\ row[i].spread.right = c.right)
                           => row[i].spread.short # c.short
    BY <2>2, RowSets
  <2>8. Cardinality(Counted) < rules.max_open_positions
    <3>1. PICK cap \in Nat : cap = rules.max_open_positions
      BY RulesAssumption
    <3>2. Cardinality(Live) < cap
      BY <2>2, <3>1
    <3> QED BY <2>4, <3>1, <3>2
  <2>9. Cardinality(Counted \cap On({c.u})) < rules.max_per_underlying
    BY <2>2, <2>5, RulesAssumption
  <2>10. Cardinality(Counted \cap On(Peers(c.u))) < rules.max_per_group
    BY <2>2, <2>5, RulesAssumption
  <2> QED BY <2>2, <2>6, <2>7, <2>8, <2>9, <2>10
<1>9. Head(wings') \in W
  BY DEF TypeOK
<1>10. RoomKept'
  BY <1>2, <1>3, <1>8, <1>9 DEF RoomKept
<1>11. CooledDown'
  <2>1. ASSUME NEW k \in DOMAIN wings', NEW i \in Entered
        PROVE  /\ row[i].spread.u = wings'[k].u => now - row[i].born >= rules.cooldown_seconds
               /\ row[i].spread.u \in Peers(wings'[k].u)
                    => now - row[i].born >= rules.group_cooldown_seconds
    <3>1. \A S : row[i].spread.u \in S => i \in On(S)
      BY <2>1 DEF On, Entered
    <3> QED BY <1>8, <2>1, <3>1
  <2> QED BY <1>2, <2>1 DEF CooledDown
<1> QED BY <1>4, <1>5, <1>7, <1>10, <1>11 DEF GatesInv

-----------------------------------------------------------------------------
(***************************************************************************)
(* A row changes: confirmed, given up, measured, closed or brought back.   *)
(***************************************************************************)

\* The number of live spreads the caps count only falls, and with it the day's risk,
\* while the counted rows count for no more.
LEMMA FewerCounted ==
  ASSUME TypeOK, TypeOK', CapsHold, now' = now, Counted' \subseteq Counted,
         \A i \in RowId : /\ row'[i].born = row[i].born
                          /\ Risked(row'[i]) \in Nat /\ Risked(row'[i]) <= Risked(row[i]),
         \A S : On(S)' = On(S)
  PROVE  /\ CapsHold'
         /\ Cardinality(Counted') <= Cardinality(Counted)
         /\ \A S : Cardinality(Counted' \cap On(S)) <= Cardinality(Counted \cap On(S))
         /\ Cardinality(Counted') \in Nat /\ Cardinality(Counted) \in Nat
         /\ \A S : /\ Cardinality(Counted' \cap On(S)) \in Nat
                   /\ Cardinality(Counted \cap On(S)) \in Nat
         /\ RiskedOn(CountedToday)' \in Nat /\ RiskedOn(CountedToday) \in Nat
         /\ RiskedOn(CountedToday)' <= RiskedOn(CountedToday)
<1>1. /\ Cardinality(Counted') <= Cardinality(Counted)
      /\ Cardinality(Counted') \in Nat /\ Cardinality(Counted) \in Nat
  BY RowSets, FewerRows
<1>2. ASSUME NEW S
      PROVE  /\ Cardinality(Counted' \cap On(S)) <= Cardinality(Counted \cap On(S))
             /\ Cardinality(Counted' \cap On(S)) \in Nat /\ Cardinality(Counted \cap On(S)) \in Nat
  <2>1. Counted \cap On(S) \in SUBSET RowId /\ Counted' \cap On(S) \in SUBSET (Counted \cap On(S))
    BY RowSets
  <2> QED BY <2>1, FewerRows
<1>3. CapsHold'
  <2>1. Cardinality(Counted') =< rules.max_open_positions
    BY <1>1, RulesAssumption DEF CapsHold
  <2>2. ASSUME NEW u \in Underlying
        PROVE  /\ Cardinality(Counted' \cap On({u})) =< rules.max_per_underlying
               /\ Cardinality(Counted' \cap On(Peers(u))) =< rules.max_per_group
    <3>1. /\ Cardinality(Counted \cap On({u})) =< rules.max_per_underlying
          /\ Cardinality(Counted \cap On(Peers(u))) =< rules.max_per_group
      BY DEF CapsHold
    <3>2. /\ Cardinality(Counted' \cap On({u})) <= Cardinality(Counted \cap On({u}))
          /\ Cardinality(Counted' \cap On({u})) \in Nat /\ Cardinality(Counted \cap On({u})) \in Nat
      BY <1>2
    <3>3. /\ Cardinality(Counted' \cap On(Peers(u))) <= Cardinality(Counted \cap On(Peers(u)))
          /\ Cardinality(Counted' \cap On(Peers(u))) \in Nat
          /\ Cardinality(Counted \cap On(Peers(u))) \in Nat
      BY <1>2
    <3> QED BY <3>1, <3>2, <3>3, RulesAssumption
  <2> QED BY <2>1, <2>2 DEF CapsHold
<1>4. CountedToday' \in SUBSET CountedToday
  BY RowSets DEF CountedToday, Live
<1>5. /\ RiskedOn(CountedToday)' = RiskIn(row', CountedToday')
      /\ RiskedOn(CountedToday) = RiskIn(row, CountedToday)
  BY DEF RiskedOn, RiskIn, SumFunction
<1>6. IsFiniteSet(CountedToday) /\ IsFiniteSet(CountedToday') /\ CountedToday \in SUBSET RowId
  BY <1>4, RowSets, RowsFinite, FS_Subset
<1>7. \A i \in RowId : Risked(row[i]) \in Nat
  BY RiskedTerms
<1>8. /\ RiskIn(row', CountedToday') <= RiskIn(row', CountedToday)
      /\ RiskIn(row', CountedToday') \in Nat /\ RiskIn(row', CountedToday) \in Nat
  <2>1. \A i \in CountedToday : Risked(row'[i]) \in Nat
    BY <1>6
  <2> QED BY <1>4, <1>6, <2>1, RiskPart
<1>9. RiskIn(row, CountedToday) \in Nat /\ RiskIn(row', CountedToday) <= RiskIn(row, CountedToday)
  <2>1. \A i \in CountedToday : /\ Risked(row'[i]) \in Int /\ Risked(row[i]) \in Int
                                /\ Risked(row[i]) \in Nat /\ Risked(row'[i]) <= Risked(row[i])
    BY <1>6, <1>7
  <2>2. CountedToday \in SUBSET CountedToday
    OBVIOUS
  <2> QED BY <1>6, <2>1, <2>2, RiskLess, RiskPart
<1> QED BY <1>1, <1>2, <1>3, <1>5, <1>8, <1>9

\* A row changes its status, its delta or its loss, so as to count for no more, or is
\* brought back to life.
RowStep(i, r) ==
  /\ row' = [row EXCEPT ![i] = r]
  /\ row[i].status # "none" /\ r.status # "none"
  /\ r.spread = row[i].spread /\ r.n = row[i].n /\ r.born = row[i].born /\ r.cycle = row[i].cycle
  /\ Risked(r) <= Risked(row[i])
  /\ r.status = "pending" => row[i].status = "pending" /\ r.max_loss = row[i].max_loss
  /\ \/ /\ r.adopted = row[i].adopted
        /\ row[i].status \in {"open", "closed"} => r.status \in {"open", "closed"}
        /\ r.status \in LIVE => row[i].status \in LIVE
     \/ r.adopted = TRUE /\ row[i].status = "unfilled" /\ r.status = "open"

\* Such a step keeps the invariant.
LEMMA RowStepKeeps ==
  ASSUME GatesInv, TypeOK', UNCHANGED <<rows, now, entries>>, NEW i \in RowId, NEW r, RowStep(i, r)
  PROVE  GatesInv'
<1>1. TypeOK /\ RowsNumbered /\ CondorsStand /\ UNCHANGED <<wings, size, cycle>>
  BY DEF GatesInv, entries
<1>2. /\ DOMAIN row = RowId
      /\ row'[i] = r /\ \A j \in RowId : j # i => row'[j] = row[j]
  BY <1>1 DEF TypeOK, RowStep
<1>3. \A j \in RowId :
        /\ row'[j].spread = row[j].spread /\ row'[j].n = row[j].n
        /\ row'[j].born = row[j].born /\ row'[j].cycle = row[j].cycle
        /\ row'[j].status # "none" <=> row[j].status # "none"
  BY <1>2 DEF RowStep
<1>4. /\ \A j \in Entered' : j \in Entered
      /\ \A j \in Entered : row[j].status \in {"open", "closed"}
                              => j \in Entered' /\ row'[j].status \in {"open", "closed"}
  BY <1>2, <1>3 DEF Entered, RowStep
<1>5. \A S : On(S)' = On(S)
  BY <1>3 DEF On
<1>6. Gated' \subseteq Gated
  BY <1>2 DEF Gated, Live, RowStep
<1>7. Gated \subseteq Entered /\ Gated' \subseteq Entered'
  BY DEF Gated, Live, LIVE, Entered
<1>8. Counted' \subseteq Counted
  <2>1. SUFFICES ASSUME NEW j \in Counted', j \in SecondWings PROVE FALSE
    BY <1>6 DEF Counted
  <2>2. PICK k \in Entered : k < j /\ row[k].cycle = row[j].cycle
    BY <2>1 DEF SecondWings
  <2>3. j \in Gated /\ j \in RowId /\ j \in Int
    BY <1>6, <2>1 DEF Counted, Gated, Live, RowId
  <2>4. k \in RowId
    BY DEF Entered
  <2>5. row[k].status \in {"open", "closed"}
    BY <1>1, <1>7, <2>2, <2>3, <2>4 DEF CondorsStand
  <2>6. k \in Entered' /\ row'[k].cycle = row'[j].cycle
    BY <1>3, <1>4, <2>2, <2>3, <2>4, <2>5
  <2>7. j \in SecondWings'
    BY <2>2, <2>3, <2>6 DEF SecondWings, Entered
  <2> QED BY <2>1, <2>7 DEF Counted
<1>9. ~Idle => Placed' = Placed
  BY <1>1, <1>3, <1>4 DEF Placed, CondorsStand, Entered
<1>10. /\ CapsHold'
       /\ Cardinality(Counted') <= Cardinality(Counted)
       /\ \A S : Cardinality(Counted' \cap On(S)) <= Cardinality(Counted \cap On(S))
       /\ Cardinality(Counted') \in Nat /\ Cardinality(Counted) \in Nat
       /\ \A S : /\ Cardinality(Counted' \cap On(S)) \in Nat
                 /\ Cardinality(Counted \cap On(S)) \in Nat
       /\ RiskedOn(CountedToday)' \in Nat /\ RiskedOn(CountedToday) \in Nat
       /\ RiskedOn(CountedToday)' <= RiskedOn(CountedToday)
  <2>1. ASSUME NEW j \in RowId PROVE Risked(row'[j]) \in Nat /\ Risked(row'[j]) <= Risked(row[j])
    <3>1. row'[j] \in RowType
      BY DEF TypeOK
    <3>2. Risked(row'[j]) \in Nat
      BY <3>1, RiskedIs
    <3> QED BY <1>2, <3>2 DEF RowStep
  <2> QED BY <1>1, <1>3, <1>5, <1>8, <2>1, FewerCounted DEF GatesInv
<1>11. RowsNumbered'
  <2>1. ASSUME NEW j \in RowId, j =< rows
        PROVE  /\ row'[j].status # "none" /\ row'[j].cycle < j /\ row'[j].born =< now
               /\ row'[j].spread # NoSpread /\ (~row'[j].adopted => row'[j].spread \in Candidate)
               /\ row'[j].status = "pending" =>
                    /\ ~row'[j].adopted
                    /\ row'[j].max_loss = row'[j].spread.loss * row'[j].n
    <3>1. /\ row[j].status # "none" /\ row[j].cycle < j /\ row[j].born =< now
          /\ row[j].spread # NoSpread /\ (~row[j].adopted => row[j].spread \in Candidate)
          /\ row[j].status = "pending" => /\ ~row[j].adopted
                                         /\ row[j].max_loss = row[j].spread.loss * row[j].n
      BY <1>1, <2>1 DEF RowsNumbered
    <3>2. ~row'[j].adopted => ~row[j].adopted
      BY <1>2 DEF RowStep
    <3>3. row'[j].status = "pending" =>
            /\ row[j].status = "pending" /\ row'[j].adopted = row[j].adopted
            /\ row'[j].max_loss = row[j].max_loss
      BY <1>2 DEF RowStep
    <3> QED BY <1>3, <3>1, <3>2, <3>3
  <2>2. ASSUME NEW j \in RowId, ~(j =< rows) PROVE row'[j] = NoRow
    <3>1. row[j] = NoRow
      BY <1>1, <2>2 DEF RowsNumbered
    <3>2. j # i
      BY <3>1 DEF RowStep, NoRow
    <3> QED BY <1>2, <3>1, <3>2
  <2> QED BY <2>1, <2>2 DEF RowsNumbered
<1>12. CondorsStand'
  <2>1. \A j, k \in Entered' :
          (j < k /\ row'[j].cycle = row'[k].cycle) => row'[j].status \in {"open", "closed"}
    BY <1>1, <1>3, <1>4 DEF CondorsStand, Entered
  <2>2. ~Idle' => \A j \in Placed' : Len(wings') = 1 /\ row'[j].status \in {"open", "closed"}
    BY <1>1, <1>4, <1>9 DEF CondorsStand, Idle, Placed
  <2>3. cycle' =< rows'
    BY <1>1 DEF CondorsStand
  <2>4. Len(wings') = 2 => wings'[1].right # wings'[2].right
    BY <1>1 DEF CondorsStand
  <2> QED BY <2>1, <2>2, <2>3, <2>4 DEF CondorsStand
<1>13. RoomKept'
  <2>1. SUFFICES ASSUME ~Idle
                 PROVE  /\ Placed' = {} =>
                             /\ Cardinality(Counted') < rules.max_open_positions
                             /\ Cardinality(Counted' \cap On({Head(wings).u})) < rules.max_per_underlying
                             /\ Cardinality(Counted' \cap On(Peers(Head(wings).u))) < rules.max_per_group
                             /\ RiskedOn(CountedToday)' + Head(wings).loss * size =< rules.daily_budget
                        /\ \A k \in DOMAIN wings, j \in Gated' :
                             (row'[j].spread.u = wings[k].u /\ row'[j].spread.right = wings[k].right)
                               => row'[j].spread.short # wings[k].short
    BY <1>1, <1>5 DEF RoomKept, Idle
  <2>2. RoomKept
    BY DEF GatesInv
  <2>3. \A k \in DOMAIN wings, j \in Gated' :
          (row'[j].spread.u = wings[k].u /\ row'[j].spread.right = wings[k].right)
            => row'[j].spread.short # wings[k].short
    BY <1>3, <1>6, <2>1, <2>2 DEF RoomKept, Gated, Live
  <2>4. ASSUME Placed' = {}
        PROVE  /\ Cardinality(Counted') < rules.max_open_positions
               /\ Cardinality(Counted' \cap On({Head(wings).u})) < rules.max_per_underlying
               /\ Cardinality(Counted' \cap On(Peers(Head(wings).u))) < rules.max_per_group
               /\ RiskedOn(CountedToday)' + Head(wings).loss * size =< rules.daily_budget
    <3>1. /\ Cardinality(Counted) < rules.max_open_positions
          /\ Cardinality(Counted \cap On({Head(wings).u})) < rules.max_per_underlying
          /\ Cardinality(Counted \cap On(Peers(Head(wings).u))) < rules.max_per_group
          /\ RiskedOn(CountedToday) + Head(wings).loss * size =< rules.daily_budget
      BY <1>9, <2>1, <2>2, <2>4 DEF RoomKept
    <3>2. Cardinality(Counted') < rules.max_open_positions
      BY <1>10, <3>1, RulesAssumption
    <3>3. Cardinality(Counted' \cap On({Head(wings).u})) < rules.max_per_underlying
      <4>1. /\ Cardinality(Counted' \cap On({Head(wings).u})) \in Nat
            /\ Cardinality(Counted \cap On({Head(wings).u})) \in Nat
            /\ Cardinality(Counted' \cap On({Head(wings).u})) <= Cardinality(Counted \cap On({Head(wings).u}))
        BY <1>10
      <4> QED BY <3>1, <4>1, RulesAssumption
    <3>4. Cardinality(Counted' \cap On(Peers(Head(wings).u))) < rules.max_per_group
      <4>1. /\ Cardinality(Counted' \cap On(Peers(Head(wings).u))) \in Nat
            /\ Cardinality(Counted \cap On(Peers(Head(wings).u))) \in Nat
            /\ Cardinality(Counted' \cap On(Peers(Head(wings).u)))
                 <= Cardinality(Counted \cap On(Peers(Head(wings).u)))
        BY <1>10
      <4> QED BY <3>1, <4>1, RulesAssumption
    <3>5. Head(wings).loss * size \in Int
      <4>1. Head(wings) \in Candidate /\ size \in Nat
        BY <1>1, <2>1 DEF TypeOK, Idle, _SIZE_CEILING
      <4>2. PICK a \in Nat, b \in Nat : a = Head(wings).loss /\ b = size
        BY <4>1, CandidateIs
      <4>3. a * b \in Int
        OBVIOUS
      <4> QED BY <4>2, <4>3
    <3>6. RiskedOn(CountedToday)' + Head(wings).loss * size =< rules.daily_budget
      BY <1>10, <3>1, <3>5, RulesAssumption
    <3> QED BY <3>2, <3>3, <3>4, <3>6
  <2> QED BY <2>3, <2>4
<1>14. CooledDown'
  <2>1. ASSUME NEW k \in DOMAIN wings, NEW j \in Entered' \ Placed'
        PROVE  j \in Entered \ Placed
    <3>1. ~Idle
      BY <1>1 DEF Idle, TypeOK
    <3> QED BY <1>4, <1>9, <2>1, <3>1
  <2> QED BY <1>1, <1>3, <2>1 DEF GatesInv, CooledDown, Entered
<1>15. OneBetPerStrike'
  BY <1>3, <1>6 DEF GatesInv, OneBetPerStrike, Gated, Live
<1>16. DayRiskBounded'
  BY <1>10, RulesAssumption DEF GatesInv, DayRiskBounded
<1>17. EntriesSpaced'
  BY <1>3, <1>4 DEF GatesInv, EntriesSpaced, Entered
<1> QED BY <1>10, <1>11, <1>12, <1>13, <1>14, <1>15, <1>16, <1>17 DEF GatesInv

-----------------------------------------------------------------------------
(***************************************************************************)
(* A row is inserted: by the cycle, or by the reconciler.                  *)
(***************************************************************************)

\* The new row is the last, and the others are as they were.
LEMMA Inserted ==
  ASSUME TypeOK, RowsNumbered, now' = now, NEW c, NEW n, NEW status, NEW slip, NEW adopted,
         Insert(c, n, status, slip, adopted)
  PROVE  /\ rows + 1 \in RowId /\ rows' = rows + 1 /\ rows \in Nat
         /\ row'[rows + 1] = [status |-> status, spread |-> c, n |-> n, max_loss |-> (c.loss + slip) * n,
                              born |-> now, delta |-> {}, adopted |-> adopted, cycle |-> cycle]
         /\ row[rows + 1] = NoRow
         /\ \A i \in RowId : i # rows + 1 => row'[i] = row[i]
         /\ \A i \in RowId : row[i].status # "none" => i < rows + 1 /\ i # rows + 1
<1>1. rows \in Nat /\ rows < MaxRows /\ rows + 1 \in RowId
  BY BoundsAssumption DEF TypeOK, Insert, RowId
<1>2. DOMAIN row = RowId
  BY DEF TypeOK
<1>3. row[rows + 1] = NoRow
  BY <1>1 DEF RowsNumbered
<1>4. ASSUME NEW i \in RowId, row[i].status # "none" PROVE i < rows + 1 /\ i # rows + 1
  <2>1. i =< rows
    BY <1>4 DEF RowsNumbered, NoRow
  <2> QED BY <1>1, <2>1 DEF RowId
<1> QED BY <1>1, <1>2, <1>3, <1>4 DEF Insert

\* The table stays numbered.
LEMMA InsertNumbered ==
  ASSUME TypeOK, RowsNumbered, cycle =< rows, now' = now,
         NEW c, c # NoSpread, c.loss \in Nat, NEW n \in Nat, NEW status, status # "none",
         NEW slip \in Int, NEW adopted, ~adopted => c \in Candidate,
         status = "pending" => slip = 0 /\ ~adopted,
         Insert(c, n, status, slip, adopted)
  PROVE  RowsNumbered'
<1>1. PICK j : j = rows + 1
  OBVIOUS
<1>2. /\ j \in RowId /\ rows' = j /\ rows \in Nat
      /\ row'[j] = [status |-> status, spread |-> c, n |-> n, max_loss |-> (c.loss + slip) * n,
                    born |-> now, delta |-> {}, adopted |-> adopted, cycle |-> cycle]
      /\ \A i \in RowId : i # j => row'[i] = row[i]
  BY <1>1, Inserted
<1>3. cycle < j /\ now =< now /\ j =< rows'
  BY <1>1, <1>2 DEF TypeOK
<1>4. slip = 0 => (c.loss + slip) * n = c.loss * n
  OBVIOUS
<1>5. /\ row'[j].status # "none" /\ row'[j].cycle < j /\ row'[j].born =< now'
      /\ row'[j].spread # NoSpread /\ (~row'[j].adopted => row'[j].spread \in Candidate)
      /\ row'[j].status = "pending" => /\ ~row'[j].adopted
                                      /\ row'[j].max_loss = row'[j].spread.loss * row'[j].n
  BY <1>2, <1>3, <1>4
<1>6. ASSUME NEW i \in RowId, i # j
      PROVE  IF i =< j
             THEN /\ row'[i].status # "none" /\ row'[i].cycle < i /\ row'[i].born =< now'
                  /\ row'[i].spread # NoSpread /\ (~row'[i].adopted => row'[i].spread \in Candidate)
                  /\ row'[i].status = "pending" =>
                       /\ ~row'[i].adopted
                       /\ row'[i].max_loss = row'[i].spread.loss * row'[i].n
             ELSE row'[i] = NoRow
  <2>1. row'[i] = row[i]
    BY <1>2, <1>6
  <2>2. i =< j <=> i =< rows
    BY <1>1, <1>2, <1>6 DEF RowId
  <2> QED BY <2>1, <2>2 DEF RowsNumbered
<1> QED BY <1>2, <1>3, <1>5, <1>6 DEF RowsNumbered

\* The reconciler adopts a spread: no entry of the cycles.
LEMMA AdoptKeeps ==
  ASSUME GatesInv, TypeOK', UNCHANGED <<now, entries>>, NEW c \in Strays,
         c # NoSpread, Insert(c, 1, "open", 0, TRUE)
  PROVE  GatesInv'
<1>1. TypeOK /\ RowsNumbered /\ CondorsStand /\ UNCHANGED <<wings, size, cycle>>
  BY DEF GatesInv, entries
<1>2. PICK j : j = rows + 1
  OBVIOUS
<1>3. /\ j \in RowId /\ rows' = j /\ rows \in Nat
      /\ row'[j].status = "open" /\ row'[j].adopted = TRUE
      /\ row[j] = NoRow
      /\ \A i \in RowId : i # j => row'[i] = row[i]
      /\ \A i \in RowId : row[i].status # "none" => i < j /\ i # j
  <2>1. /\ j \in RowId /\ rows' = j /\ rows \in Nat
        /\ row[j] = NoRow
        /\ \A i \in RowId : i # j => row'[i] = row[i]
        /\ \A i \in RowId : row[i].status # "none" => i < j /\ i # j
    BY <1>1, <1>2, Inserted
  <2>2. row'[j].status = "open" /\ row'[j].adopted = TRUE
    BY <1>1, <1>2, <2>1 DEF Insert, TypeOK
  <2> QED BY <2>1, <2>2
<1>4. Gated' = Gated /\ Entered' = Entered /\ j \notin Entered /\ j \notin Gated
  BY <1>3 DEF Gated, Entered, Live, LIVE, NoRow
<1>5. ASSUME NEW i \in Entered PROVE i \in RowId /\ i # j /\ row'[i] = row[i]
  BY <1>3, <1>4, <1>5 DEF Entered
<1>6. Gated \subseteq Entered
  BY DEF Gated, Live, LIVE, Entered
<1>7. Counted' = Counted
  BY <1>3, <1>4, <1>5, <1>6 DEF Counted, SecondWings, Entered
<1>8. \A S : Counted \cap On(S)' = Counted \cap On(S)
  BY <1>5, <1>6 DEF On, Counted
<1>9. Placed' = Placed
  BY <1>1, <1>4, <1>5 DEF Placed
<1>10. CountedToday' = CountedToday
  BY <1>5, <1>6, <1>7 DEF CountedToday, Counted
<1>11. RiskedOn(CountedToday)' = RiskedOn(CountedToday)
  <2>1. IsFiniteSet(CountedToday) /\ CountedToday \subseteq RowId /\ CountedToday \subseteq Entered
    BY <1>6, RowSets, RowsFinite
  <2>2. \A i \in CountedToday : row'[i] = row[i] /\ Risked(row[i]) \in Int
    BY <1>1, <1>5, <2>1, RiskedTerms
  <2>3. RiskIn(row', CountedToday) = RiskIn(row, CountedToday)
    BY <2>1, <2>2, RiskSame
  <2> QED BY <1>10, <2>3 DEF RiskedOn, RiskIn, SumFunction
<1>12. RowsNumbered'
  <2>1. c.loss \in Nat /\ 1 \in Nat /\ 0 \in Int /\ cycle =< rows
    BY <1>1, StraysAssumption DEF CondorsStand
  <2> QED BY <1>1, <2>1, InsertNumbered
<1>13. CondorsStand'
  <2>1. cycle' =< rows'
    BY <1>1, <1>2, <1>3 DEF CondorsStand, TypeOK
  <2> QED BY <1>1, <1>4, <1>5, <1>9, <2>1 DEF CondorsStand, Idle, Placed
<1>14. RoomKept'
  <2>1. /\ Counted' \cap On({Head(wings).u})' = Counted \cap On({Head(wings).u})
        /\ Counted' \cap On(Peers(Head(wings).u))' = Counted \cap On(Peers(Head(wings).u))
    BY <1>1, <1>7, <1>8
  <2>2. \A k \in DOMAIN wings, i \in Gated' :
          ~Idle => ((row'[i].spread.u = wings[k].u /\ row'[i].spread.right = wings[k].right)
                      => row'[i].spread.short # wings[k].short)
    BY <1>4, <1>5, <1>6 DEF GatesInv, RoomKept
  <2> QED BY <1>1, <1>7, <1>9, <1>11, <2>1, <2>2 DEF GatesInv, RoomKept, Idle
<1>15. CooledDown'
  BY <1>1, <1>4, <1>5, <1>9 DEF GatesInv, CooledDown
<1>16. CapsHold'
  BY <1>7, <1>8 DEF GatesInv, CapsHold
<1>17. OneBetPerStrike'
  BY <1>4, <1>5, <1>6 DEF GatesInv, OneBetPerStrike
<1>18. DayRiskBounded'
  BY <1>11 DEF GatesInv, DayRiskBounded
<1>19. EntriesSpaced'
  BY <1>4, <1>5 DEF GatesInv, EntriesSpaced
<1> QED BY <1>12, <1>13, <1>14, <1>15, <1>16, <1>17, <1>18, <1>19 DEF GatesInv

\* What is left of two wings.
LEMMA TailOfTwo ==
  ASSUME NEW S, NEW s \in Seq(S), Len(s) = 2
  PROVE  /\ Tail(s) \in Seq(S) /\ Len(Tail(s)) = 1 /\ DOMAIN Tail(s) = {1}
         /\ Tail(s)[1] = s[2] /\ 2 \in DOMAIN s /\ s[2] \in S
<1>1. s # <<>>
  OBVIOUS
<1>2. Tail(s) \in Seq(S) /\ Len(Tail(s)) = 1 /\ \A i \in 1..1 : Tail(s)[i] = s[i + 1]
  BY <1>1, HeadTailProperties
<1>3. DOMAIN Tail(s) = 1..1
  BY <1>2, LenProperties
<1>4. s \in [1..2 -> S]
  BY LenProperties
<1>5. 2 \in DOMAIN s /\ s[2] \in S
  BY <1>4
<1> QED BY <1>2, <1>3, <1>5

\* Every way a step leaves nothing to place keeps what is promised to the cycle.
LEMMA NothingPromised ==
  ASSUME TypeOK', wings' = <<>>
  PROVE  RoomKept' /\ CooledDown'
BY DEF RoomKept, CooledDown, Idle

\* The cycle places its next spread: the room the gates found is still there.
LEMMA PlaceKeeps ==
  ASSUME GatesInv, TypeOK', ~Idle, now' = now,
         NEW status \in {"open", "pending"}, NEW slip \in Int, status = "pending" => slip = 0,
         Insert(Head(wings), size, status, slip, FALSE),
         \/ status = "open" /\ Len(wings) = 2 /\ wings' = Tail(wings) /\ UNCHANGED <<size, cycle>>
         \/ StopPlacing
  PROVE  GatesInv'
<1>1. TypeOK /\ RowsNumbered /\ CondorsStand /\ RoomKept /\ CooledDown
  BY DEF GatesInv
<1>2. PICK c \in Candidate : c = Head(wings) /\ c = wings[1] /\ 1 \in DOMAIN wings
  BY <1>1 DEF TypeOK, Idle
<1>3. PICK j : j = rows + 1
  OBVIOUS
<1>4. /\ j \in RowId /\ j \in Int /\ rows' = j /\ rows \in Nat
      /\ row[j] = NoRow
      /\ \A i \in RowId : i # j => row'[i] = row[i]
      /\ \A i \in RowId : row[i].status # "none" => i < j /\ i # j
  <2>1. /\ j \in RowId /\ rows' = j /\ rows \in Nat
        /\ row[j] = NoRow
        /\ \A i \in RowId : i # j => row'[i] = row[i]
        /\ \A i \in RowId : row[i].status # "none" => i < j /\ i # j
    BY <1>1, <1>2, <1>3, Inserted
  <2> QED BY <1>3, <2>1
<1>5. /\ row'[j].status = status /\ row'[j].adopted = FALSE /\ row'[j].spread = c
      /\ row'[j].n = size /\ row'[j].born = now /\ row'[j].cycle = cycle
  BY <1>1, <1>2, <1>3, <1>4 DEF Insert, TypeOK
<1>6. /\ Entered' = Entered \cup {j} /\ j \notin Entered
      /\ Gated' = Gated \cup {j} /\ j \notin Gated
  BY <1>4, <1>5 DEF Gated, Entered, Live, LIVE, NoRow
<1>7. ASSUME NEW i \in Entered PROVE i \in RowId /\ i # j /\ i < j /\ i \in Int /\ row'[i] = row[i]
  BY <1>4, <1>7 DEF Entered, RowId
<1>8. Gated \subseteq Entered
  BY DEF Gated, Live, LIVE, Entered
<1>9. ASSUME NEW i \in Gated PROVE i \in SecondWings' <=> i \in SecondWings
  <2>1. i \in Entered
    BY <1>8
  <2>2. ASSUME NEW k \in Entered', k < i PROVE k \in Entered
    BY <1>4, <1>6, <1>7, <2>1, <2>2
  <2> QED BY <1>6, <1>7, <2>1, <2>2 DEF SecondWings
<1>10. j \in SecondWings' <=> Placed # {}
  BY <1>4, <1>5, <1>6, <1>7 DEF SecondWings, Placed
<1>11. /\ Placed # {} => Counted' = Counted
       /\ Placed = {} => Counted' = Counted \cup {j} /\ j \notin Counted
  BY <1>6, <1>9, <1>10 DEF Counted
<1>12. \A S : Counted \cap On(S)' = Counted \cap On(S)
  BY <1>7, <1>8 DEF On, Counted
<1>13. \A S : j \in On(S)' <=> c.u \in S
  BY <1>4, <1>5 DEF On
<1>14. RowsNumbered'
  <2>1. c # NoSpread /\ c.loss \in Nat /\ size \in Nat /\ status # "none" /\ cycle =< rows
    BY <1>1, CandidateIs DEF TypeOK, _SIZE_CEILING, CondorsStand
  <2>2. Insert(c, size, status, slip, FALSE)
    BY <1>2
  <2> QED BY <1>1, <2>1, <2>2, InsertNumbered
<1>15. CondorsStand'
  <2>1. cycle' =< rows'
    <3>1. cycle' = cycle \/ cycle' = 0
      BY DEF StopPlacing
    <3> QED BY <1>1, <1>3, <1>4, <3>1 DEF CondorsStand, TypeOK
  <2>2. ASSUME NEW i \in Entered', NEW k \in Entered', i < k, row'[i].cycle = row'[k].cycle
        PROVE  row'[i].status \in {"open", "closed"}
    <3>1. i # j /\ i \in Entered
      BY <1>4, <1>6, <1>7, <2>2
    <3>2. CASE k = j
      <4>1. i \in Placed
        BY <1>5, <1>7, <2>2, <3>1, <3>2 DEF Placed
      <4> QED BY <1>1, <1>7, <3>1, <4>1 DEF CondorsStand
    <3>3. CASE k # j
      BY <1>1, <1>6, <1>7, <2>2, <3>1, <3>3 DEF CondorsStand
    <3> QED BY <3>2, <3>3
  <2>3. ASSUME ~Idle', NEW i \in Placed'
        PROVE  Len(wings') = 1 /\ row'[i].status \in {"open", "closed"}
    <3>1. status = "open" /\ Len(wings) = 2 /\ wings' = Tail(wings) /\ cycle' = cycle
      BY <2>3 DEF StopPlacing, Idle
    <3>2. Placed = {}
      BY <1>1, <3>1 DEF CondorsStand
    <3>3. i = j
      BY <1>6, <1>7, <2>3, <3>1, <3>2 DEF Placed
    <3>4. Len(wings') = 1
      BY <1>1, <3>1, TailOfTwo DEF TypeOK
    <3> QED BY <1>5, <3>1, <3>3, <3>4
  <2>4. Len(wings') # 2
    <3>1. CASE StopPlacing
      BY <3>1 DEF StopPlacing
    <3>2. CASE Len(wings) = 2 /\ wings' = Tail(wings)
      <4>1. Len(Tail(wings)) = 1
        BY <1>1, <3>2, TailOfTwo DEF TypeOK
      <4> QED BY <3>2, <4>1
    <3> QED BY <3>1, <3>2
  <2> QED BY <2>1, <2>2, <2>3, <2>4 DEF CondorsStand
<1>16. ASSUME Placed = {}
       PROVE  /\ Cardinality(Counted) < rules.max_open_positions
              /\ Cardinality(Counted \cap On({c.u})) < rules.max_per_underlying
              /\ Cardinality(Counted \cap On(Peers(c.u))) < rules.max_per_group
              /\ RiskedOn(CountedToday) + c.loss * size =< rules.daily_budget
  BY <1>1, <1>2, <1>16 DEF RoomKept
<1>17. CapsHold'
  <2>1. ASSUME NEW S, NEW T, NEW cap \in Nat, S \subseteq RowId, T \subseteq S \cup {j},
               Cardinality(S) < cap
        PROVE  Cardinality(T) =< cap
    <3>1. S \cup {j} \in SUBSET RowId
      BY <1>4, <2>1
    <3>2. /\ Cardinality(T) <= Cardinality(S \cup {j})
          /\ Cardinality(T) \in Nat /\ Cardinality(S \cup {j}) \in Nat
      BY <2>1, <3>1, FewerRows
    <3>3. IsFiniteSet(S) /\ Cardinality(S) \in Nat
      BY <2>1, RowsFinite
    <3>4. Cardinality(S \cup {j}) <= Cardinality(S) + 1
      <4>1. CASE j \in S
        <5>1. S \cup {j} = S
          BY <4>1
        <5> QED BY <3>3, <5>1, Cardinality(S) <= Cardinality(S) + 1
      <4>2. CASE j \notin S
        <5>1. Cardinality(S \cup {j}) = Cardinality(S) + 1
          BY <3>3, <4>2, FS_AddElement
        <5> QED BY <3>3, <5>1
      <4> QED BY <4>1, <4>2
    <3> QED BY <2>1, <3>2, <3>3, <3>4
  <2>2. Counted \subseteq RowId
    BY RowSets
  <2>3. Cardinality(Counted') =< rules.max_open_positions
    <3>1. CASE Placed # {}
      BY <1>11, <3>1 DEF GatesInv, CapsHold
    <3>2. CASE Placed = {}
      BY <1>11, <1>16, <2>1, <2>2, <3>2, RulesAssumption
    <3> QED BY <3>1, <3>2
  <2>4. ASSUME NEW S, c.u \notin S PROVE Counted' \cap On(S)' = Counted \cap On(S)
    BY <1>11, <1>12, <1>13, <2>4
  <2>5. ASSUME NEW S, Placed # {} PROVE Counted' \cap On(S)' = Counted \cap On(S)
    BY <1>11, <1>12, <2>5
  <2>6. ASSUME NEW S, Placed = {} PROVE Counted' \cap On(S)' \subseteq (Counted \cap On(S)) \cup {j}
    BY <1>11, <1>12, <2>6
  <2>7. ASSUME NEW u \in Underlying PROVE Cardinality(Counted' \cap On({u})') =< rules.max_per_underlying
    <3>1. Cardinality(Counted \cap On({u})) =< rules.max_per_underlying
      BY DEF GatesInv, CapsHold
    <3>2. CASE c.u # u \/ Placed # {}
      <4>1. c.u \notin {u} \/ Placed # {}
        BY <3>2
      <4>2. Counted' \cap On({u})' = Counted \cap On({u})
        BY <2>4, <2>5, <4>1
      <4> QED BY <3>1, <4>2
    <3>3. CASE c.u = u /\ Placed = {}
      <4>1. Counted' \cap On({u})' \subseteq (Counted \cap On({u})) \cup {j}
        BY <2>6, <3>3
      <4>2. Cardinality(Counted \cap On({u})) < rules.max_per_underlying
        BY <1>16, <3>3
      <4>3. Counted \cap On({u}) \subseteq RowId /\ rules.max_per_underlying \in Nat
        BY <2>2, RulesAssumption
      <4> QED BY <2>1, <4>1, <4>2, <4>3
    <3> QED BY <3>2, <3>3
  <2>8. ASSUME NEW u \in Underlying
        PROVE  Cardinality(Counted' \cap On(Peers(u))') =< rules.max_per_group
    <3>1. Cardinality(Counted \cap On(Peers(u))) =< rules.max_per_group
      BY DEF GatesInv, CapsHold
    <3>2. CASE c.u \notin Peers(u) \/ Placed # {}
      <4>1. Counted' \cap On(Peers(u))' = Counted \cap On(Peers(u))
        BY <2>4, <2>5, <3>2
      <4> QED BY <3>1, <4>1
    <3>3. CASE c.u \in Peers(u) /\ Placed = {}
      <4>1. Counted' \cap On(Peers(u))' \subseteq (Counted \cap On(Peers(u))) \cup {j}
        BY <2>6, <3>3
      <4>2. Cardinality(Counted \cap On(Peers(u))) < rules.max_per_group
        BY <1>16, <3>3, PeersAssumption
      <4>3. Counted \cap On(Peers(u)) \subseteq RowId /\ rules.max_per_group \in Nat
        BY <2>2, RulesAssumption
      <4> QED BY <2>1, <4>1, <4>2, <4>3
    <3> QED BY <3>2, <3>3
  <2> QED BY <2>3, <2>7, <2>8 DEF CapsHold
<1>18. OneBetPerStrike'
  <2>1. ASSUME NEW i \in Gated, row[i].spread.u = c.u, row[i].spread.right = c.right
        PROVE  row[i].spread.short # c.short
    BY <1>1, <1>2, <2>1 DEF RoomKept
  <2>2. ASSUME NEW i \in Gated', NEW k \in Gated', i # k, row'[i].spread.u = row'[k].spread.u,
               row'[i].spread.right = row'[k].spread.right
        PROVE  row'[i].spread.short # row'[k].spread.short
    <3>1. CASE i = j
      BY <1>5, <1>6, <1>7, <1>8, <2>1, <2>2, <3>1
    <3>2. CASE k = j
      BY <1>5, <1>6, <1>7, <1>8, <2>1, <2>2, <3>2
    <3>3. CASE i # j /\ k # j
      BY <1>6, <1>7, <1>8, <2>2, <3>3 DEF GatesInv, OneBetPerStrike
    <3> QED BY <3>1, <3>2, <3>3
  <2> QED BY <2>2 DEF OneBetPerStrike
<1>19. DayRiskBounded'
  <2>1. IsFiniteSet(CountedToday) /\ CountedToday \subseteq RowId /\ CountedToday \subseteq Entered
    BY <1>8, RowSets, RowsFinite
  <2>2. \A i \in CountedToday : row'[i] = row[i] /\ Risked(row[i]) \in Int
    BY <1>1, <1>7, <2>1, RiskedTerms
  <2>3. RiskIn(row', CountedToday) = RiskIn(row, CountedToday)
    BY <2>1, <2>2, RiskSame
  <2>4. RiskIn(row, CountedToday) = RiskedOn(CountedToday)
    BY RiskedOnIs
  <2>5. RiskedOn(CountedToday)' = RiskIn(row', CountedToday')
    BY DEF RiskedOn, RiskIn, SumFunction
  <2>6. CASE Placed # {}
    <3>1. CountedToday' = CountedToday
      BY <1>7, <1>8, <1>11, <2>6 DEF CountedToday, Counted
    <3> QED BY <2>3, <2>4, <2>5, <3>1 DEF GatesInv, DayRiskBounded
  <2>7. CASE Placed = {}
    <3>1. CountedToday' = CountedToday \cup {j} /\ j \notin CountedToday
      BY <1>5, <1>7, <1>8, <1>11, <2>7 DEF CountedToday, Counted
    <3>2. c.loss * size \in Int
      <4>1. PICK a \in Nat : a = c.loss
        BY CandidateIs
      <4>2. PICK b \in Nat : b = size
        BY <1>1 DEF TypeOK, _SIZE_CEILING
      <4>3. a * b \in Int
        OBVIOUS
      <4> QED BY <4>1, <4>2, <4>3
    <3>3. Risked(row'[j]) \in Nat /\ Risked(row'[j]) <= c.loss * size
      <4>1. row'[j] \in RowType
        BY <1>4 DEF TypeOK
      <4> QED BY <1>5, <4>1, RiskedIs
    <3>4. \A i \in CountedToday \cup {j} : Risked(row'[i]) \in Int
      BY <2>2, <3>3
    <3>5. RiskIn(row', CountedToday \cup {j}) = RiskIn(row', CountedToday) + Risked(row'[j])
      BY <2>1, <3>1, <3>4, RiskAdd
    <3>6. RiskIn(row, CountedToday) \in Int
      <4>1. \A i \in CountedToday : Risked(row[i]) \in Nat
        BY <1>1, <2>1, RiskedTerms
      <4>2. CountedToday \in SUBSET CountedToday
        OBVIOUS
      <4> QED BY <2>1, <4>1, <4>2, RiskPart
    <3>7. RiskedOn(CountedToday) + c.loss * size =< rules.daily_budget
      BY <1>16, <2>7
    <3>8. PICK old \in Int, new \in Nat, most \in Int, budget \in Nat :
            /\ old = RiskedOn(CountedToday) /\ new = Risked(row'[j])
            /\ most = c.loss * size /\ budget = rules.daily_budget
      BY <2>4, <3>2, <3>3, <3>6, RulesAssumption
    <3>9. RiskedOn(CountedToday)' = old + new
      BY <2>3, <2>4, <2>5, <3>1, <3>5, <3>8
    <3>10. old + new =< budget
      <4>1. new <= most /\ old + most =< budget
        BY <3>3, <3>7, <3>8
      <4> QED BY <4>1
    <3> QED BY <3>8, <3>9, <3>10 DEF DayRiskBounded
  <2> QED BY <2>6, <2>7
<1>20. EntriesSpaced'
  <2>1. ASSUME NEW i \in Entered \ Placed
        PROVE  /\ row[i].spread.u = c.u => now - row[i].born >= rules.cooldown_seconds
               /\ row[i].spread.u \in Peers(c.u) => now - row[i].born >= rules.group_cooldown_seconds
    BY <1>1, <1>2 DEF CooledDown
  <2>2. ASSUME NEW i \in Entered', NEW k \in Entered', i < k, row'[i].cycle # row'[k].cycle
        PROVE  /\ row'[i].spread.u = row'[k].spread.u
                    => row'[k].born - row'[i].born >= rules.cooldown_seconds
               /\ row'[i].spread.u \in Peers(row'[k].spread.u)
                    => row'[k].born - row'[i].born >= rules.group_cooldown_seconds
    <3>1. i \in Entered /\ row'[i] = row[i]
      BY <1>4, <1>6, <1>7, <2>2
    <3>2. CASE k = j
      <4>1. i \in Entered \ Placed
        BY <1>5, <2>2, <3>1, <3>2 DEF Placed
      <4> QED BY <1>5, <2>1, <3>1, <3>2, <4>1
    <3>3. CASE k # j
      BY <1>6, <1>7, <2>2, <3>1, <3>3 DEF GatesInv, EntriesSpaced
    <3> QED BY <3>2, <3>3
  <2> QED BY <2>2 DEF EntriesSpaced
<1>21. RoomKept' /\ CooledDown'
  <2>1. CASE StopPlacing
    BY <2>1, NothingPromised DEF StopPlacing
  <2>2. CASE status = "open" /\ Len(wings) = 2 /\ wings' = Tail(wings) /\ UNCHANGED <<size, cycle>>
    <3>1. Placed = {}
      BY <1>1, <2>2 DEF CondorsStand
    <3>2. DOMAIN wings' = {1} /\ wings'[1] = wings[2] /\ 2 \in DOMAIN wings
      BY <1>1, <2>2, TailOfTwo DEF TypeOK
    <3>3. wings[1].right # wings[2].right
      BY <1>1, <2>2 DEF CondorsStand
    <3>4. Placed' = {j}
      BY <1>5, <1>6, <1>7, <2>2, <3>1 DEF Placed
    <3>5. RoomKept'
      <4>1. ASSUME NEW i \in Gated', row'[i].spread.u = wings'[1].u,
                   row'[i].spread.right = wings'[1].right
            PROVE  row'[i].spread.short # wings'[1].short
        <5>1. i # j
          BY <1>2, <1>5, <3>2, <3>3, <4>1
        <5> QED BY <1>1, <1>6, <1>7, <1>8, <3>2, <4>1, <5>1 DEF RoomKept
      <4> QED BY <3>2, <3>4, <4>1 DEF RoomKept
    <3>6. CooledDown'
      <4>1. Entered' \ Placed' = Entered \ Placed
        BY <1>6, <3>1, <3>4
      <4> QED BY <1>1, <1>7, <3>2, <4>1 DEF CooledDown
    <3> QED BY <3>5, <3>6
  <2> QED BY <2>1, <2>2
<1> QED BY <1>14, <1>15, <1>17, <1>18, <1>19, <1>20, <1>21 DEF GatesInv

-----------------------------------------------------------------------------
(***************************************************************************)
(* The other steps, and the theorems.                                      *)
(***************************************************************************)

\* A cycle that stops keeps the invariant.
LEMMA StopKeeps ==
  ASSUME GatesInv, TypeOK', StopPlacing, UNCHANGED <<row, rows, closes, now>>
  PROVE  GatesInv'
<1>1. TypeOK /\ RowsNumbered /\ CondorsStand /\ wings' = <<>> /\ cycle' = 0
  BY DEF GatesInv, StopPlacing
<1>2. /\ Gated' = Gated /\ Counted' = Counted /\ Entered' = Entered
      /\ CountedToday' = CountedToday /\ \A S : On(S)' = On(S)
  BY DEF Live, Gated, Counted, SecondWings, Entered, CountedToday, On
<1>3. \A S : RiskedOn(S)' = RiskedOn(S)
  BY DEF RiskedOn
<1>4. (CapsHold /\ OneBetPerStrike /\ DayRiskBounded /\ EntriesSpaced)'
  BY <1>2, <1>3 DEF GatesInv, CapsHold, OneBetPerStrike, DayRiskBounded, EntriesSpaced
<1>5. RowsNumbered'
  BY <1>1 DEF RowsNumbered
<1>6. CondorsStand'
  <2>1. cycle' =< rows' /\ Idle' /\ Len(wings') # 2
    BY <1>1 DEF TypeOK, Idle
  <2> QED BY <1>1, <1>2, <2>1 DEF CondorsStand
<1> QED BY <1>1, <1>4, <1>5, <1>6, NothingPromised DEF GatesInv

\* The days do not go back.
LEMMA DaysPass ==
  ASSUME NEW s \in Nat, NEW t \in Nat, s <= t
  PROVE  Day(s) \in Int /\ Day(t) \in Int /\ Day(s) <= Day(t)
<1>1. PICK q \in Int : q = s \div DayLength /\ q * DayLength <= s
  BY DivisionIs, BoundsAssumption
<1>2. q * DayLength <= t
  BY <1>1, BoundsAssumption
<1>3. q <= t \div DayLength /\ t \div DayLength \in Int
  BY <1>2, QuotientFits, DivisionIs, BoundsAssumption
<1> QED BY <1>1, <1>3 DEF Day

\* Time passes, midnight too.
LEMMA PassKeeps ==
  ASSUME GatesInv, TypeOK', Pass
  PROVE  GatesInv'
<1>1. /\ TypeOK /\ RowsNumbered /\ CondorsStand /\ RoomKept /\ CooledDown
      /\ now' = now + 1 /\ now \in Nat
      /\ UNCHANGED <<row, rows, closes, wings, size, cycle>>
  BY BoundsAssumption DEF GatesInv, Pass, entries, TypeOK
<1>2. /\ Gated' = Gated /\ Counted' = Counted /\ Entered' = Entered /\ Placed' = Placed
      /\ \A S : On(S)' = On(S)
  BY <1>1 DEF Live, Gated, Counted, SecondWings, Entered, On, Placed
<1>3. \A i \in RowId : row[i].born \in Nat
  BY <1>1, RowFields
<1>4. RowsNumbered'
  <2>1. ASSUME NEW i \in RowId, row[i].born =< now PROVE row[i].born =< now'
    BY <1>1, <1>3, <2>1
  <2> QED BY <1>1, <2>1 DEF RowsNumbered
<1>5. CondorsStand'
  BY <1>1, <1>2 DEF CondorsStand, Idle
<1>6. CooledDown'
  <2>1. ASSUME NEW i \in RowId, NEW cooldown \in Nat, now - row[i].born >= cooldown
        PROVE  now' - row'[i].born >= cooldown
    BY <1>1, <1>3, <2>1
  <2> QED BY <1>1, <1>2, <2>1, RulesAssumption DEF CooledDown, Entered
<1>7. CountedToday' \in SUBSET CountedToday \/ CountedToday' = {}
  <2>1. ASSUME NEW i \in CountedToday', i \notin CountedToday PROVE FALSE
    <3>1. i \in Counted /\ i \in RowId /\ row[i].status # "none"
      BY <1>2, <2>1, RowSets DEF CountedToday, Counted, Gated, Live, LIVE
    <3>2. i =< rows
      BY <1>1, <3>1 DEF RowsNumbered, NoRow
    <3>3. row[i].born =< now
      BY <1>1, <3>1, <3>2 DEF RowsNumbered
    <3>4. Day(row[i].born) = Day(now + 1) /\ Day(row[i].born) # Day(now)
      BY <1>1, <2>1, <3>1 DEF CountedToday
    <3>5. /\ Day(row[i].born) <= Day(now) /\ Day(now) <= Day(now + 1)
          /\ Day(row[i].born) \in Int /\ Day(now) \in Int /\ Day(now + 1) \in Int
      BY <1>1, <1>3, <3>1, <3>3, DaysPass
    <3> QED BY <3>4, <3>5
  <2> QED BY <2>1
<1>8. /\ RiskedOn(CountedToday)' \in Nat /\ RiskedOn(CountedToday) \in Nat
      /\ RiskedOn(CountedToday)' <= RiskedOn(CountedToday)
  <2>1. CountedToday' \in SUBSET CountedToday /\ IsFiniteSet(CountedToday) /\ CountedToday \in SUBSET RowId
    BY <1>7, RowSets, RowsFinite
  <2>2. \A i \in CountedToday : Risked(row[i]) \in Nat
    BY <1>1, <2>1, RiskedTerms
  <2>3. RiskedOn(CountedToday)' = RiskIn(row, CountedToday')
    BY <1>1 DEF RiskedOn, RiskIn, SumFunction
  <2>4. RiskedOn(CountedToday) = RiskIn(row, CountedToday)
    BY RiskedOnIs
  <2> QED BY <2>1, <2>2, <2>3, <2>4, RiskPart
<1>9. DayRiskBounded'
  BY <1>8, RulesAssumption DEF GatesInv, DayRiskBounded
<1>10. RoomKept'
  <2>1. CASE Idle
    BY <1>1, <2>1 DEF RoomKept, Idle
  <2>2. CASE ~Idle
    <3>1. Head(wings).loss * size \in Int
      <4>1. Head(wings) \in Candidate
        BY <1>1, <2>2 DEF TypeOK, Idle
      <4>2. PICK a \in Nat : a = Head(wings).loss
        BY <4>1, CandidateIs
      <4>3. PICK b \in Nat : b = size
        BY <1>1 DEF TypeOK, _SIZE_CEILING
      <4>4. a * b \in Int
        OBVIOUS
      <4> QED BY <4>2, <4>3, <4>4
    <3>2. Placed = {} => RiskedOn(CountedToday)' + Head(wings).loss * size =< rules.daily_budget
      BY <1>1, <1>8, <2>2, <3>1, RulesAssumption DEF RoomKept
    <3> QED BY <1>1, <1>2, <2>2, <3>2 DEF RoomKept, Idle
  <2> QED BY <2>1, <2>2
<1>11. (CapsHold /\ OneBetPerStrike /\ EntriesSpaced)'
  BY <1>1, <1>2 DEF GatesInv, CapsHold, OneBetPerStrike, EntriesSpaced
<1> QED BY <1>4, <1>5, <1>6, <1>9, <1>10, <1>11 DEF GatesInv

\* At the start nothing is held and nothing is promised.
LEMMA InitKeeps ==
  ASSUME Init
  PROVE  GatesInv
<1>1. NoRow \in RowType
  BY BoundsAssumption DEF NoRow, RowType, Status, _SIZE_CEILING
<1>2. TypeOK
  BY <1>1, BoundsAssumption DEF Init, TypeOK, _SIZE_CEILING
<1>3. RowsNumbered
  BY DEF Init, RowsNumbered, RowId
<1>4. Entered = {} /\ Gated = {} /\ Counted = {} /\ CountedToday = {}
  BY DEF Init, Entered, Gated, Counted, CountedToday, Live, LIVE, NoRow
<1>5. CondorsStand /\ RoomKept /\ CooledDown
  BY <1>4 DEF Init, CondorsStand, RoomKept, CooledDown, Placed, Idle
<1>6. CapsHold
  <2>1. \A S : Counted \cap S = {}
    BY <1>4
  <2>2. Cardinality({}) = 0
    BY FS_EmptySet
  <2> QED BY <1>4, <2>1, <2>2, RulesAssumption DEF CapsHold
<1>7. DayRiskBounded
  <2>1. RiskedOn({}) = 0
    BY RiskedOnIs, SumEmpty DEF RiskIn
  <2> QED BY <1>4, <2>1, RulesAssumption DEF DayRiskBounded
<1>8. OneBetPerStrike /\ EntriesSpaced
  BY <1>4 DEF OneBetPerStrike, EntriesSpaced
<1> QED BY <1>2, <1>3, <1>5, <1>6, <1>7, <1>8 DEF GatesInv

\* The gates give a size within the ceiling.
LEMMA SizeIs ==
  ASSUME TypeOK, NEW c \in Candidate, NEW u
  PROVE  evaluate(c, _SIZE_CEILING, build_policy_state(u)) \in 0.._SIZE_CEILING
<1>1. PICK st : st = build_policy_state(u) /\ BookTyped(st)
  BY BookIs
<1>2. PICK n : n = evaluate(c, _SIZE_CEILING, st)
  OBVIOUS
<1>3. n \in 0.._SIZE_CEILING
  BY <1>1, <1>2, EvaluateIs
<1> QED BY <1>1, <1>2, <1>3

\* A directional proposal keeps the invariant.
LEMMA RunCycleKeeps ==
  ASSUME GatesInv, NEW c \in Candidate, RunCycle(c)
  PROVE  GatesInv'
<1>1. PICK n : n = evaluate(c, _SIZE_CEILING, build_policy_state(c.u))
  OBVIOUS
<1>2. /\ Idle /\ n >= 1 /\ wings' = <<c>> /\ size' = n /\ cycle' = rows
      /\ UNCHANGED <<row, rows, closes, now>>
  BY <1>1 DEF RunCycle
<1>3. TypeOK /\ n \in 0.._SIZE_CEILING
  BY <1>1, SizeIs DEF GatesInv
<1>4. TypeOK'
  BY <1>2, <1>3 DEF TypeOK
<1>5. {c} \in SUBSET Candidate /\ wings' # <<>> /\ Len(wings') # 2
      /\ \A k \in DOMAIN wings' : wings'[k] \in {c}
  BY <1>2
<1>6. \A w \in {c} : LET m == evaluate(w, _SIZE_CEILING, build_policy_state(w.u))
                     IN  m >= 1 /\ size' <= m
  BY <1>1, <1>2, <1>3 DEF _SIZE_CEILING
<1> QED BY <1>2, <1>4, <1>5, <1>6, GatesStep

\* A condor keeps the invariant.
LEMMA OpenCondorKeeps ==
  ASSUME GatesInv, NEW put \in Candidate, NEW call \in Candidate,
         put.u = call.u, put.right = "put", call.right = "call", OpenCondor(put, call)
  PROVE  GatesInv'
<1>1. PICK p, c : /\ p = evaluate(put, _SIZE_CEILING, build_policy_state(put.u))
                  /\ c = evaluate(call, _SIZE_CEILING, build_policy_state(put.u))
  OBVIOUS
<1>2. TypeOK /\ p \in 0..100 /\ c \in 0..100
  BY <1>1, SizeIs DEF GatesInv, _SIZE_CEILING
<1>3. { evaluate(w, _SIZE_CEILING, build_policy_state(put.u)) : w \in {put, call} } = {p, c}
  BY <1>1
<1>4. /\ Idle /\ p >= 1 /\ c >= 1 /\ wings' = <<put, call>> /\ size' = Min({p, c}) /\ cycle' = rows
      /\ UNCHANGED <<row, rows, closes, now>>
  BY <1>1, <1>3 DEF OpenCondor
<1>5. Min({p, c}) \in {p, c} /\ Min({p, c}) <= p /\ Min({p, c}) <= c
  <2>1. IsFiniteSet({p} \cup {c}) /\ {p} \cup {c} = {p, c}
    BY FS_Singleton, FS_AddElement
  <2> QED BY <1>2, <2>1, MinIs
<1>6. TypeOK'
  <2>1. size' \in 0.._SIZE_CEILING
    BY <1>2, <1>4, <1>5 DEF _SIZE_CEILING
  <2>2. wings' \in Seq(Candidate) /\ Len(wings') =< 2
    BY <1>4
  <2> QED BY <1>2, <1>4, <2>1, <2>2 DEF TypeOK
<1>7. /\ {put, call} \in SUBSET Candidate /\ wings' # <<>>
      /\ \A k \in DOMAIN wings' : wings'[k] \in {put, call}
      /\ wings'[1].right # wings'[2].right
  BY <1>4
<1>8. ASSUME NEW w \in {put, call}
      PROVE  LET n == evaluate(w, _SIZE_CEILING, build_policy_state(w.u)) IN n >= 1 /\ size' <= n
  <2>1. CASE w = put
    BY <1>1, <1>4, <1>5, <2>1
  <2>2. CASE w = call
    BY <1>1, <1>4, <1>5, <2>2
  <2> QED BY <2>1, <2>2
<1> QED BY <1>4, <1>6, <1>7, <1>8, GatesStep

\* An inserted row has its type.
LEMMA InsertTyped ==
  ASSUME TypeOK, NEW c \in Candidate \cup Strays, NEW n \in 0.._SIZE_CEILING,
         NEW status \in {"open", "pending"}, NEW slip \in Int, NEW adopted \in BOOLEAN,
         c.loss \in Nat, c.loss + slip >= 0, Insert(c, n, status, slip, adopted)
  PROVE  row' \in [RowId -> RowType] /\ rows' \in 0..MaxRows
<1>1. (c.loss + slip) * n \in Nat
  <2>1. PICK a \in Nat, b \in Nat : a = c.loss + slip /\ b = n
    BY DEF _SIZE_CEILING
  <2>2. a * b \in Nat
    OBVIOUS
  <2> QED BY <2>1, <2>2
<1>2. [status |-> status, spread |-> c, n |-> n, max_loss |-> (c.loss + slip) * n,
       born |-> now, delta |-> {}, adopted |-> adopted, cycle |-> cycle] \in RowType
  BY <1>1 DEF RowType, Status, TypeOK
<1>3. rows' \in 0..MaxRows
  BY BoundsAssumption DEF TypeOK, Insert
<1> QED BY <1>2, <1>3 DEF TypeOK, Insert

\* Placing keeps the invariant, filled or pending.
LEMMA PlaceFilledKeeps ==
  ASSUME GatesInv, NEW slip \in Slips, PlaceFilled(slip)
  PROVE  GatesInv'
<1>1. TypeOK /\ ~Idle /\ now' = now /\ closes' = closes /\ slip \in Int
  BY DollarsAssumption DEF GatesInv, PlaceFilled
<1>2. Insert(Head(wings), size, "open", slip, FALSE)
  BY DEF PlaceFilled
<1>3. Head(wings) \in Candidate /\ size \in 0.._SIZE_CEILING /\ Head(wings).loss + slip >= 0
  BY <1>1, DollarsAssumption DEF TypeOK, Idle
<1>4. row' \in [RowId -> RowType] /\ rows' \in 0..MaxRows
  BY <1>1, <1>2, <1>3, CandidateIs, InsertTyped
<1>5. \/ Len(wings) = 2 /\ wings' = Tail(wings) /\ UNCHANGED <<size, cycle>>
      \/ StopPlacing
  BY DEF PlaceFilled
<1>6. TypeOK'
  <2>1. CASE Len(wings) = 2 /\ wings' = Tail(wings) /\ UNCHANGED <<size, cycle>>
    <3>1. wings' \in Seq(Candidate) /\ Len(wings') =< 2
      <4>1. Tail(wings) \in Seq(Candidate) /\ Len(Tail(wings)) = 1
        BY <1>1, <2>1, TailOfTwo DEF TypeOK
      <4> QED BY <2>1, <4>1
    <3> QED BY <1>1, <1>4, <2>1, <3>1 DEF TypeOK
  <2>2. CASE StopPlacing
    BY <1>1, <1>4, <2>2, BoundsAssumption DEF TypeOK, StopPlacing, _SIZE_CEILING
  <2> QED BY <1>5, <2>1, <2>2
<1> QED BY <1>1, <1>2, <1>5, <1>6, PlaceKeeps

\* So does an order left working, after which nothing more is placed.
LEMMA PlacePendingKeeps ==
  ASSUME GatesInv, PlacePending
  PROVE  GatesInv'
<1>1. /\ TypeOK /\ ~Idle /\ now' = now /\ closes' = closes /\ StopPlacing
      /\ Insert(Head(wings), size, "pending", 0, FALSE)
  BY DEF GatesInv, PlacePending
<1>2. Head(wings) \in Candidate /\ size \in 0.._SIZE_CEILING
  BY <1>1 DEF TypeOK, Idle
<1>3. row' \in [RowId -> RowType] /\ rows' \in 0..MaxRows
  <2>1. Head(wings) \in Candidate \cup Strays /\ Head(wings).loss \in Nat
    BY <1>2, CandidateIs
  <2>2. Head(wings).loss + 0 >= 0
    <3>1. PICK loss \in Nat : loss = Head(wings).loss
      BY <2>1
    <3>2. loss + 0 >= 0
      OBVIOUS
    <3> QED BY <3>1, <3>2
  <2>3. "pending" \in {"open", "pending"} /\ 0 \in Int /\ FALSE \in BOOLEAN
    OBVIOUS
  <2> QED BY <1>1, <1>2, <2>1, <2>2, <2>3, InsertTyped
<1>4. TypeOK'
  BY <1>1, <1>3, BoundsAssumption DEF TypeOK, StopPlacing, _SIZE_CEILING
<1>5. "pending" \in {"open", "pending"} /\ 0 \in Int /\ 0 = 0
  OBVIOUS
<1> QED BY <1>1, <1>4, <1>5, PlaceKeeps

\* A row that takes a typed value keeps the invariant, if the value is one a step of
\* the exits job gives it.
LEMMA BecomeKeeps ==
  ASSUME GatesInv, NEW i \in RowId, NEW from, NEW r, from # "none",
         Become(i, from, r), r \in RowType, r.status # "none",
         r.spread = row[i].spread, r.n = row[i].n, r.born = row[i].born, r.cycle = row[i].cycle,
         Risked(r) <= Risked(row[i]),
         r.status = "pending" => from = "pending" /\ r.max_loss = row[i].max_loss,
         \/ /\ r.adopted = row[i].adopted
            /\ from \in {"open", "closed"} => r.status \in {"open", "closed"}
            /\ r.status \in LIVE => from \in LIVE
         \/ r.adopted = TRUE /\ from = "unfilled" /\ r.status = "open",
         closes' \in Seq([pnl : Results, at : 0..MaxTime])
  PROVE  GatesInv'
<1>1. /\ TypeOK /\ row[i].status = from /\ row' = [row EXCEPT ![i] = r]
      /\ UNCHANGED <<rows, now, entries>> /\ UNCHANGED <<wings, size, cycle>>
  BY DEF GatesInv, Become, entries
<1>2. TypeOK'
  BY <1>1 DEF TypeOK
<1>3. RowStep(i, r)
  BY <1>1 DEF RowStep
<1> QED BY <1>1, <1>2, <1>3, RowStepKeeps

\* What a step leaves alone of a row.
SameEntry(q, r) == r.spread = q.spread /\ r.n = q.n /\ r.born = q.born /\ r.cycle = q.cycle

\* A row that can lose as much as before counts for as much.
LEMMA SameRisk ==
  ASSUME NEW q \in RowType, NEW r, SameEntry(q, r), r.max_loss = q.max_loss
  PROVE  Risked(r) <= Risked(q)
<1>1. Risked(r) = Risked(q)
  BY DEF Risked, SameEntry
<1>2. Risked(q) \in Nat
  BY RiskedIs
<1> QED BY <1>1, <1>2

\* A close, or an entry given up on.
LEMMA StatusUpdate ==
  ASSUME NEW q \in RowType, NEW status \in {"closed", "unfilled"}, NEW r,
         r = [q EXCEPT !.status = status]
  PROVE  /\ r \in RowType /\ r.status = status /\ r.adopted = q.adopted
         /\ Risked(r) <= Risked(q) /\ SameEntry(q, r)
<1>1. r \in RowType /\ r.status = status /\ r.adopted = q.adopted
  BY DEF RowType, Status
<1>2. SameEntry(q, r) /\ r.max_loss = q.max_loss
  BY DEF RowType, SameEntry
<1> QED BY <1>1, <1>2, SameRisk

\* A pending entry confirmed: it counted for what it could lose at the mid, and counts
\* for no more whatever it can lose now.
LEMMA FillUpdate ==
  ASSUME NEW q \in RowType, q.max_loss = q.spread.loss * q.n,
         NEW extra \in Int, q.max_loss + extra >= 0,
         NEW r, r = [q EXCEPT !.status = "open", !.max_loss = @ + extra]
  PROVE  /\ r \in RowType /\ r.status = "open" /\ r.adopted = q.adopted
         /\ Risked(r) <= Risked(q) /\ SameEntry(q, r)
<1>1. PICK loss \in Nat : loss = q.max_loss + extra
  <2>1. PICK m \in Nat : m = q.max_loss
    BY DEF RowType
  <2> QED BY <2>1
<1>2. r = [q EXCEPT !.status = "open", !.max_loss = loss]
  BY <1>1
<1>3. r \in RowType
  BY <1>2 DEF RowType, Status
<1>4. r.status = "open" /\ r.adopted = q.adopted
  BY <1>2 DEF RowType
<1>5. SameEntry(q, r)
  BY <1>2 DEF RowType, SameEntry
<1>6. Risked(r) <= r.spread.loss * r.n
  BY <1>3, RiskedIs
<1>7. r.spread.loss * r.n = Risked(q)
  BY <1>5, RiskedIs DEF SameEntry
<1> QED BY <1>3, <1>4, <1>5, <1>6, <1>7

\* A measured delta.
LEMMA TickUpdate ==
  ASSUME NEW q \in RowType, NEW d \in Deltas, NEW r, r = [q EXCEPT !.delta = {d}]
  PROVE  /\ r \in RowType /\ r.status = q.status /\ r.adopted = q.adopted
         /\ Risked(r) <= Risked(q) /\ SameEntry(q, r)
<1>1. r \in RowType /\ r.status = q.status /\ r.adopted = q.adopted
  BY DEF RowType
<1>2. SameEntry(q, r) /\ r.max_loss = q.max_loss
  BY DEF RowType, SameEntry
<1> QED BY <1>1, <1>2, SameRisk

\* An entry given up on that did fill.
LEMMA ReviveUpdate ==
  ASSUME NEW q \in RowType, NEW r, r = [q EXCEPT !.status = "open", !.adopted = TRUE]
  PROVE  /\ r \in RowType /\ r.status = "open" /\ r.adopted = TRUE
         /\ Risked(r) <= Risked(q) /\ SameEntry(q, r)
<1>1. r \in RowType /\ r.status = "open" /\ r.adopted = TRUE
  BY DEF RowType, Status
<1>2. SameEntry(q, r) /\ r.max_loss = q.max_loss
  BY DEF RowType, SameEntry
<1> QED BY <1>1, <1>2, SameRisk

\* Each step of the exits job keeps the invariant.
LEMMA ExitsKeep ==
  ASSUME GatesInv, ExitsStep
  PROVE  GatesInv'
<1>1. /\ TypeOK /\ \A i \in RowId : row[i] \in RowType
      /\ closes \in Seq([pnl : Results, at : 0..MaxTime])
  BY DEF GatesInv, TypeOK
<1>2. ASSUME NEW i \in RowId, NEW slip \in Slips, ConfirmFill(i, slip) PROVE GatesInv'
  <2>0. row[i].max_loss = row[i].spread.loss * row[i].n /\ row[i].spread \in Candidate
    <3>1. row[i].status = "pending" /\ RowsNumbered
      BY <1>2 DEF ConfirmFill, Become, GatesInv
    <3>2. i =< rows
      BY <3>1 DEF RowsNumbered, NoRow
    <3> QED BY <3>1, <3>2 DEF RowsNumbered
  <2>1. PICK extra \in Int : extra = slip * row[i].n /\ row[i].max_loss + extra >= 0
    <3>1. PICK a \in Int, b \in Nat, L \in Nat : a = slip /\ b = row[i].n /\ L = row[i].spread.loss
      BY <1>1, <1>2, RowFields, DollarsAssumption
    <3>2. L + a >= 0
      BY <1>2, <2>0, <3>1, DollarsAssumption
    <3>3. PICK m \in Nat : m = L + a
      BY <3>2
    <3>4. a * b \in Int /\ L * b \in Int /\ m * b >= 0
      OBVIOUS
    <3>5. L * b + a * b = m * b
      BY <3>3
    <3> QED BY <2>0, <3>1, <3>4, <3>5
  <2>2. PICK r : r = [row[i] EXCEPT !.status = "open", !.max_loss = @ + extra]
    OBVIOUS
  <2>3. Become(i, "pending", r) /\ closes' = closes
    BY <1>2, <2>1, <2>2 DEF ConfirmFill
  <2>4. /\ r \in RowType /\ r.status = "open" /\ r.adopted = row[i].adopted
        /\ Risked(r) <= Risked(row[i]) /\ SameEntry(row[i], r)
    <3>1. PICK q \in RowType : q = row[i]
      BY <1>1
    <3>2. r = [q EXCEPT !.status = "open", !.max_loss = @ + extra]
      BY <2>2, <3>1
    <3>3. q.max_loss = q.spread.loss * q.n /\ q.max_loss + extra >= 0
      BY <2>0, <2>1, <3>1
    <3>4. /\ r \in RowType /\ r.status = "open" /\ r.adopted = q.adopted
          /\ Risked(r) <= Risked(q) /\ SameEntry(q, r)
      BY <3>2, <3>3, FillUpdate, Zenon
    <3> QED BY <3>1, <3>4
  <2> QED BY <1>1, <2>3, <2>4, BecomeKeeps DEF LIVE, SameEntry
<1>3. ASSUME NEW i \in RowId, NEW pnl \in Results, ClosePosition(i, pnl) PROVE GatesInv'
  <2>1. PICK r : r = [row[i] EXCEPT !.status = "closed"]
    OBVIOUS
  <2>2. Become(i, "open", r) /\ closes' = <<[pnl |-> pnl, at |-> now]>> \o closes
    BY <1>3, <2>1 DEF ClosePosition
  <2>3. closes' \in Seq([pnl : Results, at : 0..MaxTime])
    BY <1>1, <1>3, <2>2 DEF TypeOK
  <2>4. /\ r \in RowType /\ r.status = "closed" /\ r.adopted = row[i].adopted
        /\ Risked(r) <= Risked(row[i]) /\ SameEntry(row[i], r)
    <3>1. PICK q \in RowType : q = row[i]
      BY <1>1
    <3>2. r = [q EXCEPT !.status = "closed"]
      BY <2>1, <3>1
    <3>3. "closed" \in {"closed", "unfilled"}
      OBVIOUS
    <3> QED BY <3>1, <3>2, <3>3, StatusUpdate
  <2> QED BY <2>2, <2>3, <2>4, BecomeKeeps DEF LIVE, SameEntry
<1>4. ASSUME NEW i \in RowId, NEW d \in Deltas, RecordTick(i, d) PROVE GatesInv'
  <2>1. PICK r : r = [row[i] EXCEPT !.delta = {d}]
    OBVIOUS
  <2>2. Become(i, "open", r) /\ closes' = closes /\ row[i].status = "open"
    BY <1>4, <2>1 DEF RecordTick, Become
  <2>3. /\ r \in RowType /\ r.status = "open" /\ r.adopted = row[i].adopted
        /\ Risked(r) <= Risked(row[i]) /\ SameEntry(row[i], r)
    <3>1. PICK q \in RowType : q = row[i]
      BY <1>1
    <3>2. r = [q EXCEPT !.delta = {d}]
      BY <2>1, <3>1
    <3> QED BY <2>2, <3>1, <3>2, TickUpdate
  <2> QED BY <1>1, <2>2, <2>3, BecomeKeeps DEF LIVE, SameEntry
<1>5. ASSUME NEW i \in RowId, MarkUnfilled(i) PROVE GatesInv'
  <2>1. PICK r : r = [row[i] EXCEPT !.status = "unfilled"]
    OBVIOUS
  <2>2. Become(i, "pending", r) /\ closes' = closes
    BY <1>5, <2>1 DEF MarkUnfilled
  <2>3. /\ r \in RowType /\ r.status = "unfilled" /\ r.adopted = row[i].adopted
        /\ Risked(r) <= Risked(row[i]) /\ SameEntry(row[i], r)
    <3>1. PICK q \in RowType : q = row[i]
      BY <1>1
    <3>2. r = [q EXCEPT !.status = "unfilled"]
      BY <2>1, <3>1
    <3>3. "unfilled" \in {"closed", "unfilled"}
      OBVIOUS
    <3> QED BY <3>1, <3>2, <3>3, StatusUpdate
  <2> QED BY <1>1, <2>2, <2>3, BecomeKeeps DEF LIVE, SameEntry
<1>6. ASSUME NEW i \in RowId, Reactivate(i) PROVE GatesInv'
  <2>1. PICK r : r = [row[i] EXCEPT !.status = "open", !.adopted = TRUE]
    OBVIOUS
  <2>2. Become(i, "unfilled", r) /\ closes' = closes
    BY <1>6, <2>1 DEF Reactivate
  <2>3. /\ r \in RowType /\ r.status = "open" /\ r.adopted = TRUE
        /\ Risked(r) <= Risked(row[i]) /\ SameEntry(row[i], r)
    <3>1. PICK q \in RowType : q = row[i]
      BY <1>1
    <3>2. r = [q EXCEPT !.status = "open", !.adopted = TRUE]
      BY <2>1, <3>1
    <3>3. /\ r \in RowType /\ r.status = "open" /\ r.adopted = TRUE
          /\ Risked(r) <= Risked(q) /\ SameEntry(q, r)
      BY <3>2, ReviveUpdate, Zenon
    <3> QED BY <3>1, <3>3
  <2> QED BY <1>1, <2>2, <2>3, BecomeKeeps DEF LIVE, SameEntry
<1>7. ASSUME NEW c \in Strays, AdoptPosition(c) PROVE GatesInv'
  <2>1. Insert(c, 1, "open", 0, TRUE) /\ UNCHANGED <<closes, now, entries>>
    BY <1>7 DEF AdoptPosition
  <2>2. c.loss \in Nat /\ c # NoSpread
    BY StraysAssumption DEF NoSpread
  <2>3. row' \in [RowId -> RowType] /\ rows' \in 0..MaxRows
    <3>1. c \in Candidate \cup Strays /\ 1 \in 0.._SIZE_CEILING /\ "open" \in {"open", "pending"}
      BY DEF _SIZE_CEILING
    <3>2. PICK loss \in Nat : loss = c.loss
      BY <2>2
    <3>3. loss + 0 >= 0 /\ 0 \in Int /\ TRUE \in BOOLEAN
      OBVIOUS
    <3>4. c.loss + 0 >= 0
      BY <3>2, <3>3
    <3> QED BY <1>1, <2>1, <2>2, <3>1, <3>3, <3>4, InsertTyped
  <2>4. TypeOK'
    BY <1>1, <2>1, <2>3 DEF TypeOK, entries
  <2> QED BY <2>1, <2>2, <2>4, AdoptKeeps
<1> QED BY <1>2, <1>3, <1>4, <1>5, <1>6, <1>7 DEF ExitsStep

\* Each step of the entries job keeps the invariant.
LEMMA EntriesKeep ==
  ASSUME GatesInv, EntriesStep
  PROVE  GatesInv'
<1>1. ASSUME PlaceNothing PROVE GatesInv'
  <2>1. TypeOK'
    BY <1>1, BoundsAssumption DEF GatesInv, TypeOK, PlaceNothing, StopPlacing, _SIZE_CEILING
  <2> QED BY <1>1, <2>1, StopKeeps DEF PlaceNothing
<1>2. ASSUME NEW spread \in Candidate, RunCycle(spread) PROVE GatesInv'
  BY <1>2, RunCycleKeeps
<1>3. ASSUME NEW put \in Candidate, NEW call \in Candidate,
             put.u = call.u, put.right = "put", call.right = "call", OpenCondor(put, call)
      PROVE  GatesInv'
  BY <1>3, OpenCondorKeeps
<1>4. ASSUME NEW slip \in Slips, PlaceFilled(slip) PROVE GatesInv'
  BY <1>4, PlaceFilledKeeps
<1> QED BY <1>1, <1>2, <1>3, <1>4, PlacePendingKeeps DEF EntriesStep

\* What the gates promise to the spreads about to be placed is kept by every step of
\* both jobs, and with it the invariant.
THEOREM Promised == Spec => []GatesInv
<1>1. Init => GatesInv
  BY InitKeeps
<1>2. GatesInv /\ [Next]_vars => GatesInv'
  <2> SUFFICES ASSUME GatesInv, [Next]_vars PROVE GatesInv'
    OBVIOUS
  <2>1. CASE Pass
    <3>1. TypeOK'
      BY <2>1, BoundsAssumption DEF GatesInv, TypeOK, Pass, entries
    <3> QED BY <2>1, <3>1, PassKeeps
  <2>2. CASE UNCHANGED vars
    <3>1. UNCHANGED <<row, rows, closes, now, wings, size, cycle>>
      BY <2>2 DEF vars, entries
    <3>2. /\ Gated' = Gated /\ Counted' = Counted /\ Entered' = Entered /\ Placed' = Placed
          /\ CountedToday' = CountedToday /\ \A S : On(S)' = On(S) /\ RiskedOn(S)' = RiskedOn(S)
      BY <3>1 DEF Live, Gated, Counted, SecondWings, Entered, On, Placed, CountedToday, RiskedOn
    <3>3. (TypeOK /\ RowsNumbered /\ CondorsStand /\ RoomKept /\ CooledDown)'
      BY <3>1, <3>2 DEF GatesInv, TypeOK, RowsNumbered, CondorsStand, RoomKept, CooledDown, Idle
    <3>4. (CapsHold /\ OneBetPerStrike /\ DayRiskBounded /\ EntriesSpaced)'
      BY <3>1, <3>2 DEF GatesInv, CapsHold, OneBetPerStrike, DayRiskBounded, EntriesSpaced
    <3> QED BY <3>3, <3>4 DEF GatesInv
  <2> QED BY <2>1, <2>2, EntriesKeep, ExitsKeep DEF Next
<1> QED BY <1>1, <1>2, PTL DEF Spec

\* Every variable keeps its type: a row the table's, and the size its ceiling.
THEOREM TypeCorrect == Spec => []TypeOK
<1>1. GatesInv => TypeOK
  BY DEF GatesInv
<1> QED BY <1>1, Promised, PTL

\* The caps on the book, the underlying and the group hold in every book the two jobs
\* can produce, though what the gates read (build_policy_state) is old by the time the
\* order fills.
THEOREM CapsAreHeld == Spec => []CapsHold
<1>1. GatesInv => CapsHold
  BY DEF GatesInv
<1> QED BY <1>1, Promised, PTL

\* No two live spreads are one bet: the open strikes of the gates' state count the
\* pending entries too, and no fill comes between (build_policy_state, evaluate).
THEOREM StrikesDiffer == Spec => []OneBetPerStrike
<1>1. GatesInv => OneBetPerStrike
  BY DEF GatesInv
<1> QED BY <1>1, Promised, PTL

\* What the live entries of a day put at risk, at the mid or at the fill where that was
\* better, stays within its budget, for the size that the gates shrank to fit (evaluate,
\* the daily budget) and whatever fills below or above the mid (record_position,
\* confirm_fill) make of the room the later ones find.
THEOREM DayIsBounded == Spec => []DayRiskBounded
<1>1. GatesInv => DayRiskBounded
  BY DEF GatesInv
<1> QED BY <1>1, Promised, PTL

\* Entries are a cooldown apart, since the rows the gates read keep the time they were
\* recorded at whatever becomes of them (build_policy_state).
THEOREM CooldownsAreKept == Spec => []EntriesSpaced
<1>1. GatesInv => EntriesSpaced
  BY DEF GatesInv
<1> QED BY <1>1, Promised, PTL

\* The size the gates give is the largest their documented rules allow (evaluate), in
\* every book that can be.
THEOREM SizesAreRight == Spec => []SizedRight
<1>1. TypeOK => SizedRight
  <2> SUFFICES ASSUME TypeOK, NEW c \in Candidate, NEW st, st = build_policy_state(c.u),
                      NEW n, n = evaluate(c, _SIZE_CEILING, st), ~Vetoed(c, st)
               PROVE  /\ \A k \in 1..n : Fits(c, k, st)
                      /\ n < _SIZE_CEILING => ~Fits(c, n + 1, st)
    BY DEF SizedRight
  <2> QED BY BookIs, EvaluateIs
<1> QED BY <1>1, TypeCorrect, PTL
=============================================================================
