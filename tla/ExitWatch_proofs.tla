---------------------------- MODULE ExitWatch_proofs ----------------------------
(***************************************************************************)
(* The exits never let a loss run past its cap, and put nothing to sleep   *)
(* that the overnight rule would not, for every clock, quote, measurement  *)
(* and set of parameters, and whatever calls fail; and the replay of their *)
(* ticks follows them.                                                     *)
(***************************************************************************)
EXTENDS ExitWatch, SequenceTheorems, Sums_proofs

\* The smaller and the greater of two numbers.
LEMMA LeastGreatest ==
  ASSUME NEW a \in Int, NEW b \in Int
  PROVE  /\ Least(a, b) \in {a, b} /\ Least(a, b) <= a /\ Least(a, b) <= b
         /\ Greatest(a, b) \in {a, b} /\ Greatest(a, b) >= a /\ Greatest(a, b) >= b
  BY DEF Least, Greatest

-----------------------------------------------------------------------------
(***************************************************************************)
(* decide_exit: the first of the eight rules that applies.                 *)
(***************************************************************************)
\* The last rule always applies, so that one is the first to.
LEMMA SomeRuleIsFirst ==
  ASSUME NEW R, DOMAIN R = 1..8, R[8][2]
  PROVE  \E i \in DOMAIN R : R[i][2] /\ \A j \in 1..(i - 1) : ~R[j][2]
<1>1. CASE R[1][2]
  BY <1>1
<1>2. CASE ~R[1][2] /\ R[2][2]
  BY <1>2
<1>3. CASE ~R[1][2] /\ ~R[2][2] /\ R[3][2]
  BY <1>3
<1>4. CASE ~R[1][2] /\ ~R[2][2] /\ ~R[3][2] /\ R[4][2]
  BY <1>4
<1>5. CASE ~R[1][2] /\ ~R[2][2] /\ ~R[3][2] /\ ~R[4][2] /\ R[5][2]
  BY <1>5
<1>6. CASE ~R[1][2] /\ ~R[2][2] /\ ~R[3][2] /\ ~R[4][2] /\ ~R[5][2] /\ R[6][2]
  BY <1>6
<1>7. CASE ~R[1][2] /\ ~R[2][2] /\ ~R[3][2] /\ ~R[4][2] /\ ~R[5][2] /\ ~R[6][2] /\ R[7][2]
  BY <1>7
<1>8. CASE ~R[1][2] /\ ~R[2][2] /\ ~R[3][2] /\ ~R[4][2] /\ ~R[5][2] /\ ~R[6][2] /\ ~R[7][2]
  BY <1>8
<1> QED BY <1>1, <1>2, <1>3, <1>4, <1>5, <1>6, <1>7, <1>8

\* decide_exit takes a rule that applies, and none before it does.
LEMMA FirstApplies ==
  ASSUME NEW R, DOMAIN R = 1..8, R[8][2]
  PROVE  /\ FirstApplying(R) \in 1..8 /\ R[FirstApplying(R)][2]
         /\ \A j \in 1..(FirstApplying(R) - 1) : ~R[j][2]
  BY SomeRuleIsFirst DEF FirstApplying

\* Every decision is the name of a rule; it is to hold only when the credit is no
\* basis or neither the cap of the loss nor the overnight rule applies.
LEMMA DecisionMeaning ==
  ASSUME NEW cr, NEW price, NEW last, NEW pk, NEW q, NEW in
  PROVE  LET d == decide_exit(cr, price, last, pk, q, in)
         IN  /\ d \in Decisions
             /\ d = Hold => \/ cr <= 0
                            \/ /\ ~AtLeast(-Captured(cr, price), cr, q.stop_mult)
                               /\ ~(BedTime(q, in.clock) /\ MayNotSleep(q, in))
<1> DEFINE R == exit_rules(cr, price, last, pk, q, in)
<1>1. /\ DOMAIN R = 1..8 /\ R[8][2]
  BY DEF exit_rules
<1>2. /\ R[1][1] = "expiration" /\ R[2][1] = Hold /\ R[3][1] = "stop delta" /\ R[4][1] = "stop credit"
      /\ R[5][1] = "take profit" /\ R[6][1] = "trailing" /\ R[7][1] = "overnight" /\ R[8][1] = Hold
  BY DEF exit_rules
<1>3. R[2][2] => cr <= 0
  BY DEF exit_rules
<1>4. ~R[4][2] => ~AtLeast(-Captured(cr, price), cr, q.stop_mult)
  BY DEF exit_rules
<1>5. ~R[7][2] => ~(BedTime(q, in.clock) /\ MayNotSleep(q, in))
  BY DEF exit_rules
<1>6. PICK f : f = FirstApplying(R)
  OBVIOUS
<1>7. decide_exit(cr, price, last, pk, q, in) = R[f][1]
  BY <1>6 DEF decide_exit
<1> HIDE DEF R
<1>8. f \in 1..8
  BY <1>1, <1>6, FirstApplies
<1>9. R[f][2] /\ \A j \in 1..(f - 1) : ~R[j][2]
  BY <1>1, <1>6, FirstApplies
<1>10. f = 1 \/ f = 2 \/ f = 3 \/ f = 4 \/ f = 5 \/ f = 6 \/ f = 7 \/ f = 8
  BY <1>8
<1>11. R[f][1] \in Decisions
  BY <1>2, <1>10 DEF Decisions
<1>12. R[f][1] = Hold => f = 2 \/ f = 8
  BY <1>2, <1>10 DEF Hold
<1>13. CASE f = 2
  BY <1>3, <1>7, <1>9, <1>11, <1>13
<1>14. CASE f = 8
  <2>1. 4 \in 1..(f - 1) /\ 7 \in 1..(f - 1)
    BY <1>14
  <2>2. ~R[4][2] /\ ~R[7][2]
    BY <1>9, <2>1
  <2> QED BY <1>4, <1>5, <1>7, <1>11, <2>2
<1> QED BY <1>7, <1>11, <1>12, <1>13, <1>14

-----------------------------------------------------------------------------
(***************************************************************************)
(* What a pass puts into the row.                                          *)
(***************************************************************************)
LEMMA CreditPositive ==
  ASSUME TypeOK
  PROVE  credit \in Nat /\ credit > 0
  BY MoneyAssumption DEF TypeOK

ClockType == [to_expiry : SUBSET Int, to_close : SUBSET Int, sleeps : SUBSET BOOLEAN]

\* Whatever fails, the clock of a pass is typed.
LEMMA ClockTypes ==
  ASSUME NEW now \in [day : Int, to_close : Nat]
  PROVE  /\ position_clock(Expiry, now, Lead) \in ClockType
         /\ NoCloseKnown(position_clock(Expiry, now, Lead)) \in ClockType
         /\ ClockUnknown \in ClockType
<1> DEFINE left == 86400 * (Expiry - now.day) + now.to_close - Lead
<1>1. left \in Int
  BY TimesAssumption
<1>2. Greatest(0, left) \in Int
  <2> HIDE DEF left
  <2> QED BY <1>1, LeastGreatest
<1>3. position_clock(Expiry, now, Lead) =
        [to_expiry |-> {Greatest(0, left)}, to_close |-> {now.to_close}, sleeps |-> {Expiry > now.day}]
  BY DEF position_clock
<1>4. {Expiry > now.day} \in SUBSET BOOLEAN
  OBVIOUS
<1>5. {now.to_close} \in SUBSET Int
  OBVIOUS
<1> HIDE DEF left
<1>6. position_clock(Expiry, now, Lead) \in ClockType
  BY <1>2, <1>3, <1>4, <1>5 DEF ClockType
<1>7. ASSUME NEW c \in ClockType PROVE NoCloseKnown(c) \in ClockType
  BY DEF NoCloseKnown, ClockType
<1>8. ClockUnknown \in ClockType
  BY DEF ClockUnknown, ClockType
<1> QED BY <1>6, <1>7, <1>8

\* So is all a pass reads.
LEMMA PassTypes ==
  ASSUME TypeOK, Passes, NEW in \in Inputs
  PROVE  /\ Now.day \in Int /\ in.clock \in ClockType
         /\ in.short_delta \in Maybe(DeltasSeen) /\ in.book \in {{}} \cup Maybe(BooksSeen)
<1>1. at \in 1..Len(Instants)
  BY TimesAssumption, LenProperties DEF TypeOK, Passes
<1>2. Now \in [day : Int, to_close : Nat]
  BY <1>1, TimesAssumption, ElementOfSeq DEF Now
<1>3. Clocks \subseteq ClockType
  BY <1>2, ClockTypes DEF Clocks
<1>4. /\ in.clock \in Clocks /\ in.short_delta \in Maybe(DeltasSeen)
      /\ in.book \in {{}} \cup Maybe(BooksSeen)
  BY DEF Inputs
<1> QED BY <1>2, <1>3, <1>4

\* The tick it computes is one the table can hold.
LEMMA TickTypes ==
  ASSUME NEW day \in Int, NEW price \in Prices, NEW d \in Decisions, NEW in,
         in.clock \in ClockType, in.short_delta \in Maybe(DeltasSeen)
  PROVE  compute_tick(day, price, in, d) \in Tick
<1>1. ASSUME NEW s \in Int PROVE Round(s, 36) \in Int
  BY DEF Round
<1>2. ASSUME NEW S \in SUBSET Int PROVE Hundredths(S) \in SUBSET Int
  BY <1>1 DEF Hundredths
<1>3. /\ in.clock.to_expiry \in SUBSET Int /\ in.clock.to_close \in SUBSET Int
      /\ in.clock.sleeps \in SUBSET BOOLEAN
  BY DEF ClockType
<1>4. /\ Hundredths(in.clock.to_expiry) \in SUBSET Int
      /\ Hundredths(in.clock.to_close) \in SUBSET Int
  BY <1>2, <1>3
<1>5. FourDecimals(in.short_delta) \in { FourDecimals(S) : S \in Maybe(DeltasSeen) }
  OBVIOUS
<1> QED BY <1>3, <1>4, <1>5 DEF compute_tick, Tick

\* The high-water mark is between nothing and the whole credit.
LEMMA PeakType ==
  ASSUME TypeOK, NEW price \in Prices
  PROVE  Peak(price) \in 0..credit
<1>1. /\ credit \in Nat /\ price \in Nat /\ peak \in 0..credit
      /\ credit - price \in Int /\ credit - price <= credit
  BY CreditPositive, MoneyAssumption DEF TypeOK
<1>2. /\ Greatest(peak, credit - price) \in {peak, credit - price}
      /\ Greatest(peak, credit - price) >= peak
  BY <1>1, LeastGreatest
<1> QED BY <1>1, <1>2 DEF Peak, Captured

\* Recorded or not, the ticks stay typed and bounded.
LEMMA TicksType ==
  ASSUME TypeOK, Passes, NEW tick \in Tick, NEW recorded \in BOOLEAN, RecordTick(tick, recorded)
  PROVE  /\ ticks' \in Seq(Tick) /\ Len(ticks') <= MaxTicks
         /\ faults' \in 0..MaxFaults
<1>1. ticks \in Seq(Tick) /\ Len(ticks) \in Nat /\ Len(ticks) < MaxTicks
  BY LenProperties DEF TypeOK, Passes
<1>2. CASE recorded
  <2>1. ticks' = Append(ticks, tick) /\ UNCHANGED faults
    BY <1>2 DEF RecordTick
  <2> QED BY <1>1, <2>1, AppendProperties, RulesAssumption DEF TypeOK
<1>3. CASE ~recorded
  BY <1>1, <1>3, RulesAssumption DEF TypeOK, RecordTick
<1> QED BY <1>2, <1>3

\* A pass that goes on caps the loss ...
LEMMA PassCapsLoss ==
  ASSUME ExitsInv, NEW price \in Prices, NEW in \in Inputs, NEW d, d = Decide(price, in),
         pass' = [price |-> {price}, in |-> in, decision |-> d],
         UNCHANGED <<credit, fill, p, revived>>
  PROVE  LossCapped'
<1> SUFFICES ASSUME ~revived, AtLeast(price - Basis, Basis, p.stop_mult)
             PROVE  Closes(d)
  BY DEF LossCapped, Basis
<1>1. credit \in Nat /\ credit > 0 /\ price \in Nat
  BY CreditPositive, MoneyAssumption DEF ExitsInv
<1>2. Basis = credit
  BY DEF Basis, ExitsInv, CreditKnown
<1>3. price - Basis = -Captured(credit, price)
  BY <1>1, <1>2 DEF Captured
<1>4. AtLeast(-Captured(credit, price), credit, p.stop_mult)
  BY <1>2, <1>3
<1> QED BY <1>1, <1>4, DecisionMeaning DEF Decide, Closes

\* ... and puts to sleep only what may.
LEMMA PassBalances ==
  ASSUME ExitsInv, Passes, NEW price \in Prices, NEW in \in Inputs, NEW d, d = Decide(price, in),
         pass' = [price |-> {price}, in |-> in, decision |-> d],
         UNCHANGED <<credit, fill, p, revived>>
  PROVE  SleepsBalanced'
<1> SUFFICES ASSUME ~Closes(d), BedTime(p, in.clock)
             PROVE  /\ p.overnight_mode = "delta"
                    /\ \E x \in in.short_delta : x <= p.overnight_max_short_delta
                    /\ \E b \in in.book : b <= p.overnight_net_delta
  BY DEF SleepsBalanced
<1>1. credit \in Nat /\ credit > 0
  BY CreditPositive DEF ExitsInv
<1>2. ~MayNotSleep(p, in)
  BY <1>1, DecisionMeaning DEF Decide, Closes
<1>3. /\ p.overnight_mode # "flat"
      /\ \E x \in in.short_delta : ~(x > p.overnight_max_short_delta)
      /\ \E b \in in.book : ~(b > p.overnight_net_delta)
  BY <1>2 DEF MayNotSleep
<1>4. /\ p.overnight_mode \in {"flat", "delta"}
      /\ p.overnight_max_short_delta \in Nat /\ p.overnight_net_delta \in Nat
  BY RulesAssumption DEF ExitsInv, TypeOK
<1>5. in.short_delta \in SUBSET Nat /\ in.book \in SUBSET Nat
  BY PassTypes, MoneyAssumption DEF ExitsInv, Maybe
<1> QED BY <1>3, <1>4, <1>5

\* A pass that prices the position keeps the invariant, whatever its decision.
LEMMA EvaluateKept ==
  ASSUME ExitsInv, Passes, NEW price \in Prices, NEW in \in Inputs, NEW recorded \in BOOLEAN,
         NEW d, d = Decide(price, in), Evaluate(price, in, d, recorded),
         status' \in {"open", "closing", "closed"}
  PROVE  ExitsInv'
<1>1. /\ peak' = Peak(price) /\ at' = at + 1
      /\ pass' = [price |-> {price}, in |-> in, decision |-> d]
      /\ UNCHANGED <<credit, fill, p, revived>>
  BY DEF Evaluate, NextPass
<1>2. d \in Decisions
  BY DecisionMeaning DEF Decide
<1>3. compute_tick(Now.day, price, in, d) \in Tick
  BY <1>2, PassTypes, TickTypes DEF ExitsInv
<1>4. /\ ticks' \in Seq(Tick) /\ Len(ticks') <= MaxTicks
      /\ faults' \in 0..MaxFaults
  BY <1>3, TicksType DEF Evaluate, ExitsInv
<1>5. at' \in 1..(Len(Instants) + 1)
  BY <1>1, TimesAssumption, LenProperties DEF ExitsInv, TypeOK, Passes
<1>6. peak' \in 0..credit'
  BY <1>1, PeakType DEF ExitsInv
<1>7. TypeOK'
  BY <1>1, <1>2, <1>4, <1>5, <1>6 DEF ExitsInv, TypeOK, Maybe
<1>8. CreditKnown'
  BY <1>1 DEF ExitsInv, CreditKnown
<1> QED BY <1>1, <1>7, <1>8, PassCapsLoss, PassBalances DEF ExitsInv

\* So does every pass over the row,
LEMMA WatchRowKept ==
  ASSUME ExitsInv, WatchRow
  PROVE  ExitsInv'
<1>1. Passes /\ status = "open"
  BY DEF WatchRow, Passes
<1>2. PICK price \in Prices, in \in Inputs :
        LET d == Decide(price, in)
        IN  KeepOpen(price, in, d) \/ Close(price, in, d) \/ CloseRaises(price, in, d)
  BY DEF WatchRow
<1>3. PICK d : d = Decide(price, in)
  OBVIOUS
<1>4. CASE KeepOpen(price, in, d)
  BY <1>1, <1>3, <1>4, EvaluateKept DEF KeepOpen
<1>5. CASE Close(price, in, d)
  BY <1>1, <1>3, <1>5, EvaluateKept DEF Close
<1>6. CASE CloseRaises(price, in, d)
  BY <1>1, <1>3, <1>6, EvaluateKept DEF CloseRaises
<1> QED BY <1>2, <1>3, <1>4, <1>5, <1>6

-----------------------------------------------------------------------------
(***************************************************************************)
(* The other steps, the invariant and what follows from it.                *)
(***************************************************************************)
LEMMA ConfirmFillKept ==
  ASSUME ExitsInv, NEW f \in Maybe(Fills), ConfirmFill(f)
  PROVE  ExitsInv'
<1>1. /\ status = "pending" /\ status' = "open" /\ pass = NoPass /\ peak = 0
      /\ UNCHANGED <<peak, ticks, at, p, pass, revived, faults>>
  BY DEF ConfirmFill, ExitsInv, CreditKnown
<1>2. /\ credit' \in Fills \cup {Mid} /\ fill' \in Maybe(Fills)
      /\ fill' \in {{}, {credit'}} \/ UNCHANGED <<fill, credit>>
  BY DEF ConfirmFill, ExitsInv, TypeOK, Maybe
<1>3. peak' \in 0..credit'
  BY <1>1, <1>2, MoneyAssumption
<1>4. TypeOK'
  BY <1>1, <1>2, <1>3 DEF ExitsInv, TypeOK
<1>5. CreditKnown' /\ LossCapped' /\ SleepsBalanced'
  BY <1>1, <1>2 DEF ExitsInv, CreditKnown, LossCapped, SleepsBalanced, NoPass
<1> QED BY <1>4, <1>5 DEF ExitsInv

\* a revival by the reconciler, which knows the fill,
LEMMA ReactivateKept ==
  ASSUME ExitsInv, NEW f \in Fills, Reactivate(f)
  PROVE  ExitsInv'
<1>1. /\ status' = "open" /\ fill' = {f} /\ revived' = TRUE /\ pass' = NoPass
      /\ UNCHANGED <<credit, peak, ticks, at, p, pass, faults>>
  BY DEF Reactivate, ExitsInv, CreditKnown
<1>2. TypeOK'
  BY <1>1 DEF ExitsInv, TypeOK, Maybe
<1>3. CreditKnown' /\ LossCapped' /\ SleepsBalanced'
  BY <1>1 DEF CreditKnown, LossCapped, SleepsBalanced, NoPass
<1> QED BY <1>2, <1>3 DEF ExitsInv

\* The row goes its way and the last pass is what it was.
LEMMA StatusKept ==
  ASSUME ExitsInv, UNCHANGED <<credit, fill, peak, ticks, at, p, pass, revived, faults>>,
         \/ status' = status
         \/ status = "pending" /\ status' = "unfilled"
         \/ status' \in {"open", "closed"}
  PROVE  ExitsInv'
<1>1. TypeOK'
  BY DEF ExitsInv, TypeOK
<1>2. CreditKnown'
  BY DEF ExitsInv, CreditKnown
<1>3. LossCapped' /\ SleepsBalanced'
  BY DEF ExitsInv, LossCapped, SleepsBalanced, Basis
<1> QED BY <1>1, <1>2, <1>3 DEF ExitsInv

\* and a pass that does not reach the row.
LEMMA SkipPassKept ==
  ASSUME ExitsInv, SkipPass
  PROVE  ExitsInv'
<1>1. /\ Passes /\ at' = at + 1 /\ pass' = NoPass
      /\ UNCHANGED <<status, credit, fill, peak, ticks, p, revived, faults>>
  BY DEF SkipPass, NextPass, row
<1>2. at' \in 1..(Len(Instants) + 1)
  BY <1>1, TimesAssumption, LenProperties DEF ExitsInv, TypeOK, Passes
<1>3. TypeOK'
  BY <1>1, <1>2 DEF ExitsInv, TypeOK, NoPass, Maybe, Decisions
<1>4. CreditKnown'
  BY <1>1 DEF ExitsInv, CreditKnown
<1>5. LossCapped' /\ SleepsBalanced'
  BY <1>1 DEF LossCapped, SleepsBalanced, NoPass
<1> QED BY <1>3, <1>4, <1>5 DEF ExitsInv

\* The invariant holds at first.
LEMMA InitExits == Init => ExitsInv
<1> SUFFICES ASSUME Init PROVE ExitsInv
  OBVIOUS
<1>1. ticks \in Seq(Tick) /\ Len(ticks) = 0
  BY EmptySeq DEF Init
<1>2. /\ status \in {"pending", "open"} /\ credit \in Fills \cup {Mid} /\ credit \in Nat
      /\ fill \in Maybe(Fills) /\ fill \in {{}, {credit}}
      /\ p \in Params /\ peak = 0 /\ at = 1 /\ pass = NoPass /\ revived = FALSE /\ faults = 0
  BY MoneyAssumption DEF Init, Maybe
<1>3. 1 \in 1..(Len(Instants) + 1)
  BY TimesAssumption, LenProperties
<1>4. pass.price \in Maybe(Prices) /\ pass.decision \in Decisions
  BY <1>2 DEF NoPass, Maybe, Decisions
<1>5. TypeOK
  <2>1. peak \in 0..credit /\ faults \in 0..MaxFaults /\ Len(ticks) <= MaxTicks
    BY <1>1, <1>2, RulesAssumption
  <2>2. revived \in BOOLEAN
    BY <1>2
  <2> QED BY <1>1, <1>2, <1>3, <1>4, <2>1, <2>2 DEF TypeOK
<1>6. CreditKnown /\ LossCapped /\ SleepsBalanced
  BY <1>2 DEF CreditKnown, LossCapped, SleepsBalanced, NoPass
<1> QED BY <1>5, <1>6 DEF ExitsInv

\* Every step keeps it.
LEMMA NextExits == ExitsInv /\ [Next]_vars => ExitsInv'
<1> SUFFICES ASSUME ExitsInv, [Next]_vars PROVE ExitsInv'
  OBVIOUS
<1>1. CASE UNCHANGED vars
  BY <1>1, StatusKept DEF vars, row
<1>2. CASE MarkUnfilled
  BY <1>2, StatusKept DEF MarkUnfilled
<1>3. ASSUME NEW outcome \in {"closed", "open"}, ResolveClose(outcome) PROVE ExitsInv'
  BY <1>3, StatusKept DEF ResolveClose
<1> QED
  BY <1>1, <1>2, <1>3, ConfirmFillKept, ReactivateKept, WatchRowKept, SkipPassKept DEF Next

-----------------------------------------------------------------------------
(***************************************************************************)
(* The high-water mark of some ticks.                                      *)
(***************************************************************************)
\* m is the most that was captured of a credit c at the first n ticks of t.
IsPeak(c, t, n, m) ==
  /\ m \in Nat
  /\ \A j \in 1..n : c - t[j].price <= m
  /\ m = 0 \/ \E j \in 1..n : m = c - t[j].price

\* There is one at most,
LEMMA OnePeak ==
  ASSUME NEW c \in Int, NEW t, NEW n \in Nat, \A j \in 1..n : t[j].price \in Int,
         NEW a, NEW b, IsPeak(c, t, n, a), IsPeak(c, t, n, b)
  PROVE  a = b
<1>1. a \in Nat /\ b \in Nat
  BY DEF IsPeak
<1>2. a <= b
  BY <1>1 DEF IsPeak
<1>3. b <= a
  BY <1>1 DEF IsPeak
<1> QED BY <1>1, <1>2, <1>3

\* it is that of the ticks it is of,
LEMMA SamePeak ==
  ASSUME NEW c, NEW t, NEW s, NEW n \in Nat, \A j \in 1..n : s[j] = t[j],
         NEW m, IsPeak(c, t, n, m)
  PROVE  IsPeak(c, s, n, m)
BY DEF IsPeak

\* and the next tick raises it or not.
LEMMA PeakGrows ==
  ASSUME NEW c \in Int, NEW t, NEW n \in Nat, \A j \in 1..(n + 1) : t[j].price \in Int,
         NEW m, IsPeak(c, t, n, m)
  PROVE  IsPeak(c, t, n + 1, Greatest(m, Captured(c, t[n + 1].price)))
<1>1. PICK x \in Int : x = c - t[n + 1].price
  OBVIOUS
<1>2. m \in Nat /\ Greatest(m, Captured(c, t[n + 1].price)) = IF m > x THEN m ELSE x
  BY <1>1 DEF IsPeak, Greatest, Captured
<1>3. \A j \in 1..(n + 1) : j \in 1..n \/ j = n + 1
  OBVIOUS
<1>4. n + 1 \in 1..(n + 1) /\ 1..n \subseteq 1..(n + 1)
  OBVIOUS
<1>5. PICK y \in Nat : y = IF m > x THEN m ELSE x
  BY <1>2
<1>6. \A j \in 1..(n + 1) : c - t[j].price <= y
  <2>1. ASSUME NEW j \in 1..n PROVE c - t[j].price <= y
    <3>1. c - t[j].price <= m /\ c - t[j].price \in Int
      BY <1>4 DEF IsPeak
    <3> QED BY <1>2, <1>5, <3>1
  <2>2. x <= y
    BY <1>2, <1>5
  <2> QED BY <1>1, <1>3, <2>1, <2>2
<1>7. y = 0 \/ \E j \in 1..(n + 1) : y = c - t[j].price
  BY <1>1, <1>4, <1>5 DEF IsPeak
<1> QED BY <1>2, <1>5, <1>6, <1>7 DEF IsPeak

\* g is the high-water mark after each of the first n ticks, as the replay derives it.
Peaks(g, c, t, n) ==
  g = [j \in 0..n |-> IF j = 0 THEN 0 ELSE Greatest(g[j - 1], Captured(c, t[j].price))]

LEMMA PeaksAre ==
  ASSUME NEW c, NEW t, NEW n \in Nat, NEW g, Peaks(g, c, t, n)
  PROVE  /\ g[0] = 0
         /\ \A i \in 1..n : g[i] = Greatest(g[i - 1], Captured(c, t[i].price))
<1> DEFINE h == [j \in 0..n |-> IF j = 0 THEN 0 ELSE Greatest(g[j - 1], Captured(c, t[j].price))]
<1>1. g = h
  BY DEF Peaks
<1>2. h[0] = 0 /\ \A i \in 1..n : h[i] = Greatest(g[i - 1], Captured(c, t[i].price))
  OBVIOUS
<1> HIDE DEF h
<1> QED BY <1>1, <1>2

LEMMA PeaksExist ==
  ASSUME NEW c, NEW t, NEW n \in Nat
  PROVE  \E g : Peaks(g, c, t, n)
<1> DEFINE A == { m \in Nat : \E g : Peaks(g, c, t, m) }
<1>1. 0 \in A
  <2> DEFINE g == [j \in 0..0 |-> 0]
  <2>1. Peaks(g, c, t, 0)
    BY DEF Peaks
  <2> QED BY <2>1
<1>2. ASSUME NEW m \in Nat, m \in A PROVE m + 1 \in A
  <2>1. PICK g : Peaks(g, c, t, m)
    BY <1>2
  <2>2. g[0] = 0 /\ \A i \in 1..m : g[i] = Greatest(g[i - 1], Captured(c, t[i].price))
    BY <2>1, PeaksAre
  <2> DEFINE h == [i \in 0..(m + 1) |-> IF i = 0 THEN 0 ELSE Greatest(g[i - 1], Captured(c, t[i].price))]
  <2>3. ASSUME NEW i \in 0..m PROVE h[i] = g[i]
    <3>1. CASE i = 0
      BY <2>2, <3>1
    <3>2. CASE i # 0
      <4>1. i \in 1..m /\ i \in 0..(m + 1)
        BY <3>2
      <4> QED BY <2>2, <3>2, <4>1
    <3> QED BY <3>1, <3>2
  <2>4. ASSUME NEW i \in 0..(m + 1)
        PROVE  h[i] = IF i = 0 THEN 0 ELSE Greatest(h[i - 1], Captured(c, t[i].price))
    <3>1. i # 0 => i - 1 \in 0..m
      OBVIOUS
    <3>2. h[i] = IF i = 0 THEN 0 ELSE Greatest(g[i - 1], Captured(c, t[i].price))
      OBVIOUS
    <3> HIDE DEF h
    <3> QED BY <2>3, <3>1, <3>2
  <2>5. h = [i \in 0..(m + 1) |-> h[i]]
    OBVIOUS
  <2> HIDE DEF h
  <2>6. h = [i \in 0..(m + 1) |-> IF i = 0 THEN 0 ELSE Greatest(h[i - 1], Captured(c, t[i].price))]
    BY <2>4, <2>5
  <2> QED BY <2>6 DEF Peaks
<1>3. n \in A
  <2> HIDE DEF A
  <2> QED BY <1>1, <1>2, NatSetInduction
<1> QED BY <1>3

\* So what the replay derives is the high-water mark of the ticks so far.
LEMMA PeakAtIs ==
  ASSUME NEW c \in Int, NEW t, NEW n \in Nat, \A j \in 1..n : t[j].price \in Int
  PROVE  IsPeak(c, t, n, PeakAt(c, t, n))
<1> DEFINE h == CHOOSE g : Peaks(g, c, t, n)
<1>1. Peaks(h, c, t, n)
  BY PeaksExist
<1>2. PeakAt(c, t, n) = h[n]
  BY DEF PeakAt, Peaks
<1> HIDE DEF h
<1>3. h[0] = 0 /\ \A i \in 1..n : h[i] = Greatest(h[i - 1], Captured(c, t[i].price))
  BY <1>1, PeaksAre
<1> DEFINE A == { m \in Nat : m <= n => IsPeak(c, t, m, h[m]) }
<1>4. 0 \in A
  BY <1>3 DEF IsPeak
<1>5. ASSUME NEW m \in Nat, m \in A PROVE m + 1 \in A
  <2> SUFFICES ASSUME m + 1 <= n PROVE IsPeak(c, t, m + 1, h[m + 1])
    OBVIOUS
  <2>1. IsPeak(c, t, m, h[m]) /\ m + 1 \in 1..n /\ (m + 1) - 1 = m
    BY <1>5
  <2>2. h[m + 1] = Greatest(h[m], Captured(c, t[m + 1].price))
    BY <1>3, <2>1
  <2>3. \A j \in 1..(m + 1) : t[j].price \in Int
    OBVIOUS
  <2> QED BY <2>1, <2>2, <2>3, PeakGrows
<1>6. n \in A
  <2> HIDE DEF A
  <2> QED BY <1>4, <1>5, NatSetInduction
<1> QED BY <1>2, <1>6

-----------------------------------------------------------------------------
(***************************************************************************)
(* What a tick tells of its pass.                                          *)
(***************************************************************************)
\* When the rules close, with a fixed give-back and nothing allowed to sleep.
ShouldClose(price, day, pk, deltas, clock) ==
  \/ Expiry <= day
  \/ \E d \in deltas : d >= p.stop_delta
  \/ AtLeast(-Captured(credit, price), credit, p.stop_mult)
  \/ AtLeast(Captured(credit, price), credit, take_profit_threshold(p, clock.to_expiry))
  \/ /\ AtLeast(pk, credit, p.trail_activation)
     /\ AtLeast(pk - Captured(credit, price), credit, p.trail_giveback)
  \/ BedTime(p, clock)

PlainRules == p.trail_vol_ref = 0 /\ p.overnight_mode = "flat"

LEMMA ClosesIff ==
  ASSUME TypeOK, PlainRules, NEW price, NEW day, NEW pk, NEW in
  PROVE  Closes(decide_exit(credit, price, Expiry <= day, pk, p, in))
           <=> ShouldClose(price, day, pk, in.short_delta, in.clock)
<1> DEFINE R == exit_rules(credit, price, Expiry <= day, pk, p, in)
<1>1. /\ DOMAIN R = 1..8 /\ R[8][2]
      /\ R[1][1] = "expiration" /\ R[2][1] = Hold /\ R[3][1] = "stop delta" /\ R[4][1] = "stop credit"
      /\ R[5][1] = "take profit" /\ R[6][1] = "trailing" /\ R[7][1] = "overnight" /\ R[8][1] = Hold
  BY DEF exit_rules
<1>2. ~(credit <= 0)
  BY CreditPositive
<1>3. ~R[2][2]
  BY <1>2 DEF exit_rules
<1>4. /\ trail_giveback_for(p, in.vol) = p.trail_giveback
      /\ MayNotSleep(p, in)
  BY DEF PlainRules, trail_giveback_for, MayNotSleep
<1>5. (R[1][2] \/ R[3][2] \/ R[4][2] \/ R[5][2] \/ R[6][2] \/ R[7][2])
        <=> ShouldClose(price, day, pk, in.short_delta, in.clock)
  <2>1. /\ R[1][2] <=> Expiry <= day
        /\ R[3][2] <=> \E d \in in.short_delta : d >= p.stop_delta
        /\ R[4][2] <=> AtLeast(-Captured(credit, price), credit, p.stop_mult)
        /\ R[5][2] <=> AtLeast(Captured(credit, price), credit, take_profit_threshold(p, in.clock.to_expiry))
    BY DEF exit_rules
  <2>2. R[6][2] <=> /\ AtLeast(pk, credit, p.trail_activation)
                    /\ AtLeast(pk - Captured(credit, price), credit, p.trail_giveback)
    BY <1>4 DEF exit_rules
  <2>3. R[7][2] <=> BedTime(p, in.clock)
    BY <1>4 DEF exit_rules
  <2> HIDE DEF R
  <2> QED BY <2>1, <2>2, <2>3 DEF ShouldClose
<1>6. PICK f : f = FirstApplying(R)
  OBVIOUS
<1>7. decide_exit(credit, price, Expiry <= day, pk, p, in) = R[f][1]
  BY <1>6 DEF decide_exit
<1> HIDE DEF R
<1>8. f \in 1..8 /\ R[f][2] /\ \A j \in 1..(f - 1) : ~R[j][2]
  BY <1>1, <1>6, FirstApplies
<1>9. f = 1 \/ f = 3 \/ f = 4 \/ f = 5 \/ f = 6 \/ f = 7 \/ f = 8
  BY <1>3, <1>8
<1>10. CASE f = 8
  <2>1. /\ 1 \in 1..(f - 1) /\ 3 \in 1..(f - 1) /\ 4 \in 1..(f - 1)
        /\ 5 \in 1..(f - 1) /\ 6 \in 1..(f - 1) /\ 7 \in 1..(f - 1)
    BY <1>10
  <2> QED BY <1>1, <1>5, <1>7, <1>8, <1>10, <2>1 DEF Closes
<1>11. CASE f # 8
  <2>1. R[1][2] \/ R[3][2] \/ R[4][2] \/ R[5][2] \/ R[6][2] \/ R[7][2]
    BY <1>8, <1>9, <1>11
  <2>2. R[f][1] # Hold
    BY <1>1, <1>9, <1>11 DEF Hold
  <2> QED BY <1>5, <1>7, <2>1, <2>2 DEF Closes
<1> QED BY <1>10, <1>11

\* The clocks a pass may have at one instant.
ClocksOf(now) == { position_clock(Expiry, now, Lead), NoCloseKnown(position_clock(Expiry, now, Lead)), ClockUnknown }

\* Tick i is of an earlier pass, which decided by the high-water mark of the ticks so
\* far and by a clock and a delta that the tick holds rounded.
TickTells(i) ==
  \E n \in 1..(at - 1), pk \in 0..credit :
    \E clock \in ClocksOf(Instants[n]), deltas \in Maybe(DeltasSeen) :
    /\ IsPeak(credit, ticks, i, pk)
    /\ ticks[i].day = Instants[n].day /\ ticks[i].sleeps = clock.sleeps
    /\ ticks[i].to_expiry = Hundredths(clock.to_expiry) /\ ticks[i].to_close = Hundredths(clock.to_close)
    /\ ticks[i].short_delta = FourDecimals(deltas)
    /\ Closes(ticks[i].decision)
         <=> ShouldClose(ticks[i].price, ticks[i].day, pk, deltas, clock)

\* While none is lost, the ticks tell every pass, and the row holds their high-water mark.
TicksInv ==
  /\ status \in {"pending", "unfilled"} => ticks = <<>>
  /\ faults = 0 => IsPeak(credit, ticks, Len(ticks), peak)
  /\ Replayable => \A i \in DOMAIN ticks : TickTells(i)

LEMMA TicksAre ==
  ASSUME TypeOK
  PROVE  /\ ticks \in Seq(Tick) /\ Len(ticks) \in Nat /\ DOMAIN ticks = 1..Len(ticks)
         /\ \A i \in 1..Len(ticks) : ticks[i].price \in Prices /\ ticks[i].price \in Nat
         /\ at \in Nat \ {0} /\ credit \in Nat /\ credit > 0
<1>1. ticks \in Seq(Tick) /\ at \in Nat \ {0}
  BY TimesAssumption, LenProperties DEF TypeOK
<1>2. Len(ticks) \in Nat /\ DOMAIN ticks = 1..Len(ticks) /\ \A i \in 1..Len(ticks) : ticks[i] \in Tick
  BY <1>1, LenProperties, ElementOfSeq
<1> QED BY <1>1, <1>2, CreditPositive, MoneyAssumption DEF Tick

LEMMA EarlierStill ==
  ASSUME NEW a \in Int, NEW b \in Int, a <= b, NEW n \in 1..(a - 1)
  PROVE  n \in 1..(b - 1)
OBVIOUS

\* What a tick tells, it goes on telling.
LEMMA TickKept ==
  ASSUME TypeOK, NEW i \in DOMAIN ticks, TickTells(i), UNCHANGED <<credit, p>>, at' \in Int, at <= at',
         \A j \in DOMAIN ticks : ticks'[j] = ticks[j]
  PROVE  TickTells(i)'
<1>1. DOMAIN ticks = 1..Len(ticks) /\ Len(ticks) \in Nat /\ at \in Nat
  BY TicksAre
<1>2. PICK n \in 1..(at - 1), pk \in 0..credit :
      \E clock \in ClocksOf(Instants[n]), deltas \in Maybe(DeltasSeen) :
        /\ IsPeak(credit, ticks, i, pk)
        /\ ticks[i].day = Instants[n].day /\ ticks[i].sleeps = clock.sleeps
        /\ ticks[i].to_expiry = Hundredths(clock.to_expiry) /\ ticks[i].to_close = Hundredths(clock.to_close)
        /\ ticks[i].short_delta = FourDecimals(deltas)
        /\ Closes(ticks[i].decision)
             <=> ShouldClose(ticks[i].price, ticks[i].day, pk, deltas, clock)
  BY DEF TickTells
<1>3. n \in 1..(at' - 1) /\ ticks'[i] = ticks[i]
  <2>1. PICK a \in Int, b \in Int : a = at /\ b = at' /\ a <= b
    BY <1>1
  <2>2. n \in 1..(a - 1)
    BY <2>1
  <2>3. n \in 1..(b - 1)
    BY <2>1, <2>2, EarlierStill
  <2> QED BY <2>1, <2>3
<1>4. IsPeak(credit, ticks, i, pk) => IsPeak(credit', ticks', i, pk)
  <2>1. \A j \in 1..i : ticks'[j] = ticks[j]
    BY <1>1
  <2> QED BY <1>1, <2>1, SamePeak
<1>5. \A price, day, ds, clock :
        ShouldClose(price, day, pk, ds, clock)' <=> ShouldClose(price, day, pk, ds, clock)
  BY DEF ShouldClose
<1> QED BY <1>2, <1>3, <1>4, <1>5 DEF TickTells

LEMMA TicksAlone ==
  ASSUME TypeOK, TicksInv, UNCHANGED <<credit, peak, ticks, p, faults>>, at' \in {at, at + 1},
         status' \in {"pending", "unfilled"} => status \in {"pending", "unfilled"}
  PROVE  TicksInv'
<1>1. at' \in Int /\ at <= at'
  BY TicksAre
<1>2. faults' = 0 => IsPeak(credit', ticks', Len(ticks'), peak')
  BY DEF TicksInv
<1>3. ASSUME Replayable', NEW i \in DOMAIN ticks' PROVE TickTells(i)'
  BY <1>1, <1>3, TickKept DEF TicksInv, Replayable
<1> QED BY <1>2, <1>3 DEF TicksInv

\* A pass adds its own tick, or loses it and is no longer replayable.
LEMMA TickAdded ==
  ASSUME ExitsInv, TicksInv, Passes, NEW price \in Prices, NEW in \in Inputs, NEW recorded \in BOOLEAN,
         NEW d, d = Decide(price, in), Evaluate(price, in, d, recorded),
         status' \in {"open", "closing", "closed"}, ExitsInv'
  PROVE  TicksInv'
<1>1. /\ peak' = Peak(price) /\ at' = at + 1 /\ UNCHANGED <<credit, p>>
      /\ RecordTick(compute_tick(Now.day, price, in, d), recorded)
  BY DEF Evaluate, NextPass
<1>2. TypeOK /\ TypeOK' /\ price \in Nat
  BY MoneyAssumption DEF ExitsInv
<1>3. /\ ticks \in Seq(Tick) /\ Len(ticks) \in Nat /\ DOMAIN ticks = 1..Len(ticks)
      /\ \A i \in 1..Len(ticks) : ticks[i].price \in Nat
      /\ at \in Nat \ {0} /\ credit \in Nat /\ credit > 0
  BY <1>2, TicksAre
<1>4. CASE ~recorded
  <2>1. faults' # 0
    BY <1>1, <1>2, <1>4 DEF RecordTick, TypeOK
  <2> QED BY <2>1 DEF TicksInv, Replayable
<1>5. CASE recorded
  <2>1. PICK t : /\ t.day = Now.day /\ t.price = price /\ t.short_delta = FourDecimals(in.short_delta)
                 /\ t.sleeps = in.clock.sleeps /\ t.decision = d
                 /\ t.to_expiry = Hundredths(in.clock.to_expiry) /\ t.to_close = Hundredths(in.clock.to_close)
                 /\ ticks' = Append(ticks, t) /\ faults' = faults
    BY <1>1, <1>5 DEF RecordTick, compute_tick
  <2>2. PICK n \in Nat : n = Len(ticks)
    BY <1>3
  <2>3. /\ Len(ticks') = n + 1 /\ DOMAIN ticks' = 1..(n + 1) /\ ticks'[n + 1] = t
        /\ \A i \in 1..n : ticks'[i] = ticks[i]
    BY <1>3, <2>1, <2>2
  <2>4. \A i \in 1..(n + 1) : i \in 1..n \/ i = n + 1
    OBVIOUS
  <2>5. ASSUME faults' = 0 PROVE IsPeak(credit', ticks', n + 1, peak')
    <3>1. IsPeak(credit, ticks, n, peak)
      BY <2>1, <2>2, <2>5 DEF TicksInv
    <3>2. IsPeak(credit, ticks', n, peak)
      BY <2>2, <2>3, <3>1, SamePeak
    <3>3. \A j \in 1..(n + 1) : ticks'[j].price \in Int
      BY <1>2, <1>3, <2>1, <2>2, <2>3, <2>4
    <3>4. IsPeak(credit, ticks', n + 1, Greatest(peak, Captured(credit, ticks'[n + 1].price)))
      BY <1>3, <3>2, <3>3, PeakGrows
    <3> QED BY <1>1, <2>1, <2>3, <3>4 DEF Peak
  <2>6. ASSUME Replayable', NEW i \in 1..n PROVE TickTells(i)'
    <3>1. Replayable
      BY <1>1, <2>1, <2>6 DEF Replayable
    <3>2. TickTells(i)
      BY <1>3, <2>2, <3>1 DEF TicksInv
    <3> QED BY <1>1, <1>2, <1>3, <2>2, <2>3, <3>2, TickKept
  <2>7. ASSUME Replayable', NEW i, i = n + 1 PROVE TickTells(i)'
    <3>1. PICK m : m = at
      OBVIOUS
    <3>2. PICK pk : pk = peak'
      OBVIOUS
    <3>3. /\ m \in 1..(at' - 1) /\ pk \in 0..credit' /\ in.clock \in ClocksOf(Instants[m])
          /\ in.short_delta \in Maybe(DeltasSeen) /\ t.day = Instants[m].day
      BY <1>1, <1>2, <1>3, <2>1, <3>1, <3>2 DEF TypeOK, Inputs, Clocks, ClocksOf, Now
    <3>4. IsPeak(credit', ticks', i, pk)
      BY <2>5, <2>7, <3>2 DEF Replayable
    <3>5. PlainRules
      BY <1>1, <2>7 DEF PlainRules, Replayable
    <3>6. Closes(d) <=> ShouldClose(price, Now.day, Peak(price), in.short_delta, in.clock)
      BY <1>2, <3>5, ClosesIff DEF Decide
    <3>7. Closes(t.decision) <=> ShouldClose(t.price, t.day, pk, in.short_delta, in.clock)
      BY <1>1, <2>1, <3>2, <3>6
    <3>8. ShouldClose(t.price, t.day, pk, in.short_delta, in.clock)
            <=> ShouldClose(t.price, t.day, pk, in.short_delta, in.clock)'
      BY <1>1 DEF ShouldClose
    <3> QED BY <2>1, <2>3, <2>7, <3>3, <3>4, <3>7, <3>8 DEF TickTells
  <2>8. Replayable' => \A i \in DOMAIN ticks' : TickTells(i)'
    BY <2>3, <2>4, <2>6, <2>7
  <2>9. faults' = 0 => IsPeak(credit', ticks', Len(ticks'), peak')
    BY <2>3, <2>5
  <2>10. status' \notin {"pending", "unfilled"}
    OBVIOUS
  <2> QED BY <2>8, <2>9, <2>10 DEF TicksInv
<1> QED BY <1>4, <1>5

LEMMA InitTicks ==
  ASSUME Init
  PROVE  TicksInv
<1>1. ticks = <<>> /\ Len(ticks) = 0 /\ DOMAIN ticks = {} /\ peak = 0
  BY DEF Init
<1> QED BY <1>1 DEF TicksInv, IsPeak

LEMMA NextTicks ==
  ASSUME ExitsInv, TicksInv, [Next]_vars, ExitsInv'
  PROVE  TicksInv'
<1>0. TypeOK
  BY DEF ExitsInv
<1>1. ASSUME NEW f \in Maybe(Fills), ConfirmFill(f) PROVE TicksInv'
  <2>1. ticks' = <<>> /\ peak' = 0 /\ status' = "open"
    BY <1>1 DEF ConfirmFill, TicksInv, ExitsInv, CreditKnown
  <2>2. Len(ticks') = 0 /\ DOMAIN ticks' = {}
    BY <2>1
  <2> QED BY <2>1, <2>2 DEF TicksInv, IsPeak
<1>2. CASE MarkUnfilled
  BY <1>0, <1>2, TicksAlone DEF MarkUnfilled
<1>3. ASSUME NEW f \in Fills, Reactivate(f) PROVE TicksInv'
  BY <1>0, <1>3, TicksAlone DEF Reactivate
<1>4. CASE WatchRow
  <2>1. Passes /\ status = "open"
    BY <1>4 DEF WatchRow, Passes
  <2>2. PICK price \in Prices, in \in Inputs :
          LET d == Decide(price, in)
          IN  KeepOpen(price, in, d) \/ Close(price, in, d) \/ CloseRaises(price, in, d)
    BY <1>4 DEF WatchRow
  <2>3. PICK d : d = Decide(price, in)
    OBVIOUS
  <2>4. \E recorded \in BOOLEAN : Evaluate(price, in, d, recorded) /\ status' \in {"open", "closing", "closed"}
    BY <2>1, <2>2, <2>3 DEF KeepOpen, Close, CloseRaises
  <2> QED BY <2>1, <2>3, <2>4, TickAdded
<1>5. CASE SkipPass
  BY <1>0, <1>5, TicksAlone DEF SkipPass, NextPass, row
<1>6. ASSUME NEW outcome \in {"closed", "open"}, ResolveClose(outcome) PROVE TicksInv'
  BY <1>0, <1>6, TicksAlone DEF ResolveClose
<1>7. CASE UNCHANGED vars
  BY <1>0, <1>7, TicksAlone DEF vars, row
<1> QED BY <1>1, <1>2, <1>3, <1>4, <1>5, <1>6, <1>7 DEF Next

-----------------------------------------------------------------------------
(***************************************************************************)
(* The replay of the ticks.                                                *)
(***************************************************************************)
\* Rounding to a hundredth of an hour passes no whole hundredth, and keeps one.
LEMMA RoundStays ==
  ASSUME NEW s \in Int
  PROVE  /\ 36 * Round(s, 36) \in Int
         /\ s % 36 = 0 => 36 * Round(s, 36) = s
         /\ \A limit \in Int : (limit % 36 = 0 /\ s <= limit) => 36 * Round(s, 36) <= limit
<1>1. PICK r \in Int : r = Round(s, 36) /\ 72 * r <= 2 * s + 36 /\ 2 * s + 36 < 72 * r + 72
  BY DEF Round
<1>2. ASSUME s % 36 = 0 PROVE 36 * r = s
  <2>1. PICK k \in Int : s = 36 * k
    BY <1>2
  <2>2. r <= k /\ k <= r
    BY <1>1, <2>1
  <2> QED BY <2>1, <2>2
<1>3. ASSUME NEW limit \in Int, limit % 36 = 0, s <= limit PROVE 36 * r <= limit
  <2>1. PICK k \in Int : limit = 36 * k
    BY <1>3
  <2> QED BY <1>1, <1>3, <2>1
<1> QED BY <1>1, <1>2, <1>3

LEMMA RoundedSet ==
  ASSUME NEW S \in SUBSET Int, NEW T, T = { 36 * Round(s, 36) : s \in S },
         NEW limit \in Int, limit % 36 = 0, NEW s \in S, s <= limit
  PROVE  \E h \in T : h <= limit
<1>1. PICK h : h = 36 * Round(s, 36)
  OBVIOUS
<1>2. h <= limit
  <2>1. s \in Int
    OBVIOUS
  <2> QED BY <1>1, <2>1, RoundStays
<1>3. h \in T
  BY <1>1
<1> QED BY <1>2, <1>3

\* Rounding to four decimals moves a delta by half of the last at most, and passes no
\* number of four decimals.
LEMMA RoundsNear ==
  ASSUME NEW d \in Int
  PROVE  /\ 10 * Round(d, 10) \in Int
         /\ 10 * Round(d, 10) - 5 <= d /\ d <= 10 * Round(d, 10) + 5
         /\ \A stop \in Int : (stop % 10 = 0 /\ d >= stop) => 10 * Round(d, 10) >= stop
<1>1. PICK r \in Int : r = Round(d, 10) /\ 20 * r <= 2 * d + 10 /\ 2 * d + 10 < 20 * r + 20
  BY DEF Round
<1>2. ASSUME NEW stop \in Int, stop % 10 = 0, d >= stop PROVE 10 * r >= stop
  <2>1. PICK k \in Int : stop = 10 * k
    BY <1>2
  <2> QED BY <1>1, <1>2, <2>1
<1> QED BY <1>1, <1>2

\* The replay reads a delta rounded: a stop of four decimals that was reached still is,
\* and when none is within the rounding of the stop nothing else is either.
LEMMA DeltaReplayed ==
  ASSUME TypeOK, NEW deltas \in Maybe(DeltasSeen), NEW read, read = FourDecimals(deltas)
  PROVE  /\ (p.stop_delta % 10 = 0 /\ \E d \in deltas : d >= p.stop_delta)
              => \E d \in read : d >= p.stop_delta
         /\ (\A d \in read : d - 5 >= p.stop_delta \/ d + 5 < p.stop_delta)
              => ((\E d \in deltas : d >= p.stop_delta) <=> (\E d \in read : d >= p.stop_delta))
<1>1. PICK stop \in Int : stop = p.stop_delta
  BY RulesAssumption DEF TypeOK
<1>2. deltas \subseteq Int
  BY MoneyAssumption DEF Maybe
<1>3. read = { 10 * Round(d, 10) : d \in deltas }
  BY DEF FourDecimals
<1>4. ASSUME NEW d \in deltas
      PROVE  \E h \in read : /\ h \in Int /\ h - 5 <= d /\ d <= h + 5
                             /\ (stop % 10 = 0 /\ d >= stop) => h >= stop
  <2>1. d \in Int
    BY <1>2
  <2>2. PICK h : h = 10 * Round(d, 10)
    OBVIOUS
  <2>3. h \in read
    BY <1>3, <2>2
  <2>4. /\ h \in Int /\ h - 5 <= d /\ d <= h + 5
        /\ (stop % 10 = 0 /\ d >= stop) => h >= stop
    BY <2>1, <2>2, RoundsNear
  <2> QED BY <2>3, <2>4
<1>5. ASSUME NEW h \in read PROVE \E d \in deltas : /\ d \in Int /\ h \in Int
                                                   /\ h - 5 <= d /\ d <= h + 5
  <2>1. PICK d \in deltas : h = 10 * Round(d, 10)
    BY <1>3, <1>5
  <2>2. d \in Int
    BY <1>2
  <2> QED BY <2>1, <2>2, RoundsNear
<1>6. ASSUME \A h \in read : h - 5 >= stop \/ h + 5 < stop
      PROVE  (\E d \in deltas : d >= stop) <=> (\E h \in read : h >= stop)
  <2>1. ASSUME NEW d \in deltas, d >= stop PROVE \E h \in read : h >= stop
    <3>1. PICK h \in read : h \in Int /\ h - 5 <= d /\ d <= h + 5
      BY <1>4
    <3> QED BY <1>2, <1>6, <2>1, <3>1
  <2>2. ASSUME NEW h \in read, h >= stop PROVE \E d \in deltas : d >= stop
    <3>1. PICK d \in deltas : d \in Int /\ h \in Int /\ h - 5 <= d /\ d <= h + 5
      BY <1>5
    <3> QED BY <1>6, <2>2, <3>1
  <2> QED BY <2>1, <2>2
<1> QED BY <1>1, <1>4, <1>6

\* The replay reads a clock rounded: the same one on the hundredth, and otherwise one at
\* which nothing that was due is not.
LEMMA ClockReplayed ==
  ASSUME TypeOK, NEW clock \in ClockType, NEW pk, NEW price \in Prices, NEW day, NEW deltas, NEW read,
         read.to_expiry = { 36 * h : h \in Hundredths(clock.to_expiry) },
         read.to_close = { 36 * h : h \in Hundredths(clock.to_close) }, read.sleeps = clock.sleeps
  PROVE  /\ (RoundsEarly /\ ShouldClose(price, day, pk, deltas, clock)) => ShouldClose(price, day, pk, deltas, read)
         /\ (\A s \in clock.to_expiry \cup clock.to_close : s % 36 = 0) =>
              (ShouldClose(price, day, pk, deltas, clock) <=> ShouldClose(price, day, pk, deltas, read))
<1>1. clock.to_expiry \subseteq Int /\ clock.to_close \subseteq Int
  BY DEF ClockType
<1>2. /\ read.to_expiry = { 36 * Round(s, 36) : s \in clock.to_expiry }
      /\ read.to_close = { 36 * Round(s, 36) : s \in clock.to_close }
  BY DEF Hundredths
<1>3. ASSUME RoundsEarly, ShouldClose(price, day, pk, deltas, clock)
      PROVE  ShouldClose(price, day, pk, deltas, read)
  <2>1. /\ p.take_profit_step \in Int /\ p.take_profit_step % 36 = 0
        /\ p.flatten_before_close \in Int /\ p.flatten_before_close % 36 = 0
        /\ p.take_profit_near \in Int /\ p.take_profit_far \in Int
        /\ p.take_profit_near <= p.take_profit_far
    BY <1>3, RulesAssumption DEF TypeOK, RoundsEarly
  <2>2. BedTime(p, clock) => BedTime(p, read)
    <3>1. (\E c \in clock.to_close : c <= p.flatten_before_close)
            => \E c \in read.to_close : c <= p.flatten_before_close
      BY <1>1, <1>2, <2>1, RoundedSet
    <3> QED BY <3>1 DEF BedTime
  <2>3. take_profit_threshold(p, read.to_expiry) \in Int
    BY <2>1 DEF take_profit_threshold
  <2>4. /\ take_profit_threshold(p, clock.to_expiry) \in Int
        /\ take_profit_threshold(p, read.to_expiry) <= take_profit_threshold(p, clock.to_expiry)
    <3>1. (\E h \in clock.to_expiry : h <= p.take_profit_step)
            => \E h \in read.to_expiry : h <= p.take_profit_step
      BY <1>1, <1>2, <2>1, RoundedSet
    <3> QED BY <2>1, <3>1 DEF take_profit_threshold
  <2>5. ASSUME AtLeast(Captured(credit, price), credit, take_profit_threshold(p, clock.to_expiry))
        PROVE  AtLeast(Captured(credit, price), credit, take_profit_threshold(p, read.to_expiry))
    <3>1. PICK a \in Int, b \in Int : /\ a = take_profit_threshold(p, read.to_expiry)
                                      /\ b = take_profit_threshold(p, clock.to_expiry) /\ a <= b
      BY <2>3, <2>4
    <3>2. credit \in Nat /\ price \in Nat
      BY CreditPositive, MoneyAssumption
    <3>3. PICK x \in Int, y \in Int : x = a * credit /\ y = b * credit
      BY <3>2
    <3>4. x <= y
      BY <3>1, <3>2, <3>3, ProductMono
    <3>5. PICK z \in Int : z = 10000 * Captured(credit, price)
      BY <3>2 DEF Captured
    <3>6. z >= y
      BY <2>5, <3>1, <3>3, <3>5 DEF AtLeast
    <3> QED BY <3>1, <3>3, <3>4, <3>5, <3>6 DEF AtLeast
  <2> QED BY <1>3, <2>2, <2>5 DEF ShouldClose
<1>4. ASSUME \A s \in clock.to_expiry \cup clock.to_close : s % 36 = 0
      PROVE  ShouldClose(price, day, pk, deltas, clock) <=> ShouldClose(price, day, pk, deltas, read)
  <2>1. \A s \in clock.to_expiry \cup clock.to_close : 36 * Round(s, 36) = s
    BY <1>1, <1>4, RoundStays
  <2>2. read.to_expiry = clock.to_expiry /\ read.to_close = clock.to_close
    BY <1>2, <2>1
  <2> QED BY <2>2 DEF ShouldClose, BedTime
<1> QED BY <1>3, <1>4

\* On the hundredth, so are the clocks.
LEMMA ClocksOnTheHundredth ==
  ASSUME NEW now \in [day : Int, to_close : Nat], Lead % 36 = 0, now.to_close % 36 = 0,
         NEW clock \in ClocksOf(now), NEW s \in clock.to_expiry \cup clock.to_close
  PROVE  s % 36 = 0
<1>1. PICK left \in Int : left = 86400 * (Expiry - now.day) + now.to_close - Lead
  BY TimesAssumption
<1>2. PICK days \in Int : left = 36 * (2400 * days) + now.to_close - Lead
  <2>1. PICK days \in Int : days = Expiry - now.day
    BY TimesAssumption
  <2> QED BY <1>1, <2>1
<1>3. left % 36 = 0
  <2>0. PICK c \in Int, lead \in Int : c = now.to_close /\ lead = Lead /\ c % 36 = 0 /\ lead % 36 = 0
    BY TimesAssumption
  <2>1. (\E a \in Int : c = 36 * a) /\ (\E b \in Int : lead = 36 * b)
    BY <2>0
  <2>3. PICK a \in Int, b \in Int : c = 36 * a /\ lead = 36 * b
    BY <2>1
  <2>4. left = 36 * (2400 * days + a - b)
    BY <1>2, <2>0, <2>3
  <2>5. PICK m \in Int : m = 2400 * days + a - b
    BY <2>1
  <2> QED BY <2>4, <2>5
<1>4. Greatest(0, left) % 36 = 0
  BY <1>1, <1>3 DEF Greatest
<1>5. s \in {Greatest(0, left), now.to_close}
  <2>1. position_clock(Expiry, now, Lead) =
          [to_expiry |-> {Greatest(0, left)}, to_close |-> {now.to_close}, sleeps |-> {Expiry > now.day}]
    BY <1>1 DEF position_clock
  <2> HIDE DEF Greatest
  <2>2. ASSUME NEW e, NEW c, NEW x, clock \in { [to_expiry |-> e, to_close |-> c, sleeps |-> x],
                 NoCloseKnown([to_expiry |-> e, to_close |-> c, sleeps |-> x]), ClockUnknown }
        PROVE  clock.to_expiry \subseteq e /\ clock.to_close \subseteq c
    <3>1. CASE clock = [to_expiry |-> e, to_close |-> c, sleeps |-> x]
      BY <3>1
    <3>2. CASE clock = NoCloseKnown([to_expiry |-> e, to_close |-> c, sleeps |-> x])
      BY <3>2 DEF NoCloseKnown
    <3>3. CASE clock = ClockUnknown
      BY <3>3 DEF ClockUnknown
    <3> QED BY <2>2, <3>1, <3>2, <3>3
  <2>3. clock.to_expiry \subseteq {Greatest(0, left)} /\ clock.to_close \subseteq {now.to_close}
    BY <2>1, <2>2 DEF ClocksOf
  <2> QED BY <2>3
<1> QED BY <1>4, <1>5

\* Whether the replay closes at a tick.
ReplayCloses(i) ==
  Closes(decide_exit(credit, ticks[i].price, ticks[i].day >= Expiry, PeakAt(credit, ticks, i), p, FromTick(ticks[i])))

LEMMA TickReplayed ==
  ASSUME TypeOK, TicksInv, Replayable, NEW i \in DOMAIN ticks
  PROVE  /\ (RoundsEarly /\ Closes(ticks[i].decision)) => ReplayCloses(i)
         /\ OnTheHundredth /\ ClearOfTheStop => (ReplayCloses(i) <=> Closes(ticks[i].decision))
<1>1. /\ ticks \in Seq(Tick) /\ Len(ticks) \in Nat /\ DOMAIN ticks = 1..Len(ticks)
      /\ \A j \in 1..Len(ticks) : ticks[j].price \in Prices /\ ticks[j].price \in Nat
      /\ at \in 1..(Len(Instants) + 1) /\ credit \in Nat
  BY TicksAre DEF TypeOK
<1>2. PICK n \in 1..(at - 1), pk \in 0..credit :
      \E clock \in ClocksOf(Instants[n]), deltas \in Maybe(DeltasSeen) :
        /\ IsPeak(credit, ticks, i, pk)
        /\ ticks[i].day = Instants[n].day /\ ticks[i].sleeps = clock.sleeps
        /\ ticks[i].to_expiry = Hundredths(clock.to_expiry) /\ ticks[i].to_close = Hundredths(clock.to_close)
        /\ ticks[i].short_delta = FourDecimals(deltas)
        /\ Closes(ticks[i].decision)
             <=> ShouldClose(ticks[i].price, ticks[i].day, pk, deltas, clock)
  BY DEF TicksInv, TickTells
<1>3. PICK clock \in ClocksOf(Instants[n]), deltas \in Maybe(DeltasSeen) :
        /\ IsPeak(credit, ticks, i, pk)
        /\ ticks[i].day = Instants[n].day /\ ticks[i].sleeps = clock.sleeps
        /\ ticks[i].to_expiry = Hundredths(clock.to_expiry) /\ ticks[i].to_close = Hundredths(clock.to_close)
        /\ ticks[i].short_delta = FourDecimals(deltas)
        /\ Closes(ticks[i].decision)
             <=> ShouldClose(ticks[i].price, ticks[i].day, pk, deltas, clock)
  BY <1>2
<1>4. n \in 1..Len(Instants) /\ Instants[n] \in [day : Int, to_close : Nat]
  <2>1. Len(Instants) \in Nat
    BY TimesAssumption, LenProperties
  <2>2. n \in 1..Len(Instants)
    BY <1>1, <1>2, <2>1
  <2> QED BY <2>2, TimesAssumption, ElementOfSeq
<1>5. clock \in ClockType
  BY <1>3, <1>4, ClockTypes DEF ClocksOf
<1>6. PeakAt(credit, ticks, i) = pk
  <2>1. i \in Nat /\ \A j \in 1..i : ticks[j].price \in Int
    BY <1>1
  <2>2. credit \in Int
    BY <1>1
  <2>3. PICK found : found = PeakAt(credit, ticks, i)
    OBVIOUS
  <2>4. IsPeak(credit, ticks, i, found)
    BY <2>1, <2>2, <2>3, PeakAtIs
  <2>5. found = pk
    BY <1>3, <2>1, <2>2, <2>4, OnePeak
  <2> QED BY <2>3, <2>5
<1>7. ReplayCloses(i) <=> ShouldClose(ticks[i].price, ticks[i].day, pk, ticks[i].short_delta, FromTick(ticks[i]).clock)
  <2>1. PlainRules /\ FromTick(ticks[i]).short_delta = ticks[i].short_delta
    BY DEF PlainRules, Replayable, FromTick
  <2>2. (ticks[i].day >= Expiry) = (Expiry <= ticks[i].day)
    BY <1>3, <1>4, TimesAssumption
  <2> QED BY <1>6, <2>1, <2>2, ClosesIff DEF ReplayCloses
<1>8. /\ FromTick(ticks[i]).clock.to_expiry = { 36 * h : h \in Hundredths(clock.to_expiry) }
      /\ FromTick(ticks[i]).clock.to_close = { 36 * h : h \in Hundredths(clock.to_close) }
      /\ FromTick(ticks[i]).clock.sleeps = clock.sleeps
  BY <1>3 DEF FromTick
<1>9. OnTheHundredth => \A s \in clock.to_expiry \cup clock.to_close : s % 36 = 0
  BY <1>2, <1>3, <1>4, ClocksOnTheHundredth DEF OnTheHundredth
<1>10. ticks[i].price \in Prices
  BY <1>1
<1>11. PICK price, day, read, known :
         /\ price = ticks[i].price /\ day = ticks[i].day
         /\ read = FromTick(ticks[i]).clock /\ known = ticks[i].short_delta
  OBVIOUS
<1>12. /\ (RoundsEarly /\ ShouldClose(price, day, pk, deltas, clock)) => ShouldClose(price, day, pk, deltas, read)
       /\ OnTheHundredth => (ShouldClose(price, day, pk, deltas, clock) <=> ShouldClose(price, day, pk, deltas, read))
  BY <1>5, <1>8, <1>9, <1>10, <1>11, ClockReplayed
<1>13. /\ (RoundsEarly /\ ShouldClose(price, day, pk, deltas, read)) => ShouldClose(price, day, pk, known, read)
       /\ ClearOfTheStop => (ShouldClose(price, day, pk, deltas, read) <=> ShouldClose(price, day, pk, known, read))
  <2>1. known = FourDecimals(deltas)
    BY <1>3, <1>11
  <2>2. RoundsEarly => p.stop_delta % 10 = 0
    BY DEF RoundsEarly
  <2>3. ClearOfTheStop => \A d \in known : d - 5 >= p.stop_delta \/ d + 5 < p.stop_delta
    BY <1>11 DEF ClearOfTheStop
  <2>4. /\ (RoundsEarly /\ \E d \in deltas : d >= p.stop_delta) => \E d \in known : d >= p.stop_delta
        /\ ClearOfTheStop =>
             ((\E d \in deltas : d >= p.stop_delta) <=> (\E d \in known : d >= p.stop_delta))
    BY <2>1, <2>2, <2>3, DeltaReplayed
  <2> QED BY <2>4 DEF ShouldClose
<1>14. /\ ReplayCloses(i) <=> ShouldClose(price, day, pk, known, read)
       /\ Closes(ticks[i].decision) <=> ShouldClose(price, day, pk, deltas, clock)
  BY <1>3, <1>7, <1>11
<1> QED BY <1>12, <1>13, <1>14

LEMMA ReplayFollows ==
  ASSUME TypeOK, TicksInv
  PROVE  ReplayAgrees
<1> SUFFICES ASSUME Replayable
             PROVE  /\ RoundsEarly => \A i \in Live : \E j \in Replay : j <= i
                    /\ OnTheHundredth /\ ClearOfTheStop => Replay = Live
  BY DEF ReplayAgrees
<1>1. Replay = { i \in DOMAIN ticks : ReplayCloses(i) /\ \A j \in 1..(i - 1) : ~ReplayCloses(j) }
  BY DEF Replay, replay_position, ReplayCloses
<1>2. Len(ticks) \in Nat /\ DOMAIN ticks = 1..Len(ticks)
  BY TicksAre
<1>3. ASSUME RoundsEarly, NEW i \in Live PROVE \E j \in Replay : j <= i
  <2> DEFINE closing == { j \in 1..Len(ticks) : ReplayCloses(j) }
  <2>1. i \in closing
    BY <1>2, <1>3, TickReplayed DEF Live
  <2>2. IsFiniteSet(closing) /\ closing \subseteq Int
    <3>1. closing \in SUBSET (1..Len(ticks)) /\ IsFiniteSet(1..Len(ticks))
      BY <1>2, FS_Interval
    <3>2. \A c \in SUBSET (1..Len(ticks)) : c \subseteq Int
      BY <1>2
    <3> HIDE DEF closing
    <3> QED BY <3>1, <3>2, FS_Subset
  <2>3. PICK j \in closing : \A m \in closing : j <= m
    <3> HIDE DEF closing
    <3> QED BY <2>1, <2>2, MinIs
  <2>4. \A m \in 1..(j - 1) : ~ReplayCloses(m)
    BY <1>2, <2>3
  <2> QED BY <1>1, <1>2, <2>1, <2>3, <2>4
<1>4. ASSUME OnTheHundredth, ClearOfTheStop PROVE Replay = Live
  <2>1. \A i \in 1..Len(ticks) : ReplayCloses(i) <=> Closes(ticks[i].decision)
    BY <1>2, <1>4, TickReplayed
  <2>2. \A i \in 1..Len(ticks) : \A j \in 1..(i - 1) : j \in 1..Len(ticks)
    BY <1>2
  <2> QED BY <1>1, <1>2, <2>1, <2>2 DEF Live
<1> QED BY <1>3, <1>4

\* The invariant is inductive.
THEOREM Watched == Spec => []ExitsInv
  BY InitExits, NextExits, PTL DEF Spec

\* Every variable keeps its type; the high-water mark stays between nothing and the
\* whole credit (update_peak_captured).
THEOREM TypeCorrect == Spec => []TypeOK
<1>1. ExitsInv => TypeOK
  BY DEF ExitsInv
<1> QED BY <1>1, Watched, PTL

\* Whatever else is unknown, a pass that gets a quote at which the loss reaches the
\* cap decides to close (decide_exit, "never blind").
THEOREM LossIsCapped == Spec => []LossCapped
<1>1. ExitsInv => LossCapped
  BY DEF ExitsInv
<1> QED BY <1>1, Watched, PTL

\* Nothing is left to sleep through a known close but what the overnight rule lets,
\* with the leg and the book known (decide_exit, rule 6).
THEOREM SleepersAreBalanced == Spec => []SleepsBalanced
<1>1. ExitsInv => SleepsBalanced
  BY DEF ExitsInv
<1> QED BY <1>1, Watched, PTL

\* If no tick was lost and the rules need nothing that ticks do not hold, the replay of
\* the recorded ticks closes where the job did, but where the rounding of times or of
\* the delta matters; and then not later, if the thresholds themselves are as the ticks
\* are rounded (replay_position, compute_tick).
THEOREM ReplaysAgree == Spec => []ReplayAgrees
<1>1. Init => ExitsInv /\ TicksInv
  BY InitExits, InitTicks
<1>2. (ExitsInv /\ TicksInv) /\ [Next]_vars => (ExitsInv /\ TicksInv)'
  BY NextExits, NextTicks
<1>3. ExitsInv /\ TicksInv => ReplayAgrees
  BY ReplayFollows DEF ExitsInv
<1> QED BY <1>1, <1>2, <1>3, PTL DEF Spec

=============================================================================
