------------------------- MODULE TimedCaches_proofs -------------------------
(***************************************************************************)
(* Proof of AgeBounded and NotUndone, for every set of threads, every time *)
(* to live, stale limit and number of retries, and every bound.            *)
(***************************************************************************)
EXTENDS TimedCaches, TLAPS

Entry(e) == e.value \in 0..source /\ e.age \in Nat

\* A cache is an entry or nothing; a version handed out was one of the source.
Shape ==
  /\ kind \in {"params", "clock", "api"}
  /\ source \in Version \ {0}
  /\ gone \in [Version -> Nat]
  /\ cache = {} \/ \E v \in 0..source, a \in Nat : cache = { [value |-> v, age |-> a] }
  /\ call \in [Reader -> [state : {"idle", "reading", "got"}, value : 0..source, age : Nat, tries : Int]]
  /\ pops \in Int /\ (kind # "api" => pops = 0)
  /\ failed \in Nat /\ newest \in 0..source

\* A reading is current, or outdated for no longer than its age, or the rules could
\* not be read within its age.
Dated(v, a) ==
  \/ v = source
  \/ v \in 0..(source - 1) /\ gone[v] =< a
  \/ kind = "params" /\ failed =< a

\* Every reading is dated, and a clock read is in time.
AgesTell ==
  /\ \A e \in cache : Dated(e.value, e.age)
  /\ \A r \in Reader : call[r].state = "got" => Dated(call[r].value, call[r].age)
  /\ \A r \in Reader : kind = "clock" /\ InFlight(r) => call[r].age =< MaxRead

\* While calls do not overlap, one at most is in flight; nothing is valid while it is;
\* and neither the entry nor what it has read is behind what was handed out.  The
\* rules are never dropped, so that without an entry none were handed out.
Ordered ==
  ~overlap =>
    /\ \A r, q \in Reader : InFlight(r) /\ InFlight(q) => r = q
    /\ \A r \in Reader : InFlight(r) => Valid = {}
    /\ \A e \in cache : e.value >= newest
    /\ \A r \in Reader : call[r].state = "got" => call[r].value >= newest
    /\ kind = "params" /\ cache = {} => newest = 0

CacheInv == Shape /\ AgesTell /\ Ordered

-----------------------------------------------------------------------------
LEMMA Bounds ==
  /\ TTL \in Nat /\ STALE \in Nat /\ MaxRead \in Nat /\ MaxRead > 0 /\ TTL =< STALE
  /\ MaxWrites \in Nat /\ MaxFails \in Nat
BY CachesAssumption

\* Growing older keeps the order of ages.
LEMMA OlderMonotone ==
  ASSUME NEW a \in Nat, NEW b \in Nat
  PROVE  Older(a) \in Nat /\ (a =< b => Older(a) =< Older(b)) /\ (a < Old => Older(a) = a + 1)
BY Bounds DEF Older, Old

\* The value of the only entry, or the defaults.
LEMMA KeptIsTheEntry ==
  ASSUME Shape
  PROVE  /\ Kept \in 0..source
         /\ cache = {} => Kept = 0
         /\ \A e \in cache : e.value = Kept
<1>1. CASE cache = {}
  BY <1>1 DEF Kept, Shape, Version
<1>2. ASSUME NEW v \in 0..source, NEW a \in Nat, cache = { [value |-> v, age |-> a] }
      PROVE  Kept = v
  <2>1. { e.value : e \in cache } = {v}
    BY <1>2
  <2>2. Max({v}) = v
    BY DEF Max
  <2> QED BY <1>2, <2>1, <2>2 DEF Kept
<1> QED BY <1>1, <1>2 DEF Shape

\* What newest becomes when a version is handed out.
LEMMA HandOutIsTheLater ==
  ASSUME newest \in Nat, NEW v \in Nat, HandOut(v)
  PROVE  newest' = IF overlap THEN 0 ELSE IF v >= newest THEN v ELSE newest
<1>1. Max({ newest, v }) = IF v >= newest THEN v ELSE newest
  <2> DEFINE m == IF v >= newest THEN v ELSE newest
  <2>1. m \in { newest, v } /\ \A y \in { newest, v } : m >= y
    OBVIOUS
  <2>2. \A x \in { newest, v } : (\A y \in { newest, v } : x >= y) => x = m
    OBVIOUS
  <2> QED BY <2>1, <2>2 DEF Max
<1> QED BY <1>1 DEF HandOut

-----------------------------------------------------------------------------
LEMMA Starts == Init => CacheInv
<1> SUFFICES ASSUME Init PROVE CacheInv
  OBVIOUS
<1>1. Shape
  <2>1. source \in Version \ {0} /\ newest \in 0..source /\ Old \in Nat
    BY Bounds DEF Init, Version, Old
  <2>2. gone \in [Version -> Nat]
    BY <2>1 DEF Init
  <2>3. call \in [Reader -> [state : {"idle", "reading", "got"}, value : 0..source, age : Nat, tries : Int]]
    BY DEF Init, Idle
  <2> QED BY <2>1, <2>2, <2>3 DEF Init, Shape
<1>2. AgesTell
  BY DEF Init, AgesTell, Idle, InFlight
<1>3. Ordered
  BY DEF Init, Ordered, Idle, InFlight
<1> QED BY <1>1, <1>2, <1>3 DEF CacheInv

-----------------------------------------------------------------------------
\* An entry of the cache, and what a call has, in a state of that shape.
LEMMA EntriesAndCalls ==
  ASSUME Shape
  PROVE  /\ \A e \in cache : Entry(e) /\ e = [value |-> e.value, age |-> e.age] /\ cache = {e}
         /\ \A r \in Reader : /\ call[r] \in [state : {"idle", "reading", "got"}, value : 0..source, age : Nat, tries : Int]
                              /\ Entry(call[r])
         /\ source \in Nat /\ source > 0 /\ newest \in Nat /\ newest =< source
BY Bounds DEF Shape, Entry, Version

\* A version handed out leaves newest a version of the source.
LEMMA HandOutShape ==
  ASSUME Shape, NEW v \in 0..source, HandOut(v)
  PROVE  newest' \in 0..source
BY HandOutIsTheLater, EntriesAndCalls

LEMMA ShapeIsKept ==
  ASSUME Shape, [Next]_vars
  PROVE  Shape'
<1>0. source \in Nat /\ source > 0 /\ source - 1 =< MaxWrites /\ newest \in 0..source
  BY Bounds DEF Shape, Version
<1>1. ASSUME NEW r \in Reader, Hit(r) PROVE Shape'
  <2>1. PICK e \in Valid : HandOut(e.value)
    BY <1>1 DEF Hit
  <2>2. newest' \in 0..source
    BY <2>1, EntriesAndCalls, HandOutShape DEF Valid, Entry
  <2> QED BY <1>1, <2>2 DEF Hit, Shape
<1>2. ASSUME NEW r \in Reader, Miss(r) PROVE Shape'
  <2>1. newest' \in 0..source
    <3>1. newest' \in { 0, Kept, newest }
      BY <1>2 DEF Miss
    <3> QED BY <1>0, <3>1, KeptIsTheEntry
  <2>2. call' \in [Reader -> [state : {"idle", "reading", "got"}, value : 0..source, age : Nat, tries : Int]]
    BY <1>0, <1>2 DEF Miss, Shape, Idle
  <2> QED BY <1>2, <2>1, <2>2 DEF Miss, Shape
<1>3. ASSUME NEW r \in Reader, Read(r) PROVE Shape'
  <2>1. call' \in [Reader -> [state : {"idle", "reading", "got"}, value : 0..source, age : Nat, tries : Int]]
    <3>1. [call[r] EXCEPT !.state = "got", !.value = source]
            \in [state : {"idle", "reading", "got"}, value : 0..source, age : Nat, tries : Int]
      <4>1. /\ call[r] \in [state : {"idle", "reading", "got"}, value : 0..source, age : Nat, tries : Int]
            /\ source \in 0..source
        BY <1>0, EntriesAndCalls
      <4> QED BY <4>1
    <3>2. call' = [call EXCEPT ![r] = [call[r] EXCEPT !.state = "got", !.value = source]]
      BY <1>3 DEF Read, Shape
    <3> QED BY <3>1, <3>2 DEF Shape
  <2> QED BY <1>3, <2>1 DEF Read, Shape
<1>4. ASSUME NEW r \in Reader, ReadFails(r),
             call' \in [Reader -> [state : {"idle", "reading", "got"}, value : 0..source, age : Nat, tries : Int]],
             newest' \in 0..source
      PROVE  Shape'
  BY <1>4 DEF ReadFails, Shape
<1>5. ASSUME NEW r \in Reader, KeepParams(r) PROVE Shape'
  <2>1. call' \in [Reader -> [state : {"idle", "reading", "got"}, value : 0..source, age : Nat, tries : Int]]
    BY <1>5, KeptIsTheEntry DEF KeepParams, Shape
  <2> QED BY <1>0, <1>4, <1>5, <2>1 DEF KeepParams
<1>6. ASSUME NEW r \in Reader, RetryClock(r) PROVE Shape'
  <2>1. call' \in [Reader -> [state : {"idle", "reading", "got"}, value : 0..source, age : Nat, tries : Int]]
    BY <1>6 DEF RetryClock, Shape
  <2> QED BY <1>0, <1>4, <1>6, <2>1 DEF RetryClock
<1>7. ASSUME NEW r \in Reader, GiveUpClock(r) PROVE Shape'
  <2>1. call' \in [Reader -> [state : {"idle", "reading", "got"}, value : 0..source, age : Nat, tries : Int]]
    BY <1>0, <1>7 DEF GiveUpClock, Shape, Idle
  <2>2. newest' \in 0..source
    <3>1. CASE Usable(r) = {}
      BY <1>0, <1>7, <3>1 DEF GiveUpClock
    <3>2. ASSUME NEW e \in Usable(r), HandOut(e.value) PROVE newest' \in 0..source
      BY <3>2, EntriesAndCalls, HandOutShape DEF Usable, Entry
    <3> QED BY <1>7, <3>1, <3>2 DEF GiveUpClock
  <2> QED BY <1>4, <1>7, <2>1, <2>2 DEF GiveUpClock
<1>8. ASSUME NEW r \in Reader, RequestFails(r) PROVE Shape'
  <2>1. call' \in [Reader -> [state : {"idle", "reading", "got"}, value : 0..source, age : Nat, tries : Int]]
    BY <1>0, <1>8 DEF RequestFails, Shape, Idle
  <2> QED BY <1>0, <1>4, <1>8, <2>1 DEF RequestFails
<1>9. ASSUME NEW r \in Reader, Store(r) PROVE Shape'
  <2>1. newest' \in 0..source
    BY <1>9, EntriesAndCalls, HandOutShape DEF Store, Entry
  <2>2. call' \in [Reader -> [state : {"idle", "reading", "got"}, value : 0..source, age : Nat, tries : Int]]
    BY <1>0, <1>9 DEF Store, Shape, Idle
  <2>3. call[r].value \in 0..source /\ call[r].age \in Nat
    BY EntriesAndCalls DEF Entry
  <2> QED BY <1>9, <2>1, <2>2, <2>3 DEF Store, Shape
<1>10. ASSUME Write PROVE Shape'
  <2>1. source' \in Version \ {0} /\ newest' \in 0..source'
    BY <1>0, <1>10, Bounds DEF Write, Version
  <2>2. call' \in [Reader -> [state : {"idle", "reading", "got"}, value : 0..source', age : Nat, tries : Int]]
    BY <1>0, <1>10 DEF Write, Shape
  <2>3. cache' = {} \/ \E v \in 0..source', a \in Nat : cache' = { [value |-> v, age |-> a] }
    BY <1>0, <1>10 DEF Write, Shape
  <2>4. gone' \in [Version -> Nat]
    BY <1>10 DEF Write, Shape
  <2> QED BY <1>10, <2>1, <2>2, <2>3, <2>4 DEF Write, Shape
<1>11. ASSUME Pop PROVE Shape'
  <2>1. newest' \in 0..source /\ kind = "api"
    BY <1>0, <1>11 DEF Pop, Shape
  <2> QED BY <1>11, <2>1 DEF Pop, Shape
<1>12. ASSUME Tick PROVE Shape'
  <2>1. gone' \in [Version -> Nat]
    BY <1>12, OlderMonotone DEF Tick, Shape
  <2>2. call' \in [Reader -> [state : {"idle", "reading", "got"}, value : 0..source, age : Nat, tries : Int]]
    <3>1. ASSUME NEW r \in Reader
          PROVE  [call[r] EXCEPT !.age = Older(@)] \in [state : {"idle", "reading", "got"}, value : 0..source, age : Nat, tries : Int]
      <4>1. Older(call[r].age) \in Nat
        BY EntriesAndCalls, OlderMonotone DEF Entry
      <4> QED BY <4>1, EntriesAndCalls
    <3> QED BY <1>12, <3>1, EntriesAndCalls DEF Tick
  <2>3. cache' = {} \/ \E v \in 0..source, a \in Nat : cache' = { [value |-> v, age |-> a] }
    <3>1. CASE cache = {}
      BY <1>12, <3>1 DEF Tick
    <3>2. ASSUME NEW v \in 0..source, NEW a \in Nat, cache = { [value |-> v, age |-> a] }
          PROVE  cache' = { [value |-> v, age |-> Older(a)] } /\ Older(a) \in Nat
      BY <1>12, <3>2, OlderMonotone DEF Tick
    <3> QED BY <3>1, <3>2 DEF Shape
  <2>4. failed' \in Nat
    BY <1>12, OlderMonotone DEF Tick, Shape
  <2> QED BY <1>12, <2>1, <2>2, <2>3, <2>4 DEF Tick, Shape
<1>13. ASSUME UNCHANGED vars PROVE Shape'
  BY <1>13 DEF vars, Shape
<1> QED BY <1>1, <1>2, <1>3, <1>5, <1>6, <1>7, <1>8, <1>9, <1>10, <1>11, <1>12, <1>13 DEF Next, Attempt
-----------------------------------------------------------------------------
LEMMA AgesTellIsKept ==
  ASSUME Shape, Shape', AgesTell, [Next]_vars
  PROVE  AgesTell'
<1>0. /\ \A e \in cache : Entry(e) /\ Dated(e.value, e.age)
      /\ \A r \in Reader : /\ Entry(call[r])
                           /\ call[r].state = "got" => Dated(call[r].value, call[r].age)
                           /\ kind = "clock" /\ InFlight(r) => call[r].age =< MaxRead
      /\ source \in Nat /\ source > 0
  BY EntriesAndCalls DEF AgesTell
<1>A. ASSUME source' = source, gone' = gone, kind' = kind,
             failed' = failed \/ (kind = "params" /\ failed' = 0),
             \A e \in cache' : e \in cache \/ \E q \in Reader : /\ call[q].state = "got"
                                                                /\ e.value = call[q].value /\ e.age = call[q].age,
             \A q \in Reader : \/ call'[q] = call[q]
                               \/ call'[q].state = "idle"
                               \/ /\ call'[q].state = "reading" /\ call'[q].age = 0
                               \/ /\ call'[q].state = "reading" /\ InFlight(q) /\ call'[q].age = call[q].age
                               \/ /\ call'[q].state = "got" /\ InFlight(q) /\ call'[q].age = call[q].age
                                  /\ call'[q].value = source
      PROVE  AgesTell'
  <2>1. ASSUME NEW e \in cache' PROVE Dated(e.value, e.age)'
    <3>1. CASE e \in cache
      BY <1>0, <1>A, <3>1 DEF Entry, Dated
    <3>2. ASSUME NEW q \in Reader, call[q].state = "got", e.value = call[q].value, e.age = call[q].age
          PROVE  Dated(e.value, e.age)'
      BY <1>0, <1>A, <3>2 DEF Entry, Dated
    <3> QED BY <1>A, <2>1, <3>1, <3>2
  <2>2. ASSUME NEW q \in Reader, call'[q].state = "got"
        PROVE  \/ call'[q] = call[q]
               \/ call'[q].value = source
    BY <1>A, <2>2
  <2>3. ASSUME NEW q \in Reader, call'[q].state = "got"
        PROVE  Dated(call[q].value, call[q].age)'
    <3>1. CASE call'[q] = call[q]
      <4>1. Entry(call[q]) /\ Dated(call[q].value, call[q].age)
        BY <1>0, <2>3, <3>1
      <4> QED BY <1>A, <3>1, <4>1 DEF Entry, Dated
    <3>2. CASE call'[q].value = source
      BY <1>A, <3>2 DEF Dated
    <3> QED BY <2>2, <2>3, <3>1, <3>2
  <2>4. ASSUME NEW q \in Reader, kind' = "clock", InFlight(q)'
        PROVE  call'[q].age =< MaxRead
    <3>1. InFlight(q) => call[q].age =< MaxRead
      BY <1>0, <1>A, <2>4
    <3>2. 0 =< MaxRead /\ call'[q].state # "idle"
      BY <2>4, Bounds DEF InFlight
    <3>3. call'[q] = call[q] \/ call'[q].age = 0 \/ (InFlight(q) /\ call'[q].age = call[q].age)
      BY <1>A, <3>2
    <3> QED BY <3>1, <3>2, <3>3 DEF InFlight
  <2> QED BY <2>1, <2>3, <2>4 DEF AgesTell
<1>1. ASSUME NEW r \in Reader, Hit(r) PROVE AgesTell'
  BY <1>1, <1>A DEF Hit
<1>2. ASSUME NEW r \in Reader, Miss(r) PROVE AgesTell'
  BY <1>2, <1>A DEF Miss, Idle, Shape
<1>3. ASSUME NEW r \in Reader, Read(r) PROVE AgesTell'
  BY <1>3, <1>A DEF Read, InFlight, Shape
<1>5. ASSUME NEW r \in Reader, KeepParams(r) PROVE AgesTell'
  <2>1. kind = "params" /\ kind' = kind /\ failed' = 0 /\ cache' = cache
    BY <1>5 DEF KeepParams, ReadFails
  <2> QED BY <2>1 DEF AgesTell, Dated, Shape, Entry
<1>6. ASSUME NEW r \in Reader, RetryClock(r) PROVE AgesTell'
  BY <1>6, <1>A DEF RetryClock, ReadFails, InFlight, Shape
<1>7. ASSUME NEW r \in Reader, GiveUpClock(r) PROVE AgesTell'
  BY <1>7, <1>A DEF GiveUpClock, ReadFails, Idle, Shape
<1>8. ASSUME NEW r \in Reader, RequestFails(r) PROVE AgesTell'
  BY <1>8, <1>A DEF RequestFails, ReadFails, Idle, Shape
<1>9. ASSUME NEW r \in Reader, Store(r) PROVE AgesTell'
  BY <1>9, <1>A DEF Store, Idle, Shape
<1>10. ASSUME Write PROVE AgesTell'
  <2>1. source \in Version /\ source' = source + 1 /\ gone' = [gone EXCEPT ![source] = 0]
        /\ kind' = kind /\ failed' = failed /\ cache' = cache /\ call' = call
    BY <1>10 DEF Write, Shape
  <2>2. ASSUME NEW v \in 0..source, NEW a \in Nat, Dated(v, a)
        PROVE  gone'[v] =< a \/ (kind = "params" /\ failed =< a)
    BY <1>0, <2>1, <2>2 DEF Dated, Shape
  <2>3. ASSUME NEW e \in cache' PROVE Dated(e.value, e.age)'
    <3>1. e \in cache /\ e.value \in 0..source /\ e.age \in Nat /\ Dated(e.value, e.age)
      BY <1>0, <2>1, <2>3 DEF Entry
    <3> QED BY <1>0, <2>1, <2>2, <3>1 DEF Dated
  <2>4. ASSUME NEW q \in Reader, call'[q].state = "got" PROVE Dated(call[q].value, call[q].age)'
    <3>1. call[q].value \in 0..source /\ call[q].age \in Nat /\ Dated(call[q].value, call[q].age)
      BY <1>0, <2>1, <2>4 DEF Entry
    <3> QED BY <1>0, <2>1, <2>2, <3>1 DEF Dated
  <2> QED BY <1>0, <2>1, <2>3, <2>4 DEF AgesTell, InFlight
<1>11. ASSUME Pop PROVE AgesTell'
  BY <1>11, <1>A DEF Pop
<1>12. ASSUME Tick PROVE AgesTell'
  <2>1. /\ kind' = kind /\ source' = source /\ failed' = Older(failed) /\ failed \in Nat
        /\ \A v \in 0..(source - 1) : gone[v] \in Nat /\ gone'[v] = Older(gone[v])
    <3>1. 0..(source - 1) \subseteq Version /\ \A v \in 0..(source - 1) : v < source
      BY <1>0, Bounds DEF Shape, Version
    <3> QED BY <1>12, <3>1 DEF Tick, Shape
  <2>2. ASSUME NEW v \in 0..source, NEW a \in Nat, Dated(v, a)
        PROVE  \/ v = source
               \/ v \in 0..(source - 1) /\ gone'[v] =< Older(a)
               \/ kind = "params" /\ failed' =< Older(a)
    <3>1. CASE v \in 0..(source - 1) /\ gone[v] =< a
      BY <2>1, <3>1, OlderMonotone
    <3>2. CASE kind = "params" /\ failed =< a
      BY <2>1, <3>2, OlderMonotone
    <3> QED BY <2>2, <3>1, <3>2 DEF Dated
  <2>3. ASSUME NEW e \in cache' PROVE Dated(e.value, e.age)'
    <3>1. PICK d \in cache : e = [d EXCEPT !.age = Older(@)]
      BY <1>12 DEF Tick
    <3>2. e.value = d.value /\ e.age = Older(d.age) /\ Entry(d) /\ Dated(d.value, d.age)
      BY <1>0, <3>1, EntriesAndCalls
    <3> QED BY <2>1, <2>2, <3>2 DEF Entry, Dated
  <2>4. ASSUME NEW q \in Reader
        PROVE  /\ call'[q].state = call[q].state /\ call'[q].value = call[q].value
               /\ InFlight(q) => call'[q].age = Older(call[q].age)
    <3>1. call[q] \in [state : {"idle", "reading", "got"}, value : 0..source, age : Nat, tries : Int]
      BY EntriesAndCalls
    <3>2. call'[q] = IF InFlight(q) THEN [call[q] EXCEPT !.age = Older(@)] ELSE call[q]
      BY <1>12 DEF Tick
    <3> QED BY <3>1, <3>2
  <2>5. ASSUME NEW q \in Reader, call'[q].state = "got" PROVE Dated(call[q].value, call[q].age)'
    <3>1. Entry(call[q]) /\ Dated(call[q].value, call[q].age) /\ InFlight(q)
      BY <1>0, <2>4, <2>5 DEF InFlight
    <3> QED BY <2>1, <2>2, <2>4, <3>1 DEF Entry, Dated
  <2>6. ASSUME NEW q \in Reader, kind' = "clock", InFlight(q)' PROVE call'[q].age =< MaxRead
    <3>1. InFlight(q) /\ call[q].age < MaxRead /\ call[q].age \in Nat
      BY <1>0, <1>12, <2>1, <2>4, <2>6 DEF Tick, InFlight, Entry
    <3>2. Older(call[q].age) = call[q].age + 1
      BY <3>1, Bounds, OlderMonotone DEF Old
    <3> QED BY <2>4, <3>1, <3>2, Bounds
  <2> QED BY <2>3, <2>5, <2>6 DEF AgesTell
<1>13. ASSUME UNCHANGED vars PROVE AgesTell'
  BY <1>13, <1>A DEF vars
<1> QED BY <1>1, <1>2, <1>3, <1>5, <1>6, <1>7, <1>8, <1>9, <1>10, <1>11, <1>12, <1>13 DEF Next, Attempt

-----------------------------------------------------------------------------
\* The ages of what may be answered now.
LEMMA AgesBound == CacheInv => AgeBounded
<1> SUFFICES ASSUME CacheInv PROVE AgeBounded
  OBVIOUS
<1>0. Shape /\ AgesTell
  BY DEF CacheInv
<1>1. ASSUME NEW e \in Valid
      PROVE  Entry(e) /\ Dated(e.value, e.age) /\ e.age < STALE + MaxRead
  BY <1>0, EntriesAndCalls, Bounds DEF Valid, AgesTell, Entry
<1>2. ASSUME NEW r \in Reader, call[r].state = "got"
      PROVE  /\ Entry(call[r]) /\ Dated(call[r].value, call[r].age)
             /\ kind = "clock" => call[r].age < STALE + MaxRead
  <2>1. STALE > 0
    BY CachesAssumption
  <2> QED BY <1>0, <1>2, <2>1, EntriesAndCalls, Bounds DEF AgesTell, Entry, InFlight
<1>3. ASSUME NEW r \in Reader, kind = "clock", call[r].state = "reading", NEW e \in Usable(r)
      PROVE  Entry(e) /\ Dated(e.value, e.age) /\ e.age < STALE + MaxRead
  <2>1. e \in cache /\ e.age - call[r].age < STALE
    BY DEF Usable
  <2>2. call[r].age =< MaxRead /\ call[r].age \in Nat
    BY <1>0, <1>3, EntriesAndCalls DEF AgesTell, InFlight, Entry
  <2>3. Entry(e) /\ Dated(e.value, e.age)
    BY <1>0, <2>1, EntriesAndCalls DEF AgesTell
  <2> QED BY <2>1, <2>2, <2>3, Bounds DEF Entry
<1>4. ASSUME NEW a \in Answers
      PROVE  Entry(a) /\ Dated(a.value, a.age) /\ (kind = "clock" => a.age < STALE + MaxRead)
  <2>1. \/ a \in Valid
        \/ \E r \in Reader : call[r].state = "got" /\ a = [value |-> call[r].value, age |-> call[r].age]
        \/ \E r \in Reader : kind = "clock" /\ call[r].state = "reading" /\ a \in Usable(r)
    BY DEF Answers
  <2>2. ASSUME NEW r \in Reader, call[r].state = "got", a = [value |-> call[r].value, age |-> call[r].age]
        PROVE  Entry(a) /\ Dated(a.value, a.age) /\ (kind = "clock" => a.age < STALE + MaxRead)
    <3>1. a.value = call[r].value /\ a.age = call[r].age
      BY <2>2
    <3> QED BY <1>2, <2>2, <3>1 DEF Entry
  <2> QED BY <1>1, <1>3, <2>1, <2>2
<1> QED BY <1>4 DEF AgeBounded, Dated

-----------------------------------------------------------------------------
\* While calls do not overlap, no answer is behind what was handed out.
LEMMA NothingUndone == CacheInv => NotUndone
<1> SUFFICES ASSUME Shape, Ordered, ~overlap, NEW a \in Answers PROVE a.value >= newest
  BY DEF CacheInv, NotUndone
<1>1. /\ \A e \in cache : e.value >= newest
      /\ \A r \in Reader : call[r].state = "got" => call[r].value >= newest
  BY DEF Ordered
<1>2. \/ a \in Valid
      \/ \E r \in Reader : call[r].state = "got" /\ a = [value |-> call[r].value, age |-> call[r].age]
      \/ \E r \in Reader : kind = "clock" /\ call[r].state = "reading" /\ a \in Usable(r)
  BY DEF Answers
<1> QED BY <1>1, <1>2 DEF Valid, Usable

\* The parts of Ordered, with no overlap.
OneAtATime == /\ \A r, q \in Reader : InFlight(r) /\ InFlight(q) => r = q
              /\ \A r \in Reader : InFlight(r) => Valid = {}
EntryNotBehind == /\ \A e \in cache : e.value >= newest
                  /\ kind = "params" /\ cache = {} => newest = 0
ReadingNotBehind == \A r \in Reader : call[r].state = "got" => call[r].value >= newest

\* Handing out what is not behind leaves it the newest.
LEMMA HandOutNotBehind ==
  ASSUME Shape, ~overlap, NEW v \in 0..source, v >= newest, HandOut(v)
  PROVE  newest' = v
BY HandOutIsTheLater, EntriesAndCalls

LEMMA OrderedIsKept ==
  ASSUME Shape, Shape', Ordered, [Next]_vars
  PROVE  Ordered'
<1> SUFFICES ASSUME ~overlap' PROVE OneAtATime' /\ EntryNotBehind' /\ ReadingNotBehind'
  BY DEF Ordered, OneAtATime, EntryNotBehind, ReadingNotBehind
<1>0. ~overlap => OneAtATime /\ EntryNotBehind /\ ReadingNotBehind
  BY DEF Ordered, OneAtATime, EntryNotBehind, ReadingNotBehind
<1>1. ASSUME NEW r \in Reader, Hit(r) PROVE OneAtATime' /\ EntryNotBehind' /\ ReadingNotBehind'
  <2>1. PICK e \in Valid : HandOut(e.value)
    BY <1>1 DEF Hit
  <2>2. ~overlap /\ OneAtATime /\ EntryNotBehind /\ ReadingNotBehind /\ cache' = cache /\ call' = call
    BY <1>0, <1>1 DEF Hit
  <2>3. e \in cache /\ e.value \in 0..source /\ cache = {e}
    BY <2>1, EntriesAndCalls DEF Valid, Entry
  <2>4. newest' = e.value
    BY <2>1, <2>2, <2>3, HandOutNotBehind DEF EntryNotBehind
  <2>5. \A q \in Reader : ~InFlight(q)
    BY <2>1, <2>2 DEF OneAtATime
  <2> QED BY <2>2, <2>3, <2>4, <2>5 DEF OneAtATime, EntryNotBehind, ReadingNotBehind, InFlight
<1>2. ASSUME NEW r \in Reader, Miss(r) PROVE OneAtATime' /\ EntryNotBehind' /\ ReadingNotBehind'
  <2>1. Alone(r) /\ cache' = cache /\ Valid' = {} /\ kind' = kind
    BY <1>2 DEF Miss, Valid
  <2>2. \A q \in Reader \ {r} : ~InFlight(q)'
    BY <1>2, <2>1 DEF Miss, Alone, InFlight, Shape
  <2>3. call'[r].state = "reading"
    BY <1>2 DEF Miss, Shape, Idle
  <2>4. EntryNotBehind'
    <3>1. CASE overlap
      <4>1. newest' = Kept
        BY <1>2, <2>1, <3>1 DEF Miss
      <4> QED BY <2>1, <4>1, KeptIsTheEntry DEF EntryNotBehind
    <3>2. CASE ~overlap
      <4>1. newest' = newest
        BY <1>2, <2>1, <3>2 DEF Miss
      <4> QED BY <1>0, <2>1, <3>2, <4>1 DEF EntryNotBehind
    <3> QED BY <3>1, <3>2
  <2> QED BY <2>1, <2>2, <2>3, <2>4 DEF OneAtATime, ReadingNotBehind, InFlight
<1>A. ASSUME NEW r \in Reader, InFlight(r), InFlight(r)', UNCHANGED <<kind, cache, overlap, newest>>,
             \A q \in Reader \ {r} : call'[q] = call[q],
             call'[r].state = "got" => call'[r].value >= newest
      PROVE  OneAtATime' /\ EntryNotBehind' /\ ReadingNotBehind'
  <2>1. ~overlap /\ OneAtATime /\ EntryNotBehind /\ ReadingNotBehind
    BY <1>0, <1>A
  <2> QED BY <1>A, <2>1 DEF OneAtATime, EntryNotBehind, ReadingNotBehind, InFlight, Valid
<1>B. ASSUME NEW r \in Reader, InFlight(r), call'[r].state = "idle",
             UNCHANGED <<kind, overlap>>, \A q \in Reader \ {r} : call'[q] = call[q],
             EntryNotBehind'
      PROVE  OneAtATime' /\ EntryNotBehind' /\ ReadingNotBehind'
  <2>1. OneAtATime
    BY <1>0, <1>B
  <2>2. \A q \in Reader : call'[q].state = "idle"
    BY <1>B, <2>1 DEF OneAtATime, InFlight
  <2> QED BY <1>B, <2>2 DEF OneAtATime, ReadingNotBehind, InFlight
<1>3. ASSUME NEW r \in Reader, Read(r) PROVE OneAtATime' /\ EntryNotBehind' /\ ReadingNotBehind'
  <2>1. call'[r].state = "got" /\ call'[r].value = source
    BY <1>3 DEF Read, Shape
  <2> QED BY <1>3, <1>A, <2>1, EntriesAndCalls DEF Read, InFlight, Shape
<1>5. ASSUME NEW r \in Reader, KeepParams(r) PROVE OneAtATime' /\ EntryNotBehind' /\ ReadingNotBehind'
  <2>1. call'[r].state = "got" /\ call'[r].value = Kept /\ kind = "params" /\ ~overlap
    BY <1>5 DEF KeepParams, ReadFails, Shape
  <2>2. Kept >= newest
    BY <1>0, <2>1, KeptIsTheEntry, EntriesAndCalls DEF EntryNotBehind
  <2> QED BY <1>5, <1>A, <2>1, <2>2 DEF KeepParams, ReadFails, InFlight, Shape
<1>6. ASSUME NEW r \in Reader, RetryClock(r) PROVE OneAtATime' /\ EntryNotBehind' /\ ReadingNotBehind'
  BY <1>6, <1>A DEF RetryClock, ReadFails, InFlight, Shape
<1>7. ASSUME NEW r \in Reader, GiveUpClock(r) PROVE OneAtATime' /\ EntryNotBehind' /\ ReadingNotBehind'
  <2>1. /\ InFlight(r) /\ call'[r].state = "idle" /\ kind = "clock" /\ ~overlap
        /\ \A q \in Reader \ {r} : call'[q] = call[q]
        /\ UNCHANGED <<kind, cache, overlap>>
    BY <1>7 DEF GiveUpClock, ReadFails, InFlight, Shape, Idle
  <2>2. EntryNotBehind
    BY <1>0, <2>1
  <2>3. EntryNotBehind'
    <3>1. CASE newest' = newest
      BY <2>1, <2>2, <3>1 DEF EntryNotBehind
    <3>2. ASSUME NEW e \in Usable(r), HandOut(e.value) PROVE EntryNotBehind'
      <4>1. e \in cache /\ e.value \in 0..source /\ cache = {e} /\ e.value >= newest
        BY <2>2, EntriesAndCalls DEF Usable, Entry, EntryNotBehind
      <4>2. newest' = e.value
        BY <2>1, <3>2, <4>1, HandOutNotBehind
      <4> QED BY <2>1, <4>1, <4>2, EntriesAndCalls DEF EntryNotBehind
    <3> QED BY <1>7, <3>1, <3>2 DEF GiveUpClock
  <2> QED BY <1>B, <2>1, <2>3
<1>8. ASSUME NEW r \in Reader, RequestFails(r) PROVE OneAtATime' /\ EntryNotBehind' /\ ReadingNotBehind'
  <2>1. /\ InFlight(r) /\ call'[r].state = "idle" /\ ~overlap
        /\ \A q \in Reader \ {r} : call'[q] = call[q]
        /\ UNCHANGED <<kind, cache, overlap, newest>>
    BY <1>8 DEF RequestFails, ReadFails, InFlight, Shape, Idle
  <2>2. EntryNotBehind'
    BY <1>0, <2>1 DEF EntryNotBehind
  <2> QED BY <1>B, <2>1, <2>2
<1>9. ASSUME NEW r \in Reader, Store(r) PROVE OneAtATime' /\ EntryNotBehind' /\ ReadingNotBehind'
  <2>1. /\ InFlight(r) /\ call'[r].state = "idle" /\ ~overlap
        /\ \A q \in Reader \ {r} : call'[q] = call[q]
        /\ UNCHANGED <<kind, overlap>>
    BY <1>9 DEF Store, InFlight, Shape, Idle
  <2>2. call[r].value \in 0..source /\ call[r].value >= newest
    BY <1>0, <1>9, <2>1, EntriesAndCalls DEF ReadingNotBehind, Store, Entry
  <2>3. newest' = call[r].value
    BY <1>9, <2>1, <2>2, HandOutNotBehind DEF Store
  <2>4. EntryNotBehind'
    <3>1. cache' = { [value |-> call[r].value, age |-> call[r].age] }
      BY <1>9 DEF Store
    <3>2. cache' # {} /\ \A e \in cache' : e.value = call[r].value
      BY <3>1
    <3>3. call[r].value \in Nat
      BY <2>2, EntriesAndCalls
    <3> QED BY <2>3, <3>2, <3>3 DEF EntryNotBehind
  <2> QED BY <1>B, <2>1, <2>4
<1>10. ASSUME Write PROVE OneAtATime' /\ EntryNotBehind' /\ ReadingNotBehind'
  <2>1. ~overlap /\ UNCHANGED <<kind, cache, call, newest>>
    BY <1>10 DEF Write
  <2> QED BY <1>0, <2>1 DEF OneAtATime, EntryNotBehind, ReadingNotBehind, InFlight, Valid
<1>11. ASSUME Pop PROVE OneAtATime' /\ EntryNotBehind' /\ ReadingNotBehind'
  <2>1. cache' = {} /\ call' = call /\ kind' = "api"
    BY <1>11 DEF Pop, Shape
  <2>2. \A r \in Reader : ~InFlight(r)
    BY <1>11 DEF Pop
  <2> QED BY <2>1, <2>2 DEF OneAtATime, EntryNotBehind, ReadingNotBehind, InFlight
<1>12. ASSUME Tick PROVE OneAtATime' /\ EntryNotBehind' /\ ReadingNotBehind'
  <2>1. ~overlap /\ UNCHANGED <<kind, newest>> /\ OneAtATime /\ EntryNotBehind /\ ReadingNotBehind
    BY <1>0, <1>12 DEF Tick
  <2>2. ASSUME NEW q \in Reader
        PROVE  call'[q].state = call[q].state /\ call'[q].value = call[q].value
    <3>1. call[q] \in [state : {"idle", "reading", "got"}, value : 0..source, age : Nat, tries : Int]
      BY EntriesAndCalls
    <3>2. call'[q] = IF InFlight(q) THEN [call[q] EXCEPT !.age = Older(@)] ELSE call[q]
      BY <1>12 DEF Tick
    <3> QED BY <3>1, <3>2
  <2>3. ASSUME NEW e \in cache'
        PROVE  \E d \in cache : e.value = d.value /\ (e.age < TTL => d.age < TTL)
    <3>1. PICK d \in cache : e = [d EXCEPT !.age = Older(@)]
      BY <1>12 DEF Tick
    <3>2. e.value = d.value /\ e.age = Older(d.age) /\ d.age \in Nat
      BY <3>1, EntriesAndCalls DEF Entry
    <3>3. Older(d.age) >= d.age
      BY <3>2, Bounds DEF Older, Old
    <3>4. e.age < TTL => d.age < TTL
      BY <3>2, <3>3, Bounds, OlderMonotone
    <3> QED BY <3>1, <3>2, <3>4
  <2>4. cache' = {} => cache = {}
    BY <1>12 DEF Tick
  <2>5. Valid = {} => Valid' = {}
    BY <2>3 DEF Valid
  <2>6. OneAtATime'
    BY <2>1, <2>2, <2>5 DEF OneAtATime, InFlight
  <2>7. EntryNotBehind'
    BY <2>1, <2>3, <2>4 DEF EntryNotBehind
  <2>8. ReadingNotBehind'
    BY <2>1, <2>2 DEF ReadingNotBehind
  <2> QED BY <2>6, <2>7, <2>8
<1>13. ASSUME UNCHANGED vars PROVE OneAtATime' /\ EntryNotBehind' /\ ReadingNotBehind'
  BY <1>0, <1>13 DEF vars, OneAtATime, EntryNotBehind, ReadingNotBehind, InFlight, Valid
<1> QED BY <1>1, <1>2, <1>3, <1>5, <1>6, <1>7, <1>8, <1>9, <1>10, <1>11, <1>12, <1>13 DEF Next, Attempt

-----------------------------------------------------------------------------
LEMMA CacheInvHolds == Spec => []CacheInv
<1>1. CacheInv /\ [Next]_vars => CacheInv'
  BY ShapeIsKept, AgesTellIsKept, OrderedIsKept DEF CacheInv
<1> QED BY <1>1, Starts, PTL DEF Spec

\* An answer of current_params, _clock or _cached is never outdated by more than the
\* time to live, the call itself, the reads of the rules that failed or the stale limit
\* of the clock: for any number of threads and whatever order they store in.
THEOREM AnswersAreOfBoundedAge == Spec => []AgeBounded
BY CacheInvHolds, AgesBound, PTL

\* Without overlapping calls, no answer of theirs is older than one before it, nor than
\* a change whose request has answered.
THEOREM AnswersDoNotGoBack == Spec => []NotUndone
BY CacheInvHolds, NothingUndone, PTL
=============================================================================
