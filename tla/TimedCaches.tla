----------------------------- MODULE TimedCaches -----------------------------
(***************************************************************************)
(* The values that several threads keep for a while instead of reading     *)
(* them again, none of them under a lock:                                  *)
(*                                                                         *)
(*   "params"  the rules, for both jobs (agent/runner.py current_params);  *)
(*   "clock"   the market clock, for both jobs (agent/runner.py _clock);   *)
(*   "api"     a table, for the requests (api/main.py _cached), where the  *)
(*             requests that change the rules drop the entry.              *)
(*                                                                         *)
(* A behaviour is about one of them.  What they keep has a version that    *)
(* each change of the source increases; version 0 is the registry's        *)
(* defaults, which are never in the table.  Time is counted in ticks, and  *)
(* instead of instants the model keeps ages, up to Old: past that they     *)
(* make no difference.                                                     *)
(***************************************************************************)
EXTENDS Integers, FiniteSets, FiniteSetsExt

CONSTANTS
  Reader,        \* threads
  TTL,           \* _PARAMS_TTL, _CLOCK_TTL or _CACHE_TTL, in ticks
  STALE,         \* _CLOCK_STALE_S
  RETRIES,       \* _CLOCK_RETRIES
  MaxRead,       \* ticks the attempts of a clock read take at most: the broker's timeouts
  MaxWrites,     \* bound: changes of the source
  MaxFails       \* bound: reads that fail

ASSUME CachesAssumption == /\ {TTL, STALE, RETRIES, MaxRead} \subseteq Nat \ {0} /\ TTL =< STALE
                           /\ {MaxWrites, MaxFails} \subseteq Nat

VARIABLES
  kind,      \* the cache this behaviour is about
  source,    \* version of the source
  gone,      \* age of the end of each version
  cache,     \* [value, age] of the entry, if any
  call,      \* what each reader is doing
  pops,      \* requests that have committed a change and not dropped the entry yet
  fails,     \* reads that failed
  failed,    \* age of the last read of the rules that failed
  overlap,   \* calls have overlapped, or a request's change with one, since one last read alone
  newest     \* newest version handed out, when they have not

vars == <<kind, source, gone, cache, call, pops, fails, failed, overlap, newest>>

Old      == STALE + MaxRead + 1
Age      == 0..Old
Version  == 0..(MaxWrites + 1)
Older(a) == IF a < Old THEN a + 1 ELSE a

Idle == [state |-> "idle", value |-> 0, age |-> 0, tries |-> 0]

Init ==
  /\ kind \in {"params", "clock", "api"}
  /\ source = 1 /\ gone = [v \in Version |-> Old]
  /\ cache = {} /\ call = [r \in Reader |-> Idle]
  /\ pops = 0 /\ fails = 0 /\ failed = Old
  /\ overlap = FALSE /\ newest = 0

InFlight(r) == call[r].state # "idle"
Alone(r)    == \A q \in Reader \ {r} : ~InFlight(q)
Valid       == { e \in cache : e.age < TTL }
HandOut(v)  == newest' = IF overlap THEN 0 ELSE Max({ newest, v })

Kept_mutant == 0      \* the defaults, whatever was read before

\* The last good parameters, or the defaults if there were none.
Kept == IF cache = {} THEN 0 ELSE Max({ e.value : e \in cache })

\* A plausible slip: a hit makes the entry young again.
Hit_mutant(r) ==
  /\ ~InFlight(r)
  /\ \E e \in Valid : HandOut(e.value) /\ cache' = { [e EXCEPT !.age = 0] }
  /\ UNCHANGED <<kind, source, gone, call, pops, fails, failed, overlap>>

\* A valid entry is the answer.
Hit(r) ==
  /\ ~InFlight(r)
  /\ \E e \in Valid : HandOut(e.value)
  /\ UNCHANGED <<kind, source, gone, cache, call, pops, fails, failed, overlap>>

\* Otherwise the source is read.
Miss(r) ==
  /\ ~InFlight(r) /\ Valid = {}
  /\ call' = [call EXCEPT ![r] = [Idle EXCEPT !.state = "reading"]]
  /\ overlap' = ~Alone(r)
  /\ newest' = IF ~Alone(r) THEN 0 ELSE IF overlap THEN Kept ELSE newest
  /\ UNCHANGED <<kind, source, gone, cache, pops, fails, failed>>

Read(r) ==
  /\ call[r].state = "reading"
  /\ call' = [call EXCEPT ![r].state = "got", ![r].value = source]
  /\ UNCHANGED <<kind, source, gone, cache, pops, fails, failed, overlap, newest>>

ReadFails(r) ==
  /\ call[r].state = "reading" /\ fails < MaxFails
  /\ fails' = fails + 1 /\ failed' = IF kind = "params" THEN 0 ELSE failed
  /\ UNCHANGED <<kind, source, gone, cache, pops, overlap>>

\* current_params goes on with what there is, as if it had been read.
KeepParams(r) ==
  /\ kind = "params"
  /\ ReadFails(r)
  /\ call' = [call EXCEPT ![r].state = "got", ![r].value = Kept]
  /\ UNCHANGED newest

\* _clock tries again ...
RetryClock(r) ==
  /\ kind = "clock" /\ call[r].tries + 1 < RETRIES
  /\ ReadFails(r)
  /\ call' = [call EXCEPT ![r].tries = @ + 1]
  /\ UNCHANGED newest

\* ... and then answers an entry that is not too old, which stays as old as it is, or raises.
Usable(r) == { e \in cache : e.age - call[r].age < STALE }
GiveUpClock(r) ==
  /\ kind = "clock" /\ call[r].tries + 1 = RETRIES
  /\ ReadFails(r)
  /\ call' = [call EXCEPT ![r] = Idle]
  /\ IF Usable(r) = {} THEN UNCHANGED newest ELSE \E e \in Usable(r) : HandOut(e.value)

\* A request fails.
RequestFails(r) ==
  /\ kind = "api"
  /\ ReadFails(r)
  /\ call' = [call EXCEPT ![r] = Idle]
  /\ UNCHANGED newest

\* A plausible slip: the entry is as old as its storing, not as its call.
Store_mutant(r) ==
  /\ call[r].state = "got"
  /\ cache' = { [value |-> call[r].value, age |-> 0] }
  /\ call' = [call EXCEPT ![r] = Idle]
  /\ HandOut(call[r].value)
  /\ UNCHANGED <<kind, source, gone, pops, fails, failed, overlap>>

\* The entry dates from the start of the call.
Store(r) ==
  /\ call[r].state = "got"
  /\ cache' = { [value |-> call[r].value, age |-> call[r].age] }
  /\ call' = [call EXCEPT ![r] = Idle]
  /\ HandOut(call[r].value)
  /\ UNCHANGED <<kind, source, gone, pops, fails, failed, overlap>>

\* A change is committed, by a request if the cache is the API's.
Write ==
  /\ source =< MaxWrites
  /\ source' = source + 1 /\ gone' = [gone EXCEPT ![source] = 0]
  /\ pops' = IF kind = "api" THEN pops + 1 ELSE pops
  /\ UNCHANGED <<kind, cache, call, fails, failed, overlap, newest>>

\* The request drops the entry and answers.
Pop ==
  /\ pops > 0
  /\ pops' = pops - 1 /\ cache' = {}
  /\ IF \A r \in Reader : ~InFlight(r) THEN newest' = source /\ UNCHANGED overlap
     ELSE overlap' = TRUE /\ newest' = 0
  /\ UNCHANGED <<kind, source, gone, call, fails, failed>>

\* The broker's client times out, the database's does not.
Tick ==
  /\ kind = "clock" => \A r \in Reader : InFlight(r) => call[r].age < MaxRead
  /\ gone'   = [v \in Version |-> IF v < source THEN Older(gone[v]) ELSE gone[v]]
  /\ cache'  = { [e EXCEPT !.age = Older(@)] : e \in cache }
  /\ call'   = [r \in Reader |-> IF InFlight(r) THEN [call[r] EXCEPT !.age = Older(@)] ELSE call[r]]
  /\ failed' = Older(failed)
  /\ UNCHANGED <<kind, source, pops, fails, overlap, newest>>

Attempt(r) == Read(r) \/ KeepParams(r) \/ RetryClock(r) \/ GiveUpClock(r) \/ RequestFails(r)

Next ==
  \/ \E r \in Reader : Hit(r) \/ Miss(r) \/ Attempt(r) \/ Store(r)
  \/ Write \/ Pop \/ Tick

\* Time passes; a clock read ends, by its timeouts; what was read is stored at once.
Fairness ==
  /\ WF_vars(Tick)
  /\ \A r \in Reader : WF_vars(kind = "clock" /\ Attempt(r)) /\ WF_vars(Store(r))

Spec == Init /\ [][Next]_vars /\ Fairness

-----------------------------------------------------------------------------
(***************************************************************************)
(* Properties.                                                             *)
(***************************************************************************)

\* What a call may be answered now, with the age of its reading: a valid entry, what
\* was just read, or the clock's last entry when it cannot be read.
Answers ==
  Valid \cup { [value |-> call[r].value, age |-> call[r].age] :
                 r \in { q \in Reader : call[q].state = "got" } }
        \cup UNION { IF kind = "clock" /\ call[r].state = "reading" THEN Usable(r) ELSE {} : r \in Reader }

\* Whatever overlaps and fails, an answer was current when it was read, so that it is
\* outdated by less than the time to live or than the call itself has taken; the rules
\* may be older only if they could not be read within that time, and the clock if it
\* cannot be read now, by less than the stale limit and the attempts.
AgeBounded ==
  \A a \in Answers :
    /\ \/ a.value = source
       \/ gone[a.value] =< a.age
       \/ kind = "params" /\ failed =< a.age
    /\ kind = "clock" => a.age < STALE + MaxRead

\* As long as no two calls overlap, no answer goes back: not to an older version, not
\* to the defaults after a failed read, and not to before a change whose request has
\* answered.
NotUndone == ~overlap => \A a \in Answers : a.value >= newest

\* Once the changes and the failures are over, every answer is the current one.
EventuallyCurrent == <>[](\A a \in Answers : a.value = source)

=============================================================================
