---------------------------- MODULE RuleProposals ----------------------------
(***************************************************************************)
(* The rules table and the ways to change it: PATCH /api/rules, the        *)
(* decision of a person on a proposal, the seed at each start, and the     *)
(* nightly job that proposes (storage/store.py, policy/params.py,          *)
(* agent/learning.py, api/main.py).  Requests run on threads of their own, *)
(* the nightly job on another; each step below is one transaction, or the  *)
(* SELECT of one that takes no lock.                                       *)
(*                                                                         *)
(* Fractions are counted in ten-thousandths, to which proposals are        *)
(* rounded.  A float of the table may also be NaN, which is less than      *)
(* nothing and than which nothing is less.  What the night measured is a   *)
(* choice among given buckets.                                             *)
(***************************************************************************)
EXTENDS Integers, Sequences, FiniteSets

CONSTANTS
  Groups,         \* correlation groups: the scopes of proposals
  Clients,        \* request threads of the API
  Nights,         \* what a night may measure: sequences of buckets
  Edits,          \* bodies of PATCH /api/rules: scope, key, value
  Seeds,          \* environments: a value for each key
  NaN,            \* the float that is not a number: "nan" in the environment, a body, the table
  ProposalTTL,    \* PROPOSAL_TTL_DAYS
  MaxProposals,   \* bound: rows of rule_proposals
  MaxChanges,     \* bound: rows of rules_history
  MaxFaults       \* bound: failures

GLOBAL == "global"
Scope  == Groups \union {GLOBAL}

ParamSpec(default, lo, hi) == [default |-> default, lo |-> lo, hi |-> hi]
REGISTRY == [ take_profit_far |-> ParamSpec(5000, 500, 10000),
              stop_delta      |-> ParamSpec(4500, 3000, 9900) ]
Key == DOMAIN REGISTRY

ASSUME BoundsAssumption ==
  MaxProposals \in Nat /\ MaxChanges \in Nat /\ MaxFaults \in Nat /\ ProposalTTL \in Nat

\* A scope is global or "group:" and a name.
ASSUME ScopesAssumption == GLOBAL \notin Groups /\ IsFiniteSet(Clients)

ASSUME NaNAssumption == NaN \notin Int

\* A body names a scope and a key that exist, or it is refused before the store is
\* reached; seed_from_settings takes only values the registry accepts.
ASSUME InputsAssumption ==
  /\ Edits \subseteq [scope : Scope, key : Key, value : Int \cup {NaN}]
  /\ Seeds \subseteq [Key -> Int \cup {NaN}]
  /\ \A env \in Seeds, k \in Key : env[k] \in (REGISTRY[k].lo..REGISTRY[k].hi) \cup {NaN}

\* What aggregate gives of a bucket.
ASSUME NightsAssumption ==
  \A buckets \in Nights :
    /\ buckets \in Seq({ buckets[i] : i \in DOMAIN buckets })
    /\ \A i \in DOMAIN buckets : /\ buckets[i].group \in Groups
                                 /\ buckets[i].agg.median_mfe_losers \subseteq Int

MIN_SAMPLE == 20
Absent     == 0                                \* no row for the scope and key

VARIABLES
  rules,        \* the rules table
  history,      \* rules_history, in order of id
  prop, props,  \* rule_proposals by id, and the last id given
  req,          \* requests in progress
  night,        \* the nightly job: where it is, what it has to add, what it found pending
  faults        \* failures so far
\* Kept for the properties, in a proposal: asof and batch, the changes and the
\* proposals there were when its night read the rules; stored, whether the value it
\* read was in the table; seen, the requests that found it pending, up to two.  In a change: by, the proposal it applies (0: a
\* PATCH); was, the value that was in force for its scope.

vars == <<rules, history, prop, props, req, night, faults>>

PropId    == 1..MaxProposals
NoProp    == [status |-> "none", scope |-> GLOBAL, key |-> "stop_delta", current |-> 0, proposed |-> 0,
              age |-> 0, asof |-> 0, batch |-> 0, stored |-> FALSE, seen |-> 0]
NoRequest == [pc |-> "idle", id |-> 0, approve |-> FALSE, scope |-> GLOBAL, key |-> "stop_delta",
              value |-> 0, old |-> 0]
Asleep    == [pc |-> "idle", todo |-> <<>>, pending |-> {}]

-----------------------------------------------------------------------------
(* The registry and the precedence of scopes. *)

\* As floats compare.
Less(a, b) == a # NaN /\ b # NaN /\ a < b

\* What is neither below the minimum nor above the maximum; so is NaN.
Coerces_no_hi(key, v) == ~Less(v, REGISTRY[key].lo)
Coerces_open(key, v)  == ~Less(v, REGISTRY[key].lo + 1) /\ ~Less(REGISTRY[key].hi, v)
Coerces(key, v)       == ~Less(v, REGISTRY[key].lo) /\ ~Less(REGISTRY[key].hi, v)

\* Params.get for a group: its own value, else the global one, else the default.
Get(table, key, group) ==
  IF table[group][key] # Absent THEN table[group][key]
  ELSE IF table[GLOBAL][key] # Absent THEN table[GLOBAL][key] ELSE REGISTRY[key].default
Stored(table, key, group) == \E s \in {group, GLOBAL} : table[s][key] # Absent

\* The environment seeds what has no row, whatever it says now.
SeedRules_mutant(table, env) == [table EXCEPT ![GLOBAL] = env]
SeedRules(table, env) ==
  [table EXCEPT ![GLOBAL] = [k \in Key |-> IF @[k] = Absent THEN env[k] ELSE @[k]]]

-----------------------------------------------------------------------------
(* What a bucket proposes.  An optional number is a set of at most one. *)

Least(a, b)    == IF a < b THEN a ELSE b
Greatest(a, b) == IF a > b THEN a ELSE b

\* At most a quarter away from the current value, inside the registry.
_bounded(key, current, target) ==
  LET lo == Greatest(REGISTRY[key].lo, (3 * current + 2) \div 4)
      hi == Least(REGISTRY[key].hi, (5 * current + 2) \div 4)
  IN  Greatest(lo, Least(hi, target))

\* A: the losers had captured a good part of the credit before they turned.
Greedy(a, tp) ==
  /\ a.losses >= 5
  /\ \E m \in a.median_mfe_losers : m >= 3000
  /\ \A w \in a.median_mfe_winners : w <= tp + 500

\* B: the delta stop fires late.
Late(a) ==
  /\ a.losses >= 5 /\ a.delta_stops >= 3
  /\ \E l \in a.avg_loss_vs_credit : l >= 8000

Lower(scope, key, current, target) ==
  IF _bounded(key, current, target) < current
  THEN << [scope |-> scope, key |-> key, current |-> current, proposed |-> _bounded(key, current, target),
           asof |-> Len(history), batch |-> props, stored |-> Stored(rules, key, scope)] >>
  ELSE <<>>

\* A current value that is NaN proposes nothing: no target is below it.
propose(bucket, tp, sd) ==
  LET a == bucket.agg
      A == IF tp # NaN /\ Greedy(a, tp)
           THEN Lower(bucket.group, "take_profit_far", tp, CHOOSE m \in a.median_mfe_losers : TRUE)
           ELSE <<>>
      B == IF sd # NaN /\ Late(a) THEN Lower(bucket.group, "stop_delta", sd, sd - 500) ELSE <<>>
  IN  IF a.n < MIN_SAMPLE THEN <<>> ELSE A \o B

\* The proposals of a night, bucket by bucket, all from one reading of the rules.
Concat(parts) ==
  LET upTo[i \in 0..Len(parts)] == IF i = 0 THEN <<>> ELSE upTo[i - 1] \o parts[i]
  IN  upTo[Len(parts)]

Proposals_mutant(buckets) ==        \* from the defaults, not from the rules of the group
  Concat([i \in DOMAIN buckets |->
            propose(buckets[i], REGISTRY.take_profit_far.default, REGISTRY.stop_delta.default)])
Proposals(buckets) ==
  Concat([i \in DOMAIN buckets |->
            propose(buckets[i], Get(rules, "take_profit_far", buckets[i].group),
                                Get(rules, "stop_delta", buckets[i].group))])

-----------------------------------------------------------------------------
Init ==
  /\ \E env \in Seeds :
       LET empty == [s \in Scope |-> [k \in Key |-> Absent]]
       IN  rules \in {empty, SeedRules(empty, env)}      \* the database may be down at the first start
  /\ history = <<>>
  /\ prop = [p \in PropId |-> NoProp] /\ props = 0
  /\ req = [c \in Clients |-> NoRequest]
  /\ night = Asleep
  /\ faults = 0

\* Room in the history for one more change.
Room == Len(history) + Cardinality({ c \in Clients : req[c].pc # "idle" }) < MaxChanges

-----------------------------------------------------------------------------
(* A request.  decide_proposal reads the row, marks it in the same         *)
(* transaction but by its id alone, and applies it in another; set_rule    *)
(* reads the old value, then writes the value and its history.             *)

SetRequest(c, r) == req' = [req EXCEPT ![c] = r]
EndRequest(c)    == SetRequest(c, NoRequest)

StartDecide(c, p, approve) ==
  /\ req[c].pc = "idle"
  /\ prop[p].status = "pending"
  /\ approve => Room
  /\ SetRequest(c, [pc |-> "mark", id |-> p, approve |-> approve, scope |-> prop[p].scope,
                    key |-> prop[p].key, value |-> prop[p].proposed, old |-> 0])
  /\ prop' = [prop EXCEPT ![p].seen = Least(2, @ + 1)]
  /\ UNCHANGED <<rules, history, props, night, faults>>

MarkDecided(c) ==
  /\ req[c].pc = "mark"
  /\ SetRequest(c, IF req[c].approve THEN [req[c] EXCEPT !.pc = "old"] ELSE NoRequest)
  /\ prop' = [prop EXCEPT ![req[c].id].status = IF req[c].approve THEN "approved" ELSE "rejected"]
  /\ UNCHANGED <<rules, history, props, night, faults>>

StartPatch(c, e) ==
  /\ req[c].pc = "idle" /\ Room
  /\ SetRequest(c, [pc |-> "old", id |-> 0, approve |-> FALSE, scope |-> e.scope, key |-> e.key,
                    value |-> e.value, old |-> 0])
  /\ UNCHANGED <<rules, history, prop, props, night, faults>>

RefuseValue(c) ==
  /\ req[c].pc = "old" /\ ~Coerces(req[c].key, req[c].value)
  /\ EndRequest(c)
  /\ UNCHANGED <<rules, history, prop, props, night, faults>>

ReadOld(c) ==
  /\ req[c].pc = "old" /\ Coerces(req[c].key, req[c].value)
  /\ SetRequest(c, [req[c] EXCEPT !.pc = "write", !.old = rules[req[c].scope][req[c].key]])
  /\ UNCHANGED <<rules, history, prop, props, night, faults>>

WriteRule(c) ==
  LET r == req[c] IN
  /\ r.pc = "write"
  /\ rules' = [rules EXCEPT ![r.scope][r.key] = r.value]
  /\ history' = Append(history, [scope |-> r.scope, key |-> r.key, old |-> r.old, new |-> r.value,
                                by |-> r.id, was |-> Get(rules, r.key, r.scope)])
  /\ EndRequest(c)
  /\ UNCHANGED <<prop, props, night, faults>>

\* The database drops the connection: what was not committed is lost.
RequestFails(c) ==
  /\ req[c].pc # "idle" /\ faults < MaxFaults
  /\ faults' = faults + 1
  /\ EndRequest(c)
  /\ UNCHANGED <<rules, history, prop, props, night>>

-----------------------------------------------------------------------------
(* The nightly job. *)

StartNightly(buckets) ==
  /\ night.pc = "idle"
  /\ props + Len(Proposals(buckets)) <= MaxProposals
  /\ night' = [Asleep EXCEPT !.pc = "expire", !.todo = Proposals(buckets)]
  /\ UNCHANGED <<rules, history, prop, props, req, faults>>

Stale_decided(p) == prop[p].age > ProposalTTL
Stale_on_day(p)  == prop[p].status = "pending" /\ prop[p].age = ProposalTTL
Stale(p)         == prop[p].status = "pending" /\ prop[p].age > ProposalTTL

ExpireProposals ==
  /\ night.pc = "expire"
  /\ prop' = [p \in PropId |-> IF Stale(p) THEN [prop[p] EXCEPT !.status = "expired"] ELSE prop[p]]
  /\ night' = [night EXCEPT !.pc = "read"]
  /\ UNCHANGED <<rules, history, props, req, faults>>

Pending_mutant == {}
Pending        == { <<prop[p].scope, prop[p].key>> : p \in { q \in PropId : prop[q].status = "pending" } }

ReadPending ==
  /\ night.pc = "read"
  /\ night' = [night EXCEPT !.pc = "add", !.pending = Pending]
  /\ UNCHANGED <<rules, history, prop, props, req, faults>>

SkipProposal ==
  /\ night.pc = "add" /\ night.todo # <<>>
  /\ <<Head(night.todo).scope, Head(night.todo).key>> \in night.pending
  /\ night' = [night EXCEPT !.todo = Tail(@)]
  /\ UNCHANGED <<rules, history, prop, props, req, faults>>

AddProposal ==
  LET new == Head(night.todo) IN
  /\ night.pc = "add" /\ night.todo # <<>>
  /\ <<new.scope, new.key>> \notin night.pending
  /\ props' = props + 1
  /\ prop' = [prop EXCEPT ![props + 1] =
       [status |-> "pending", scope |-> new.scope, key |-> new.key, current |-> new.current,
        proposed |-> new.proposed, age |-> 0, asof |-> new.asof, batch |-> new.batch,
        stored |-> new.stored, seen |-> 0]]
  /\ night' = [night EXCEPT !.todo = Tail(@)]
  /\ UNCHANGED <<rules, history, req, faults>>

EndNightly ==
  /\ night.pc = "add" /\ night.todo = <<>>
  /\ night' = Asleep
  /\ UNCHANGED <<rules, history, prop, props, req, faults>>

NightlyFails ==
  /\ night.pc # "idle" /\ faults < MaxFaults
  /\ faults' = faults + 1
  /\ night' = Asleep
  /\ UNCHANGED <<rules, history, prop, props, req>>

-----------------------------------------------------------------------------
\* Ages are only looked at while a proposal is pending.
NewDay ==
  /\ \E p \in PropId : prop[p].status = "pending" /\ prop[p].age <= ProposalTTL
  /\ prop' = [p \in PropId |-> IF prop[p].status = "pending" /\ prop[p].age <= ProposalTTL
                               THEN [prop[p] EXCEPT !.age = @ + 1] ELSE prop[p]]
  /\ UNCHANGED <<rules, history, props, req, night, faults>>

\* The process starts again, perhaps with another environment.
Restart(env) ==
  /\ faults < MaxFaults
  /\ faults' = faults + 1
  /\ rules' = SeedRules(rules, env)
  /\ req' = [c \in Clients |-> NoRequest]
  /\ night' = Asleep
  /\ UNCHANGED <<history, prop, props>>

NightlyStep ==
  \/ \E b \in Nights : StartNightly(b)
  \/ ExpireProposals \/ ReadPending \/ SkipProposal \/ AddProposal \/ EndNightly

Next ==
  \/ \E c \in Clients :
       \/ \E p \in PropId, approve \in BOOLEAN : StartDecide(c, p, approve)
       \/ \E e \in Edits : StartPatch(c, e)
       \/ MarkDecided(c) \/ RefuseValue(c) \/ ReadOld(c) \/ WriteRule(c) \/ RequestFails(c)
  \/ NightlyStep \/ NightlyFails
  \/ NewDay
  \/ \E env \in Seeds : Restart(env)

\* The scheduler runs the job every night, and days go by; no person has to answer.
Spec == Init /\ [][Next]_vars /\ WF_vars(NightlyStep) /\ WF_vars(NewDay)

-----------------------------------------------------------------------------
(* Properties. *)

Value   == Nat \cup {NaN}
Row     == [scope : Scope, key : Key, current : Nat, proposed : Nat,
            asof : 0..MaxChanges, batch : 0..MaxProposals, stored : BOOLEAN]
RowKept == [status : {"none", "pending", "approved", "rejected", "expired"}, scope : Scope, key : Key,
            current : Nat, proposed : Nat, age : 0..(ProposalTTL + 1), asof : 0..MaxChanges,
            batch : 0..MaxProposals, stored : BOOLEAN, seen : 0..2]
Change  == [scope : Scope, key : Key, old : Value, new : Value, by : 0..MaxProposals, was : Value]
Request == [pc : {"idle", "mark", "old", "write"}, id : 0..MaxProposals, approve : BOOLEAN,
            scope : Scope, key : Key, value : Int \cup {NaN}, old : Value]
Job     == [pc : {"idle", "expire", "read", "add"}, todo : Seq(Row), pending : SUBSET (Scope \X Key)]

\* Type correctness; a number in the table is always within its bounds, which an
\* edit, a proposal and a seed each check, but NaN, which both comparisons of the
\* check let through, may stand there too (params.py 56-59).
TypeOK ==
  /\ rules \in [Scope -> [Key -> Value]]
  /\ \A s \in Scope, k \in Key :
       rules[s][k] \in {Absent, NaN} \/ rules[s][k] \in REGISTRY[k].lo..REGISTRY[k].hi
  /\ history \in Seq(Change) /\ Len(history) <= MaxChanges
  /\ props \in 0..MaxProposals /\ prop \in [PropId -> RowKept]
  /\ \A p \in PropId : (prop[p].status = "none") = (p > props)
  /\ req \in [Clients -> Request]
  /\ night \in Job
  /\ faults \in 0..MaxFaults

Changes(s, k)  == { i \in DOMAIN history : history[i].scope = s /\ history[i].key = k }
Applied(p)     == { i \in DOMAIN history : history[i].by = p }
Last(S)        == CHOOSE i \in S : \A j \in S : j <= i

\* The history tells the table: a value that was ever changed is the one its
\* last history row gives, whichever requests ran at once and whatever the
\* environment of a restart says; one never changed is absent or was seeded.
HistoryTellsTable ==
  \A s \in Scope, k \in Key :
    IF Changes(s, k) # {} THEN rules[s][k] = history[Last(Changes(s, k))].new
    ELSE rules[s][k] = Absent \/ (s = GLOBAL /\ \E env \in Seeds : rules[s][k] = env[k])

\* The mark and the change are two transactions (store.py 263 and 266).  An
\* approved proposal has its change in the history, or a request is about to
\* write it, or a failure fell between; a value the registry accepted when it was
\* proposed is never refused after the mark.
Unapplied == { p \in PropId : prop[p].status = "approved" /\ Applied(p) = {}
                              /\ \A c \in Clients : req[c].id = p => req[c].pc = "idle" }
ApprovedIsApplied == Cardinality(Unapplied) <= faults * Cardinality(Clients)

\* As long as one request at a time decides it, a proposal is applied at most once
\* and only if approved, and the nightly job does not take a decision back.
DecisionStands ==
  \A p \in PropId : prop[p].seen <= 1 =>
    /\ Cardinality(Applied(p)) <= 1
    /\ Applied(p) # {} => prop[p].status = "approved"
    /\ prop[p].status = "expired" => \A c \in Clients : req[c].id = p => req[c].pc = "mark"

\* A night adds nothing for a scope and key an earlier night left open, even
\* if people decide while it runs (learning.py 206-216).
OneOpenAcrossNights ==
  \A p, q \in PropId :
    /\ prop[p].status = "pending" /\ prop[q].status = "pending"
    /\ prop[p].scope = prop[q].scope /\ prop[p].key = prop[q].key
    => prop[p].batch = prop[q].batch

\* "A proposal moves a value at most 25%" (learning.py 26): so does its
\* application, if nobody changed the value since the night read it and it was not
\* the default of a value that a later start seeds.
MovesAtMostAQuarter ==
  \A i \in DOMAIN history : history[i].by # 0 =>
    LET h == history[i]
        touched == \E j \in (prop[h.by].asof + 1)..(i - 1) :
                     history[j].key = h.key /\ history[j].scope \in {h.scope, GLOBAL}
    IN  prop[h.by].stored /\ ~touched => h.was # NaN /\ 4 * h.new >= 3 * h.was - 2 /\ h.new < h.was

\* A proposal nobody answers does not stay open: again and again none is past its
\* time, though nights and processes fail (docs/RULES.md: "Unanswered proposals
\* expire after 3 days").
OverdueEnds == []<>(\A p \in PropId : prop[p].status = "pending" => prop[p].age <= ProposalTTL)

-----------------------------------------------------------------------------
(* What the repository says and the code does not keep. *)

\* "one open proposal per (scope, key)" (learning.py 206).  Two buckets of one
\* group propose in one night: what is pending was read before the first is added.
OneOpenProposal ==
  \A p, q \in PropId :
    /\ prop[p].status = "pending" /\ prop[q].status = "pending"
    /\ prop[p].scope = prop[q].scope /\ prop[p].key = prop[q].key
    => p = q

-----------------------------------------------------------------------------
(* The invariant the proofs of RuleProposals_proofs use. *)

Asking(p) == { c \in Clients : req[c].id = p }

\* A request carries what it was asked, and a value it is about to write is accepted.
Known(r) ==
  /\ r.pc = "idle" => r = NoRequest
  /\ r.pc = "write" => Coerces(r.key, r.value)
  /\ r.id = 0 => r.pc # "mark"
  /\ r.id # 0 =>
       /\ r.id <= props
       /\ r.scope = prop[r.id].scope /\ r.key = prop[r.id].key /\ r.value = prop[r.id].proposed
       /\ r.pc \in {"old", "write"} => r.approve
RequestsKnown == \A c \in Clients : Known(req[c])

\* Each request that may still write has its row of the history to come.
Writers == { c \in Clients : \/ req[c].pc \in {"old", "write"}
                             \/ req[c].pc = "mark" /\ req[c].approve }
RoomLeft == Len(history) + Cardinality(Writers) <= MaxChanges

\* What a night found: accepted by the registry, and down by a quarter at most.
Sound(x) ==
  /\ x.scope \in Groups /\ Coerces(x.key, x.proposed)
  /\ 4 * x.proposed >= 3 * x.current - 2 /\ x.proposed < x.current
  /\ x.asof <= Len(history)

\* As long as nobody touches a stored value, it is the one the night read.
Touched(x, n) ==
  \E j \in (x.asof + 1)..n : history[j].key = x.key /\ history[j].scope \in {x.scope, GLOBAL}
InForce(x) ==
  x.stored => /\ Stored(rules, x.key, x.scope)
              /\ ~Touched(x, Len(history)) => Get(rules, x.key, x.scope) = x.current

Found ==
  /\ \A p \in PropId : IF p <= props THEN Sound(prop[p]) /\ InForce(prop[p]) ELSE prop[p] = NoProp
  /\ \A j \in DOMAIN night.todo : Sound(night.todo[j]) /\ InForce(night.todo[j])

\* What is left of a night fits, and comes from one reading; what was pending when it
\* looked, the job knows.
NightKnows ==
  /\ night.pc = "idle" => night.todo = <<>>
  /\ props + Len(night.todo) <= MaxProposals
  /\ \A i, j \in DOMAIN night.todo : night.todo[i].batch = night.todo[j].batch
  /\ night.pc = "add" =>
       \A p \in PropId, j \in DOMAIN night.todo :
         prop[p].status = "pending" => \/ <<prop[p].scope, prop[p].key>> \in night.pending
                                       \/ prop[p].batch = night.todo[j].batch

\* A change by a proposal is the one it proposed.
AsProposed ==
  \A i \in DOMAIN history : history[i].by # 0 =>
    LET p == prop[history[i].by] IN
    /\ history[i].by <= props
    /\ history[i].scope = p.scope /\ history[i].key = p.key /\ history[i].new = p.proposed

\* A proposal one request has found pending: the request has it still, or wrote it,
\* or was refused or cut.
Decided ==
  \A p \in PropId : prop[p].seen <= 1 =>
    /\ prop[p].seen = 0 => Asking(p) = {} /\ Applied(p) = {} /\ prop[p].status \in {"none", "pending", "expired"}
    /\ \A c, d \in Asking(p) : c = d
    /\ \A c \in Asking(p) :
         /\ Applied(p) = {}
         /\ prop[p].status \in IF req[c].pc = "mark" THEN {"pending", "expired"} ELSE {"approved"}
    /\ \A i, j \in Applied(p) : i = j
    /\ Applied(p) # {} => prop[p].status = "approved"

ProposalsInv ==
  /\ TypeOK /\ RequestsKnown /\ RoomLeft /\ Found /\ NightKnows /\ AsProposed /\ Decided
  /\ ApprovedIsApplied /\ OneOpenAcrossNights /\ MovesAtMostAQuarter

=============================================================================
