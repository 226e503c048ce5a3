--------------------------- MODULE ReconcilerCheck ---------------------------
(***************************************************************************)
(* The reconciler on its own, from every disagreement of a small table and *)
(* a small broker book: one pass of _reconcile with nothing else going on. *)
(* The spreads share legs (a short strike with two widths, a strike   *)
(* long in one spread and short in another), which OrderLifecycle's runs   *)
(* leave out.                                                              *)
(***************************************************************************)
EXTENDS OrderLifecycle, SequencesExt

CONSTANTS
  Books,     \* broker books to start from
  Evidence   \* what the broker can tell: [filled : set of <<spread, side>>, acts : activities]

ASSUME StartAssumption ==
  /\ MaxRows >= 3
  /\ Books \subseteq [Leg -> Int]
  /\ \A e \in Evidence :
       /\ IsFiniteSet(e.filled) /\ e.filled \subseteq Spread \X Side
       /\ Cardinality(e.filled) =< MaxOrders
       /\ e.acts \subseteq [leg : Leg, type : {"OPEXP", "OPASN", "OPEXC"}]

VARIABLES
  asked,     \* history: symbols the pass handed to a person
  askedRows  \* history: rows it did

history == <<asked, askedRows>>

\* At most one filled order of each spread and side, the closes after the entries.
Filled(v, side, o) == [status |-> "filled", spread |-> v, side |-> side, qty |-> 1, done |-> 1]
OrdersOf(filled) ==
  LET entriesFirst == SetToSeq({ f \in filled : f[2] = "entry" }) \o SetToSeq({ f \in filled : f[2] = "close" })
  IN  [o \in OrderId |-> IF o \in DOMAIN entriesFirst
                         THEN Filled(entriesFirst[o][1], entriesFirst[o][2], o) ELSE NoOrder]

\* Two open rows and one the agent gave up on.
StartRow(status, v, n) == [NoRow EXCEPT !.status = status, !.spread = v, !.qty = n]
StartTables ==
  { [i \in RowId |-> IF i = 1 THEN StartRow("open", v, m)
                     ELSE IF i = 2 THEN StartRow("open", w, n)
                     ELSE IF i = 3 THEN u ELSE NoRow] :
      v \in Spread, m \in 1..MaxQty, w \in Spread, n \in 1..MaxQty,
      u \in { StartRow("unfilled", x, 1) : x \in Spread } }

PassInit ==
  /\ \E e \in Evidence : /\ order = OrdersOf(e.filled)
                         /\ sent = Cardinality(e.filled)
                         /\ acts = e.acts
  /\ book \in Books
  /\ row \in StartTables /\ rows = 3
  /\ fixlog = 0 /\ applied = 0 /\ faults = 0 /\ ok = TRUE
  /\ epc = "idle" /\ eSpread = NoSpread /\ eQty = 0 /\ eRung = 0 /\ eOrder = 0
  /\ xpc = "live" /\ xTodo = {} /\ xRow = 0 /\ xOrder = 0
  /\ xLive = <<>> /\ xBook = [leg \in Leg |-> 0] /\ xRes = {} /\ xFixed = FALSE
  /\ asked = {} /\ askedRows = {}

Decide ==
  /\ xpc = "evidence"
  /\ \E pair \in Pairings(Unexplained), prev \in UnfilledByLegs(unfilled_rows, row) :
       LET human == { r \in resolve(xLive, row, xBook, order, acts, pair, prev) : r.kind = "human" }
       IN  /\ ReadEvidence(pair, prev)
           /\ asked' = UNION { {r.spread[1], r.spread[2]} : r \in human }
           /\ askedRows' = { r.pid : r \in human }

PassNext ==
  \/ /\ ReadLive \/ ReadBroker \/ LogFix \/ EndReconcile \/ \E r \in xRes : ApplyFix(r)
     /\ UNCHANGED history
  \/ Decide

PassSpec == PassInit /\ [][PassNext]_<<vars, history>>

-----------------------------------------------------------------------------
Table   == expected_legs(live_legs_rows, row)
Applied == xpc = "apply" /\ xRes = {}

\* When a pass has applied what it decided, the two books agree on every symbol
\* it did not hand to a person: a decision leaves nothing half explained.
AgreeOrAsked == Applied => diff(Table, book) \subseteq asked

\* The rows it did not hand to a person are all at the broker at once: no contract
\* explains two rows, or a row and an adoption.
ExplainedIsHeld ==
  Applied =>
    LET held == expected_legs(live_legs_rows \ askedRows, row)
    IN  \A leg \in Leg : held[leg] \in book[leg]..0 \/ held[leg] \in 0..book[leg]

=============================================================================
