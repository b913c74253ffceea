--------------------------- MODULE Reconciliation ---------------------------
(***************************************************************************)
(* Periodic reconciliation (app/reconciliation/engine.py and loop.py).     *)
(*                                                                         *)
(* A sweep reads the OPEN rows, awaits the exchange's positions and orders,*)
(* compares them symbol by symbol, records what is not yet recorded, and   *)
(* commits; the loop then alerts the admins if anything was recorded.  The *)
(* same sweep without the alert is one API call away (POST                 *)
(* /api/reconciliation/run), and trading goes on meanwhile.                *)
(***************************************************************************)
EXTENDS Naturals, FiniteSets

CONSTANTS
    Symbols,
    Shapes,     \* what a comparison tells apart: side, size, entry, leverage, margin
    Loop,       \* the periodic task
    Runs,       \* API calls of reconcile_user
    Flat,       \* no position
    Watched,    \* symbols whose history the properties look at
    Lines,      \* lines an alert has room for: 20, or as many as make 1200 characters
    Moves       \* what else happens: a subset of the list below

\* "outside": positions are opened, changed and closed on the exchange directly;
\* "trade": requests open and close positions through the service;
\* "import": recovery imports an orphan;
\* "unreadable": the exchange may fail to answer;
\* "alert": an alert may not reach an admin: sending it fails, the bot is not started,
\* or the process restarts before it.
MoveKinds == {"outside", "trade", "import", "unreadable", "alert"}

ASSUME LoopAssumption == Loop \notin Runs
ASSUME FlatAssumption == Flat \notin Shapes
ASSUME WatchedAssumption == Watched \subseteq Symbols
ASSUME MoveAssumption == Moves \subseteq MoveKinds
ASSUME LinesAssumption == Lines \in Nat

NoPositions == [m \in Symbols |-> Flat]
Sweepers == Runs \cup {Loop}
Types    == {"missing_on_exchange", "missing_in_db", "mismatch", "unprotected", "untracked"}
Alarming == Types \ {"untracked"}    \* CRITICAL or WARNING; the other is INFO
Drifts   == Symbols \X Types

VARIABLES
    ex,       \* the exchange's position per symbol
    guarded,  \* symbols with a working TP or SL order
    row,      \* the committed open row per symbol: its shape, or Flat
    imported, \* symbols whose row is RECOVERED, not OPEN
    busy,     \* symbols with a request between the exchange and its commit
    pc,       \* where each sweep is
    rows,     \* the rows it queried
    list,     \* the positions it was told
    orders,   \* the symbols with protective orders it was told
    found,    \* the drifts it detected
    added,    \* the issues its session holds, uncommitted
    issues,   \* unresolved issues per drift, committed
    told,     \* history: drifts an alert has named since they began
    real      \* history: drifts there were while each sweep read rows and positions

account == <<ex, guarded, row, imported, busy>>
sweeps  == <<pc, rows, list, orders, found, added, issues>>
vars == <<account, sweeps, told, real>>

-----------------------------------------------------------------------------
(* Detection.                                                              *)

\* reconcile_symbol; prot says whether the exchange has protective orders,
\* tracked whether the database expects some.
Compare(db, at, known, prot, tracked) ==
    IF db = Flat /\ at = Flat THEN {}
    ELSE IF at = Flat THEN {"missing_on_exchange"}
    ELSE IF db = Flat THEN {"missing_in_db"}
    ELSE (IF db # at THEN {"mismatch"} ELSE {})
         \cup (IF known /\ tracked /\ ~prot THEN {"unprotected"} ELSE {})
         \cup (IF known /\ prot /\ ~tracked THEN {"untracked"} ELSE {})

\* Mutation: positions are looked up without their symbol.
DetectedUnkeyed(s) ==
    UNION {{<<m, t>> : t \in Compare(rows[s][m], list[s][n], orders[s] # {}, m \in orders[s], FALSE)}
           : m \in Symbols, n \in {k \in Symbols : list[s][k] # Flat}}

\* reconcile_exchange_account passes no db_protection, and takes an empty list of
\* orders for an unknown one.
Detected(s) ==
    UNION {{<<m, t>> : t \in Compare(rows[s][m], list[s][m], orders[s] # {}, m \in orders[s], FALSE)}
           : m \in Symbols}

\* What an observer with both sides in view would report of m now; every row of
\* this model expects protection.
Drifting(m) == Compare(row[m], ex[m], TRUE, m \in guarded, TRUE)
Drift == UNION {{<<m, t>> : t \in Drifting(m)} : m \in Symbols}

\* Mutation: one unresolved issue of a type silences it for every symbol.
RecordedForType(d) == \E e \in Drifts : e[2] = d[2] /\ issues[e] > 0

\* Mutation: resolved issues are looked for, and there are none.
NeverRecorded(d) == FALSE

\* _existing_unresolved; nothing in the program ever resolves an issue.
Recorded(d) == issues[d] > 0

-----------------------------------------------------------------------------
Init ==
    /\ row \in [Symbols -> Shapes \cup {Flat}] /\ ex = row
    /\ guarded = {m \in Symbols : row[m] # Flat} /\ imported = {} /\ busy = {}
    /\ pc = [s \in Sweepers |-> "idle"]
    /\ rows = [s \in Sweepers |-> NoPositions]
    /\ list = [s \in Sweepers |-> NoPositions]
    /\ orders = [s \in Sweepers |-> {}]
    /\ found = [s \in Sweepers |-> {}]
    /\ added = [s \in Sweepers |-> {}]
    /\ issues = [d \in Drifts |-> 0]
    /\ told = {}
    /\ real = [s \in Sweepers |-> {}]

-----------------------------------------------------------------------------
(* A sweep of one account.                                                 *)

Goto(s, l) == pc' = [pc EXCEPT ![s] = l]

\* The sweep's own variables go when it returns.
Forget(s, l) ==
    IF l # "idle" THEN UNCHANGED <<rows, list, orders, found, added>>
    ELSE /\ rows' = [rows EXCEPT ![s] = NoPositions] /\ list' = [list EXCEPT ![s] = NoPositions]
         /\ orders' = [orders EXCEPT ![s] = {}]
         /\ found' = [found EXCEPT ![s] = {}] /\ added' = [added EXCEPT ![s] = {}]

History(named) ==
    LET now == {d \in Drift' : d[1] \in Watched} IN
    /\ told' = (told \cup named) \cap now
    /\ real' = [s \in Sweepers |-> CASE pc'[s] = "idle" -> {}
                                       [] pc'[s] = "reading" \/ pc[s] = "reading" -> real[s] \cup now
                                       [] OTHER -> real[s]]

\* Query the rows whose status is OPEN.
QueryRows(s) ==
    /\ pc[s] = "idle"
    /\ rows' = [rows EXCEPT ![s] = [m \in Symbols |-> IF m \in imported THEN Flat ELSE row[m]]]
    /\ Goto(s, "reading")
    /\ UNCHANGED <<account, list, orders, found, added, issues>> /\ History({})

\* get_positions answers, or raises: no positions, and the sweep goes on.
Answer(s) ==
    \/ list' = [list EXCEPT ![s] = ex]
    \/ "unreadable" \in Moves /\ list' = [list EXCEPT ![s] = NoPositions]

ReadPositions(s) ==
    /\ pc[s] = "reading"
    /\ Answer(s)
    /\ Goto(s, "orders")
    /\ UNCHANGED <<account, rows, orders, found, added, issues>> /\ History({})

\* get_open_orders answers, or raises: no orders.
ReadOrders(s) ==
    /\ pc[s] = "orders"
    /\ \/ orders' = [orders EXCEPT ![s] = guarded]
       \/ "unreadable" \in Moves /\ orders' = [orders EXCEPT ![s] = {}]
    /\ Goto(s, "compare")
    /\ UNCHANGED <<account, rows, list, found, added, issues>> /\ History({})

\* Detect, and add an issue for every drift that has none.
Record(s) ==
    /\ pc[s] = "compare"
    /\ found' = [found EXCEPT ![s] = Detected(s)]
    /\ added' = [added EXCEPT ![s] = {d \in Detected(s) : ~Recorded(d)}]
    /\ Goto(s, "commit")
    /\ UNCHANGED <<account, rows, list, orders, issues>> /\ History({})

\* The session commits; the loop alerts if it recorded anything and the sweep
\* found something alarming.
Commit(s) ==
    /\ pc[s] = "commit"
    /\ issues' = [d \in Drifts |-> IF d \in added[s] THEN issues[d] + 1 ELSE issues[d]]
    /\ LET l == IF s = Loop /\ added[s] # {} /\ \E d \in found[s] : d[2] \in Alarming
                THEN "alert" ELSE "idle"
       IN  Goto(s, l) /\ Forget(s, l)
    /\ UNCHANGED account /\ History({})

\* summarize_critical: a line for every alarming drift of the sweep, new or not.
Summary(s) == {d \in found[s] : d[2] \in Alarming}

\* The lines that are sent: all that the alert has room for.  The symbols are compared in
\* the order of a set, so that any of them may come first.
Body(s) ==
    {n \in SUBSET Summary(s) :
        IF Cardinality(Summary(s)) <= Lines THEN n = Summary(s) ELSE Cardinality(n) = Lines}

EndAlert(s) ==
    /\ pc[s] = "alert"
    /\ Goto(s, "idle") /\ Forget(s, "idle")
    /\ UNCHANGED <<account, issues>>

\* alert_admin reaches the admins; or it does not, which is logged and forgotten.
SendAlert(s) == EndAlert(s) /\ \E named \in Body(s) : History(named)
LoseAlert(s) == "alert" \in Moves /\ EndAlert(s) /\ History({})
Alert(s) == SendAlert(s) \/ LoseAlert(s)

-----------------------------------------------------------------------------
(* Everything else.                                                        *)

\* Somebody trades on the exchange, or a protective order appears or goes.
Outside(m) ==
    /\ "outside" \in Moves
    /\ \/ ex' = [ex EXCEPT ![m] = Flat] /\ guarded' = guarded \ {m}
       \/ \E v \in Shapes : ex' = [ex EXCEPT ![m] = v] /\ UNCHANGED guarded
       \/ ex[m] # Flat /\ guarded' \in {guarded \cup {m}, guarded \ {m}} /\ UNCHANGED ex
    /\ UNCHANGED <<row, imported, busy, sweeps>> /\ History({})

\* A request opens or closes a position on the exchange and commits afterwards.
TradeExecuted(m) ==
    /\ "trade" \in Moves /\ m \notin busy
    /\ \/ ex[m] = Flat /\ row[m] = Flat /\ guarded' = guarded \cup {m}
          /\ \E v \in Shapes : ex' = [ex EXCEPT ![m] = v]
       \/ ex[m] # Flat /\ row[m] # Flat /\ ex' = [ex EXCEPT ![m] = Flat] /\ guarded' = guarded \ {m}
    /\ busy' = busy \cup {m}
    /\ UNCHANGED <<row, imported, sweeps>> /\ History({})

TradeCommitted(m) ==
    /\ m \in busy
    /\ busy' = busy \ {m}
    /\ row' = [row EXCEPT ![m] = ex[m]]
    /\ imported' = imported \ {m}
    /\ UNCHANGED <<ex, guarded, sweeps>> /\ History({})

\* Recovery imports an orphan: an open row whose status is RECOVERED.
Import(m) ==
    /\ "import" \in Moves /\ ex[m] # Flat /\ row[m] = Flat /\ m \notin busy
    /\ row' = [row EXCEPT ![m] = ex[m]]
    /\ imported' = imported \cup {m}
    /\ UNCHANGED <<ex, guarded, busy, sweeps>> /\ History({})

SweepStep(s) ==
    \/ QueryRows(s) \/ ReadPositions(s) \/ ReadOrders(s) \/ Record(s) \/ Commit(s) \/ Alert(s)

Next ==
    \/ \E s \in Sweepers : SweepStep(s)
    \/ \E m \in Symbols : Outside(m) \/ TradeExecuted(m) \/ TradeCommitted(m) \/ Import(m)

Spec == Init /\ [][Next]_vars

\* reconciliation_loop sweeps for ever: it sleeps for an interval, and an error of
\* a sweep does not end it.
FairSpec == Spec /\ WF_vars(SweepStep(Loop))

-----------------------------------------------------------------------------
(* Properties.                                                             *)

\* Every variable stays in its set of values.
TypeOK ==
    /\ ex \in [Symbols -> Shapes \cup {Flat}] /\ row \in [Symbols -> Shapes \cup {Flat}]
    /\ guarded \subseteq Symbols /\ imported \subseteq Symbols /\ busy \subseteq Symbols
    /\ pc \in [Sweepers -> {"idle", "reading", "orders", "compare", "commit", "alert"}]
    /\ rows \in [Sweepers -> [Symbols -> Shapes \cup {Flat}]]
    /\ list \in [Sweepers -> [Symbols -> Shapes \cup {Flat}]]
    /\ orders \in [Sweepers -> SUBSET Symbols]
    /\ found \in [Sweepers -> SUBSET Drifts] /\ added \in [Sweepers -> SUBSET Drifts]
    /\ issues \in [Drifts -> Nat]
    /\ told \subseteq Drifts /\ real \in [Sweepers -> SUBSET Drifts]

\* De-duplication of unresolved issues: one sweep at a time never records a drift
\* twice, and n concurrent sweeps record it at most n times.
BoundedDuplicates == \A d \in Drifts : issues[d] <= Cardinality(Sweepers)

\* Positions are compared as they are: what a sweep is about to record was true at
\* some moment between its two reads.
NoFalseAlarm ==
    \A s \in Sweepers : pc[s] = "commit" =>
        {d \in added[s] : d[1] \in Watched /\ d[2] \in Alarming} \subseteq real[s]

Positional == {"missing_on_exchange", "missing_in_db", "mismatch"}

\* The sweep that records d finds more than an alert has room for, with what was found and
\* alerted before.
Crowded(d) == pc[Loop] = "alert" /\ d \in added[Loop] /\ Cardinality(Summary(Loop)) > Lines

\* A difference between the positions that is not on record is alerted, if it lasts and the
\* sweep that records it finds no more than an alert has room for.
NewDriftIsAlerted ==
    \A d \in Watched \X Positional :
        d \in Drift /\ ~Recorded(d) ~> d \notin Drift \/ d \in told \/ Crowded(d)

-----------------------------------------------------------------------------
(* What the repository's comments and reports say, which the code denies.  *)

\* "On newly-found drift it raises an admin alert" (loop.py:6): however many drifts stand.
NewDriftIsNamed ==
    \A d \in Watched \X Positional :
        d \in Drift /\ ~Recorded(d) ~> d \notin Drift \/ d \in told

\* A difference that lasts is alerted: recorded before or not.
DriftIsAlerted == \A d \in Watched \X Positional : d \in Drift ~> d \notin Drift \/ d \in told

\* An unprotected position is alerted, if it stays so.
UnprotectedIsAlerted ==
    \A m \in Watched : <<m, "unprotected">> \in Drift
                           ~> <<m, "unprotected">> \notin Drift \/ <<m, "unprotected">> \in told

\* No drift has two unresolved issues.
OneIssuePerDrift == \A d \in Drifts : issues[d] <= 1
=============================================================================
