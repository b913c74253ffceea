------------------------------ MODULE Recovery ------------------------------
(***************************************************************************)
(* Position recovery (app/recovery/engine.py) over the tables and the      *)
(* account of LiveTrading.  A sweep is one call of recover_user_positions: *)
(* the one at start-up, which runs beside the API it shares a process      *)
(* with, or one asked for over the API.  It compares the open rows with    *)
(* the exchange's positions, imports orphans, closes vanished rows, repairs*)
(* the protection of the matched ones, and commits everything at its end.  *)
(*                                                                         *)
(* Rows a sweep has flushed stay locked until then, so the writes of other *)
(* sessions to them wait.                                                  *)
(***************************************************************************)
EXTENDS LiveTrading

CONSTANTS
    Sweeps,    \* calls of recover_user_positions
    None,      \* no row for a symbol
    Retries    \* settings.tp_sl_retry_max

ASSUME RetriesAssumption == Retries \in Nat \ {0}
ASSUME NoneAssumption    == None \notin RowIds

VARIABLES
    rpc,       \* where each sweep is
    via,       \* the adapter it resolved last
    known,     \* db_by_symbol: one open row per symbol, as it was queried
    listed,    \* ex_by_symbol: the positions the exchange reported
    at,        \* the symbol whose protection is being synced
    seen,      \* prot: which of TP and SL the last reading showed
    tries,     \* attempts to place what is missing
    verdict,   \* tp_sl_status the sweep has decided per symbol
    drift,     \* issues the session has added
    issues     \* unresolved reconciliation issues, committed

sweepVars == <<rpc, via, known, listed, at, seen, tries, verdict, drift, issues>>
rvars == <<vars, sweepVars>>

-----------------------------------------------------------------------------
Verdicts   == {"SYNCED", "UNSAFE", "UNKNOWN", "MISSING_TP"}
IssueTypes == {"orphan", "vanished", "unprotected"}

OpenRows(m) == {r \in RowIds : row[r] # NoRow /\ IsOpen(r) /\ row[r].sym = m}

Orphans(s)  == {m \in Symbols : listed[s][m] # 0 /\ known[s][m] = None}
Vanished(s) == {m \in Symbols : listed[s][m] = 0 /\ known[s][m] # None}
Matched(s)  == {m \in Symbols : listed[s][m] # 0 /\ known[s][m] # None}
Todo(s)     == {m \in Matched(s) : verdict[s][m] = "none"}

\* The TP and SL targets stored with a row: the request's, none for an import.
Expected(r) == IF r \in Handlers THEN req[r].legs \cap {"TP", "SL"} ELSE {}

\* Mutation: whatever was asked for is believed to be working.
ProtectionAssumed(m) == {"TP", "SL"}

\* _open_protection: any take-profit counts as the TP, any order with STOP in its
\* type (a trailing stop too) as the SL, of whichever side.
Protection(m) ==
    {l \in {"TP", "SL"} : \E o \in orders[m] : o[2] = l \/ (l = "SL" /\ o[2] = "TRAIL")}

\* Mutation: the computed status is stored as it is.
StatusUnmapped(r, legs) == LET missing == Expected(r) \ legs
                           IN  IF missing = {} THEN "SYNCED"
                               ELSE IF "SL" \in missing THEN "MISSING_SL" ELSE "MISSING_TP"

\* compute_tp_sl_status, and what a status that is not SYNCED is stored as.
Status(r, legs) == LET missing == Expected(r) \ legs
                   IN  IF missing = {} THEN "SYNCED"
                       ELSE IF "SL" \in missing THEN "UNSAFE" ELSE "MISSING_TP"

Syncing(s)  == rpc[s] \in {"sync", "place", "verify"}
LockedBy(s) == IF Syncing(s)
               THEN {known[s][m] : m \in Vanished(s) \cup (Matched(s) \ Todo(s))}
                        \cup (IF rpc[s] = "sync" THEN {} ELSE {known[s][at[s]]})
               ELSE {}
LockedRows  == UNION {LockedBy(s) : s \in Sweeps}
FreeFor(s, rows) == \A z \in Sweeps \ {s} : LockedBy(z) \cap rows = {}

\* _existing_unresolved: no second issue of a type for a symbol.
NewIssues(found) == {i \in found : ~ \E k \in issues : <<k.sym, k.type>> = i}

ResolveVia(s) == via' = [via EXCEPT ![s] = IF gate THEN "LIVE" ELSE "MOCK"]
SweepGoto(s, l) == rpc' = [rpc EXCEPT ![s] = l]

-----------------------------------------------------------------------------
SweepInit ==
    /\ rpc = [s \in Sweeps |-> "idle"]
    /\ via = [s \in Sweeps |-> "none"]
    /\ known = [s \in Sweeps |-> [m \in Symbols |-> None]]
    /\ listed = [s \in Sweeps |-> [m \in Symbols |-> 0]]
    /\ at = [s \in Sweeps |-> None]
    /\ seen = [s \in Sweeps |-> {}]
    /\ tries = [s \in Sweeps |-> 0]
    /\ verdict = [s \in Sweeps |-> [m \in Symbols |-> "none"]]
    /\ drift = [s \in Sweeps |-> {}]
    /\ issues = {}

\* Query the open rows; of several rows of one symbol the last one wins.
SweepStart(s) ==
    /\ rpc[s] = "idle"
    /\ \E k \in [Symbols -> RowIds \cup {None}] :
          /\ \A m \in Symbols : IF OpenRows(m) = {} THEN k[m] = None ELSE k[m] \in OpenRows(m)
          /\ known' = [known EXCEPT ![s] = k]
    /\ ResolveVia(s) /\ SweepGoto(s, "positions")
    /\ UNCHANGED <<vars, listed, at, seen, tries, verdict, drift, issues>>

\* What get_positions reports: the mock adapter holds no positions.
Listing(s) == IF via[s] = "LIVE" THEN exch ELSE [m \in Symbols |-> 0]

\* The session's issues for imports and for vanished rows.
Compared(s, list) ==
    [drift EXCEPT ![s] = NewIssues(
        {<<m, "orphan">> : m \in {n \in Symbols : list[n] # 0 /\ known[s][n] = None}} \cup
        {<<m, "vanished">> : m \in {n \in Symbols : list[n] = 0 /\ known[s][n] # None}})]

\* get_positions answered; vanished rows are flushed (and locked).
ReadPositions(s) ==
    /\ rpc[s] = "positions" /\ (via[s] = "LIVE" => gate)
    /\ listed' = [listed EXCEPT ![s] = Listing(s)]
    /\ FreeFor(s, {known[s][m] : m \in {n \in Symbols : Listing(s)[n] = 0}} \ {None})
    /\ drift' = Compared(s, Listing(s))
    /\ SweepGoto(s, "sync")
    /\ UNCHANGED <<vars, via, known, at, seen, tries, verdict, issues>>

\* Mutation: a read that failed is taken for an empty account.
ReadAsEmpty(s) ==
    LET nothing == [m \in Symbols |-> 0] IN
    /\ listed' = [listed EXCEPT ![s] = nothing]
    /\ drift' = Compared(s, nothing)
    /\ SweepGoto(s, "sync")

\* The account is skipped.
SkipAccount(s) == SweepGoto(s, "done") /\ UNCHANGED <<listed, drift>>

\* get_positions raised: the exchange is unreachable or the guard refused.
PositionsUnreadable(s) ==
    /\ rpc[s] = "positions" /\ via[s] = "LIVE"
    /\ SkipAccount(s)
    /\ UNCHANGED <<vars, via, known, at, seen, tries, verdict, issues>>

-----------------------------------------------------------------------------
(* sync_tp_sl_for_position, for each matched row.                          *)

\* The symbol is done: v is what the row will be told.
Settle(s, m, v) ==
    /\ verdict' = [verdict EXCEPT ![s][m] = v]
    /\ drift' = IF v \in {"UNSAFE", "MISSING_TP"}
                THEN [drift EXCEPT ![s] = @ \cup NewIssues({<<m, "unprotected">>})] ELSE drift
    /\ SweepGoto(s, "sync")

\* Pick the next matched row (the session's copy still says it is open), resolve
\* an adapter and read its working orders.
SyncStart(s) ==
    /\ rpc[s] = "sync"
    /\ \E m \in Todo(s) :
        /\ FreeFor(s, {known[s][m]})
        /\ at' = [at EXCEPT ![s] = m]
        /\ ResolveVia(s)
        /\ tries' = [tries EXCEPT ![s] = 0]
        /\ \/ LET legs == IF gate THEN Protection(m) ELSE {}
                  v    == Status(known[s][m], legs)
              IN  /\ seen' = [seen EXCEPT ![s] = legs]
                  /\ IF v = "SYNCED" THEN Settle(s, m, v)
                     ELSE SweepGoto(s, "place") /\ UNCHANGED <<verdict, drift>>
           \/ gate /\ Settle(s, m, "UNKNOWN") /\ UNCHANGED seen
    /\ UNCHANGED <<vars, known, listed, issues>>

\* Mutation: attempts are not counted.
RetryForever(s, legs) == SweepGoto(s, "place") /\ UNCHANGED <<tries, verdict, drift>>

\* The outcome of one attempt that did not end in SYNCED.
Retry(s, legs) ==
    LET m == at[s] IN
    /\ tries' = [tries EXCEPT ![s] = @ + 1]
    /\ IF tries[s] + 1 < Retries THEN SweepGoto(s, "place") /\ UNCHANGED <<verdict, drift>>
       ELSE Settle(s, m, Status(known[s][m], legs))

\* set_tp_sl for the legs the last reading did not show, TP first; it stops at
\* the first leg that raises, which may be working all the same.
Place(s) ==
    LET m    == at[s]
        r    == known[s][m]
        want == Expected(r) \ seen[s]
    IN
    /\ rpc[s] = "place"
    /\ \E sent \in SUBSET want :
        /\ "SL" \in sent /\ "TP" \in want => "TP" \in sent
        /\ sent # {} => via[s] = "LIVE" /\ gate
        /\ orders' = [orders EXCEPT ![m] = @ \cup {<<row[r].side, l>> : l \in sent}]
        /\ \/ /\ sent = want \/ via[s] = "MOCK"
              /\ SweepGoto(s, "verify")
              /\ UNCHANGED <<tries, verdict, drift>>
           \/ via[s] = "LIVE" /\ Retry(s, seen[s])
    /\ UNCHANGED <<handlerVars, exch, resting, landed, executed, dbVars, switchVars>>
    /\ UNCHANGED <<via, known, listed, at, seen, issues>>

\* Read the orders again; an unreadable answer counts as nothing working.
Verify(s) ==
    LET m == at[s] IN
    /\ rpc[s] = "verify"
    /\ \/ seen' = [seen EXCEPT ![s] = IF via[s] = "LIVE" /\ gate THEN Protection(m) ELSE {}]
       \/ via[s] = "LIVE" /\ seen' = [seen EXCEPT ![s] = {}]
    /\ IF Status(known[s][m], seen'[s]) = "SYNCED"
       THEN Settle(s, m, "SYNCED") /\ UNCHANGED tries
       ELSE Retry(s, seen'[s])
    /\ UNCHANGED <<vars, via, known, listed, at, issues>>

-----------------------------------------------------------------------------
\* An imported position.
Import(m, n) ==
    [status |-> "RECOVERED", sym |-> m, side |-> IF n > 0 THEN "LONG" ELSE "SHORT",
     qty |-> Abs(n), mode |-> IF gate THEN "LIVE" ELSE "MOCK", tpsl |-> "UNKNOWN", review |-> TRUE]

\* Mutations: a certified row needs no review any more; a matched row is written
\* back as it was queried.
ReviewFromVerdict(s, m) ==
    [row[known[s][m]] EXCEPT !.tpsl = verdict[s][m],
                             !.review = verdict[s][m] \in {"UNSAFE", "MISSING_TP"}]
WrittenBackOpen(s, m) ==
    [row[known[s][m]] EXCEPT !.status = "OPEN", !.tpsl = verdict[s][m],
                             !.review = @ \/ verdict[s][m] \in {"UNSAFE", "MISSING_TP"}]

\* The columns the session changed in a matched row.
Synced(s, m) ==
    [row[known[s][m]] EXCEPT !.tpsl = verdict[s][m],
                             !.review = @ \/ verdict[s][m] \in {"UNSAFE", "MISSING_TP"}]

\* The session commits: imports, vanished rows, verdicts and issues.
SweepCommit(s) ==
    /\ rpc[s] = "sync" /\ Todo(s) = {}
    /\ \E id \in [Orphans(s) -> {r \in RowIds \ Handlers : row[r] = NoRow}] :
        /\ \A m, n \in Orphans(s) : id[m] = id[n] => m = n
        /\ row' = [r \in RowIds |->
              IF \E m \in Orphans(s) : id[m] = r
                  THEN LET m == CHOOSE n \in Orphans(s) : id[n] = r IN Import(m, listed[s][m])
              ELSE IF \E m \in Vanished(s) : known[s][m] = r
                  THEN [row[r] EXCEPT !.status = "CLOSED_UNKNOWN", !.review = TRUE]
              ELSE IF \E m \in Matched(s) : known[s][m] = r
                  THEN Synced(s, CHOOSE m \in Matched(s) : known[s][m] = r)
              ELSE row[r]]
    /\ issues' = issues \cup {[sym |-> i[1], type |-> i[2], by |-> s] : i \in drift[s]}
    /\ SweepGoto(s, "done")
    /\ UNCHANGED <<handlerVars, exchangeVars, trades, switchVars>>
    /\ UNCHANGED <<via, known, listed, at, seen, tries, verdict, drift>>

\* A crash, a cancellation or a database error: nothing is committed.
SweepAborts(s) ==
    /\ "abort" \in Faults /\ rpc[s] \notin {"idle", "done"}
    /\ SweepGoto(s, "done")
    /\ UNCHANGED <<vars, via, known, listed, at, seen, tries, verdict, drift, issues>>

-----------------------------------------------------------------------------
RInit == Init /\ SweepInit

\* Live trading goes on; a write to a locked row waits.
Unlocked == \A r \in LockedRows : row'[r] = row[r]
LiveStep(A) == A /\ Unlocked /\ UNCHANGED sweepVars

SweepStep(s) ==
    \/ ReadPositions(s) \/ PositionsUnreadable(s)
    \/ SyncStart(s) \/ Place(s) \/ Verify(s) \/ SweepCommit(s)

RNext ==
    \/ LiveStep(Next)
    \/ \E s \in Sweeps : SweepStart(s) \/ SweepStep(s) \/ SweepAborts(s)

RSpec == RInit /\ [][RNext]_rvars

\* As for LiveTrading: awaits on the exchange end within the client's timeout.
RFairSpec ==
    /\ RSpec
    /\ \A s \in Sweeps : WF_rvars(SweepStep(s))
    /\ \A h \in Handlers : WF_rvars(LiveStep(HandlerStep(h)))

-----------------------------------------------------------------------------
(* Properties.                                                             *)

SweepTypes ==
    /\ rpc \in [Sweeps -> {"idle", "positions", "sync", "place", "verify", "done"}]
    /\ via \in [Sweeps -> {"none", "LIVE", "MOCK"}]
    /\ known \in [Sweeps -> [Symbols -> RowIds \cup {None}]]
    /\ listed \in [Sweeps -> [Symbols -> Int]]
    /\ at \in [Sweeps -> Symbols \cup {None}]
    /\ seen \in [Sweeps -> SUBSET {"TP", "SL"}]
    /\ tries \in [Sweeps -> 0 .. Retries]
    /\ verdict \in [Sweeps -> [Symbols -> Verdicts \cup {"none"}]]
    /\ drift \in [Sweeps -> SUBSET (Symbols \X IssueTypes)]
    /\ issues \subseteq [sym : Symbols, type : IssueTypes, by : Sweeps]

\* Every variable stays in its set of values.
RTypeOK == TypeOK /\ SweepTypes

\* A sweep certifies a row's protection only while every leg the row expects is
\* working on the exchange for the row's side (sync_tp_sl_for_position), as long as
\* the symbol has no orders of the other side, which the reading would mix in.
CertifiedIsProtected ==
    [][\A s \in Sweeps, m \in Symbols :
         LET r == known[s][m] IN
         /\ verdict'[s][m] = "SYNCED" /\ verdict[s][m] # "SYNCED"
         /\ \A o \in orders[m] : o[1] = row[r].side
         => {<<row[r].side, l>> : l \in Expected(r)} \subseteq orders[m]]_rvars

\* A row that no sweep touches while it is served keeps what its request wrote,
\* and a row a sweep wrote over still tells whether anyone has to look at it: an
\* open row whose legs were never all confirmed asks for review, whoever wrote last.
ReviewIsKept ==
    \A h \in Handlers : row[h] # NoRow /\ placed[h] # req[h].legs => row[h].review

\* Every sweep ends: retries are bounded and no lock is kept for ever.
SweepsEnd == \A s \in Sweeps : rpc[s] # "idle" ~> rpc[s] = "done"

-----------------------------------------------------------------------------
(* What the repository's comments and reports say, which the code denies.  *)

\* Only the missing legs are placed again.
OnlyMissingIsPlaced ==
    [][\A s \in Sweeps : rpc[s] = "place" /\ rpc'[s] # "place" /\ via[s] = "LIVE" =>
         LET m == at[s] IN \A l \in Expected(known[s][m]) \ seen[s] :
             <<row[known[s][m]].side, l>> \notin orders[m]]_rvars

\* A live row is closed as unknown by a sweep only when its position has gone from
\* the exchange: the symbol is flat, or a request is working on it.
VanishedMeansGone ==
    \A r \in RowIds : row[r] # NoRow /\ row[r].status = "CLOSED_UNKNOWN" /\ row[r].mode = "LIVE" =>
        \/ exch[row[r].sym] = 0 \/ resting # {}
        \/ \E h \in Handlers : Busy(h)
        \/ \E k \in RowIds \ {r} : k \in OpenRows(row[r].sym)

\* Only orphans are imported: a position that a row tracks gets no second one.
OnlyOrphansAreImported ==
    [][\A r \in RowIds : row[r] = NoRow /\ row'[r] # NoRow /\ row'[r].status = "RECOVERED" =>
         OpenRows(row'[r].sym) = {}]_rvars
=============================================================================
