------------------------------ MODULE Failures ------------------------------
(***************************************************************************)
(* The order-failure engine (order_failures/): a failed order is recorded  *)
(* with the class of its error and a retry decision; callers of the API    *)
(* then consume retries or mark the failure resolved. A call reads its row *)
(* (get_failure, whose object note_retry gets again), decides, and commits *)
(* the columns it changed, so two calls may work from one reading.         *)
(***************************************************************************)
EXTENDS Integers, FiniteSets

CONSTANTS
    Calls,      \* calls of /retry and /mark-resolved, each made once
    Errors,     \* the errors an exchange may answer with
    Limit       \* retries of a transient failure (max_retries, 5 in the code)

ConstantsOK == Limit \in Nat \ {0}

Classes == {"INSUFFICIENT_BALANCE", "PRECISION_ERROR", "MIN_NOTIONAL", "RATE_LIMIT", "NETWORK_TIMEOUT",
            "EXCHANGE_DOWN", "ORDER_REJECTED", "REDUCE_ONLY_REJECTED", "TP_SL_FAILED", "UNKNOWN"}
Terminal == {"RESOLVED", "FAILED"}

\* An error is the set of the markers found in its text, in the order the code asks for them.
Markers == <<"insufficient", "reduceonly", "precision", "notional", "429", "timeout", "503">>
ClassOfMarker == <<"INSUFFICIENT_BALANCE", "REDUCE_ONLY_REJECTED", "PRECISION_ERROR", "MIN_NOTIONAL",
                   "RATE_LIMIT", "NETWORK_TIMEOUT", "EXCHANGE_DOWN">>

\* live_trading passes the text only, never the code; the first marker decides.
Classify(error, leg) ==
    LET found == {i \in DOMAIN Markers : Markers[i] \in error}
    IN IF found # {} THEN ClassOfMarker[CHOOSE i \in found : \A j \in found : i <= j]
       ELSE IF leg THEN "TP_SL_FAILED"
       ELSE IF "reject" \in error THEN "ORDER_REJECTED" ELSE "UNKNOWN"

Transient == {"RATE_LIMIT", "NETWORK_TIMEOUT", "EXCHANGE_DOWN", "TP_SL_FAILED"}

\* Mutant of Decide: the budget is compared with <=.
DecideOnceMore(class, count) ==
    LET grant == (class = "PRECISION_ERROR" /\ count <= 1) \/ (class \in Transient /\ count <= Limit)
    IN [retry |-> grant, state |-> IF grant THEN "RETRY_SCHEDULED" ELSE "FAILED"]

\* decide_retry: whether a retry is granted and the state the row gets.
Decide(class, count) ==
    LET grant == \/ class = "PRECISION_ERROR" /\ count < 1
                 \/ class \in Transient /\ count < Limit
    IN [retry |-> grant,
        state |-> IF class \in {"REDUCE_ONLY_REJECTED", "UNKNOWN"} \/ (grant /\ class = "NETWORK_TIMEOUT")
                  THEN "NEEDS_RECONCILE"
                  ELSE IF grant THEN "RETRY_SCHEDULED" ELSE "FAILED"]

VARIABLES
    failure,    \* the committed row: class, count, state, whether a retry is due
    seen,       \* per call, the row as it read it
    at,         \* per call: "idle", "retry", "resolve" or "done"
    granted,    \* history: retries granted, that of record_failure included
    forgotten   \* history: retries the row no longer counts, since an older count was written

vars == <<failure, seen, at, granted, forgotten>>

Rows == [class : Classes, count : Nat,
         state : Terminal \cup {"RETRY_SCHEDULED", "NEEDS_RECONCILE"}, due : BOOLEAN]

TypeOK ==
    /\ failure \in Rows /\ seen \in [Calls -> Rows]
    /\ at \in [Calls -> {"idle", "retry", "resolve", "done"}]
    /\ granted \in Nat /\ forgotten \in Int

\* record_failure: a row starts with no retry counted and the decision for that.
Recorded(class) ==
    LET d == Decide(class, 0) IN [class |-> class, count |-> 0, state |-> d.state, due |-> d.retry]

Init ==
    /\ \E error \in Errors, leg \in BOOLEAN : failure = Recorded(Classify(error, leg))
    /\ seen = [c \in Calls |-> failure]
    /\ at = [c \in Calls |-> "idle"]
    /\ granted = (IF failure.due THEN 1 ELSE 0)
    /\ forgotten = 0

\* The ownership check of the endpoint reads the row; the session keeps the object.
Read(c, what) ==
    /\ at[c] = "idle"
    /\ at' = [at EXCEPT ![c] = what] /\ seen' = [seen EXCEPT ![c] = failure]
    /\ UNCHANGED <<failure, granted, forgotten>>

\* An UPDATE names the columns whose value the session changed; a new time always is one.
Written(old, new) ==
    [class |-> failure.class,
     count |-> IF new.count # old.count THEN new.count ELSE failure.count,
     state |-> IF new.state # old.state THEN new.state ELSE failure.state,
     due |-> IF old.due \/ new.due THEN new.due ELSE failure.due]

Noted(old) ==
    LET d == Decide(old.class, old.count + 1)
    IN [old EXCEPT !.count = @ + 1, !.state = d.state, !.due = d.retry]

NoteTerminal(c) ==
    /\ at[c] = "retry" /\ seen[c].state \in Terminal
    /\ at' = [at EXCEPT ![c] = "done"]
    /\ UNCHANGED <<failure, seen, granted, forgotten>>

NoteRetry(c) ==
    /\ at[c] = "retry" /\ seen[c].state \notin Terminal
    /\ at' = [at EXCEPT ![c] = "done"]
    /\ failure' = Written(seen[c], Noted(seen[c]))
    /\ granted' = granted + (IF Noted(seen[c]).due THEN 1 ELSE 0)
    /\ forgotten' = forgotten + failure.count - seen[c].count
    /\ UNCHANGED seen

MarkResolved(c) ==
    /\ at[c] = "resolve"
    /\ at' = [at EXCEPT ![c] = "done"]
    /\ failure' = Written(seen[c], [seen[c] EXCEPT !.state = "RESOLVED", !.due = FALSE])
    /\ UNCHANGED <<seen, granted, forgotten>>

Next ==
    \E c \in Calls :
        \/ Read(c, "retry") \/ Read(c, "resolve")
        \/ NoteTerminal(c) \/ NoteRetry(c) \/ MarkResolved(c)

Spec == Init /\ [][Next]_vars

-----------------------------------------------------------------------------
Budget == IF failure.class = "PRECISION_ERROR" THEN 1
          ELSE IF failure.class \in Transient THEN Limit ELSE 0

\* A failure is granted no more retries than its class allows, except those that
\* overlapping calls made the row forget (note_retry counts on what it has read).
RetriesAreBounded == granted <= Budget + forgotten

\* An order that may have been executed, or that the exchange refused, is never
\* resent without a look at the exchange: a timeout is granted a retry only
\* together with NEEDS_RECONCILE.
NoBlindRetry ==
    failure.due => /\ failure.class \in Transient \cup {"PRECISION_ERROR"}
                   /\ failure.class = "NETWORK_TIMEOUT" => failure.state \in Terminal \cup {"NEEDS_RECONCILE"}

\* Violated: mark_resolved closes a failure out, so nothing is due for it any more;
\* a retry that read the row before leaves it RESOLVED with a retry due.
ResolvedIsQuiet == failure.state \in Terminal => ~failure.due
=============================================================================
