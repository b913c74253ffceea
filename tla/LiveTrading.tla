----------------------------- MODULE LiveTrading -----------------------------
(***************************************************************************)
(* Live execution of orders on one exchange account                        *)
(* (app/execution/live_trading/service.py over app/exchange_adapters).     *)
(*                                                                         *)
(* Every API call, pilot call or auto-engine call is a coroutine with its  *)
(* own database transaction (app/database/session.py, get_session): it     *)
(* reads rows, awaits the exchange several times, and commits once, at the *)
(* end.  Between two awaits any other coroutine may run, so a handler h    *)
(* carries a program counter pc[h] and what it read or was told so far,    *)
(* and every await is a step boundary.  Each handler serves one request;   *)
(* the number of handlers bounds the number of requests of a behaviour.    *)
(*                                                                         *)
(* The exchange (not under src/) is modelled from how the adapter uses it: *)
(* one netted position per symbol, working orders per symbol, reduce-only  *)
(* orders that can only shrink a position, and a request whose answer is   *)
(* lost may or may not have been executed.                                 *)
(***************************************************************************)
EXTENDS Integers, FiniteSets

CONSTANTS
    Handlers,     \* coroutines that serve one request each
    RowIds,       \* ids of live_positions rows; request h inserts row h
    Symbols,
    Sides,        \* {"LONG", "SHORT"} or one of them
    OrderTypes,   \* {"MARKET", "LIMIT"} or one of them
    Wants,        \* sets of protective legs a caller may ask for
    Faults        \* which of the faults below the environment may produce

\* "abort": a handler ends by a process crash, a cancellation, a database error or
\*          any exception that is not an AdapterError; get_session rolls it back;
\* "lookup": the lookups by client order id after a timeout may all fail or lag;
\* "gate": an admin switches real trading off and on while handlers run.
FaultKinds == {"abort", "lookup", "gate"}

Legs == {"TP", "SL", "TRAIL"}

ASSUME RowsAssumption  == Handlers \subseteq RowIds
ASSUME SidesAssumption == Sides \subseteq {"LONG", "SHORT"}
ASSUME TypesAssumption == OrderTypes \subseteq {"MARKET", "LIMIT"}
ASSUME WantsAssumption == Wants \subseteq SUBSET Legs
ASSUME FaultAssumption == Faults \subseteq FaultKinds

VARIABLES
    (* the coroutines *)
    pc,        \* where each handler is
    req,       \* what it was asked
    adapter,   \* the adapter resolve_adapter gave it
    size,      \* quantity its close order will carry
    placed,    \* protective legs the exchange confirmed to it
    unsafe,    \* handlers whose protection placement raised
    wire,      \* handlers whose write passed the guard and is on its way
    (* the exchange account *)
    exch,      \* signed net position per symbol
    resting,   \* handlers whose LIMIT entry is working, not filled
    orders,    \* working protective orders per symbol: <<side, leg>>
    landed,    \* handlers whose entry order the exchange accepted
    executed,  \* handlers whose close order the exchange executed
    (* PostgreSQL, committed *)
    row,       \* live_positions
    trades,    \* live_trades
    (* switches *)
    kill,      \* safety.trading_blocked would refuse
    gate,      \* live_gate_open()
    late       \* history: writes executed for h since the gate was shut

handlerVars  == <<pc, req, adapter, size, placed, unsafe, wire>>
exchangeVars == <<exch, resting, orders, landed, executed>>
dbVars       == <<row, trades>>
switchVars   == <<kill, gate, late>>
vars == <<handlerVars, exchangeVars, dbVars, switchVars>>

-----------------------------------------------------------------------------
(* Vocabulary.                                                             *)

WritePCs    == {"entry", "protect", "close", "em_cancel", "em_close"}
TerminalPCs == {"done", "refused", "failed", "em_failed", "dead"}
PCs == {"idle", "resolve", "lookup", "close_commit", "em_read", "em_flat",
        "em_commit"} \cup WritePCs \cup TerminalPCs

NoRequest == [op |-> "none"]
OpenRequests  == [op : {"open"}, sym : Symbols, side : Sides, legs : Wants, type : OrderTypes]
CloseRequests == [op : {"close", "emergency"}, tgt : RowIds]

NoRow   == [status |-> "NONE"]
RowSet  == [status : {"OPEN", "RECOVERED", "CLOSED", "CLOSED_UNKNOWN"},
            sym : Symbols, side : Sides, qty : Nat \ {0}, mode : {"LIVE", "MOCK"},
            tpsl : {"SYNCED", "UNSAFE", "UNKNOWN", "MISSING_TP"}, review : BOOLEAN]

Sign(side) == IF side = "LONG" THEN 1 ELSE -1
Abs(n)     == IF n < 0 THEN -n ELSE n

IsOpen(r)    == row[r].status \in {"OPEN", "RECOVERED"}
Closing(h)   == req[h].op \in {"close", "emergency"}
Target(h)    == req[h].tgt
SymOf(h)     == IF Closing(h) THEN row[Target(h)].sym ELSE req[h].sym
Busy(h)      == pc[h] \notin TerminalPCs \cup {"idle"}

\* Mutation: the gate is checked once, when the adapter is resolved.
GuardOnlyAtResolve(h) == TRUE

\* The live adapter re-checks the gate in every request (_guard); a request that
\* has already left is past the guard.
GuardPasses(h) == gate
Refused(h)     == adapter[h] = "LIVE" /\ ~gate /\ h \notin wire

\* Legs are posted in this order, one request each (BinanceFuturesAdapter.set_tp_sl).
LegRank(l)   == CASE l = "TP" -> 1 [] l = "SL" -> 2 [] l = "TRAIL" -> 3
NextLegs(h)  == LET rest == req[h].legs \ placed[h]
                IN  {l \in rest : \A k \in rest : LegRank(l) <= LegRank(k)}

\* A reduce-only order of quantity q against a position n held on side d: the
\* exchange refuses it when there is nothing on that side, and clips it to n.
Reducible(n, d)  == n * Sign(d) > 0
Reduced(n, d, q) == IF q >= Abs(n) THEN 0 ELSE n - Sign(d) * q

Goto(h, l)   == pc' = [pc EXCEPT ![h] = l]
Landing(h)   == /\ wire' = wire \ {h}
                /\ late' = IF gate THEN late ELSE [late EXCEPT ![h] = @ + 1]

-----------------------------------------------------------------------------
Init ==
    /\ pc = [h \in Handlers |-> "idle"]
    /\ req = [h \in Handlers |-> NoRequest]
    /\ adapter = [h \in Handlers |-> "none"]
    /\ size = [h \in Handlers |-> 0]
    /\ placed = [h \in Handlers |-> {}]
    /\ unsafe = {}
    /\ wire = {}
    /\ exch = [s \in Symbols |-> 0]
    /\ resting = {}
    /\ orders = [s \in Symbols |-> {}]
    /\ landed = {}
    /\ executed = {}
    /\ row = [r \in RowIds |-> NoRow]
    /\ trades = {}
    /\ kill = FALSE
    /\ gate = TRUE
    /\ late = [h \in Handlers |-> 0]

-----------------------------------------------------------------------------
(* One exchange write = Send (the guard passes, the request leaves) and    *)
(* then the exchange's answer, which is the step of the operation itself.  *)

Send(h) ==
    /\ pc[h] \in WritePCs /\ adapter[h] = "LIVE" /\ GuardPasses(h) /\ h \notin wire
    /\ pc[h] = "protect" => NextLegs(h) # {} /\ h \notin unsafe
    /\ wire' = wire \cup {h}
    /\ UNCHANGED <<pc, req, adapter, size, placed, unsafe, exchangeVars, dbVars, switchVars>>

-----------------------------------------------------------------------------
(* open_position                                                           *)

\* The safety gate: a blocked request is refused before anything else.
OpenRequest(h) ==
    /\ pc[h] = "idle"
    /\ \E q \in OpenRequests : req' = [req EXCEPT ![h] = q]
    /\ Goto(h, IF kill THEN "refused" ELSE "resolve")
    /\ UNCHANGED <<adapter, size, placed, unsafe, wire, exchangeVars, dbVars, switchVars>>

\* Resolve the adapter by the gate of this moment and size the order; a vault
\* error, a sizing error or the slippage guard refuses it with nothing placed.
OpenResolve(h) ==
    /\ pc[h] = "resolve"
    /\ \/ /\ adapter' = [adapter EXCEPT ![h] = IF gate THEN "LIVE" ELSE "MOCK"]
          /\ Goto(h, "entry")
       \/ Goto(h, "refused") /\ UNCHANGED adapter
    /\ UNCHANGED <<req, size, placed, unsafe, wire, exchangeVars, dbVars, switchVars>>

\* What the exchange does when it accepts h's entry: fill it, or rest a LIMIT.
AcceptEntry(h) ==
    /\ landed' = landed \cup {h}
    /\ \/ exch' = [exch EXCEPT ![req[h].sym] = @ + Sign(req[h].side)] /\ UNCHANGED resting
       \/ req[h].type = "LIMIT" /\ resting' = resting \cup {h} /\ UNCHANGED exch
    /\ UNCHANGED <<orders, executed>>

\* open_order answered; the LiveOrder is added to the session, not committed.
EntryAccepted(h) ==
    /\ pc[h] = "entry"
    /\ \/ h \in wire /\ AcceptEntry(h) /\ Landing(h)
       \/ adapter[h] = "MOCK" /\ UNCHANGED <<exchangeVars, wire, late>>
    /\ Goto(h, "protect")
    /\ UNCHANGED <<req, adapter, size, placed, unsafe, dbVars, kill, gate>>

\* AdapterError from the entry (or from margin type / leverage before it).
EntryRejected(h) ==
    /\ pc[h] = "entry" /\ (h \in wire \/ Refused(h))
    /\ wire' = wire \ {h}
    /\ Goto(h, "failed")
    /\ UNCHANGED <<req, adapter, size, placed, unsafe, exchangeVars, dbVars, switchVars>>

\* AdapterTimeoutError: the order may or may not be on the exchange.
EntryTimesOut(h) ==
    /\ pc[h] = "entry" /\ h \in wire
    /\ \/ AcceptEntry(h) /\ Landing(h)
       \/ wire' = wire \ {h} /\ UNCHANGED <<exchangeVars, late>>
    /\ Goto(h, "lookup")
    /\ UNCHANGED <<req, adapter, size, placed, unsafe, dbVars, kill, gate>>

\* _resolve_after_timeout: the order is found by its client id and adopted.
LookupFinds(h) ==
    /\ pc[h] = "lookup" /\ h \in landed /\ gate
    /\ Goto(h, "protect")
    /\ UNCHANGED <<req, adapter, size, placed, unsafe, wire, exchangeVars, dbVars, switchVars>>

\* Mutation: a timeout is taken for a failure without asking the exchange.
TimeoutIsFailure(h) == TRUE

\* Every attempt came back without the order: the exchange has none, or the
\* attempts raised AdapterError (the guard's included) or were too early.
LookupEmpty(h) == h \notin landed \/ "lookup" \in Faults \/ ~gate

\* ... which open_position treats as a clean failure.
LookupMisses(h) ==
    /\ pc[h] = "lookup" /\ LookupEmpty(h)
    /\ Goto(h, "failed")
    /\ UNCHANGED <<req, adapter, size, placed, unsafe, wire, exchangeVars, dbVars, switchVars>>

\* The next protective leg is on the exchange.
LegPlaced(h) ==
    /\ pc[h] = "protect" /\ h \in wire
    /\ \E l \in NextLegs(h) :
        /\ placed' = [placed EXCEPT ![h] = @ \cup {l}]
        /\ orders' = [orders EXCEPT ![req[h].sym] = @ \cup {<<req[h].side, l>>}]
    /\ Landing(h)
    /\ UNCHANGED <<pc, req, adapter, size, unsafe, exch, resting, landed, executed, dbVars, kill, gate>>

\* The mock adapter simulates every leg at once.
MockProtected(h) ==
    /\ pc[h] = "protect" /\ adapter[h] = "MOCK" /\ placed[h] # req[h].legs
    /\ placed' = [placed EXCEPT ![h] = req[h].legs]
    /\ UNCHANGED <<pc, req, adapter, size, unsafe, wire, exchangeVars, dbVars, switchVars>>

\* AdapterError from set_tp_sl: the remaining legs are skipped, the position is
\* kept and will be stored UNSAFE.  A timed-out leg may be working all the same.
LegFails(h) ==
    /\ pc[h] = "protect" /\ h \notin unsafe /\ NextLegs(h) # {}
    /\ \/ h \in wire \/ Refused(h)
    /\ unsafe' = unsafe \cup {h}
    /\ \/ wire' = wire \ {h} /\ UNCHANGED <<orders, late>>
       \/ /\ h \in wire /\ Landing(h)
          /\ orders' = [orders EXCEPT ![req[h].sym] =
                           @ \cup {<<req[h].side, l>> : l \in NextLegs(h)}]
    /\ UNCHANGED <<pc, req, adapter, size, placed, exch, resting, landed, executed, dbVars, kill, gate>>

\* Mutations: the row is stored SYNCED whatever set_tp_sl did; the row gets a
\* status that no reader of the table knows.
NewRowTrusting(h) ==
    [status |-> "OPEN", sym |-> req[h].sym, side |-> req[h].side, qty |-> 1,
     mode |-> adapter[h], review |-> FALSE, tpsl |-> "SYNCED"]
NewRowPending(h) == [NewRowTrusting(h) EXCEPT !.status = "PENDING"]

\* The LivePosition as open_position adds it.
NewRow(h) ==
    [status |-> "OPEN", sym |-> req[h].sym, side |-> req[h].side, qty |-> 1,
     mode |-> adapter[h], review |-> h \in unsafe,
     tpsl |-> IF h \in unsafe THEN "UNSAFE" ELSE "SYNCED"]

\* Mutation: the position is stored only once every leg is placed.
FullyProtected(h) == placed[h] = req[h].legs

\* set_tp_sl has returned or raised.
ProtectionSettled(h) == placed[h] = req[h].legs \/ h \in unsafe

\* flush, audit, and the commit on leaving get_session.
OpenCommit(h) ==
    /\ pc[h] = "protect" /\ ProtectionSettled(h)
    /\ row' = [row EXCEPT ![h] = NewRow(h)]
    /\ Goto(h, "done")
    /\ UNCHANGED <<req, adapter, size, placed, unsafe, wire, exchangeVars, trades, switchVars>>

-----------------------------------------------------------------------------
(* close_position                                                          *)

\* Read the row, insist on OPEN, resolve the adapter by the gate of this moment.
CloseRequest(h, r) ==
    /\ pc[h] = "idle" /\ row[r].status = "OPEN"
    /\ req' = [req EXCEPT ![h] = [op |-> "close", tgt |-> r]]
    /\ adapter' = [adapter EXCEPT ![h] = IF gate THEN "LIVE" ELSE "MOCK"]
    /\ size' = [size EXCEPT ![h] = row[r].qty]
    /\ Goto(h, "close")
    /\ UNCHANGED <<placed, unsafe, wire, exchangeVars, dbVars, switchVars>>

\* Mutation: the closing order goes out without the reduce-only flag.
CloseWithoutReduceOnly(h) ==
    LET t == row[Target(h)] IN
    /\ exch' = [exch EXCEPT ![t.sym] = @ - Sign(t.side) * size[h]]
    /\ executed' = executed \cup {h}
    /\ UNCHANGED <<resting, orders, landed>>

\* What the exchange does with h's reduce-only market order.
ExecuteClose(h) ==
    LET t == row[Target(h)] IN
    /\ Reducible(exch[t.sym], t.side)
    /\ exch' = [exch EXCEPT ![t.sym] = Reduced(@, t.side, size[h])]
    /\ executed' = executed \cup {h}
    /\ UNCHANGED <<resting, orders, landed>>

\* close_order answered (for close_position and for the emergency close alike).
CloseAccepted(h) ==
    /\ pc[h] \in {"close", "em_close"}
    /\ \/ h \in wire /\ ExecuteClose(h) /\ Landing(h)
       \/ adapter[h] = "MOCK" /\ UNCHANGED <<exchangeVars, wire, late>>
    /\ Goto(h, IF pc[h] = "close" THEN "close_commit" ELSE "em_commit")
    /\ UNCHANGED <<req, adapter, size, placed, unsafe, dbVars, kill, gate>>

\* Mutation: a failed close writes back the status it had read.
StatusRestored(h) == [row EXCEPT ![Target(h)].status = "OPEN"]

\* get_session rolls back a session that raised: the in-line UNSAFE mark of a
\* failed emergency close is undone with everything else.
RolledBack(h) == row

\* AdapterError from close_order: 502.  A timed-out order may have been executed.
CloseFails(h) ==
    /\ pc[h] \in {"close", "em_close"} /\ (h \in wire \/ Refused(h))
    /\ \/ wire' = wire \ {h} /\ UNCHANGED <<exchangeVars, late>>
       \/ h \in wire /\ ExecuteClose(h) /\ Landing(h)
    /\ row' = RolledBack(h)
    /\ Goto(h, IF pc[h] = "close" THEN "failed" ELSE "em_failed")
    /\ UNCHANGED <<req, adapter, size, placed, unsafe, trades, kill, gate>>

\* Mutation: the trade takes the mode of the position, not of the order.
TradeOfPosition(h) == [pos |-> Target(h), by |-> h, mode |-> row[Target(h)].mode]

Trade(h) == [pos |-> Target(h), by |-> h, mode |-> adapter[h]]

\* CLOSED, the reduce-only LiveOrder, the LiveTrade and the accounting row.
CloseCommit(h) ==
    /\ pc[h] = "close_commit"
    /\ row' = [row EXCEPT ![Target(h)].status = "CLOSED"]
    /\ trades' = trades \cup {Trade(h)}
    /\ Goto(h, "done")
    /\ UNCHANGED <<req, adapter, size, placed, unsafe, wire, exchangeVars, switchVars>>

-----------------------------------------------------------------------------
(* emergency_close_position                                                *)

EmergencyRequest(h, r) ==
    /\ pc[h] = "idle" /\ IsOpen(r)
    /\ req' = [req EXCEPT ![h] = [op |-> "emergency", tgt |-> r]]
    /\ adapter' = [adapter EXCEPT ![h] = IF gate THEN "LIVE" ELSE "MOCK"]
    /\ Goto(h, "em_read")
    /\ UNCHANGED <<size, placed, unsafe, wire, exchangeVars, dbVars, switchVars>>

\* Mutation: a read that failed is taken for an empty account.
UnreadableIsFlat(h) == TRUE

\* get_positions answered and the symbol is not listed; the mock adapter never
\* lists a position.
SeenFlat(h) == adapter[h] = "MOCK" \/ (gate /\ exch[row[Target(h)].sym] = 0)

\* Reconcile: take the exchange's quantity; no position means already flat; a
\* read that raised AdapterError falls back to the row's quantity.
EmergencyRead(h) ==
    LET t == row[Target(h)] IN
    /\ pc[h] = "em_read"
    /\ \/ /\ adapter[h] = "LIVE" /\ gate /\ exch[t.sym] # 0
          /\ size' = [size EXCEPT ![h] = Abs(exch[t.sym])]
          /\ Goto(h, "em_cancel")
       \/ /\ adapter[h] = "LIVE"
          /\ size' = [size EXCEPT ![h] = t.qty]
          /\ Goto(h, "em_cancel")
       \/ SeenFlat(h) /\ Goto(h, "em_flat") /\ UNCHANGED size
    /\ UNCHANGED <<req, adapter, placed, unsafe, wire, exchangeVars, dbVars, switchVars>>

\* Already flat: CLOSED_UNKNOWN, and return before the cancel step.
EmergencyFlat(h) ==
    /\ pc[h] = "em_flat"
    /\ row' = [row EXCEPT ![Target(h)].status = "CLOSED_UNKNOWN", ![Target(h)].tpsl = "UNKNOWN"]
    /\ Goto(h, "done")
    /\ UNCHANGED <<req, adapter, size, placed, unsafe, wire, exchangeVars, trades, switchVars>>

\* Cancel every working order of the symbol, best effort: an AdapterError is
\* audited and ignored, and a timed-out cancel may have been executed.
EmergencyCancel(h) ==
    LET s == row[Target(h)].sym IN
    /\ pc[h] = "em_cancel" /\ (h \in wire \/ Refused(h))
    /\ \/ /\ h \in wire /\ Landing(h)
          /\ orders' = [orders EXCEPT ![s] = {}]
          /\ resting' = {k \in resting : req[k].sym # s}
       \/ wire' = wire \ {h} /\ UNCHANGED <<orders, resting, late>>
    /\ Goto(h, "em_close")
    /\ UNCHANGED <<req, adapter, size, placed, unsafe, exch, landed, executed, dbVars, kill, gate>>

\* CLOSED and SYNCED; requires_review keeps its value.  (A tp_sl_status that was
\* SYNCED when the row was read is not written again; nobody reads it in a closed
\* row.)
EmergencyCommit(h) ==
    /\ pc[h] = "em_commit"
    /\ row' = [row EXCEPT ![Target(h)].status = "CLOSED", ![Target(h)].tpsl = "SYNCED"]
    /\ trades' = trades \cup {Trade(h)}
    /\ Goto(h, "done")
    /\ UNCHANGED <<req, adapter, size, placed, unsafe, wire, exchangeVars, switchVars>>

-----------------------------------------------------------------------------
(* The environment: faults, the exchange on its own, the administrator.    *)

\* The coroutine ends by anything but an AdapterError; nothing is committed.  A
\* request already on its way is then answered to nobody (it is lost or executed).
Aborted(h) ==
    /\ "abort" \in Faults /\ Busy(h)
    /\ \/ wire' = wire \ {h} /\ UNCHANGED <<exchangeVars, late>>
       \/ pc[h] = "entry" /\ h \in wire /\ AcceptEntry(h) /\ Landing(h)
       \/ pc[h] \in {"close", "em_close"} /\ h \in wire /\ ExecuteClose(h) /\ Landing(h)
    /\ Goto(h, "dead")
    /\ UNCHANGED <<req, adapter, size, placed, unsafe, dbVars, kill, gate>>

\* A working LIMIT entry fills.
RestingFills(h) ==
    /\ h \in resting
    /\ resting' = resting \ {h}
    /\ exch' = [exch EXCEPT ![req[h].sym] = @ + Sign(req[h].side)]
    /\ UNCHANGED <<orders, landed, executed, handlerVars, dbVars, switchVars>>

\* A protective order triggers: TP and SL close the position, TRAIL reduces it.
LegTriggers(s) ==
    \E o \in orders[s] :
        /\ Reducible(exch[s], o[1])
        /\ exch' = [exch EXCEPT ![s] = IF o[2] = "TRAIL" THEN Reduced(@, o[1], 1) ELSE 0]
        /\ orders' = [orders EXCEPT ![s] = @ \ {o}]
        /\ UNCHANGED <<resting, landed, executed, handlerVars, dbVars, switchVars>>

\* The exchange drops the protective orders of a flat symbol, or keeps them.
LegsExpire(s) ==
    /\ exch[s] = 0 /\ orders[s] # {}
    /\ orders' = [orders EXCEPT ![s] = {}]
    /\ UNCHANGED <<exch, resting, landed, executed, handlerVars, dbVars, switchVars>>

\* The kill switch (global, user or timed lockout) goes on or off.
ToggleKill ==
    /\ kill' = ~kill
    /\ UNCHANGED <<gate, late, handlerVars, exchangeVars, dbVars>>

\* The runtime live switch (admin set_live_trading).
ToggleGate ==
    /\ "gate" \in Faults
    /\ gate' = ~gate
    /\ late' = [h \in Handlers |-> 0]
    /\ UNCHANGED <<kill, handlerVars, exchangeVars, dbVars>>

-----------------------------------------------------------------------------
\* Steps a running coroutine takes without waiting for a caller.
HandlerStep(h) ==
    \/ Send(h)
    \/ OpenResolve(h) \/ EntryAccepted(h) \/ EntryRejected(h) \/ EntryTimesOut(h)
    \/ LookupFinds(h) \/ LookupMisses(h)
    \/ LegPlaced(h) \/ MockProtected(h) \/ LegFails(h) \/ OpenCommit(h)
    \/ CloseAccepted(h) \/ CloseFails(h) \/ CloseCommit(h)
    \/ EmergencyRead(h) \/ EmergencyFlat(h) \/ EmergencyCancel(h) \/ EmergencyCommit(h)

Request(h) ==
    \/ OpenRequest(h)
    \/ \E r \in RowIds : CloseRequest(h, r) \/ EmergencyRequest(h, r)

Environment ==
    \/ \E h \in Handlers : Aborted(h) \/ RestingFills(h)
    \/ \E s \in Symbols : LegTriggers(s) \/ LegsExpire(s)
    \/ ToggleKill \/ ToggleGate

Next ==
    \/ \E h \in Handlers : Request(h) \/ HandlerStep(h)
    \/ Environment

Spec == Init /\ [][Next]_vars

\* Every await of a handler ends: the adapter's HTTP client has a total timeout
\* of 15 s, and the event loop resumes a coroutine whose await has ended.
Fairness == \A h \in Handlers : WF_vars(HandlerStep(h))
FairSpec == Spec /\ Fairness
-----------------------------------------------------------------------------
(* Properties.                                                             *)

HandlerTypes ==
    /\ pc \in [Handlers -> PCs]
    /\ req \in [Handlers -> {NoRequest} \cup OpenRequests \cup CloseRequests]
    /\ adapter \in [Handlers -> {"none", "LIVE", "MOCK"}]
    /\ size \in [Handlers -> Nat]
    /\ placed \in [Handlers -> SUBSET Legs]
    /\ unsafe \subseteq Handlers /\ wire \subseteq Handlers

ExchangeTypes ==
    /\ exch \in [Symbols -> Int]
    /\ resting \subseteq Handlers /\ landed \subseteq Handlers /\ executed \subseteq Handlers
    /\ orders \in [Symbols -> SUBSET (Sides \X Legs)]

DbTypes ==
    /\ row \in [RowIds -> {NoRow} \cup RowSet]
    /\ trades \subseteq [pos : RowIds, by : Handlers, mode : {"LIVE", "MOCK"}]

SwitchTypes == kill \in BOOLEAN /\ gate \in BOOLEAN /\ late \in [Handlers -> Nat]

\* Every variable stays in its set of values.
TypeOK == HandlerTypes /\ ExchangeTypes /\ DbTypes /\ SwitchTypes

\* "No order is ever lost": an entry the exchange accepted belongs to a request
\* still being served or to a row of the database; a request that answered with
\* an error left no order behind (open_position, _open_entry_idempotent).
FillAccounted ==
    \A h \in landed : Busy(h) \/ (row[h] # NoRow /\ row[h].mode = "LIVE")

\* An exchange position that no request is working on is tracked by an open row
\* of its symbol: neither concurrent closes, failed closes nor emergency closes
\* leave an orphan behind.
NoOrphanPosition ==
    \A s \in Symbols :
        exch[s] # 0 => \/ \E r \in RowIds : row[r] # NoRow /\ row[r].sym = s /\ IsOpen(r)
                       \/ \E h \in Handlers : Busy(h) /\ req[h] # NoRequest /\ SymOf(h) = s

\* A row that says SYNCED was given every leg its caller asked for, a row whose
\* placement raised says UNSAFE and asks for review, and a row tagged LIVE (MOCK)
\* stands for an order the exchange has (has never seen).
RowTellsTheTruth ==
    \A h \in Handlers : row[h] # NoRow =>
        /\ row[h].status = "OPEN" /\ row[h].tpsl = "SYNCED" => placed[h] = req[h].legs
        /\ row[h].tpsl = "UNSAFE" => row[h].review
        /\ placed[h] # req[h].legs => row[h].review
        /\ row[h].mode = "LIVE" <=> h \in landed

\* A live trade is booked only for a close order the exchange executed, however
\* close, emergency close and their timeouts interleave.
LiveTradesAreReal == \A t \in trades : t.mode = "LIVE" => t.by \in executed

\* After the live switch is turned off, a running request has at most one more
\* write executed: the one already on its way when the switch moved.
OneWriteAfterGateShut == ~gate => \A h \in Handlers : late[h] <= 1

\* A closing order never opens or enlarges a position and never flips it ("never
\* opens an opposite position"): only an entry moves a position away from zero.
ClosesOnlyReduce ==
    [][\A s \in Symbols : exch'[s] # exch[s] =>
         \/ landed' # landed \/ resting' # resting
         \/ Abs(exch'[s]) < Abs(exch[s]) /\ exch'[s] * exch[s] >= 0]_vars

\* A terminal row stays terminal, and rows are never deleted.
ClosedRowsStayClosed ==
    [][\A r \in RowIds : row[r] # NoRow =>
         row'[r] # NoRow /\ (~IsOpen(r) => row'[r].status \notin {"OPEN", "RECOVERED"})]_vars

\* Every request is answered.
RequestsEnd == \A h \in Handlers : pc[h] # "idle" ~> pc[h] \in TerminalPCs

\* An entry the exchange accepted ends up in the database.
FillsGetBooked == \A h \in Handlers : h \in landed ~> row[h] # NoRow

-----------------------------------------------------------------------------
(* What the repository's comments and reports say, which the code denies.  *)

\* An emergency close that failed after cancelling the working orders leaves the
\* position it could not close marked for review.
FailedEmergencyIsMarked ==
    \A h \in Handlers :
        pc[h] = "em_failed" /\ IsOpen(Target(h)) => row[Target(h)].tpsl = "UNSAFE"

\* One position is closed once: a second close is refused with 409.
OneTradePerPosition == \A t, u \in trades : t.pos = u.pos => t = u

\* MOCK and LIVE are kept separate: a trade has the mode of its position.
TradeModeIsPositionMode == \A t \in trades : t.mode = row[t.pos].mode
=============================================================================
