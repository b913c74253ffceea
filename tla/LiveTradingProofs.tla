-------------------------- MODULE LiveTradingProofs --------------------------
(* The type invariant and the safety of LiveTrading, for any handlers,     *)
(* symbols, callers and faults; what a step may never do; that no accepted *)
(* order is lost and no position orphaned without a fault; that LiveTrading*)
(* implements EntryBook; and what the sweeps of Recovery, which EXTENDS it,*)
(* keep of it and certify themselves.                                      *)
EXTENDS LiveTradingBook, MCRecovery, FiniteSetTheorems, TLAPS

OpeningPCs == {"resolve", "entry", "lookup", "protect"}
ClosingPCs == {"close", "close_commit", "em_read", "em_flat", "em_cancel", "em_close", "em_commit"}

\* What a handler's program counter says of its request: an opening phase serves
\* an open request; a closing phase has a stored target; a phase after the adapter
\* was resolved has one.
OpeningInv == \A h \in Handlers : pc[h] \in OpeningPCs => req[h] \in OpenRequests
ClosingInv == \A h \in Handlers : pc[h] \in ClosingPCs =>
                  req[h] \in CloseRequests /\ row[req[h].tgt] # NoRow
AdapterInv == \A h \in Handlers : pc[h] \in ClosingPCs \cup {"entry", "lookup", "protect"} => adapter[h] # "none"

IInv == TypeOK /\ OpeningInv /\ ClosingInv /\ AdapterInv

-----------------------------------------------------------------------------
(* Lemmas on the data.                                                     *)

\* A reduce-only execution leaves an integer position.
LEMMA ReducedInt == \A n \in Int, q \in Nat : \A d : Reduced(n, d, q) \in Int
  BY DEF Reduced, Sign, Abs

\* No stored row equals the absent one.
LEMMA RowSetNoRow == NoRow \notin RowSet
  BY DEF NoRow, RowSet

\* A status or protection update of a stored row is a stored row.
LEMMA RowUpdates ==
  ASSUME NEW t \in RowSet, NEW st \in {"OPEN", "RECOVERED", "CLOSED", "CLOSED_UNKNOWN"},
         NEW ps \in {"SYNCED", "UNSAFE", "UNKNOWN", "MISSING_TP"}
  PROVE  /\ [t EXCEPT !.status = st] \in RowSet
         /\ [t EXCEPT !.status = st, !.tpsl = ps] \in RowSet
  BY DEF RowSet

\* The legs still to be placed are legs, and their side and symbol are known ones.
LEMMA LegsOfRequest ==
  ASSUME NEW h \in Handlers, req[h] \in OpenRequests
  PROVE  /\ req[h].legs \in SUBSET Legs /\ NextLegs(h) \in SUBSET Legs
         /\ req[h].side \in Sides /\ req[h].sym \in Symbols
  BY WantsAssumption DEF OpenRequests, NextLegs

\* The target of a closing phase is a stored row.
LEMMA TargetStored ==
  ASSUME IInv, NEW h \in Handlers, pc[h] \in ClosingPCs
  PROVE  /\ req[h] \in CloseRequests /\ Target(h) \in RowIds
         /\ row[Target(h)] \in RowSet /\ row[Target(h)] # NoRow
  BY DEF IInv, TypeOK, DbTypes, ClosingInv, CloseRequests, Target

\* The new row of an open request is well formed.
LEMMA NewRowStored ==
  ASSUME IInv, NEW h \in Handlers, pc[h] = "protect"
  PROVE  NewRow(h) \in RowSet
<1>1. req[h] \in OpenRequests
  BY DEF IInv, OpeningInv, OpeningPCs
<1>2. adapter[h] \in {"LIVE", "MOCK"}
  BY DEF IInv, TypeOK, HandlerTypes, AdapterInv
<1> QED
  BY <1>1, <1>2 DEF NewRow, RowSet, OpenRequests

\* Accepting an entry keeps the exchange well typed.
LEMMA AcceptTyped ==
  ASSUME IInv, NEW h \in Handlers, AcceptEntry(h), req[h] \in OpenRequests
  PROVE  ExchangeTypes'
<1>1. req[h].sym \in Symbols /\ Sign(req[h].side) \in Int
  BY DEF OpenRequests, Sign
<1> QED
  BY <1>1 DEF IInv, TypeOK, ExchangeTypes, AcceptEntry

\* Executing a close keeps the exchange well typed.
LEMMA ExecuteTyped ==
  ASSUME IInv, NEW h \in Handlers, ExecuteClose(h), pc[h] \in ClosingPCs
  PROVE  ExchangeTypes'
<1>1. row[Target(h)].sym \in Symbols /\ size[h] \in Nat
  BY TargetStored DEF RowSet, IInv, TypeOK, HandlerTypes
<1>2. Reduced(exch[row[Target(h)].sym], row[Target(h)].side, size[h]) \in Int
  BY <1>1, ReducedInt DEF IInv, TypeOK, ExchangeTypes
<1> QED
  BY <1>1, <1>2 DEF IInv, TypeOK, ExchangeTypes, ExecuteClose

-----------------------------------------------------------------------------
LEMMA InitIInv == Init => IInv
<1> SUFFICES ASSUME Init PROVE IInv
  OBVIOUS
<1> USE DEF Init
<1>1. HandlerTypes
  BY DEF HandlerTypes, PCs
<1>2. ExchangeTypes
  <2>1. orders \in [Symbols -> SUBSET (Sides \X Legs)]
    OBVIOUS
  <2> QED
    BY <2>1 DEF ExchangeTypes
<1>3. DbTypes
  BY DEF DbTypes
<1>4. SwitchTypes
  BY DEF SwitchTypes
<1>5. OpeningInv /\ ClosingInv /\ AdapterInv
  BY DEF OpeningInv, ClosingInv, AdapterInv, OpeningPCs, ClosingPCs
<1> QED
  BY <1>1, <1>2, <1>3, <1>4, <1>5 DEF IInv, TypeOK

-----------------------------------------------------------------------------
(* One lemma per group of actions: each keeps the types and the phases.    *)

\* The entry phase of open_position.
LEMMA EntrySteps ==
  ASSUME IInv, NEW h \in Handlers,
         \/ Send(h) \/ OpenRequest(h) \/ OpenResolve(h) \/ EntryAccepted(h)
         \/ EntryRejected(h) \/ EntryTimesOut(h) \/ LookupFinds(h) \/ LookupMisses(h)
  PROVE  IInv'
<1> USE DEF IInv, TypeOK, Goto, PCs, WritePCs, TerminalPCs
<1>1. CASE Send(h)
  <2> USE <1>1 DEF Send
  <2>1. HandlerTypes' /\ ExchangeTypes' /\ DbTypes' /\ SwitchTypes'
    BY DEF HandlerTypes, ExchangeTypes, exchangeVars, DbTypes, dbVars, SwitchTypes,
           switchVars
  <2>2. OpeningInv' /\ ClosingInv' /\ AdapterInv'
    BY DEF HandlerTypes, OpeningInv, ClosingInv, AdapterInv, OpeningPCs, ClosingPCs, dbVars
  <2> QED
    BY <2>1, <2>2 DEF IInv
<1>2. CASE OpenRequest(h)
  <2> USE <1>2 DEF OpenRequest
  <2>1. HandlerTypes' /\ ExchangeTypes' /\ DbTypes' /\ SwitchTypes'
    BY DEF HandlerTypes, ExchangeTypes, exchangeVars, DbTypes, dbVars, SwitchTypes,
           switchVars
  <2>2. OpeningInv' /\ ClosingInv' /\ AdapterInv'
    BY DEF HandlerTypes, OpeningInv, ClosingInv, AdapterInv, OpeningPCs, ClosingPCs, dbVars
  <2> QED
    BY <2>1, <2>2 DEF IInv
<1>3. CASE OpenResolve(h)
  <2> USE <1>3 DEF OpenResolve
  <2>1. HandlerTypes' /\ ExchangeTypes' /\ DbTypes' /\ SwitchTypes'
    BY DEF HandlerTypes, ExchangeTypes, exchangeVars, DbTypes, dbVars, SwitchTypes,
           switchVars
  <2>2. OpeningInv' /\ ClosingInv' /\ AdapterInv'
    BY DEF HandlerTypes, OpeningInv, ClosingInv, AdapterInv, OpeningPCs, ClosingPCs, dbVars
  <2> QED
    BY <2>1, <2>2 DEF IInv
<1>4. CASE EntryAccepted(h)
  <2> USE <1>4 DEF EntryAccepted
  <2>1. DbTypes'
    BY DEF DbTypes, dbVars
  <2>2. HandlerTypes'
    BY DEF HandlerTypes, Landing
  <2>3. ExchangeTypes'
    BY AcceptTyped DEF ExchangeTypes, exchangeVars, OpeningInv, OpeningPCs
  <2>4. SwitchTypes'
    BY DEF SwitchTypes, switchVars, Landing
  <2>5. OpeningInv' /\ ClosingInv' /\ AdapterInv'
    BY DEF HandlerTypes, OpeningInv, ClosingInv, AdapterInv, OpeningPCs, ClosingPCs, dbVars
  <2> QED
    BY <2>1, <2>2, <2>3, <2>4, <2>5 DEF IInv
<1>5. CASE EntryRejected(h)
  <2> USE <1>5 DEF EntryRejected
  <2>1. HandlerTypes' /\ ExchangeTypes' /\ DbTypes' /\ SwitchTypes'
    BY DEF HandlerTypes, ExchangeTypes, exchangeVars, DbTypes, dbVars, SwitchTypes,
           switchVars
  <2>2. OpeningInv' /\ ClosingInv' /\ AdapterInv'
    BY DEF HandlerTypes, OpeningInv, ClosingInv, AdapterInv, OpeningPCs, ClosingPCs, dbVars
  <2> QED
    BY <2>1, <2>2 DEF IInv
<1>6. CASE EntryTimesOut(h)
  <2> USE <1>6 DEF EntryTimesOut
  <2>1. DbTypes'
    BY DEF DbTypes, dbVars
  <2>2. HandlerTypes'
    BY DEF HandlerTypes, Landing
  <2>3. ExchangeTypes'
    BY AcceptTyped DEF ExchangeTypes, exchangeVars, OpeningInv, OpeningPCs
  <2>4. SwitchTypes'
    BY DEF SwitchTypes, switchVars, Landing
  <2>5. OpeningInv' /\ ClosingInv' /\ AdapterInv'
    BY DEF HandlerTypes, OpeningInv, ClosingInv, AdapterInv, OpeningPCs, ClosingPCs, dbVars
  <2> QED
    BY <2>1, <2>2, <2>3, <2>4, <2>5 DEF IInv
<1>7. CASE LookupFinds(h)
  <2> USE <1>7 DEF LookupFinds
  <2>1. HandlerTypes' /\ ExchangeTypes' /\ DbTypes' /\ SwitchTypes'
    BY DEF HandlerTypes, ExchangeTypes, exchangeVars, DbTypes, dbVars, SwitchTypes,
           switchVars
  <2>2. OpeningInv' /\ ClosingInv' /\ AdapterInv'
    BY DEF HandlerTypes, OpeningInv, ClosingInv, AdapterInv, OpeningPCs, ClosingPCs, dbVars
  <2> QED
    BY <2>1, <2>2 DEF IInv
<1>8. CASE LookupMisses(h)
  <2> USE <1>8 DEF LookupMisses
  <2>1. HandlerTypes' /\ ExchangeTypes' /\ DbTypes' /\ SwitchTypes'
    BY DEF HandlerTypes, ExchangeTypes, exchangeVars, DbTypes, dbVars, SwitchTypes,
           switchVars
  <2>2. OpeningInv' /\ ClosingInv' /\ AdapterInv'
    BY DEF HandlerTypes, OpeningInv, ClosingInv, AdapterInv, OpeningPCs, ClosingPCs, dbVars
  <2> QED
    BY <2>1, <2>2 DEF IInv
<1> QED
  BY <1>1, <1>2, <1>3, <1>4, <1>5, <1>6, <1>7, <1>8

\* The protection phase and the commit of open_position.
LEMMA ProtectSteps ==
  ASSUME IInv, NEW h \in Handlers,
         \/ LegPlaced(h) \/ MockProtected(h) \/ LegFails(h) \/ OpenCommit(h)
  PROVE  IInv'
<1> USE DEF IInv, TypeOK, Goto, PCs, WritePCs, TerminalPCs
<1>1. CASE LegPlaced(h)
  <2> USE <1>1 DEF LegPlaced
  <2>1. DbTypes'
    BY DEF DbTypes, dbVars
  <2>2. HandlerTypes'
    BY LegsOfRequest DEF HandlerTypes, Landing, OpeningInv, OpeningPCs
  <2>3. ExchangeTypes'
    BY LegsOfRequest DEF ExchangeTypes, exchangeVars, Landing, OpeningInv, OpeningPCs
  <2>4. SwitchTypes'
    BY DEF SwitchTypes, switchVars, Landing
  <2>5. OpeningInv' /\ ClosingInv' /\ AdapterInv'
    BY DEF HandlerTypes, OpeningInv, ClosingInv, AdapterInv, OpeningPCs, ClosingPCs, dbVars
  <2> QED
    BY <2>1, <2>2, <2>3, <2>4, <2>5 DEF IInv
<1>2. CASE MockProtected(h)
  <2> USE <1>2 DEF MockProtected
  <2>1. ExchangeTypes' /\ DbTypes' /\ SwitchTypes'
    BY DEF ExchangeTypes, exchangeVars, DbTypes, dbVars, SwitchTypes, switchVars
  <2>2. HandlerTypes'
    BY LegsOfRequest DEF HandlerTypes, OpeningInv, OpeningPCs
  <2>3. OpeningInv' /\ ClosingInv' /\ AdapterInv'
    BY DEF HandlerTypes, OpeningInv, ClosingInv, AdapterInv, OpeningPCs, ClosingPCs, dbVars
  <2> QED
    BY <2>1, <2>2, <2>3 DEF IInv
<1>3. CASE LegFails(h)
  <2> USE <1>3 DEF LegFails
  <2>1. DbTypes'
    BY DEF DbTypes, dbVars
  <2>2. HandlerTypes'
    BY DEF HandlerTypes, Landing
  <2>3. ExchangeTypes'
    BY LegsOfRequest DEF ExchangeTypes, exchangeVars, Landing, OpeningInv, OpeningPCs
  <2>4. SwitchTypes'
    BY DEF SwitchTypes, switchVars, Landing
  <2>5. OpeningInv' /\ ClosingInv' /\ AdapterInv'
    BY DEF HandlerTypes, OpeningInv, ClosingInv, AdapterInv, OpeningPCs, ClosingPCs, dbVars
  <2> QED
    BY <2>1, <2>2, <2>3, <2>4, <2>5 DEF IInv
<1>4. CASE OpenCommit(h)
  <2> USE <1>4 DEF OpenCommit
  <2>1. HandlerTypes' /\ ExchangeTypes' /\ SwitchTypes'
    BY DEF HandlerTypes, ExchangeTypes, exchangeVars, SwitchTypes, switchVars
  <2>2. DbTypes'
    BY NewRowStored, RowsAssumption DEF DbTypes, dbVars
  <2>3. OpeningInv' /\ ClosingInv' /\ AdapterInv'
    BY NewRowStored, RowSetNoRow DEF HandlerTypes, OpeningInv, ClosingInv, AdapterInv,
           OpeningPCs, ClosingPCs, dbVars
  <2> QED
    BY <2>1, <2>2, <2>3 DEF IInv
<1> QED
  BY <1>1, <1>2, <1>3, <1>4

\* close_position and emergency_close_position.
LEMMA CloseSteps ==
  ASSUME IInv, NEW h \in Handlers,
         \/ CloseAccepted(h) \/ CloseFails(h) \/ CloseCommit(h) \/ EmergencyRead(h)
         \/ EmergencyFlat(h) \/ EmergencyCancel(h) \/ EmergencyCommit(h)
  PROVE  IInv'
<1> USE DEF IInv, TypeOK, Goto, PCs, WritePCs, TerminalPCs
<1>1. CASE CloseAccepted(h)
  <2> USE <1>1 DEF CloseAccepted
  <2>1. DbTypes'
    BY DEF DbTypes, dbVars
  <2>2. HandlerTypes'
    BY DEF HandlerTypes, Landing
  <2>3. ExchangeTypes'
    BY ExecuteTyped DEF ExchangeTypes, exchangeVars, ClosingPCs
  <2>4. SwitchTypes'
    BY DEF SwitchTypes, switchVars, Landing
  <2>5. OpeningInv' /\ ClosingInv' /\ AdapterInv'
    BY DEF HandlerTypes, OpeningInv, ClosingInv, AdapterInv, OpeningPCs, ClosingPCs, dbVars
  <2> QED
    BY <2>1, <2>2, <2>3, <2>4, <2>5 DEF IInv
<1>2. CASE CloseFails(h)
  <2> USE <1>2 DEF CloseFails
  <2>1. HandlerTypes'
    BY DEF HandlerTypes, Landing
  <2>2. ExchangeTypes'
    BY ExecuteTyped DEF ExchangeTypes, exchangeVars, ClosingPCs
  <2>3. DbTypes'
    BY DEF DbTypes, dbVars, RolledBack
  <2>4. SwitchTypes'
    BY DEF SwitchTypes, switchVars, Landing
  <2>5. OpeningInv' /\ ClosingInv' /\ AdapterInv'
    BY DEF HandlerTypes, OpeningInv, ClosingInv, AdapterInv, OpeningPCs, ClosingPCs,
           dbVars, RolledBack
  <2> QED
    BY <2>1, <2>2, <2>3, <2>4, <2>5 DEF IInv
<1>3. CASE CloseCommit(h)
  <2> USE <1>3 DEF CloseCommit
  <2>1. HandlerTypes' /\ ExchangeTypes' /\ SwitchTypes'
    BY DEF HandlerTypes, ExchangeTypes, exchangeVars, SwitchTypes, switchVars
  <2>2. DbTypes'
    <3>1. Target(h) \in RowIds /\ row[Target(h)] \in RowSet
      BY TargetStored DEF ClosingPCs
    <3>2. [row[Target(h)] EXCEPT !.status = "CLOSED"] \in RowSet
      BY <3>1, RowUpdates
    <3>3. row' = [row EXCEPT ![Target(h)] = [row[Target(h)] EXCEPT !.status = "CLOSED"]]
      BY <3>1 DEF DbTypes
    <3>4. Trade(h) \in [pos : RowIds, by : Handlers, mode : {"LIVE", "MOCK"}]
      BY <3>1 DEF Trade, HandlerTypes, AdapterInv, ClosingPCs
    <3> QED
      BY <3>1, <3>2, <3>3, <3>4 DEF DbTypes
  <2>3. OpeningInv' /\ ClosingInv' /\ AdapterInv'
    <3>1. Target(h) \in RowIds /\ row[Target(h)] \in RowSet
      BY TargetStored DEF ClosingPCs
    <3>2. \A r \in RowIds : row[r] # NoRow => row'[r] # NoRow
      <4>1. [row[Target(h)] EXCEPT !.status = "CLOSED"] \in RowSet
        BY <3>1, RowUpdates
      <4> QED
        BY <3>1, <4>1, RowSetNoRow DEF DbTypes
    <3> QED
      BY <3>2 DEF HandlerTypes, OpeningInv, ClosingInv, AdapterInv, OpeningPCs, ClosingPCs, CloseRequests
  <2> QED
    BY <2>1, <2>2, <2>3 DEF IInv
<1>4. CASE EmergencyRead(h)
  <2> USE <1>4 DEF EmergencyRead
  <2>1. ExchangeTypes' /\ DbTypes' /\ SwitchTypes'
    BY DEF ExchangeTypes, exchangeVars, DbTypes, dbVars, SwitchTypes, switchVars
  <2>2. HandlerTypes'
    BY TargetStored DEF HandlerTypes, ExchangeTypes, Abs, RowSet, ClosingPCs
  <2>3. OpeningInv' /\ ClosingInv' /\ AdapterInv'
    BY DEF HandlerTypes, OpeningInv, ClosingInv, AdapterInv, OpeningPCs, ClosingPCs, dbVars
  <2> QED
    BY <2>1, <2>2, <2>3 DEF IInv
<1>5. CASE EmergencyFlat(h)
  <2> USE <1>5 DEF EmergencyFlat
  <2>1. HandlerTypes' /\ ExchangeTypes' /\ SwitchTypes'
    BY DEF HandlerTypes, ExchangeTypes, exchangeVars, SwitchTypes, switchVars
  <2>2. DbTypes'
    <3>1. Target(h) \in RowIds /\ row[Target(h)] \in RowSet
      BY TargetStored DEF ClosingPCs
    <3>2. [row[Target(h)] EXCEPT !.status = "CLOSED_UNKNOWN", !.tpsl = "UNKNOWN"] \in RowSet
      BY <3>1, RowUpdates
    <3>3. row' = [row EXCEPT ![Target(h)] = [row[Target(h)] EXCEPT !.status = "CLOSED_UNKNOWN", !.tpsl = "UNKNOWN"]]
      BY <3>1 DEF DbTypes
    <3> QED
      BY <3>1, <3>2, <3>3 DEF DbTypes, dbVars
  <2>3. OpeningInv' /\ ClosingInv' /\ AdapterInv'
    <3>1. Target(h) \in RowIds /\ row[Target(h)] \in RowSet
      BY TargetStored DEF ClosingPCs
    <3>2. \A r \in RowIds : row[r] # NoRow => row'[r] # NoRow
      <4>1. [row[Target(h)] EXCEPT !.status = "CLOSED_UNKNOWN", !.tpsl = "UNKNOWN"] \in RowSet
        BY <3>1, RowUpdates
      <4> QED
        BY <3>1, <4>1, RowSetNoRow DEF DbTypes
    <3> QED
      BY <3>2 DEF HandlerTypes, OpeningInv, ClosingInv, AdapterInv, OpeningPCs, ClosingPCs, CloseRequests
  <2> QED
    BY <2>1, <2>2, <2>3 DEF IInv
<1>6. CASE EmergencyCancel(h)
  <2> USE <1>6 DEF EmergencyCancel
  <2>1. DbTypes'
    BY DEF DbTypes, dbVars
  <2>2. HandlerTypes'
    BY DEF HandlerTypes, Landing
  <2>3. ExchangeTypes'
    BY DEF ExchangeTypes, exchangeVars, Landing
  <2>4. SwitchTypes'
    BY DEF SwitchTypes, switchVars, Landing
  <2>5. OpeningInv' /\ ClosingInv' /\ AdapterInv'
    BY DEF HandlerTypes, OpeningInv, ClosingInv, AdapterInv, OpeningPCs, ClosingPCs, dbVars
  <2> QED
    BY <2>1, <2>2, <2>3, <2>4, <2>5 DEF IInv
<1>7. CASE EmergencyCommit(h)
  <2> USE <1>7 DEF EmergencyCommit
  <2>1. HandlerTypes' /\ ExchangeTypes' /\ SwitchTypes'
    BY DEF HandlerTypes, ExchangeTypes, exchangeVars, SwitchTypes, switchVars
  <2>2. DbTypes'
    <3>1. Target(h) \in RowIds /\ row[Target(h)] \in RowSet
      BY TargetStored DEF ClosingPCs
    <3>2. [row[Target(h)] EXCEPT !.status = "CLOSED", !.tpsl = "SYNCED"] \in RowSet
      BY <3>1, RowUpdates
    <3>3. row' = [row EXCEPT ![Target(h)] = [row[Target(h)] EXCEPT !.status = "CLOSED", !.tpsl = "SYNCED"]]
      BY <3>1 DEF DbTypes
    <3>4. Trade(h) \in [pos : RowIds, by : Handlers, mode : {"LIVE", "MOCK"}]
      BY <3>1 DEF Trade, HandlerTypes, AdapterInv, ClosingPCs
    <3> QED
      BY <3>1, <3>2, <3>3, <3>4 DEF DbTypes
  <2>3. OpeningInv' /\ ClosingInv' /\ AdapterInv'
    <3>1. Target(h) \in RowIds /\ row[Target(h)] \in RowSet
      BY TargetStored DEF ClosingPCs
    <3>2. \A r \in RowIds : row[r] # NoRow => row'[r] # NoRow
      <4>1. [row[Target(h)] EXCEPT !.status = "CLOSED", !.tpsl = "SYNCED"] \in RowSet
        BY <3>1, RowUpdates
      <4> QED
        BY <3>1, <4>1, RowSetNoRow DEF DbTypes
    <3> QED
      BY <3>2 DEF HandlerTypes, OpeningInv, ClosingInv, AdapterInv, OpeningPCs, ClosingPCs, CloseRequests
  <2> QED
    BY <2>1, <2>2, <2>3 DEF IInv
<1> QED
  BY <1>1, <1>2, <1>3, <1>4, <1>5, <1>6, <1>7

\* A handler takes a close or an emergency close.
LEMMA CloseRequestSteps ==
  ASSUME IInv, NEW h \in Handlers, NEW r \in RowIds,
         \/ CloseRequest(h, r) \/ EmergencyRequest(h, r)
  PROVE  IInv'
<1> USE DEF IInv, TypeOK, Goto, PCs, WritePCs, TerminalPCs
<1>1. CASE CloseRequest(h, r)
  <2> USE <1>1 DEF CloseRequest
  <2>1. ExchangeTypes' /\ DbTypes' /\ SwitchTypes'
    BY DEF ExchangeTypes, exchangeVars, DbTypes, dbVars, SwitchTypes, switchVars
  <2>2. HandlerTypes'
    BY DEF HandlerTypes, CloseRequests, RowSet, NoRow, IsOpen, DbTypes
  <2>3. OpeningInv' /\ ClosingInv' /\ AdapterInv'
    BY DEF HandlerTypes, OpeningInv, ClosingInv, AdapterInv, OpeningPCs, ClosingPCs,
           dbVars, CloseRequests, RowSet, NoRow, IsOpen, DbTypes
  <2> QED
    BY <2>1, <2>2, <2>3 DEF IInv
<1>2. CASE EmergencyRequest(h, r)
  <2> USE <1>2 DEF EmergencyRequest
  <2>1. ExchangeTypes' /\ DbTypes' /\ SwitchTypes'
    BY DEF ExchangeTypes, exchangeVars, DbTypes, dbVars, SwitchTypes, switchVars
  <2>2. HandlerTypes'
    BY DEF HandlerTypes, CloseRequests, RowSet, NoRow, IsOpen, DbTypes
  <2>3. OpeningInv' /\ ClosingInv' /\ AdapterInv'
    BY DEF HandlerTypes, OpeningInv, ClosingInv, AdapterInv, OpeningPCs, ClosingPCs,
           dbVars, CloseRequests, RowSet, NoRow, IsOpen, DbTypes
  <2> QED
    BY <2>1, <2>2, <2>3 DEF IInv
<1> QED
  BY <1>1, <1>2

\* A handler aborts, or the exchange fills its resting order.
LEMMA FaultSteps ==
  ASSUME IInv, NEW h \in Handlers,
         \/ Aborted(h) \/ RestingFills(h)
  PROVE  IInv'
<1> USE DEF IInv, TypeOK, Goto, PCs, WritePCs, TerminalPCs
<1>1. CASE Aborted(h)
  <2> USE <1>1 DEF Aborted
  <2>1. DbTypes'
    BY DEF DbTypes, dbVars
  <2>2. HandlerTypes'
    BY DEF HandlerTypes, Landing
  <2>3. ExchangeTypes'
    BY AcceptTyped, ExecuteTyped DEF ExchangeTypes, exchangeVars, OpeningInv, OpeningPCs,
           ClosingPCs
  <2>4. SwitchTypes'
    BY DEF SwitchTypes, switchVars, Landing
  <2>5. OpeningInv' /\ ClosingInv' /\ AdapterInv'
    BY DEF HandlerTypes, OpeningInv, ClosingInv, AdapterInv, OpeningPCs, ClosingPCs, dbVars
  <2> QED
    BY <2>1, <2>2, <2>3, <2>4, <2>5 DEF IInv
<1>2. CASE RestingFills(h)
  <2> USE <1>2 DEF RestingFills
  <2>1. DbTypes' /\ SwitchTypes'
    BY DEF DbTypes, dbVars, SwitchTypes, switchVars
  <2>2. HandlerTypes'
    BY DEF HandlerTypes, handlerVars
  <2>3. ExchangeTypes'
    <3>1. Sign(req[h].side) \in Int
      BY DEF Sign
    <3>2. \A s \in Symbols : exch[s] \in Int
      BY DEF ExchangeTypes
    <3>3. CASE req[h].sym \in Symbols
      BY <3>1, <3>2, <3>3 DEF ExchangeTypes
    <3>4. CASE req[h].sym \notin Symbols
      BY <3>4 DEF ExchangeTypes
    <3> QED
      BY <3>3, <3>4 DEF ExchangeTypes
  <2>4. OpeningInv' /\ ClosingInv' /\ AdapterInv'
    BY DEF HandlerTypes, OpeningInv, ClosingInv, AdapterInv, OpeningPCs, ClosingPCs,
           dbVars, handlerVars
  <2> QED
    BY <2>1, <2>2, <2>3, <2>4 DEF IInv
<1> QED
  BY <1>1, <1>2

\* The exchange on its own: a protective order triggers, or lapses.
LEMMA ExchangeSteps ==
  ASSUME IInv, NEW s \in Symbols,
         \/ LegTriggers(s) \/ LegsExpire(s)
  PROVE  IInv'
<1> USE DEF IInv, TypeOK, Goto, PCs, WritePCs, TerminalPCs
<1>1. CASE LegTriggers(s)
  <2> USE <1>1 DEF LegTriggers
  <2>1. DbTypes' /\ SwitchTypes'
    BY DEF DbTypes, dbVars, SwitchTypes, switchVars
  <2>2. HandlerTypes'
    BY DEF HandlerTypes, handlerVars
  <2>3. ExchangeTypes'
    BY DEF ExchangeTypes, exchangeVars, Reducible, Reduced, Sign, Abs
  <2>4. OpeningInv' /\ ClosingInv' /\ AdapterInv'
    BY DEF HandlerTypes, OpeningInv, ClosingInv, AdapterInv, OpeningPCs, ClosingPCs,
           dbVars, handlerVars
  <2> QED
    BY <2>1, <2>2, <2>3, <2>4 DEF IInv
<1>2. CASE LegsExpire(s)
  <2> USE <1>2 DEF LegsExpire
  <2>1. ExchangeTypes' /\ DbTypes' /\ SwitchTypes'
    BY DEF ExchangeTypes, exchangeVars, DbTypes, dbVars, SwitchTypes, switchVars
  <2>2. HandlerTypes'
    BY DEF HandlerTypes, handlerVars
  <2>3. OpeningInv' /\ ClosingInv' /\ AdapterInv'
    BY DEF HandlerTypes, OpeningInv, ClosingInv, AdapterInv, OpeningPCs, ClosingPCs,
           dbVars, handlerVars
  <2> QED
    BY <2>1, <2>2, <2>3 DEF IInv
<1> QED
  BY <1>1, <1>2

\* The switches.
LEMMA SwitchSteps ==
  ASSUME IInv, ToggleKill \/ ToggleGate
  PROVE  IInv'
<1> USE DEF IInv, TypeOK, ToggleKill, ToggleGate, handlerVars
<1>1. HandlerTypes' /\ ExchangeTypes' /\ DbTypes'
  BY DEF HandlerTypes, ExchangeTypes, exchangeVars, DbTypes, dbVars
<1>2. SwitchTypes'
  <2>1. kill' \in BOOLEAN /\ gate' \in BOOLEAN
    BY DEF SwitchTypes
  <2>2. late' \in [Handlers -> Nat]
    BY DEF SwitchTypes
  <2> QED
    BY <2>1, <2>2 DEF SwitchTypes
<1>3. OpeningInv' /\ ClosingInv' /\ AdapterInv'
  BY DEF OpeningInv, ClosingInv, AdapterInv, dbVars
<1> QED
  BY <1>1, <1>2, <1>3

-----------------------------------------------------------------------------
LEMMA NextIInv == IInv /\ [Next]_vars => IInv'
<1> SUFFICES ASSUME IInv, [Next]_vars PROVE IInv'
  OBVIOUS
<1>1. CASE UNCHANGED vars
  BY <1>1 DEF vars, handlerVars, exchangeVars, dbVars, switchVars, IInv, TypeOK, HandlerTypes,
              ExchangeTypes, DbTypes, SwitchTypes, OpeningInv, ClosingInv, AdapterInv
<1>2. ASSUME NEW h \in Handlers, Request(h) PROVE IInv'
  BY <1>2, EntrySteps, CloseRequestSteps DEF Request
<1>3. ASSUME NEW h \in Handlers, HandlerStep(h) PROVE IInv'
  BY <1>3, EntrySteps, ProtectSteps, CloseSteps DEF HandlerStep
<1>4. CASE Environment
  <2>1. ASSUME NEW h \in Handlers, Aborted(h) \/ RestingFills(h) PROVE IInv'
    BY <2>1, FaultSteps
  <2>2. ASSUME NEW s \in Symbols, LegTriggers(s) \/ LegsExpire(s) PROVE IInv'
    BY <2>2, ExchangeSteps
  <2> QED
    BY <1>4, <2>1, <2>2, SwitchSteps DEF Environment
<1> QED
  BY <1>1, <1>2, <1>3, <1>4 DEF Next

\* Type correctness, for any constants.
THEOREM TypeCorrect == Spec => []TypeOK
<1>1. IInv => TypeOK
  BY DEF IInv
<1> QED
  BY InitIInv, NextIInv, <1>1, PTL DEF Spec

-----------------------------------------------------------------------------
(* Safety: the phases of a request, the exchange and the rows agree.       *)

\* A request on the wire was sent by a live adapter in one of its write phases; in
\* the protection phase that is before the legs are settled.
WireInv ==
    \A h \in wire :
        /\ adapter[h] = "LIVE" /\ pc[h] \in WritePCs
        /\ pc[h] = "protect" => h \notin unsafe /\ placed[h] # req[h].legs

\* An entry is on the exchange only after its entry phase, a closing request has
\* none, and a request that
\* reached the protection phase has a live order exactly when its adapter is live.
LandedInv ==
    \A h \in Handlers :
        /\ pc[h] \in {"idle", "resolve", "entry"} \cup ClosingPCs => h \notin landed
        /\ pc[h] = "lookup" => adapter[h] = "LIVE"
        /\ pc[h] = "protect" => (adapter[h] = "LIVE" <=> h \in landed)

\* A handler that serves nothing yet has no request.
IdleInv == \A h \in Handlers : pc[h] = "idle" => req[h] = NoRequest

\* Only a finished request has stored its row.
BookedInv == \A h \in Handlers : row[h] # NoRow => pc[h] = "done"

\* A live close that is about to be booked was executed.
ExecutedInv ==
    \A h \in Handlers :
        pc[h] \in {"close_commit", "em_commit"} /\ adapter[h] = "LIVE" => h \in executed

\* With the gate shut, a handler with a request on the wire has had none executed.
LateInv == ~gate => \A h \in Handlers : late[h] <= 1 /\ (h \in wire => late[h] = 0)

SInv == /\ IInv /\ WireInv /\ LandedInv /\ IdleInv /\ BookedInv
        /\ RowTellsTheTruth /\ ExecutedInv /\ LiveTradesAreReal /\ LateInv

-----------------------------------------------------------------------------
\* As long as a leg is next, the legs are not all placed.
LEMMA NextLegsLeft == \A h : NextLegs(h) # {} => placed[h] # req[h].legs
  BY DEF NextLegs

\* RowTellsTheTruth reads nothing of a handler that has not stored its row.
LEMMA TruthFrame ==
  ASSUME RowTellsTheTruth, row' = row,
         \A k \in Handlers : row[k] # NoRow =>
             placed'[k] = placed[k] /\ req'[k] = req[k] /\ (k \in landed' <=> k \in landed)
  PROVE  RowTellsTheTruth'
  BY DEF RowTellsTheTruth

\* Booking a close neither stores nor deletes a row: it ends its target, whose
\* symbol, side, mode and review flag it keeps.
LEMMA RowsClose ==
  ASSUME IInv, NEW h \in Handlers, CloseCommit(h) \/ EmergencyFlat(h) \/ EmergencyCommit(h)
  PROVE  \A r \in RowIds :
           /\ row'[r] # NoRow <=> row[r] # NoRow
           /\ row[r] # NoRow => /\ row'[r].mode = row[r].mode /\ row'[r].review = row[r].review
                                /\ row'[r].sym = row[r].sym /\ row'[r].side = row[r].side
                                /\ row'[r].tpsl = "UNSAFE" => row[r].tpsl = "UNSAFE"
                                /\ row'[r] = row[r] \/ row'[r].status \in {"CLOSED", "CLOSED_UNKNOWN"}
           /\ r # Target(h) => row'[r] = row[r]
<1>1. Target(h) \in RowIds /\ row[Target(h)] \in RowSet /\ row[Target(h)] # NoRow
  BY TargetStored DEF ClosingPCs, CloseCommit, EmergencyFlat, EmergencyCommit
<1>2. PICK t \in RowSet :
        /\ row' = [row EXCEPT ![Target(h)] = t]
        /\ t.mode = row[Target(h)].mode /\ t.review = row[Target(h)].review
        /\ t.sym = row[Target(h)].sym /\ t.side = row[Target(h)].side
        /\ t.tpsl = "UNSAFE" => row[Target(h)].tpsl = "UNSAFE"
        /\ t.status \in {"CLOSED", "CLOSED_UNKNOWN"}
  <2> DEFINE u == row[Target(h)]
  <2>0. row \in [RowIds -> {NoRow} \cup RowSet] /\ u \in RowSet
    BY <1>1 DEF IInv, TypeOK, DbTypes
  <2>1. CASE CloseCommit(h)
    <3>1. [u EXCEPT !.status = "CLOSED"] \in RowSet
      BY <2>0, RowUpdates
    <3>2. row' = [row EXCEPT ![Target(h)] = [u EXCEPT !.status = "CLOSED"]]
      BY <2>1, <2>0, <1>1 DEF CloseCommit
    <3> QED
      BY <3>1, <3>2, <2>0 DEF RowSet
  <2>2. CASE EmergencyFlat(h)
    <3>1. [u EXCEPT !.status = "CLOSED_UNKNOWN", !.tpsl = "UNKNOWN"] \in RowSet
      BY <2>0, RowUpdates
    <3>2. row' = [row EXCEPT ![Target(h)] =
                     [u EXCEPT !.status = "CLOSED_UNKNOWN", !.tpsl = "UNKNOWN"]]
      BY <2>2, <2>0, <1>1 DEF EmergencyFlat
    <3> QED
      BY <3>1, <3>2, <2>0 DEF RowSet
  <2>3. CASE EmergencyCommit(h)
    <3>1. [u EXCEPT !.status = "CLOSED", !.tpsl = "SYNCED"] \in RowSet
      BY <2>0, RowUpdates
    <3>2. row' = [row EXCEPT ![Target(h)] = [u EXCEPT !.status = "CLOSED", !.tpsl = "SYNCED"]]
      BY <2>3, <2>0, <1>1 DEF EmergencyCommit
    <3> QED
      BY <3>1, <3>2, <2>0 DEF RowSet
  <2> QED
    BY <2>1, <2>2, <2>3
<1> QED
  BY <1>1, <1>2, RowSetNoRow DEF IInv, TypeOK, DbTypes

\* Booking a close keeps every row true to its request.
LEMMA TruthOfClose ==
  ASSUME IInv, RowTellsTheTruth, UNCHANGED <<placed, req, landed>>,
         NEW h \in Handlers, CloseCommit(h) \/ EmergencyFlat(h) \/ EmergencyCommit(h)
  PROVE  RowTellsTheTruth'
<1> SUFFICES ASSUME NEW k \in Handlers, row'[k] # NoRow
             PROVE  /\ row'[k].status = "OPEN" /\ row'[k].tpsl = "SYNCED" => placed[k] = req[k].legs
                    /\ row'[k].tpsl = "UNSAFE" => row'[k].review
                    /\ placed[k] # req[k].legs => row'[k].review
                    /\ row'[k].mode = "LIVE" <=> k \in landed
  BY DEF RowTellsTheTruth
<1>1. row[k] # NoRow
  BY RowsClose, RowsAssumption
<1>2. /\ row'[k].mode = row[k].mode /\ row'[k].review = row[k].review
      /\ row'[k].tpsl = "UNSAFE" => row[k].tpsl = "UNSAFE"
      /\ row'[k] = row[k] \/ row'[k].status \in {"CLOSED", "CLOSED_UNKNOWN"}
  BY <1>1, RowsClose, RowsAssumption
<1>3. /\ row[k].status = "OPEN" /\ row[k].tpsl = "SYNCED" => placed[k] = req[k].legs
      /\ row[k].tpsl = "UNSAFE" => row[k].review
      /\ placed[k] # req[k].legs => row[k].review
      /\ row[k].mode = "LIVE" <=> k \in landed
  BY <1>1 DEF RowTellsTheTruth
<1> QED
  BY <1>2, <1>3

-----------------------------------------------------------------------------
(* One lemma per group of actions: each keeps the safety invariant.        *)

\* A handler takes a request or resolves its adapter.
LEMMA RequestSafe ==
  ASSUME SInv, IInv', NEW h \in Handlers, NEW r \in RowIds,
         \/ OpenRequest(h) \/ OpenResolve(h) \/ CloseRequest(h, r) \/ EmergencyRequest(h, r)
  PROVE  SInv'
<1> USE DEF SInv, IInv, TypeOK, Goto
<1>1. CASE OpenRequest(h)
  <2> USE <1>1 DEF OpenRequest
  <2>1. LiveTradesAreReal' /\ LateInv'
    BY DEF LiveTradesAreReal, LateInv, exchangeVars, dbVars, switchVars
  <2>2. WireInv'
    BY DEF WireInv, HandlerTypes, WritePCs
  <2>3. LandedInv'
    BY DEF LandedInv, exchangeVars, HandlerTypes, ClosingPCs
  <2>4. IdleInv'
    BY DEF IdleInv, HandlerTypes
  <2>5. BookedInv'
    BY DEF BookedInv, dbVars, HandlerTypes
  <2>6. RowTellsTheTruth'
    BY TruthFrame DEF RowTellsTheTruth, exchangeVars, dbVars, HandlerTypes, BookedInv
  <2>7. ExecutedInv'
    BY DEF ExecutedInv, exchangeVars, HandlerTypes
  <2> QED
    BY <2>1, <2>2, <2>3, <2>4, <2>5, <2>6, <2>7
<1>2. CASE OpenResolve(h)
  <2> USE <1>2 DEF OpenResolve
  <2>1. LiveTradesAreReal' /\ LateInv'
    BY DEF LiveTradesAreReal, LateInv, exchangeVars, dbVars, switchVars
  <2>2. WireInv'
    BY DEF WireInv, HandlerTypes, WritePCs
  <2>3. LandedInv'
    BY DEF LandedInv, exchangeVars, HandlerTypes, ClosingPCs
  <2>4. IdleInv'
    BY DEF IdleInv, HandlerTypes
  <2>5. BookedInv'
    BY DEF BookedInv, dbVars, HandlerTypes
  <2>6. RowTellsTheTruth'
    BY TruthFrame DEF RowTellsTheTruth, exchangeVars, dbVars, BookedInv
  <2>7. ExecutedInv'
    BY DEF ExecutedInv, exchangeVars, HandlerTypes
  <2> QED
    BY <2>1, <2>2, <2>3, <2>4, <2>5, <2>6, <2>7
<1>3. CASE CloseRequest(h, r)
  <2> USE <1>3 DEF CloseRequest
  <2>1. LiveTradesAreReal' /\ LateInv'
    BY DEF LiveTradesAreReal, LateInv, exchangeVars, dbVars, switchVars
  <2>2. WireInv'
    BY DEF WireInv, HandlerTypes, WritePCs
  <2>3. LandedInv'
    BY DEF LandedInv, exchangeVars, HandlerTypes, ClosingPCs
  <2>4. IdleInv'
    BY DEF IdleInv, HandlerTypes
  <2>5. BookedInv'
    BY DEF BookedInv, dbVars, HandlerTypes
  <2>6. RowTellsTheTruth'
    BY TruthFrame DEF RowTellsTheTruth, exchangeVars, dbVars, HandlerTypes, BookedInv
  <2>7. ExecutedInv'
    BY DEF ExecutedInv, exchangeVars, HandlerTypes
  <2> QED
    BY <2>1, <2>2, <2>3, <2>4, <2>5, <2>6, <2>7
<1>4. CASE EmergencyRequest(h, r)
  <2> USE <1>4 DEF EmergencyRequest
  <2>1. LiveTradesAreReal' /\ LateInv'
    BY DEF LiveTradesAreReal, LateInv, exchangeVars, dbVars, switchVars
  <2>2. WireInv'
    BY DEF WireInv, HandlerTypes, WritePCs
  <2>3. LandedInv'
    BY DEF LandedInv, exchangeVars, HandlerTypes, ClosingPCs
  <2>4. IdleInv'
    BY DEF IdleInv, HandlerTypes
  <2>5. BookedInv'
    BY DEF BookedInv, dbVars, HandlerTypes
  <2>6. RowTellsTheTruth'
    BY TruthFrame DEF RowTellsTheTruth, exchangeVars, dbVars, HandlerTypes, BookedInv
  <2>7. ExecutedInv'
    BY DEF ExecutedInv, exchangeVars, HandlerTypes
  <2> QED
    BY <2>1, <2>2, <2>3, <2>4, <2>5, <2>6, <2>7
<1> QED
  BY <1>1, <1>2, <1>3, <1>4

\* The entry order and its lookup after a timeout.
LEMMA EntrySafe ==
  ASSUME SInv, IInv', NEW h \in Handlers,
         \/ Send(h) \/ EntryAccepted(h) \/ EntryRejected(h) \/ EntryTimesOut(h)
         \/ LookupFinds(h) \/ LookupMisses(h)
  PROVE  SInv'
<1> USE DEF SInv, IInv, TypeOK, Goto
<1>1. CASE Send(h)
  <2> USE <1>1 DEF Send
  <2>1. LandedInv' /\ IdleInv' /\ BookedInv' /\ RowTellsTheTruth' /\ ExecutedInv' /\ LiveTradesAreReal'
    BY DEF LandedInv, IdleInv, BookedInv, RowTellsTheTruth, ExecutedInv, LiveTradesAreReal,
           exchangeVars, dbVars
  <2>2. WireInv'
    BY NextLegsLeft DEF WireInv, HandlerTypes, WritePCs
  <2>3. LateInv'
    BY DEF LateInv, switchVars, HandlerTypes, GuardPasses
  <2> QED
    BY <2>1, <2>2, <2>3
<1>2. CASE EntryAccepted(h)
  <2> USE <1>2 DEF EntryAccepted
  <2>1. LiveTradesAreReal'
    BY DEF LiveTradesAreReal, AcceptEntry, exchangeVars, dbVars
  <2>2. WireInv'
    BY DEF WireInv, Landing, HandlerTypes, WritePCs
  <2>3. LandedInv'
    BY DEF LandedInv, AcceptEntry, exchangeVars, HandlerTypes, ClosingPCs, WireInv
  <2>4. IdleInv'
    BY DEF IdleInv, HandlerTypes
  <2>5. BookedInv'
    BY DEF BookedInv, dbVars, HandlerTypes
  <2>6. RowTellsTheTruth'
    BY TruthFrame DEF RowTellsTheTruth, AcceptEntry, exchangeVars, dbVars, BookedInv
  <2>7. ExecutedInv'
    BY DEF ExecutedInv, AcceptEntry, exchangeVars, HandlerTypes
  <2>8. LateInv'
    BY DEF LateInv, Landing, HandlerTypes, SwitchTypes
  <2> QED
    BY <2>1, <2>2, <2>3, <2>4, <2>5, <2>6, <2>7, <2>8
<1>3. CASE EntryRejected(h)
  <2> USE <1>3 DEF EntryRejected
  <2>1. RowTellsTheTruth' /\ LiveTradesAreReal'
    BY DEF RowTellsTheTruth, LiveTradesAreReal, exchangeVars, dbVars
  <2>2. WireInv'
    BY DEF WireInv, HandlerTypes, WritePCs
  <2>3. LandedInv'
    BY DEF LandedInv, exchangeVars, HandlerTypes, ClosingPCs
  <2>4. IdleInv'
    BY DEF IdleInv, HandlerTypes
  <2>5. BookedInv'
    BY DEF BookedInv, dbVars, HandlerTypes
  <2>6. ExecutedInv'
    BY DEF ExecutedInv, exchangeVars, HandlerTypes
  <2>7. LateInv'
    BY DEF LateInv, switchVars, HandlerTypes
  <2> QED
    BY <2>1, <2>2, <2>3, <2>4, <2>5, <2>6, <2>7
<1>4. CASE EntryTimesOut(h)
  <2> USE <1>4 DEF EntryTimesOut
  <2>1. LiveTradesAreReal'
    BY DEF LiveTradesAreReal, AcceptEntry, exchangeVars, dbVars
  <2>2. WireInv'
    BY DEF WireInv, Landing, HandlerTypes, WritePCs
  <2>3. LandedInv'
    BY DEF LandedInv, AcceptEntry, exchangeVars, HandlerTypes, ClosingPCs, WireInv
  <2>4. IdleInv'
    BY DEF IdleInv, HandlerTypes
  <2>5. BookedInv'
    BY DEF BookedInv, dbVars, HandlerTypes
  <2>6. RowTellsTheTruth'
    BY TruthFrame DEF RowTellsTheTruth, AcceptEntry, exchangeVars, dbVars, BookedInv
  <2>7. ExecutedInv'
    BY DEF ExecutedInv, AcceptEntry, exchangeVars, HandlerTypes
  <2>8. LateInv'
    BY DEF LateInv, Landing, HandlerTypes, SwitchTypes
  <2> QED
    BY <2>1, <2>2, <2>3, <2>4, <2>5, <2>6, <2>7, <2>8
<1>5. CASE LookupFinds(h)
  <2> USE <1>5 DEF LookupFinds
  <2>1. RowTellsTheTruth' /\ LiveTradesAreReal' /\ LateInv'
    BY DEF RowTellsTheTruth, LiveTradesAreReal, LateInv, exchangeVars, dbVars, switchVars
  <2>2. WireInv'
    BY DEF WireInv, HandlerTypes, WritePCs
  <2>3. LandedInv'
    BY DEF LandedInv, exchangeVars, HandlerTypes, ClosingPCs
  <2>4. IdleInv'
    BY DEF IdleInv, HandlerTypes
  <2>5. BookedInv'
    BY DEF BookedInv, dbVars, HandlerTypes
  <2>6. ExecutedInv'
    BY DEF ExecutedInv, exchangeVars, HandlerTypes
  <2> QED
    BY <2>1, <2>2, <2>3, <2>4, <2>5, <2>6
<1>6. CASE LookupMisses(h)
  <2> USE <1>6 DEF LookupMisses
  <2>1. RowTellsTheTruth' /\ LiveTradesAreReal' /\ LateInv'
    BY DEF RowTellsTheTruth, LiveTradesAreReal, LateInv, exchangeVars, dbVars, switchVars
  <2>2. WireInv'
    BY DEF WireInv, HandlerTypes, WritePCs
  <2>3. LandedInv'
    BY DEF LandedInv, exchangeVars, HandlerTypes, ClosingPCs
  <2>4. IdleInv'
    BY DEF IdleInv, HandlerTypes
  <2>5. BookedInv'
    BY DEF BookedInv, dbVars, HandlerTypes
  <2>6. ExecutedInv'
    BY DEF ExecutedInv, exchangeVars, HandlerTypes
  <2> QED
    BY <2>1, <2>2, <2>3, <2>4, <2>5, <2>6
<1> QED
  BY <1>1, <1>2, <1>3, <1>4, <1>5, <1>6

\* The protective legs and the commit of the new row.
LEMMA ProtectSafe ==
  ASSUME SInv, IInv', NEW h \in Handlers,
         \/ LegPlaced(h) \/ MockProtected(h) \/ LegFails(h) \/ OpenCommit(h)
  PROVE  SInv'
<1> USE DEF SInv, IInv, TypeOK, Goto
<1>1. CASE LegPlaced(h)
  <2> USE <1>1 DEF LegPlaced
  <2>1. LandedInv' /\ IdleInv' /\ BookedInv' /\ ExecutedInv' /\ LiveTradesAreReal'
    BY DEF LandedInv, IdleInv, BookedInv, ExecutedInv, LiveTradesAreReal, dbVars
  <2>2. WireInv'
    BY DEF WireInv, Landing, HandlerTypes, WritePCs
  <2>3. RowTellsTheTruth'
    BY TruthFrame DEF RowTellsTheTruth, dbVars, HandlerTypes, BookedInv
  <2>4. LateInv'
    BY DEF LateInv, Landing, HandlerTypes, SwitchTypes
  <2> QED
    BY <2>1, <2>2, <2>3, <2>4
<1>2. CASE MockProtected(h)
  <2> USE <1>2 DEF MockProtected
  <2>1. LandedInv' /\ IdleInv' /\ BookedInv' /\ ExecutedInv' /\ LiveTradesAreReal' /\ LateInv'
    BY DEF LandedInv, IdleInv, BookedInv, ExecutedInv, LiveTradesAreReal, LateInv,
           exchangeVars, dbVars, switchVars
  <2>2. WireInv'
    BY DEF WireInv, HandlerTypes
  <2>3. RowTellsTheTruth'
    BY TruthFrame DEF RowTellsTheTruth, exchangeVars, dbVars, HandlerTypes, BookedInv
  <2> QED
    BY <2>1, <2>2, <2>3
<1>3. CASE LegFails(h)
  <2> USE <1>3 DEF LegFails
  <2>1. LandedInv' /\ IdleInv' /\ BookedInv' /\ RowTellsTheTruth' /\ ExecutedInv' /\ LiveTradesAreReal'
    BY DEF LandedInv, IdleInv, BookedInv, RowTellsTheTruth, ExecutedInv, LiveTradesAreReal,
           dbVars
  <2>2. WireInv'
    BY DEF WireInv, Landing, HandlerTypes
  <2>3. LateInv'
    BY DEF LateInv, Landing, HandlerTypes, SwitchTypes
  <2> QED
    BY <2>1, <2>2, <2>3
<1>4. CASE OpenCommit(h)
  <2> USE <1>4 DEF OpenCommit
  <2>1. LiveTradesAreReal' /\ LateInv'
    BY DEF LiveTradesAreReal, LateInv, exchangeVars, switchVars
  <2>2. WireInv'
    BY DEF WireInv, HandlerTypes, WritePCs, ProtectionSettled
  <2>3. LandedInv'
    BY DEF LandedInv, exchangeVars, HandlerTypes, ClosingPCs
  <2>4. IdleInv'
    BY DEF IdleInv, HandlerTypes
  <2>5. BookedInv'
    BY DEF BookedInv, HandlerTypes
  <2>6. RowTellsTheTruth'
    BY RowsAssumption DEF RowTellsTheTruth, exchangeVars, NewRow, NoRow, DbTypes, LandedInv,
           ProtectionSettled
  <2>7. ExecutedInv'
    BY DEF ExecutedInv, exchangeVars, HandlerTypes
  <2> QED
    BY <2>1, <2>2, <2>3, <2>4, <2>5, <2>6, <2>7
<1> QED
  BY <1>1, <1>2, <1>3, <1>4

\* close_position and emergency_close_position.
LEMMA CloseSafe ==
  ASSUME SInv, IInv', NEW h \in Handlers,
         \/ CloseAccepted(h) \/ CloseFails(h) \/ CloseCommit(h) \/ EmergencyRead(h)
         \/ EmergencyFlat(h) \/ EmergencyCancel(h) \/ EmergencyCommit(h)
  PROVE  SInv'
<1> USE DEF SInv, IInv, TypeOK, Goto
<1>1. CASE CloseAccepted(h)
  <2> USE <1>1 DEF CloseAccepted
  <2>1. RowTellsTheTruth'
    BY DEF RowTellsTheTruth, ExecuteClose, exchangeVars, dbVars
  <2>2. WireInv'
    BY DEF WireInv, Landing, HandlerTypes, WritePCs
  <2>3. LandedInv'
    BY DEF LandedInv, ExecuteClose, exchangeVars, HandlerTypes, ClosingPCs
  <2>4. IdleInv'
    BY DEF IdleInv, HandlerTypes
  <2>5. BookedInv'
    BY DEF BookedInv, dbVars, HandlerTypes
  <2>6. ExecutedInv'
    BY DEF ExecutedInv, ExecuteClose, exchangeVars, HandlerTypes
  <2>7. LiveTradesAreReal'
    BY DEF LiveTradesAreReal, ExecuteClose, exchangeVars, dbVars
  <2>8. LateInv'
    BY DEF LateInv, Landing, HandlerTypes, SwitchTypes
  <2> QED
    BY <2>1, <2>2, <2>3, <2>4, <2>5, <2>6, <2>7, <2>8
<1>2. CASE CloseFails(h)
  <2> USE <1>2 DEF CloseFails
  <2>1. WireInv'
    BY DEF WireInv, Landing, HandlerTypes, WritePCs
  <2>2. LandedInv'
    BY DEF LandedInv, ExecuteClose, exchangeVars, HandlerTypes, ClosingPCs
  <2>3. IdleInv'
    BY DEF IdleInv, HandlerTypes
  <2>4. BookedInv'
    BY DEF BookedInv, RolledBack, HandlerTypes
  <2>5. RowTellsTheTruth'
    BY DEF RowTellsTheTruth, ExecuteClose, RolledBack, exchangeVars
  <2>6. ExecutedInv'
    BY DEF ExecutedInv, ExecuteClose, exchangeVars, HandlerTypes
  <2>7. LiveTradesAreReal'
    BY DEF LiveTradesAreReal, ExecuteClose, exchangeVars
  <2>8. LateInv'
    BY DEF LateInv, Landing, HandlerTypes, SwitchTypes
  <2> QED
    BY <2>1, <2>2, <2>3, <2>4, <2>5, <2>6, <2>7, <2>8
<1>3. CASE CloseCommit(h)
  <2> USE <1>3 DEF CloseCommit
  <2>1. LateInv'
    BY DEF LateInv, switchVars
  <2>2. WireInv'
    BY DEF WireInv, HandlerTypes, WritePCs
  <2>3. LandedInv'
    BY DEF LandedInv, exchangeVars, HandlerTypes, ClosingPCs
  <2>4. IdleInv'
    BY DEF IdleInv, HandlerTypes
  <2>5. BookedInv'
    <3>1. \A r \in RowIds : row'[r] # NoRow => row[r] # NoRow
      BY RowsClose
    <3> QED
      BY <3>1, RowsAssumption DEF BookedInv, HandlerTypes
  <2>6. RowTellsTheTruth'
    BY TruthOfClose DEF RowTellsTheTruth, exchangeVars
  <2>7. ExecutedInv'
    BY DEF ExecutedInv, exchangeVars, HandlerTypes
  <2>8. LiveTradesAreReal'
    BY DEF LiveTradesAreReal, exchangeVars, Trade, ExecutedInv
  <2> QED
    BY <2>1, <2>2, <2>3, <2>4, <2>5, <2>6, <2>7, <2>8
<1>4. CASE EmergencyRead(h)
  <2> USE <1>4 DEF EmergencyRead
  <2>1. RowTellsTheTruth' /\ LiveTradesAreReal' /\ LateInv'
    BY DEF RowTellsTheTruth, LiveTradesAreReal, LateInv, exchangeVars, dbVars, switchVars
  <2>2. WireInv'
    BY DEF WireInv, HandlerTypes, WritePCs
  <2>3. LandedInv'
    BY DEF LandedInv, exchangeVars, HandlerTypes, ClosingPCs
  <2>4. IdleInv'
    BY DEF IdleInv, HandlerTypes
  <2>5. BookedInv'
    BY DEF BookedInv, dbVars, HandlerTypes
  <2>6. ExecutedInv'
    BY DEF ExecutedInv, exchangeVars, HandlerTypes
  <2> QED
    BY <2>1, <2>2, <2>3, <2>4, <2>5, <2>6
<1>5. CASE EmergencyFlat(h)
  <2> USE <1>5 DEF EmergencyFlat
  <2>1. LiveTradesAreReal' /\ LateInv'
    BY DEF LiveTradesAreReal, LateInv, exchangeVars, switchVars
  <2>2. WireInv'
    BY DEF WireInv, HandlerTypes, WritePCs
  <2>3. LandedInv'
    BY DEF LandedInv, exchangeVars, HandlerTypes, ClosingPCs
  <2>4. IdleInv'
    BY DEF IdleInv, HandlerTypes
  <2>5. BookedInv'
    <3>1. \A r \in RowIds : row'[r] # NoRow => row[r] # NoRow
      BY RowsClose
    <3> QED
      BY <3>1, RowsAssumption DEF BookedInv, HandlerTypes
  <2>6. RowTellsTheTruth'
    BY TruthOfClose DEF RowTellsTheTruth, exchangeVars
  <2>7. ExecutedInv'
    BY DEF ExecutedInv, exchangeVars, HandlerTypes
  <2> QED
    BY <2>1, <2>2, <2>3, <2>4, <2>5, <2>6, <2>7
<1>6. CASE EmergencyCancel(h)
  <2> USE <1>6 DEF EmergencyCancel
  <2>1. RowTellsTheTruth' /\ LiveTradesAreReal'
    BY DEF RowTellsTheTruth, LiveTradesAreReal, dbVars
  <2>2. WireInv'
    BY DEF WireInv, Landing, HandlerTypes, WritePCs
  <2>3. LandedInv'
    BY DEF LandedInv, HandlerTypes, ClosingPCs
  <2>4. IdleInv'
    BY DEF IdleInv, HandlerTypes
  <2>5. BookedInv'
    BY DEF BookedInv, dbVars, HandlerTypes
  <2>6. ExecutedInv'
    BY DEF ExecutedInv, HandlerTypes
  <2>7. LateInv'
    BY DEF LateInv, Landing, HandlerTypes, SwitchTypes
  <2> QED
    BY <2>1, <2>2, <2>3, <2>4, <2>5, <2>6, <2>7
<1>7. CASE EmergencyCommit(h)
  <2> USE <1>7 DEF EmergencyCommit
  <2>1. LateInv'
    BY DEF LateInv, switchVars
  <2>2. WireInv'
    BY DEF WireInv, HandlerTypes, WritePCs
  <2>3. LandedInv'
    BY DEF LandedInv, exchangeVars, HandlerTypes, ClosingPCs
  <2>4. IdleInv'
    BY DEF IdleInv, HandlerTypes
  <2>5. BookedInv'
    <3>1. \A r \in RowIds : row'[r] # NoRow => row[r] # NoRow
      BY RowsClose
    <3> QED
      BY <3>1, RowsAssumption DEF BookedInv, HandlerTypes
  <2>6. RowTellsTheTruth'
    BY TruthOfClose DEF RowTellsTheTruth, exchangeVars
  <2>7. ExecutedInv'
    BY DEF ExecutedInv, exchangeVars, HandlerTypes
  <2>8. LiveTradesAreReal'
    BY DEF LiveTradesAreReal, exchangeVars, Trade, ExecutedInv
  <2> QED
    BY <2>1, <2>2, <2>3, <2>4, <2>5, <2>6, <2>7, <2>8
<1> QED
  BY <1>1, <1>2, <1>3, <1>4, <1>5, <1>6, <1>7

\* A handler aborts, or the exchange fills its resting order.
LEMMA FaultSafe ==
  ASSUME SInv, IInv', NEW h \in Handlers,
         \/ Aborted(h) \/ RestingFills(h)
  PROVE  SInv'
<1> USE DEF SInv, IInv, TypeOK, Goto
<1>1. CASE Aborted(h)
  <2> USE <1>1 DEF Aborted
  <2>1. WireInv'
    BY DEF WireInv, Landing, HandlerTypes, WritePCs
  <2>2. LandedInv'
    BY DEF LandedInv, AcceptEntry, ExecuteClose, exchangeVars, HandlerTypes, ClosingPCs
  <2>3. IdleInv'
    BY DEF IdleInv, HandlerTypes
  <2>4. BookedInv'
    BY DEF BookedInv, dbVars, HandlerTypes, Busy, TerminalPCs
  <2>5. RowTellsTheTruth'
    BY TruthFrame DEF RowTellsTheTruth, AcceptEntry, ExecuteClose, exchangeVars, dbVars,
           BookedInv, Busy, TerminalPCs
  <2>6. ExecutedInv'
    BY DEF ExecutedInv, AcceptEntry, ExecuteClose, exchangeVars, HandlerTypes
  <2>7. LiveTradesAreReal'
    BY DEF LiveTradesAreReal, AcceptEntry, ExecuteClose, exchangeVars, dbVars
  <2>8. LateInv'
    BY DEF LateInv, Landing, HandlerTypes, SwitchTypes
  <2> QED
    BY <2>1, <2>2, <2>3, <2>4, <2>5, <2>6, <2>7, <2>8
<1>2. CASE RestingFills(h)
  <2> USE <1>2 DEF RestingFills
  <2>1. WireInv' /\ LandedInv' /\ IdleInv' /\ BookedInv' /\ RowTellsTheTruth' /\ ExecutedInv' /\ LiveTradesAreReal' /\ LateInv'
    BY DEF WireInv, LandedInv, IdleInv, BookedInv, RowTellsTheTruth, ExecutedInv,
           LiveTradesAreReal, LateInv, handlerVars, dbVars, switchVars
  <2> QED
    BY <2>1
<1> QED
  BY <1>1, <1>2

\* The exchange on its own.
LEMMA ExchangeSafe ==
  ASSUME SInv, IInv', NEW s \in Symbols,
         \/ LegTriggers(s) \/ LegsExpire(s)
  PROVE  SInv'
<1> USE DEF SInv, IInv, TypeOK, Goto
<1>1. CASE LegTriggers(s)
  <2> USE <1>1 DEF LegTriggers
  <2>1. WireInv' /\ LandedInv' /\ IdleInv' /\ BookedInv' /\ RowTellsTheTruth' /\ ExecutedInv' /\ LiveTradesAreReal' /\ LateInv'
    BY DEF WireInv, LandedInv, IdleInv, BookedInv, RowTellsTheTruth, ExecutedInv,
           LiveTradesAreReal, LateInv, handlerVars, dbVars, switchVars
  <2> QED
    BY <2>1
<1>2. CASE LegsExpire(s)
  <2> USE <1>2 DEF LegsExpire
  <2>1. WireInv' /\ LandedInv' /\ IdleInv' /\ BookedInv' /\ RowTellsTheTruth' /\ ExecutedInv' /\ LiveTradesAreReal' /\ LateInv'
    BY DEF WireInv, LandedInv, IdleInv, BookedInv, RowTellsTheTruth, ExecutedInv,
           LiveTradesAreReal, LateInv, handlerVars, dbVars, switchVars
  <2> QED
    BY <2>1
<1> QED
  BY <1>1, <1>2

\* The switches.
LEMMA SwitchSafe ==
  ASSUME SInv, IInv',
         \/ ToggleKill \/ ToggleGate
  PROVE  SInv'
<1> USE DEF SInv, IInv, TypeOK, Goto
<1>1. CASE ToggleKill
  <2> USE <1>1 DEF ToggleKill
  <2>1. WireInv' /\ LandedInv' /\ IdleInv' /\ BookedInv' /\ RowTellsTheTruth' /\ ExecutedInv' /\ LiveTradesAreReal' /\ LateInv'
    BY DEF WireInv, LandedInv, IdleInv, BookedInv, RowTellsTheTruth, ExecutedInv,
           LiveTradesAreReal, LateInv, handlerVars, exchangeVars, dbVars
  <2> QED
    BY <2>1
<1>2. CASE ToggleGate
  <2> USE <1>2 DEF ToggleGate
  <2>1. WireInv' /\ LandedInv' /\ IdleInv' /\ BookedInv' /\ RowTellsTheTruth' /\ ExecutedInv' /\ LiveTradesAreReal'
    BY DEF WireInv, LandedInv, IdleInv, BookedInv, RowTellsTheTruth, ExecutedInv,
           LiveTradesAreReal, handlerVars, exchangeVars, dbVars
  <2>2. LateInv'
    BY DEF LateInv, handlerVars
  <2> QED
    BY <2>1, <2>2
<1> QED
  BY <1>1, <1>2

-----------------------------------------------------------------------------
LEMMA InitSInv == Init => SInv
<1> SUFFICES ASSUME Init PROVE SInv
  OBVIOUS
<1>1. WireInv /\ LandedInv /\ IdleInv /\ ExecutedInv /\ LiveTradesAreReal /\ LateInv
  BY DEF Init, WireInv, LandedInv, IdleInv, ExecutedInv, LiveTradesAreReal, LateInv, ClosingPCs
<1>2. BookedInv /\ RowTellsTheTruth
  BY RowsAssumption DEF Init, BookedInv, RowTellsTheTruth
<1> QED
  BY <1>1, <1>2, InitIInv DEF SInv

LEMMA NextSInv == SInv /\ [Next]_vars => SInv'
<1> SUFFICES ASSUME SInv, [Next]_vars PROVE SInv'
  OBVIOUS
<1>0. IInv'
  BY NextIInv DEF SInv
<1>1. CASE UNCHANGED vars
  BY <1>0, <1>1 DEF vars, handlerVars, exchangeVars, dbVars, switchVars, SInv, WireInv, LandedInv, IdleInv,
                    BookedInv, RowTellsTheTruth, ExecutedInv, LiveTradesAreReal, LateInv
<1>2. ASSUME NEW h \in Handlers, Request(h) PROVE SInv'
  <2>1. CASE OpenRequest(h)
    BY <1>0, <2>1, RequestSafe, RowsAssumption
  <2>2. CASE \E r \in RowIds : CloseRequest(h, r) \/ EmergencyRequest(h, r)
    BY <1>0, <2>2, RequestSafe
  <2> QED
    BY <1>2, <2>1, <2>2 DEF Request
<1>3. ASSUME NEW h \in Handlers, HandlerStep(h) PROVE SInv'
  <2>1. CASE OpenResolve(h)
    BY <1>0, <2>1, RequestSafe, RowsAssumption
  <2> QED
    BY <1>0, <1>3, <2>1, EntrySafe, ProtectSafe, CloseSafe DEF HandlerStep
<1>4. CASE Environment
  <2>1. ASSUME NEW h \in Handlers, Aborted(h) \/ RestingFills(h) PROVE SInv'
    BY <1>0, <2>1, FaultSafe
  <2>2. ASSUME NEW s \in Symbols, LegTriggers(s) \/ LegsExpire(s) PROVE SInv'
    BY <1>0, <2>2, ExchangeSafe
  <2> QED
    BY <1>0, <1>4, <2>1, <2>2, SwitchSafe DEF Environment
<1> QED
  BY <1>1, <1>2, <1>3, <1>4 DEF Next

LEMMA SafetyInvariant == Spec => []SInv
  BY InitSInv, NextSInv, PTL DEF Spec

\* A stored row never claims protection or an exchange order it does not have,
\* whatever aborts, lost lookups and gate moves happen (RowTellsTheTruth).
THEOREM RowsTellTheTruth == Spec => []RowTellsTheTruth
<1>1. SInv => RowTellsTheTruth
  BY DEF SInv
<1> QED
  BY SafetyInvariant, <1>1, PTL

\* No live trade is booked without an executed close order (LiveTradesAreReal).
THEOREM TradesAreReal == Spec => []LiveTradesAreReal
<1>1. SInv => LiveTradesAreReal
  BY DEF SInv
<1> QED
  BY SafetyInvariant, <1>1, PTL

\* At most one write of a handler is executed once the live gate is shut, however
\* often the gate moves (OneWriteAfterGateShut).
THEOREM GateStopsWrites == Spec => []OneWriteAfterGateShut
<1>1. SInv => OneWriteAfterGateShut
  BY DEF SInv, LateInv, OneWriteAfterGateShut
<1> QED
  BY SafetyInvariant, <1>1, PTL

-----------------------------------------------------------------------------
(* Which steps touch what.                                                   *)

\* Rows are written by the commit of an open, a close or an emergency close.
LEMMA RowWriters ==
  ASSUME [Next]_vars
  PROVE  \/ row' = row
         \/ \E h \in Handlers : \/ OpenCommit(h)
                                \/ CloseCommit(h) \/ EmergencyFlat(h) \/ EmergencyCommit(h)
<1> USE DEF dbVars, vars
<1>1. CASE UNCHANGED vars
  BY <1>1
<1>2. ASSUME NEW h \in Handlers, Request(h) PROVE row' = row
  BY <1>2 DEF Request, OpenRequest, CloseRequest, EmergencyRequest
<1>3. ASSUME NEW h \in Handlers, HandlerStep(h),
             ~(OpenCommit(h) \/ CloseCommit(h) \/ EmergencyFlat(h) \/ EmergencyCommit(h))
      PROVE  row' = row
  BY <1>3 DEF HandlerStep, Send, OpenResolve, EntryAccepted, EntryRejected, EntryTimesOut,
              LookupFinds, LookupMisses, LegPlaced, MockProtected, LegFails, CloseAccepted,
              CloseFails, RolledBack, EmergencyRead, EmergencyCancel
<1>4. CASE Environment
  BY <1>4 DEF Environment, Aborted, RestingFills, LegTriggers, LegsExpire, ToggleKill, ToggleGate
<1> QED
  BY <1>1, <1>2, <1>3, <1>4 DEF Next

\* A position of the exchange moves when an entry fills, a close order executes
\* or a protective order triggers.
LEMMA PositionMovers ==
  ASSUME [Next]_vars
  PROVE  \/ exch' = exch
         \/ \E h \in Handlers : \/ pc[h] = "entry" /\ AcceptEntry(h)
                                \/ pc[h] \in ClosingPCs /\ ExecuteClose(h)
                                \/ RestingFills(h)
         \/ \E s \in Symbols : LegTriggers(s)
<1> USE DEF exchangeVars, vars
<1>1. CASE UNCHANGED vars
  BY <1>1
<1>2. ASSUME NEW h \in Handlers, Request(h) PROVE exch' = exch
  BY <1>2 DEF Request, OpenRequest, CloseRequest, EmergencyRequest
<1>3. ASSUME NEW h \in Handlers, HandlerStep(h)
      PROVE  \/ exch' = exch
             \/ pc[h] = "entry" /\ AcceptEntry(h)
             \/ pc[h] \in ClosingPCs /\ ExecuteClose(h)
  <2>1. CASE EntryAccepted(h) \/ EntryTimesOut(h)
    BY <2>1 DEF EntryAccepted, EntryTimesOut
  <2>2. CASE CloseAccepted(h) \/ CloseFails(h)
    BY <2>2 DEF CloseAccepted, CloseFails, ClosingPCs
  <2>3. CASE ~(EntryAccepted(h) \/ EntryTimesOut(h) \/ CloseAccepted(h) \/ CloseFails(h))
    BY <1>3, <2>3 DEF HandlerStep, Send, OpenResolve, EntryRejected, LookupFinds, LookupMisses,
                      LegPlaced, MockProtected, LegFails, OpenCommit, CloseCommit,
                      EmergencyRead, EmergencyFlat, EmergencyCancel, EmergencyCommit
  <2> QED
    BY <2>1, <2>2, <2>3
<1>4. CASE Environment
  <2>1. ASSUME NEW h \in Handlers, Aborted(h)
        PROVE  \/ exch' = exch
               \/ pc[h] = "entry" /\ AcceptEntry(h)
               \/ pc[h] \in ClosingPCs /\ ExecuteClose(h)
    BY <2>1 DEF Aborted, ClosingPCs
  <2> QED
    BY <1>4, <2>1 DEF Environment, LegsExpire, ToggleKill, ToggleGate
<1> QED
  BY <1>1, <1>2, <1>3, <1>4 DEF Next

-----------------------------------------------------------------------------
(* Closed rows stay closed.                                                  *)

LEMMA ClosedRowsStep ==
  ASSUME SInv, [Next]_vars, NEW r \in RowIds, row[r] # NoRow
  PROVE  row'[r] # NoRow /\ (~IsOpen(r) => row'[r].status \notin {"OPEN", "RECOVERED"})
<1>1. CASE row' = row
  BY <1>1 DEF IsOpen
<1>2. ASSUME NEW h \in Handlers, OpenCommit(h)
      PROVE  row'[r] # NoRow /\ (~IsOpen(r) => row'[r].status \notin {"OPEN", "RECOVERED"})
  <2>1. row[h] = NoRow
    BY <1>2 DEF OpenCommit, SInv, BookedInv
  <2>2. row'[r] = row[r]
    BY <1>2, <2>1 DEF OpenCommit, SInv, IInv, TypeOK, DbTypes
  <2> QED
    BY <2>2 DEF IsOpen
<1>3. ASSUME NEW h \in Handlers, CloseCommit(h) \/ EmergencyFlat(h) \/ EmergencyCommit(h)
      PROVE  row'[r] # NoRow /\ (~IsOpen(r) => row'[r].status \notin {"OPEN", "RECOVERED"})
  <2>1. row'[r] # NoRow /\ (row'[r] = row[r] \/ row'[r].status \in {"CLOSED", "CLOSED_UNKNOWN"})
    BY <1>3, RowsClose DEF SInv
  <2> QED
    BY <2>1 DEF IsOpen
<1> QED
  BY <1>1, <1>2, <1>3, RowWriters

\* A terminal row of live_positions never opens again and no row is deleted, under
\* every interleaving and fault (ClosedRowsStayClosed).
THEOREM ClosedForGood == Spec => ClosedRowsStayClosed
<1> DEFINE Kept == \A r \in RowIds : row[r] # NoRow =>
              row'[r] # NoRow /\ (~IsOpen(r) => row'[r].status \notin {"OPEN", "RECOVERED"})
<1>1. SInv /\ [Next]_vars => [Kept]_vars
  <2> SUFFICES ASSUME SInv, [Next]_vars PROVE Kept
    OBVIOUS
  <2> QED
    BY ClosedRowsStep
<1> QED
  BY <1>1, SafetyInvariant, PTL DEF Spec, ClosedRowsStayClosed

-----------------------------------------------------------------------------
(* Closing orders only reduce.                                               *)

\* What is left of a position after a reduce-only execution: the same position,
\* or a smaller one on the same side.
LEMMA ReducedSmaller ==
  ASSUME NEW n \in Int, NEW q \in Nat, NEW d, Reducible(n, d)
  PROVE  \/ Reduced(n, d, q) = n
         \/ Abs(Reduced(n, d, q)) < Abs(n) /\ Reduced(n, d, q) * n >= 0
<1>1. CASE d = "LONG"
  <2>1. n > 0
    BY <1>1 DEF Reducible, Sign
  <2>2. Reduced(n, d, q) = IF q >= n THEN 0 ELSE n - q
    BY <1>1, <2>1 DEF Reduced, Sign, Abs
  <2>3. CASE q >= n
    BY <2>1, <2>2, <2>3 DEF Abs
  <2>4. CASE ~(q >= n)
    <3>1. n - q > 0 /\ n - q <= n
      BY <2>4
    <3>2. (n - q) * n >= 0
      BY <3>1, <2>1
    <3> QED
      BY <2>1, <2>2, <2>4, <3>1, <3>2 DEF Abs
  <2> QED
    BY <2>3, <2>4
<1>2. CASE d # "LONG"
  <2>1. n < 0
    BY <1>2 DEF Reducible, Sign
  <2>2. Reduced(n, d, q) = IF q >= -n THEN 0 ELSE n + q
    BY <1>2, <2>1 DEF Reduced, Sign, Abs
  <2>3. CASE q >= -n
    BY <2>1, <2>2, <2>3 DEF Abs
  <2>4. CASE ~(q >= -n)
    <3>1. n + q < 0 /\ n + q >= n
      BY <2>4
    <3>2. (n + q) * n >= 0
      BY <3>1, <2>1
    <3> QED
      BY <2>1, <2>2, <2>4, <3>1, <3>2 DEF Abs
  <2> QED
    BY <2>3, <2>4
<1> QED
  BY <1>1, <1>2

LEMMA ReduceStep ==
  ASSUME SInv, [Next]_vars, NEW s \in Symbols, exch'[s] # exch[s],
         landed' = landed, resting' = resting
  PROVE  Abs(exch'[s]) < Abs(exch[s]) /\ exch'[s] * exch[s] >= 0
<1>0. exch \in [Symbols -> Int]
  BY DEF SInv, IInv, TypeOK, ExchangeTypes
<1>1. ASSUME NEW h \in Handlers, pc[h] = "entry" /\ AcceptEntry(h) PROVE FALSE
  BY <1>1 DEF AcceptEntry, SInv, LandedInv
<1>2. ASSUME NEW h \in Handlers, RestingFills(h) PROVE FALSE
  BY <1>2 DEF RestingFills
<1>3. ASSUME NEW h \in Handlers, pc[h] \in ClosingPCs, ExecuteClose(h)
      PROVE  Abs(exch'[s]) < Abs(exch[s]) /\ exch'[s] * exch[s] >= 0
  <2> DEFINE t == row[Target(h)]
  <2>1. size[h] \in Nat /\ t.sym \in Symbols
    BY <1>3, TargetStored DEF SInv, IInv, TypeOK, HandlerTypes, RowSet
  <2>2. exch' = [exch EXCEPT ![t.sym] = Reduced(exch[t.sym], t.side, size[h])]
    BY <1>3 DEF ExecuteClose
  <2>3. s = t.sym /\ exch'[s] = Reduced(exch[s], t.side, size[h])
    BY <1>0, <2>1, <2>2
  <2> QED
    BY <1>0, <1>3, <2>1, <2>3, ReducedSmaller DEF ExecuteClose
<1>4. ASSUME NEW u \in Symbols, LegTriggers(u)
      PROVE  Abs(exch'[s]) < Abs(exch[s]) /\ exch'[s] * exch[s] >= 0
  <2>1. PICK o \in orders[u] :
          /\ Reducible(exch[u], o[1])
          /\ exch' = [exch EXCEPT ![u] = IF o[2] = "TRAIL" THEN Reduced(exch[u], o[1], 1) ELSE 0]
    BY <1>4 DEF LegTriggers
  <2>2. s = u
    BY <1>0, <2>1
  <2>3. CASE o[2] = "TRAIL"
    <3>1. exch'[s] = Reduced(exch[s], o[1], 1)
      BY <1>0, <2>1, <2>2, <2>3
    <3> QED
      BY <1>0, <2>1, <2>2, <3>1, ReducedSmaller
  <2>4. CASE o[2] # "TRAIL"
    <3>1. exch'[s] = 0
      BY <1>0, <2>1, <2>2, <2>4
    <3> QED
      BY <1>0, <3>1 DEF Abs
  <2> QED
    BY <2>3, <2>4
<1> QED
  BY <1>1, <1>2, <1>3, <1>4, PositionMovers

\* However closes, emergency closes and protective orders interleave, none of them
\* opens, enlarges or flips an exchange position (ClosesOnlyReduce).
THEOREM ClosesReduce == Spec => ClosesOnlyReduce
<1> DEFINE Reduces == \A s \in Symbols : exch'[s] # exch[s] =>
              \/ landed' # landed \/ resting' # resting
              \/ Abs(exch'[s]) < Abs(exch[s]) /\ exch'[s] * exch[s] >= 0
<1>1. SInv /\ [Next]_vars => [Reduces]_vars
  <2> SUFFICES ASSUME SInv, [Next]_vars PROVE Reduces
    OBVIOUS
  <2> QED
    BY ReduceStep
<1> QED
  BY <1>1, SafetyInvariant, PTL DEF Spec, ClosesOnlyReduce

-----------------------------------------------------------------------------
(* Without a fault, no accepted order is lost.                               *)

\* What the arguments below need of the phases of a request and of the rows it
\* stored; it does not depend on what the rows say of their protection.
BInv == IInv /\ WireInv /\ LandedInv /\ BookedInv

LEMMA BaseOfSafety == SInv => BInv
  BY DEF SInv, BInv

\* The phases of a request stay in step with the wire and the exchange.
LEMMA BaseStep ==
  ASSUME BInv, IInv', BookedInv', [Next]_vars
  PROVE  BInv'
<1> USE DEF BInv, IInv, TypeOK, HandlerTypes, Goto, exchangeVars, dbVars, switchVars, Landing
<1>1. CASE UNCHANGED vars
  BY <1>1 DEF vars, handlerVars, WireInv, LandedInv
<1>2. ASSUME NEW h \in Handlers, Request(h) PROVE WireInv' /\ LandedInv'
  <2>1. h \notin wire /\ h \notin landed
    BY <1>2 DEF WireInv, LandedInv, WritePCs, Request, OpenRequest, CloseRequest, EmergencyRequest
  <2>2. CASE OpenRequest(h)
    BY <2>1, <2>2 DEF OpenRequest, WireInv, LandedInv, WritePCs, ClosingPCs
  <2>3. CASE \E r \in RowIds : CloseRequest(h, r) \/ EmergencyRequest(h, r)
    BY <2>1, <2>3 DEF CloseRequest, EmergencyRequest, WireInv, LandedInv, WritePCs, ClosingPCs
  <2> QED
    BY <1>2, <2>2, <2>3 DEF Request
<1>3. ASSUME NEW h \in Handlers, HandlerStep(h) PROVE WireInv' /\ LandedInv'
  <2> USE DEF WireInv, LandedInv, WritePCs, ClosingPCs
  <2>1. CASE Send(h) \/ OpenResolve(h) \/ EntryRejected(h)
    BY <2>1, NextLegsLeft DEF Send, OpenResolve, EntryRejected
  <2>2. CASE EntryAccepted(h)
    BY <2>2 DEF EntryAccepted, AcceptEntry
  <2>3. CASE EntryTimesOut(h)
    BY <2>3 DEF EntryTimesOut, AcceptEntry
  <2>4. CASE LookupFinds(h) \/ LookupMisses(h)
    BY <2>4 DEF LookupFinds, LookupMisses
  <2>5. CASE LegPlaced(h) \/ MockProtected(h) \/ LegFails(h)
    BY <2>5 DEF LegPlaced, MockProtected, LegFails
  <2>6. CASE OpenCommit(h)
    BY <2>6 DEF OpenCommit, ProtectionSettled
  <2>7. CASE CloseAccepted(h) \/ CloseFails(h)
    BY <2>7 DEF CloseAccepted, CloseFails, ExecuteClose
  <2>8. CASE EmergencyRead(h) \/ EmergencyCancel(h)
    BY <2>8 DEF EmergencyRead, EmergencyCancel
  <2>9. CASE CloseCommit(h) \/ EmergencyFlat(h) \/ EmergencyCommit(h)
    BY <2>9 DEF CloseCommit, EmergencyFlat, EmergencyCommit
  <2> QED
    BY <1>3, <2>1, <2>2, <2>3, <2>4, <2>5, <2>6, <2>7, <2>8, <2>9 DEF HandlerStep
<1>4. CASE Environment
  <2> USE DEF WireInv, LandedInv, WritePCs, ClosingPCs, handlerVars
  <2>1. ASSUME NEW h \in Handlers, Aborted(h) PROVE WireInv' /\ LandedInv'
    BY <2>1 DEF Aborted, AcceptEntry, ExecuteClose, TerminalPCs
  <2>2. CASE ~\E h \in Handlers : Aborted(h)
    BY <1>4, <2>2 DEF Environment, RestingFills, LegTriggers, LegsExpire, ToggleKill, ToggleGate
  <2> QED
    BY <2>1, <2>2
<1> QED
  BY <1>1, <1>2, <1>3, <1>4 DEF Next

\* A stored row keeps its symbol, its side and its mode.
LEMMA RowKept ==
  ASSUME BInv, [Next]_vars, NEW k \in RowIds, row[k] # NoRow
  PROVE  /\ row'[k] # NoRow /\ row'[k].mode = row[k].mode
         /\ row'[k].sym = row[k].sym /\ row'[k].side = row[k].side
<1>1. ASSUME NEW h \in Handlers, OpenCommit(h) PROVE row'[k] = row[k]
  <2>1. k # h
    BY <1>1 DEF OpenCommit, BInv, BookedInv
  <2> QED
    BY <1>1, <2>1, RowsAssumption DEF OpenCommit, BInv, IInv, TypeOK, DbTypes
<1> QED
  BY <1>1, RowWriters, RowsClose DEF BInv

\* A step that is no fault: nobody dies, and the gate stays as it is.
Undisturbed == gate' = gate /\ \A h \in Handlers : pc'[h] = "dead" => pc[h] = "dead"

\* Without faults every step is one.
LEMMA FaultFree ==
  ASSUME Faults = {}, HandlerTypes, [Next]_vars
  PROVE  Undisturbed
<1> USE DEF switchVars, handlerVars, vars, Goto, HandlerTypes, Undisturbed
<1>1. ASSUME NEW h \in Handlers, Request(h) PROVE Undisturbed
  BY <1>1 DEF Request, OpenRequest, CloseRequest, EmergencyRequest
<1>2. ASSUME NEW h \in Handlers, HandlerStep(h) PROVE Undisturbed
  <2>1. CASE \/ Send(h) \/ OpenResolve(h) \/ EntryAccepted(h) \/ EntryRejected(h) \/ EntryTimesOut(h)
             \/ LookupFinds(h) \/ LookupMisses(h)
    BY <2>1 DEF Send, OpenResolve, EntryAccepted, EntryRejected, EntryTimesOut, LookupFinds, LookupMisses
  <2>2. CASE LegPlaced(h) \/ MockProtected(h) \/ LegFails(h) \/ OpenCommit(h)
    BY <2>2 DEF LegPlaced, MockProtected, LegFails, OpenCommit
  <2>3. CASE CloseAccepted(h) \/ CloseFails(h) \/ CloseCommit(h)
    BY <2>3 DEF CloseAccepted, CloseFails, CloseCommit
  <2>4. CASE EmergencyRead(h) \/ EmergencyFlat(h) \/ EmergencyCancel(h) \/ EmergencyCommit(h)
    BY <2>4 DEF EmergencyRead, EmergencyFlat, EmergencyCancel, EmergencyCommit
  <2> QED
    BY <1>2, <2>1, <2>2, <2>3, <2>4 DEF HandlerStep
<1>3. CASE Environment
  BY <1>3 DEF Environment, Aborted, RestingFills, LegTriggers, LegsExpire, ToggleKill, ToggleGate
<1> QED
  BY <1>1, <1>2, <1>3 DEF Next

\* Such a step of the environment neither ends a handler nor moves the gate.
LEMMA NobodyDies ==
  ASSUME Undisturbed, TypeOK
  PROVE  ~ToggleGate /\ \A h \in Handlers : ~Aborted(h)
<1>1. ~ToggleGate
  BY DEF Undisturbed, ToggleGate, TypeOK, SwitchTypes
<1>2. ASSUME NEW h \in Handlers, Aborted(h) PROVE FALSE
  BY <1>2 DEF Undisturbed, Aborted, Goto, Busy, TerminalPCs, TypeOK, HandlerTypes
<1> QED
  BY <1>1, <1>2

LEMMA FillStep ==
  ASSUME "lookup" \notin Faults, Undisturbed, BInv, gate, FillAccounted, [Next]_vars
  PROVE  FillAccounted' /\ gate'
<1>1. gate' /\ ~ToggleGate /\ \A h \in Handlers : ~Aborted(h)
  BY NobodyDies DEF BInv, IInv, Undisturbed
<1>2. SUFFICES ASSUME NEW k \in landed', ~Busy(k)'
               PROVE  row'[k] # NoRow /\ row'[k].mode = "LIVE"
  BY <1>1 DEF FillAccounted
<1> USE DEF BInv, IInv, TypeOK
<1>3. CASE k \in landed /\ row[k] # NoRow
  <2>1. k \in Handlers
    BY <1>3 DEF ExchangeTypes
  <2>2. row[k].mode = "LIVE"
    BY <1>3, <2>1 DEF FillAccounted, BookedInv, Busy, TerminalPCs
  <2> QED
    BY <1>3, <2>1, <2>2, RowKept, RowsAssumption
<1>4. CASE k \in landed /\ row[k] = NoRow
  <2>1. k \in Handlers /\ Busy(k)
    BY <1>4 DEF ExchangeTypes, FillAccounted
  <2>2. pc'[k] # pc[k]
    BY <1>2, <2>1 DEF Busy
  <2>3. pc[k] \in {"lookup", "protect"}
    BY <1>4, <2>1 DEF LandedInv, Busy, HandlerTypes, PCs, WritePCs, TerminalPCs, ClosingPCs
  <2> USE DEF vars, handlerVars, Goto, HandlerTypes
  <2>4. ~Environment /\ ~UNCHANGED vars
    BY <1>1, <2>2 DEF Environment, RestingFills, LegTriggers, LegsExpire, ToggleKill
  <2>5. ASSUME NEW h \in Handlers, Request(h) PROVE FALSE
    BY <2>1, <2>2, <2>3, <2>5 DEF Request, OpenRequest, CloseRequest, EmergencyRequest
  <2>6. HandlerStep(k)
    <3>1. PICK h \in Handlers : HandlerStep(h)
      BY <2>4, <2>5 DEF Next
    <3>2. h = k
      BY <2>1, <2>2, <3>1 DEF HandlerStep, Send, OpenResolve, EntryAccepted, EntryRejected,
         EntryTimesOut, LookupFinds, LookupMisses, LegPlaced, MockProtected, LegFails, OpenCommit,
         CloseAccepted, CloseFails, CloseCommit, EmergencyRead, EmergencyFlat,
         EmergencyCancel, EmergencyCommit
    <3> QED
      BY <3>1, <3>2
  <2>7. OpenCommit(k) \/ LookupFinds(k) \/ LookupMisses(k)
    BY <2>2, <2>3, <2>6 DEF HandlerStep, Send, OpenResolve, EntryAccepted, EntryRejected,
       EntryTimesOut, LegPlaced, MockProtected, LegFails, CloseAccepted, CloseFails, CloseCommit,
       EmergencyRead, EmergencyFlat, EmergencyCancel, EmergencyCommit
  <2>8. OpenCommit(k)
    BY <1>1, <1>2, <1>4, <2>1, <2>7 DEF LookupFinds, LookupMisses, LookupEmpty, Busy, TerminalPCs
  <2>9. NewRow(k) # NoRow /\ NewRow(k).mode = "LIVE"
    BY <1>4, <2>1, <2>8 DEF OpenCommit, NewRow, NoRow, LandedInv
  <2> QED
    BY <2>1, <2>8, <2>9, RowsAssumption DEF OpenCommit, DbTypes
<1>5. CASE k \notin landed
  <2> USE DEF vars, exchangeVars, Goto, HandlerTypes
  <2>1. ASSUME NEW h \in Handlers, Request(h) PROVE landed' = landed
    BY <2>1 DEF Request, OpenRequest, CloseRequest, EmergencyRequest
  <2>2. ASSUME Environment PROVE FALSE
    <3>1. landed' = landed
      BY <1>1, <2>2 DEF Environment, RestingFills, LegTriggers, LegsExpire, ToggleKill
    <3> QED
      BY <1>2, <1>5, <3>1
  <2>3. ASSUME NEW h \in Handlers, HandlerStep(h)
        PROVE  landed' = landed \/ EntryAccepted(h) \/ EntryTimesOut(h)
    BY <2>3 DEF HandlerStep, Send, OpenResolve, EntryRejected, LookupFinds, LookupMisses,
       LegPlaced, MockProtected, LegFails, OpenCommit, CloseAccepted, CloseFails, ExecuteClose,
       CloseCommit, EmergencyRead, EmergencyFlat, EmergencyCancel, EmergencyCommit
  <2>4. PICK h \in Handlers : EntryAccepted(h) \/ EntryTimesOut(h)
    BY <1>2, <1>5, <2>1, <2>2, <2>3 DEF Next
  <2>5. k = h /\ pc'[k] \in {"protect", "lookup"}
    BY <1>2, <1>5, <2>4 DEF EntryAccepted, EntryTimesOut, AcceptEntry
  <2> QED
    BY <1>2, <2>5 DEF Busy, TerminalPCs
<1> QED
  BY <1>3, <1>4, <1>5

\* Without a fault (no crash, no failing lookup, no switching of the gate) an entry
\* order the exchange accepted is being served or stored as LIVE, whatever times
\* out, is rejected or is closed meanwhile (FillAccounted).
THEOREM NoFillIsLost == Faults = {} => (Spec => []FillAccounted)
<1>1. Init => FillAccounted /\ gate
  BY DEF Init, FillAccounted
<1> SUFFICES ASSUME Faults = {} PROVE Spec => []FillAccounted
  OBVIOUS
<1>2. SInv /\ (FillAccounted /\ gate) /\ [Next]_vars => (FillAccounted /\ gate)'
  BY FillStep, FaultFree, BaseOfSafety DEF BInv, IInv, TypeOK
<1> QED
  BY <1>1, <1>2, SafetyInvariant, PTL DEF Spec

-----------------------------------------------------------------------------
(* The refinement of EntryBook.                                              *)

\* A move of one entry along the book's graph, the others staying, is a book step.
LEMMA BookMove ==
  ASSUME NEW h \in Handlers, \A k \in Handlers \ {h} : EntryOf(k)' = EntryOf(k),
         \/ EntryOf(h)' = EntryOf(h)
         \/ EntryOf(h) = "new" /\ EntryOf(h)' = "asked"
         \/ EntryOf(h) \in {"asked", "new"} /\ EntryOf(h)' = "refused"
         \/ EntryOf(h) = "asked" /\ EntryOf(h)' = "taken"
         \/ EntryOf(h) \in {"asked", "taken"} /\ EntryOf(h)' = "booked"
         \/ EntryOf(h) \in {"booked", "unknown"} /\ EntryOf(h)' = "closed"
         \/ EntryOf(h) \in {"booked", "closed"} /\ EntryOf(h)' = "unknown"
  PROVE  [Book!Next]_Entries
<1>1. CASE EntryOf(h)' = EntryOf(h)
  BY <1>1 DEF Entries
<1>2. CASE EntryOf(h)' # EntryOf(h)
  <2>1. Entries' = [Entries EXCEPT ![h] = EntryOf(h)'] /\ Entries[h] = EntryOf(h)
    BY DEF Entries
  <2>2. Book!Step(h)
    BY <1>2, <2>1 DEF Book!Step, Book!Ask, Book!Refuse, Book!Take, Book!Book, Book!Close,
                      Book!Becomes
  <2> QED
    BY <2>2 DEF Book!Next
<1> QED
  BY <1>1, <1>2

\* The value of EntryOf, case by case, and so in the next state.
EntryValue(h) ==
    /\ row[h] # NoRow /\ IsOpen(h) => EntryOf(h) = "booked"
    /\ row[h] # NoRow /\ row[h].status = "CLOSED" => EntryOf(h) = "closed"
    /\ row[h] # NoRow /\ row[h].status = "CLOSED_UNKNOWN" => EntryOf(h) = "unknown"
    /\ row[h] = NoRow /\ h \in landed => EntryOf(h) = "taken"
    /\ row[h] = NoRow /\ h \notin landed /\ req[h].op = "open" =>
         EntryOf(h) = (IF Busy(h) THEN "asked" ELSE "refused")
    /\ row[h] = NoRow /\ h \notin landed /\ req[h].op # "open" => EntryOf(h) = "new"

LEMMA EntryValues == \A h \in Handlers : EntryValue(h)
<1>1. ASSUME NEW h, row[h] = NoRow
      PROVE  ~IsOpen(h) /\ row[h].status \notin {"CLOSED", "CLOSED_UNKNOWN"}
  BY <1>1 DEF NoRow, IsOpen
<1>2. \A h : IsOpen(h) => row[h].status \notin {"CLOSED", "CLOSED_UNKNOWN"}
  BY DEF IsOpen
<1> QED
  BY <1>1, <1>2 DEF EntryOf, EntryValue

LEMMA EntryValuesNext == (\A h \in Handlers : EntryValue(h))'
  BY EntryValues, PTL

\* A step that leaves row, landed, the operation and the busyness of k alone leaves
\* its entry alone.
LEMMA EntryFrame ==
  ASSUME SInv, SInv', NEW k \in Handlers, row'[k] = row[k], k \in landed' <=> k \in landed,
         req'[k].op = req[k].op, Busy(k)' <=> Busy(k)
  PROVE  EntryOf(k)' = EntryOf(k)
<1>1. EntryValue(k) /\ EntryValue(k)'
  BY EntryValues, EntryValuesNext
<1>2. CASE row[k] = NoRow
  BY <1>1, <1>2 DEF EntryValue
<1>3. CASE row[k] # NoRow
  <2>1. row[k].status \in {"OPEN", "RECOVERED", "CLOSED", "CLOSED_UNKNOWN"}
    BY <1>3, RowsAssumption DEF SInv, IInv, TypeOK, DbTypes, RowSet
  <2> QED
    BY <1>1, <1>3, <2>1 DEF EntryValue, IsOpen
<1> QED
  BY <1>2, <1>3

\* A step of a handler that books no close.
OwnStep(h) ==
    \/ Request(h) \/ Aborted(h)
    \/ HandlerStep(h) /\ ~(CloseCommit(h) \/ EmergencyFlat(h) \/ EmergencyCommit(h))

\* Such a step leaves every other entry alone.
LEMMA OthersStay ==
  ASSUME SInv, SInv', NEW h \in Handlers, OwnStep(h), NEW k \in Handlers \ {h}
  PROVE  EntryOf(k)' = EntryOf(k)
<1> USE DEF SInv, IInv, TypeOK, HandlerTypes, Goto, OwnStep, Request, HandlerStep, Aborted,
        OpenRequest, CloseRequest, EmergencyRequest, Send, OpenResolve, EntryAccepted,
        EntryRejected, EntryTimesOut, LookupFinds, LookupMisses, LegPlaced, MockProtected, LegFails,
        OpenCommit, CloseAccepted, CloseFails, EmergencyRead, EmergencyCancel
<1>1. row'[k] = row[k]
  BY RowsAssumption DEF DbTypes, dbVars, RolledBack
<1>2. k \in landed' <=> k \in landed
  BY DEF AcceptEntry, ExecuteClose, exchangeVars
<1>3. req'[k] = req[k]
  OBVIOUS
<1>4. Busy(k)' <=> Busy(k)
  BY DEF Busy
<1> QED
  BY <1>1, <1>2, <1>3, <1>4, EntryFrame

\* ... and moves its own along the book's graph.
LEMMA OwnMove ==
  ASSUME SInv, SInv', NEW h \in Handlers, OwnStep(h)
  PROVE  \/ EntryOf(h)' = EntryOf(h)
         \/ EntryOf(h) = "new" /\ EntryOf(h)' = "asked"
         \/ EntryOf(h) \in {"asked", "new"} /\ EntryOf(h)' = "refused"
         \/ EntryOf(h) = "asked" /\ EntryOf(h)' = "taken"
         \/ EntryOf(h) \in {"asked", "taken"} /\ EntryOf(h)' = "booked"
<1>1. EntryValue(h) /\ EntryValue(h)'
  BY EntryValues, EntryValuesNext
<1>2. pc[h] \notin TerminalPCs
  BY DEF OwnStep, Request, HandlerStep, Aborted, OpenRequest, CloseRequest, EmergencyRequest, Send,
     OpenResolve, EntryAccepted, EntryRejected, EntryTimesOut, LookupFinds, LookupMisses,
     LegPlaced, MockProtected, LegFails, OpenCommit, CloseAccepted, CloseFails, EmergencyRead,
     EmergencyCancel, Busy, TerminalPCs, WritePCs
<1>3. row[h] = NoRow
  BY <1>2 DEF SInv, BookedInv, TerminalPCs
<1> USE DEF SInv, IInv, TypeOK, HandlerTypes, Goto
<1>4. CASE pc[h] = "idle"
  <2>1. EntryOf(h) = "new"
    BY <1>1, <1>3, <1>4 DEF EntryValue, LandedInv, IdleInv, NoRequest
  <2>2. Request(h)
    BY <1>4 DEF OwnStep, HandlerStep, Aborted, Send, OpenResolve, EntryAccepted, EntryRejected,
       EntryTimesOut, LookupFinds, LookupMisses, LegPlaced, MockProtected, LegFails, OpenCommit,
       CloseAccepted, CloseFails, EmergencyRead, EmergencyCancel, Busy, WritePCs
  <2>3. row'[h] = NoRow /\ h \notin landed'
    BY <1>3, <1>4, <2>2 DEF Request, OpenRequest, CloseRequest, EmergencyRequest, LandedInv, dbVars,
       exchangeVars
  <2>4. EntryOf(h)' \in {"new", "asked", "refused"}
    BY <1>1, <2>3 DEF EntryValue
  <2> QED
    BY <2>1, <2>4
<1>5. CASE pc[h] \in ClosingPCs
  <2>1. req[h].op # "open" /\ h \notin landed
    BY <1>5 DEF ClosingInv, CloseRequests, LandedInv
  <2>2. EntryOf(h) = "new"
    BY <1>1, <1>3, <2>1 DEF EntryValue
  <2>3. row'[h] = NoRow /\ req'[h] = req[h] /\ h \notin landed'
    BY <1>3, <1>5, <2>1 DEF OwnStep, Request, HandlerStep, Aborted, OpenRequest, CloseRequest,
       EmergencyRequest, Send, OpenResolve, EntryAccepted, EntryRejected, EntryTimesOut,
       LookupFinds, LookupMisses, LegPlaced, MockProtected, LegFails, OpenCommit, CloseAccepted,
       CloseFails, EmergencyRead, EmergencyCancel, ClosingPCs, dbVars, exchangeVars, ExecuteClose,
       RolledBack
  <2> QED
    BY <1>1, <2>1, <2>2, <2>3 DEF EntryValue
<1>6. CASE pc[h] \in OpeningPCs
  <2>1. req[h].op = "open"
    BY <1>6 DEF OpeningInv, OpenRequests
  <2>2. IF h \in landed THEN EntryOf(h) = "taken" ELSE EntryOf(h) = "asked"
    BY <1>1, <1>3, <1>6, <2>1 DEF EntryValue, Busy, OpeningPCs, TerminalPCs
  <2>3. req'[h] = req[h] /\ (h \in landed => h \in landed')
    BY <1>6 DEF OwnStep, Request, HandlerStep, Aborted, OpenRequest, CloseRequest,
       EmergencyRequest, Send, OpenResolve, EntryAccepted, EntryRejected, EntryTimesOut,
       LookupFinds, LookupMisses, LegPlaced, MockProtected, LegFails, OpenCommit, CloseAccepted,
       CloseFails, EmergencyRead, EmergencyCancel, OpeningPCs, exchangeVars, AcceptEntry, ExecuteClose
  <2>4. CASE row'[h] = NoRow
    <3>1. EntryOf(h)' \in {"taken", "asked", "refused"} /\ (h \in landed => EntryOf(h)' = "taken")
      BY <1>1, <2>1, <2>3, <2>4 DEF EntryValue
    <3> QED
      BY <2>2, <3>1
  <2>5. CASE row'[h] # NoRow
    <3>1. OpenCommit(h)
      BY <1>3, <1>6, <2>5 DEF OwnStep, Request, HandlerStep, Aborted, OpenRequest, CloseRequest,
         EmergencyRequest, Send, OpenResolve, EntryAccepted, EntryRejected, EntryTimesOut,
         LookupFinds, LookupMisses, LegPlaced, MockProtected, LegFails, CloseAccepted,
         CloseFails, EmergencyRead, EmergencyCancel, OpeningPCs, dbVars, RolledBack
    <3>2. row'[h].status = "OPEN"
      BY <3>1, RowsAssumption DEF OpenCommit, NewRow, DbTypes
    <3>3. EntryOf(h)' = "booked"
      BY <1>1, <2>5, <3>2 DEF EntryValue, IsOpen
    <3> QED
      BY <2>2, <3>3
  <2> QED
    BY <2>4, <2>5
<1> QED
  BY <1>2, <1>4, <1>5, <1>6 DEF PCs, WritePCs, TerminalPCs, ClosingPCs, OpeningPCs

\* Booking a close closes the target's entry.
LEMMA CloseMove ==
  ASSUME SInv, SInv', NEW h \in Handlers, CloseCommit(h) \/ EmergencyFlat(h) \/ EmergencyCommit(h),
         NEW t, t = Target(h)
  PROVE  /\ \A k \in Handlers \ {t} : EntryOf(k)' = EntryOf(k)
         /\ t \in Handlers =>
              \/ EntryOf(t)' = EntryOf(t)
              \/ EntryOf(t) \in {"booked", "unknown"} /\ EntryOf(t)' = "closed"
              \/ EntryOf(t) \in {"booked", "closed"} /\ EntryOf(t)' = "unknown"
<1> USE DEF SInv
<1>1. /\ pc[h] \in ClosingPCs /\ UNCHANGED <<req, landed>>
      /\ \A k \in Handlers \ {h} : pc'[k] = pc[k]
  BY DEF CloseCommit, EmergencyFlat, EmergencyCommit, ClosingPCs, exchangeVars, Goto, IInv, TypeOK,
         HandlerTypes
<1>2. \A r \in RowIds : /\ r # Target(h) => row'[r] = row[r]
                        /\ row[r] # NoRow => /\ row'[r] # NoRow
                                             /\ \/ row'[r] = row[r]
                                                \/ row'[r].status \in {"CLOSED", "CLOSED_UNKNOWN"}
  BY RowsClose
<1>3. row[h] = NoRow /\ h \notin landed /\ req[h].op # "open" /\ Target(h) # h
  <2>1. row[Target(h)] # NoRow /\ req[h] \in CloseRequests
    BY <1>1, TargetStored
  <2>2. row[h] = NoRow
    BY <1>1 DEF BookedInv, ClosingPCs
  <2> QED
    BY <1>1, <2>1, <2>2 DEF LandedInv, CloseRequests
<1>4. ASSUME NEW k \in Handlers \ {t} PROVE EntryOf(k)' = EntryOf(k)
  <2>1. CASE k = h
    <3>1. EntryValue(h) /\ EntryValue(h)'
      BY EntryValues, EntryValuesNext
    <3>2. row'[h] = NoRow
      BY <1>2, <1>3, RowsAssumption
    <3> QED
      BY <1>1, <1>3, <2>1, <3>1, <3>2 DEF EntryValue
  <2>2. CASE k # h
    <3>1. row'[k] = row[k]
      BY <1>2, <1>4, RowsAssumption
    <3>2. Busy(k)' <=> Busy(k)
      BY <1>1, <2>2 DEF Busy
    <3> QED
      BY <1>1, <3>1, <3>2, EntryFrame
  <2> QED
    BY <2>1, <2>2
<1>5. ASSUME t \in Handlers
      PROVE  \/ EntryOf(t)' = EntryOf(t)
             \/ EntryOf(t) \in {"booked", "unknown"} /\ EntryOf(t)' = "closed"
             \/ EntryOf(t) \in {"booked", "closed"} /\ EntryOf(t)' = "unknown"
  <2>1. EntryValue(t) /\ EntryValue(t)'
    BY <1>5, EntryValues, EntryValuesNext
  <2>2. row[t] \in RowSet /\ row[t] # NoRow /\ t \in RowIds
    BY <1>1, TargetStored
  <2>3. row[t].status \in {"OPEN", "RECOVERED", "CLOSED", "CLOSED_UNKNOWN"}
    BY <2>2 DEF RowSet
  <2>4. EntryOf(t) \in {"booked", "closed", "unknown"}
    BY <2>1, <2>2, <2>3 DEF EntryValue, IsOpen
  <2>5. CASE row'[t] = row[t]
    BY <2>1, <2>2, <2>3, <2>5 DEF EntryValue, IsOpen
  <2>6. CASE row'[t].status \in {"CLOSED", "CLOSED_UNKNOWN"}
    <3>1. row'[t] # NoRow
      BY <1>2, <2>2
    <3>2. EntryOf(t)' \in {"closed", "unknown"}
      BY <2>1, <2>6, <3>1 DEF EntryValue
    <3> QED
      BY <2>4, <3>2
  <2> QED
    BY <1>2, <2>2, <2>5, <2>6
<1> QED
  BY <1>4, <1>5

LEMMA BookStep == SInv /\ SInv' /\ [Next]_vars => [Book!Next]_Entries
<1> SUFFICES ASSUME SInv, SInv', [Next]_vars
             PROVE  [Book!Next]_Entries
  OBVIOUS
<1>1. ASSUME NEW h \in Handlers, OwnStep(h)
      PROVE  [Book!Next]_Entries
  BY <1>1, OthersStay, OwnMove, BookMove
<1>2. ASSUME NEW h \in Handlers, CloseCommit(h) \/ EmergencyFlat(h) \/ EmergencyCommit(h)
      PROVE  [Book!Next]_Entries
  <2> DEFINE t == Target(h)
  <2>1. CASE t \in Handlers
    <3>1. PICK u \in Handlers : u = t
      BY <2>1
    <3>2. \A k \in Handlers \ {u} : EntryOf(k)' = EntryOf(k)
      BY <1>2, <3>1, CloseMove
    <3>3. \/ EntryOf(u)' = EntryOf(u)
          \/ EntryOf(u) \in {"booked", "unknown"} /\ EntryOf(u)' = "closed"
          \/ EntryOf(u) \in {"booked", "closed"} /\ EntryOf(u)' = "unknown"
      BY <1>2, <3>1, CloseMove
    <3> QED
      BY <3>2, <3>3, BookMove
  <2>2. CASE t \notin Handlers
    <3>1. \A k \in Handlers : EntryOf(k)' = EntryOf(k)
      BY <1>2, <2>2, CloseMove
    <3> QED
      BY <1>2, <3>1, BookMove
  <2> QED
    BY <2>1, <2>2
<1>3. ASSUME UNCHANGED <<row, req, landed, pc>>
      PROVE  [Book!Next]_Entries
  <2>1. ASSUME NEW k \in Handlers PROVE EntryOf(k)' = EntryOf(k)
    BY <1>3, EntryFrame DEF Busy
  <2> QED
    BY <2>1 DEF Entries
<1>4. CASE UNCHANGED vars
  BY <1>3, <1>4 DEF vars, handlerVars, exchangeVars, dbVars
<1>5. CASE Environment
  <2>1. ASSUME NEW h \in Handlers, Aborted(h)
        PROVE  [Book!Next]_Entries
    BY <1>1, <2>1 DEF OwnStep
  <2> QED
    BY <1>3, <1>5, <2>1 DEF Environment, RestingFills, LegTriggers, LegsExpire, ToggleKill,
       ToggleGate, handlerVars, exchangeVars, dbVars
<1> QED
  BY <1>1, <1>2, <1>4, <1>5 DEF Next, OwnStep

LEMMA BookInit == Init => Book!Init
<1> SUFFICES ASSUME Init PROVE Book!Init
  OBVIOUS
<1>1. ASSUME NEW h \in Handlers PROVE EntryOf(h) = "new"
  <2>1. EntryValue(h)
    BY EntryValues
  <2> QED
    BY <2>1, RowsAssumption DEF Init, EntryValue, NoRequest
<1> QED
  BY <1>1 DEF Book!Init, Entries

\* Live trading implements the safety of the entry book, with every fault: an order
\* the exchange took is never refused afterwards, only a booked entry is closed, and
\* a closed one never comes back (EntryBook).
THEOREM ImplementsBook == Spec => Book!SafeSpec
  BY BookInit, BookStep, SafetyInvariant, PTL DEF Spec, Book!SafeSpec
-----------------------------------------------------------------------------
(* Without a fault, no position is orphaned.                                 *)

\* Market orders only, and lookups that find what there is: what the netting argument
\* needs of a deployment whose steps are undisturbed, and one with no fault at all.
Orderly == "lookup" \notin Faults /\ OrderTypes \subseteq {"MARKET"}
Calm == Faults = {} /\ Orderly

\* A handler that closes row r and has the position of it, or found it gone, but
\* has not committed yet.
FinishPCs == {"close_commit", "em_flat", "em_commit"}
Finishing(r) == \E h \in Handlers : pc[h] \in FinishPCs /\ Target(h) = r

\* An accepted entry whose position nobody has closed so far; G are the rows that
\* others than the handlers have written off.
Standing(k) == (row[k] = NoRow \/ IsOpen(k)) /\ ~Finishing(k)
Owed(s, d, G) == {k \in landed \ G : req[k].sym = s /\ req[k].side = d /\ Standing(k)}

\* The plain facts of such a deployment: live adapters only, no resting order, no
\* empty close, and a row stands for an accepted entry of its symbol and side.
CalmInv ==
    /\ gate /\ resting = {}
    /\ \A h \in Handlers :
         /\ adapter[h] # "MOCK"
         /\ pc[h] \in {"close", "em_cancel", "em_close"} => size[h] >= 1
         /\ h \in landed => req[h] \in OpenRequests
    /\ \A r \in Handlers : row[r] # NoRow =>
         /\ r \in landed
         /\ row[r].sym = req[r].sym /\ row[r].side = req[r].side

\* The net position of a symbol is never larger, on either side, than the number
\* of accepted entries of that side still standing.
Backed(G) ==
    \A s \in Symbols :
        /\ \A d \in {"LONG", "SHORT"} : IsFiniteSet(Owed(s, d, G))
        /\ exch[s] <= Cardinality(Owed(s, "LONG", G))
        /\ -exch[s] <= Cardinality(Owed(s, "SHORT", G))

\* The new position of a symbol after a reduce-only order of at least one.
LEMMA ReducedByOne ==
  ASSUME NEW n \in Int, NEW d, NEW q \in Nat, q >= 1, n # 0
  PROVE  /\ Reduced(n, d, q) \in Int
         /\ Reducible(n, d) /\ d = "LONG"  => n > 0 /\ Reduced(n, d, q) >= 0 /\ Reduced(n, d, q) <= n - 1
         /\ Reducible(n, d) /\ d # "LONG" => n < 0 /\ Reduced(n, d, q) <= 0 /\ Reduced(n, d, q) >= n + 1
  BY DEF Reduced, Reducible, Abs, Sign

\* The steps of a request keep CalmInv.
LEMMA CalmRequests ==
  ASSUME Orderly, Undisturbed, BInv, CalmInv, NEW h \in Handlers, Request(h)
  PROVE  CalmInv'
<1> USE DEF BInv, IInv, TypeOK, HandlerTypes, CalmInv, Goto, exchangeVars, dbVars, switchVars
<1>1. h \notin landed /\ \A k \in landed : k \in Handlers /\ k # h
  BY DEF LandedInv, ExchangeTypes, Request, OpenRequest, CloseRequest, EmergencyRequest
<1>2. CASE OpenRequest(h)
  BY <1>1, <1>2 DEF OpenRequest
<1>3. ASSUME NEW r \in RowIds, CloseRequest(h, r) \/ EmergencyRequest(h, r)
      PROVE  CalmInv'
  <2>1. row[r].status \in {"OPEN", "RECOVERED"}
    BY <1>3 DEF CloseRequest, EmergencyRequest, IsOpen
  <2>2. row[r] \in RowSet
    <3>1. row[r] \in {NoRow} \cup RowSet
      BY DEF DbTypes
    <3> QED
      BY <2>1, <3>1 DEF NoRow
  <2>3. row[r].qty >= 1 /\ row[r].qty \in Nat
    BY <2>2 DEF RowSet
  <2> QED
    BY <1>1, <1>3, <2>3 DEF CloseRequest, EmergencyRequest
<1> QED
  BY <1>2, <1>3 DEF Request

\* The steps of an entry keep CalmInv.
LEMMA CalmEntry ==
  ASSUME Orderly, Undisturbed, BInv, CalmInv, NEW h \in Handlers,
         \/ Send(h) \/ OpenResolve(h) \/ EntryAccepted(h) \/ EntryRejected(h) \/ EntryTimesOut(h)
         \/ LookupFinds(h) \/ LookupMisses(h)
         \/ LegPlaced(h) \/ MockProtected(h) \/ LegFails(h)
  PROVE  CalmInv'
<1> USE DEF BInv, IInv, TypeOK, HandlerTypes, CalmInv, Goto, exchangeVars, dbVars, switchVars, Landing
<1>1. CASE EntryAccepted(h) \/ EntryTimesOut(h)
  <2>1. pc[h] = "entry" /\ req[h] \in OpenRequests
    BY <1>1 DEF EntryAccepted, EntryTimesOut, OpeningInv, OpeningPCs
  <2>2. req[h].type # "LIMIT"
    BY <2>1 DEF Orderly, OpenRequests
  <2> QED
    BY <1>1, <2>1, <2>2 DEF EntryAccepted, EntryTimesOut, AcceptEntry
<1>2. CASE Send(h) \/ OpenResolve(h) \/ EntryRejected(h) \/ LookupFinds(h) \/ LookupMisses(h)
  BY <1>2 DEF Send, OpenResolve, EntryRejected, LookupFinds, LookupMisses
<1>3. CASE LegPlaced(h) \/ MockProtected(h) \/ LegFails(h)
  BY <1>3 DEF LegPlaced, MockProtected, LegFails
<1> QED
  BY <1>1, <1>2, <1>3

\* Booking the entry keeps CalmInv.
LEMMA CalmOpenCommit ==
  ASSUME Orderly, Undisturbed, BInv, CalmInv, NEW h \in Handlers, OpenCommit(h)
  PROVE  CalmInv'
<1> USE DEF BInv, IInv, TypeOK, HandlerTypes, CalmInv, Goto, exchangeVars, switchVars, OpenCommit
<1>1. adapter[h] = "LIVE" /\ h \in landed
  BY DEF AdapterInv, LandedInv
<1>2. NewRow(h).sym = req[h].sym /\ NewRow(h).side = req[h].side
  BY DEF NewRow
<1>3. \A r \in RowIds : row'[r] = IF r = h THEN NewRow(h) ELSE row[r]
  BY RowsAssumption DEF DbTypes
<1> QED
  BY <1>1, <1>2, <1>3

\* The steps of a close keep CalmInv.
LEMMA CalmClose ==
  ASSUME Orderly, Undisturbed, BInv, CalmInv, NEW h \in Handlers,
         \/ CloseAccepted(h) \/ CloseFails(h)
         \/ EmergencyRead(h) \/ EmergencyCancel(h)
  PROVE  CalmInv'
<1> USE DEF BInv, IInv, TypeOK, HandlerTypes, CalmInv, Goto, exchangeVars, dbVars, switchVars, Landing
<1>1. CASE CloseAccepted(h) \/ CloseFails(h) \/ EmergencyCancel(h)
  BY <1>1 DEF CloseAccepted, CloseFails, EmergencyCancel, ExecuteClose, RolledBack
<1>2. CASE EmergencyRead(h)
  <2>1. row[Target(h)] \in RowSet
    BY <1>2, TargetStored DEF EmergencyRead, ClosingPCs
  <2>2. row[Target(h)].qty >= 1 /\ row[Target(h)].qty \in Nat /\ row[Target(h)].sym \in Symbols
    BY <2>1 DEF RowSet
  <2>3. exch[row[Target(h)].sym] # 0 => Abs(exch[row[Target(h)].sym]) >= 1
    BY <2>2 DEF ExchangeTypes, Abs
  <2> QED
    BY <1>2, <2>2, <2>3 DEF EmergencyRead
<1> QED
  BY <1>1, <1>2

\* Booking a close ends its target.
LEMMA TargetEnds ==
  ASSUME IInv, NEW h \in Handlers, CloseCommit(h) \/ EmergencyFlat(h) \/ EmergencyCommit(h)
  PROVE  row'[Target(h)] # NoRow /\ row'[Target(h)].status \in {"CLOSED", "CLOSED_UNKNOWN"}
<1> DEFINE u == row[Target(h)]
<1>1. Target(h) \in RowIds /\ u \in RowSet /\ u # NoRow /\ row \in [RowIds -> {NoRow} \cup RowSet]
  BY TargetStored DEF ClosingPCs, CloseCommit, EmergencyFlat, EmergencyCommit, IInv, TypeOK, DbTypes
<1>2. row'[Target(h)].status \in {"CLOSED", "CLOSED_UNKNOWN"}
  <2>1. CASE CloseCommit(h)
    <3>1. row' = [row EXCEPT ![Target(h)] = [u EXCEPT !.status = "CLOSED"]]
      BY <2>1, <1>1 DEF CloseCommit
    <3> QED
      BY <1>1, <3>1 DEF RowSet
  <2>2. CASE EmergencyFlat(h)
    <3>1. row' = [row EXCEPT ![Target(h)] =
                     [u EXCEPT !.status = "CLOSED_UNKNOWN", !.tpsl = "UNKNOWN"]]
      BY <2>2, <1>1 DEF EmergencyFlat
    <3> QED
      BY <1>1, <3>1 DEF RowSet
  <2>3. CASE EmergencyCommit(h)
    <3>1. row' = [row EXCEPT ![Target(h)] = [u EXCEPT !.status = "CLOSED", !.tpsl = "SYNCED"]]
      BY <2>3, <1>1 DEF EmergencyCommit
    <3> QED
      BY <1>1, <3>1 DEF RowSet
  <2> QED
    BY <2>1, <2>2, <2>3
<1> QED
  BY <1>1, <1>2, RowsClose

\* Booking a close keeps CalmInv.
LEMMA CalmCommit ==
  ASSUME Orderly, Undisturbed, BInv, CalmInv, NEW h \in Handlers,
         CloseCommit(h) \/ EmergencyFlat(h) \/ EmergencyCommit(h)
  PROVE  CalmInv'
<1> USE DEF BInv, IInv, TypeOK, HandlerTypes, CalmInv, Goto, exchangeVars, switchVars
<1>1. row[Target(h)] \in RowSet /\ Target(h) \in RowIds
  BY TargetStored DEF CloseCommit, EmergencyFlat, EmergencyCommit, ClosingPCs
<1>2. \A r \in RowIds : row'[r] # NoRow =>
        row[r] # NoRow /\ row'[r].sym = row[r].sym /\ row'[r].side = row[r].side
  BY RowsClose
<1>3. landed' = landed /\ req' = req /\ gate' = gate /\ resting' = resting /\ adapter' = adapter
      /\ size' = size /\ pc' = [pc EXCEPT ![h] = "done"]
  BY DEF CloseCommit, EmergencyFlat, EmergencyCommit
<1> QED
  BY <1>2, <1>3, RowsAssumption

LEMMA CalmEnvironment ==
  ASSUME Orderly, Undisturbed, BInv, CalmInv, Environment
  PROVE  CalmInv'
<1> USE DEF BInv, IInv, TypeOK, HandlerTypes, CalmInv, handlerVars, dbVars, exchangeVars
<1>1. CASE \E h \in Handlers : RestingFills(h)
  BY <1>1 DEF RestingFills
<1>2. CASE (\E s \in Symbols : LegTriggers(s) \/ LegsExpire(s)) \/ ToggleKill
  BY <1>2 DEF LegTriggers, LegsExpire, ToggleKill, switchVars
<1>3. ~ToggleGate /\ \A h \in Handlers : ~Aborted(h)
  BY NobodyDies
<1> QED
  BY <1>1, <1>2, <1>3 DEF Environment

LEMMA CalmStep ==
  ASSUME Orderly, Undisturbed, BInv, CalmInv, [Next]_vars
  PROVE  CalmInv'
<1>1. CASE UNCHANGED vars
  BY <1>1 DEF CalmInv, vars, handlerVars, exchangeVars, dbVars, switchVars
<1> QED
  BY <1>1, CalmRequests, CalmEntry, CalmOpenCommit, CalmClose, CalmCommit, CalmEnvironment
     DEF Next, HandlerStep

-----------------------------------------------------------------------------
(* How the standing entries move.                                          *)

Kept(G) == \A s, d : Owed(s, d, G)' = Owed(s, d, G)
Shrinks == \A s \in Symbols :
             /\ exch'[s] \in Int
             /\ exch'[s] <= exch[s] \/ exch'[s] <= 0
             /\ exch'[s] >= exch[s] \/ exch'[s] >= 0

\* Standing entries that all keep standing stay owed.
LEMMA KeptByStanding ==
  ASSUME NEW G, landed' = landed,
         \A k \in landed : req'[k] = req[k] /\ (Standing(k)' <=> Standing(k))
  PROVE  Kept(G)
  BY DEF Kept, Owed

\* A handler that neither starts nor ends finishing, over unchanged rows.
LEMMA KeptByFrame ==
  ASSUME NEW G, BInv, NEW h \in Handlers, row' = row, landed' = landed,
         \A j \in Handlers \ {h} : pc'[j] = pc[j] /\ req'[j] = req[j],
         h \in landed => req'[h] = req[h],
         pc[h] \notin FinishPCs, pc'[h] \notin FinishPCs
  PROVE  Kept(G)
<1>1. \A k : Finishing(k)' <=> Finishing(k)
  BY DEF Finishing, Target
<1>2. \A k \in landed : k \in Handlers
  BY DEF BInv, IInv, TypeOK, ExchangeTypes
<1> QED
  BY <1>1, <1>2, KeptByStanding DEF Standing, IsOpen

\* What every quiet step does: the standing entries stay, the position does not grow.
LEMMA BackedKept ==
  ASSUME BInv, NEW G, Backed(G), Kept(G), Shrinks
  PROVE  Backed(G)'
<1>1. ASSUME NEW s \in Symbols
      PROVE  /\ \A d \in {"LONG", "SHORT"} : IsFiniteSet(Owed(s, d, G)')
             /\ exch'[s] <= Cardinality(Owed(s, "LONG", G)')
             /\ -exch'[s] <= Cardinality(Owed(s, "SHORT", G)')
  <2>1. /\ Owed(s, "LONG", G)' = Owed(s, "LONG", G) /\ Owed(s, "SHORT", G)' = Owed(s, "SHORT", G)
        /\ IsFiniteSet(Owed(s, "LONG", G)) /\ IsFiniteSet(Owed(s, "SHORT", G))
    BY DEF Kept, Backed
  <2>2. Cardinality(Owed(s, "LONG", G)) \in Nat /\ Cardinality(Owed(s, "SHORT", G)) \in Nat
    BY <2>1, FS_CardinalityType
  <2>3. exch[s] \in Int
    BY DEF BInv, IInv, TypeOK, ExchangeTypes
  <2> QED
    BY <2>1, <2>2, <2>3 DEF Backed, Shrinks
<1> QED
  BY <1>1 DEF Backed

\* An accepted entry adds itself to what is owed.
LEMMA BackedByEntry ==
  ASSUME BInv, CalmInv, NEW G, Backed(G), \A k \in G \cap Handlers : row[k] # NoRow,
         NEW h \in Handlers, pc[h] = "entry", req[h] \in OpenRequests,
         landed' = landed \cup {h}, row' = row, req' = req,
         exch' = [exch EXCEPT ![req[h].sym] = @ + Sign(req[h].side)],
         \A j \in Handlers \ {h} : pc'[j] = pc[j], pc'[h] \notin FinishPCs
  PROVE  Backed(G)'
<1> DEFINE y == req[h].sym
           c == req[h].side
<1>1. y \in Symbols /\ c \in {"LONG", "SHORT"}
  BY SidesAssumption DEF OpenRequests
<1>2. row[h] = NoRow /\ h \notin landed
  BY DEF BInv, BookedInv, LandedInv
<1>3. \A k : Finishing(k)' <=> Finishing(k)
  BY DEF Finishing, Target, FinishPCs
<1>4. ~Finishing(h)
  <2> SUFFICES ASSUME NEW j \in Handlers, pc[j] \in FinishPCs PROVE Target(j) # h
    BY DEF Finishing
  <2> QED
    BY <1>2, TargetStored DEF FinishPCs, ClosingPCs, BInv
<1>5. \A k \in landed : k \in Handlers
  BY DEF BInv, IInv, TypeOK, ExchangeTypes
<1>6. \A s, d : Owed(s, d, G)' = IF s = y /\ d = c THEN Owed(s, d, G) \cup {h} ELSE Owed(s, d, G)
  BY <1>2, <1>3, <1>4, <1>5 DEF Owed, Standing, IsOpen
<1>7. \A s, d : h \notin Owed(s, d, G)
  BY <1>2 DEF Owed
<1> HIDE DEF y, c
<1>8. ASSUME NEW s \in Symbols
      PROVE  /\ \A d \in {"LONG", "SHORT"} : IsFiniteSet(Owed(s, d, G)')
             /\ exch'[s] <= Cardinality(Owed(s, "LONG", G)')
             /\ -exch'[s] <= Cardinality(Owed(s, "SHORT", G)')
  <2>1. IsFiniteSet(Owed(s, "LONG", G)) /\ IsFiniteSet(Owed(s, "SHORT", G))
    BY DEF Backed
  <2>2. Cardinality(Owed(s, "LONG", G)) \in Nat /\ Cardinality(Owed(s, "SHORT", G)) \in Nat
    BY <2>1, FS_CardinalityType
  <2>3. ASSUME NEW d \in {"LONG", "SHORT"}
        PROVE  /\ IsFiniteSet(Owed(s, d, G)')
               /\ s = y /\ d = c => Cardinality(Owed(s, d, G)') = Cardinality(Owed(s, d, G)) + 1
               /\ ~(s = y /\ d = c) => Cardinality(Owed(s, d, G)') = Cardinality(Owed(s, d, G))
    <3>1. IsFiniteSet(Owed(s, d, G))
      BY DEF Backed
    <3>2. /\ IsFiniteSet(Owed(s, d, G) \cup {h})
          /\ Cardinality(Owed(s, d, G) \cup {h}) = Cardinality(Owed(s, d, G)) + 1
      BY <3>1, <1>7, FS_AddElement
    <3> QED
      BY <3>1, <3>2, <1>6
  <2>4. exch[s] \in Int /\ exch'[s] = IF s = y THEN exch[s] + Sign(c) ELSE exch[s]
    BY <1>1 DEF BInv, IInv, TypeOK, ExchangeTypes, y, c
  <2>5. exch[s] <= Cardinality(Owed(s, "LONG", G)) /\ -exch[s] <= Cardinality(Owed(s, "SHORT", G))
    BY DEF Backed
  <2>6. CASE s # y
    BY <2>2, <2>3, <2>4, <2>5, <2>6
  <2>7. CASE s = y /\ c = "LONG"
    BY <2>2, <2>3, <2>4, <2>5, <2>7 DEF Sign
  <2>8. CASE s = y /\ c = "SHORT"
    BY <2>2, <2>3, <2>4, <2>5, <2>8 DEF Sign
  <2> QED
    BY <1>1, <2>6, <2>7, <2>8
<1> QED
  BY <1>8 DEF Backed

\* A close that has the position, or found it gone, takes one entry off what is owed.
LEMMA BackedByClose ==
  ASSUME BInv, CalmInv, NEW G, Backed(G), NEW h \in Handlers, pc[h] \in ClosingPCs,
         pc[h] \notin FinishPCs, pc'[h] \in FinishPCs,
         landed' = landed, row' = row, req' = req,
         \A j \in Handlers \ {h} : pc'[j] = pc[j],
         NEW y, y = row[Target(h)].sym,
         \A s \in Symbols \ {y} : exch'[s] = exch[s],
         \/ exch[y] = 0 /\ exch'[y] = 0
         \/ row[Target(h)].side = "LONG"  /\ exch'[y] \in Int /\ 0 <= exch'[y] /\ exch'[y] <= exch[y] - 1
         \/ row[Target(h)].side = "SHORT" /\ exch'[y] \in Int /\ 0 >= exch'[y] /\ exch'[y] >= exch[y] + 1
  PROVE  Backed(G)'
<1> DEFINE t == Target(h)
           c == row[t].side
<1>1. row[t] \in RowSet /\ row[t] # NoRow /\ t \in RowIds
  BY TargetStored DEF BInv
<1>2. y \in Symbols /\ c \in {"LONG", "SHORT"}
  BY <1>1, SidesAssumption DEF RowSet
<1>3. \A k : Finishing(k)' <=> Finishing(k) \/ k = t
  BY DEF Finishing, Target
<1>4. \A s, d : Owed(s, d, G)' = Owed(s, d, G) \ {t}
  BY <1>3 DEF Owed, Standing, IsOpen
<1>5. \A s, d : t \in Owed(s, d, G) => s = y /\ d = c
  BY <1>1 DEF Owed, CalmInv, BInv, IInv, TypeOK, ExchangeTypes
<1> HIDE DEF t, c
<1>6. ASSUME NEW s \in Symbols
      PROVE  /\ \A d \in {"LONG", "SHORT"} : IsFiniteSet(Owed(s, d, G)')
             /\ exch'[s] <= Cardinality(Owed(s, "LONG", G)')
             /\ -exch'[s] <= Cardinality(Owed(s, "SHORT", G)')
  <2>1. ASSUME NEW d \in {"LONG", "SHORT"}
        PROVE  /\ IsFiniteSet(Owed(s, d, G)')
               /\ Cardinality(Owed(s, d, G)) \in Nat /\ Cardinality(Owed(s, d, G)') \in Nat
               /\ Cardinality(Owed(s, d, G)') >= Cardinality(Owed(s, d, G)) - 1
               /\ ~(s = y /\ d = c) => Cardinality(Owed(s, d, G)') = Cardinality(Owed(s, d, G))
    <3>1. IsFiniteSet(Owed(s, d, G))
      BY DEF Backed
    <3>2. /\ IsFiniteSet(Owed(s, d, G) \ {t})
          /\ Cardinality(Owed(s, d, G) \ {t}) =
               IF t \in Owed(s, d, G) THEN Cardinality(Owed(s, d, G)) - 1 ELSE Cardinality(Owed(s, d, G))
      BY <3>1, FS_RemoveElement
    <3>3. Cardinality(Owed(s, d, G)) \in Nat /\ Cardinality(Owed(s, d, G) \ {t}) \in Nat
      BY <3>1, <3>2, FS_CardinalityType
    <3>4. Owed(s, d, G)' = Owed(s, d, G) \ {t}
      BY <1>4
    <3>5. CASE t \in Owed(s, d, G)
      BY <3>2, <3>3, <3>4, <3>5, <1>5
    <3>6. CASE t \notin Owed(s, d, G)
      BY <3>2, <3>3, <3>4, <3>6
    <3> QED
      BY <3>5, <3>6
  <2>2. exch[s] \in Int
    BY DEF BInv, IInv, TypeOK, ExchangeTypes
  <2>3. exch[s] <= Cardinality(Owed(s, "LONG", G)) /\ -exch[s] <= Cardinality(Owed(s, "SHORT", G))
    BY DEF Backed
  <2>4. CASE s # y
    BY <2>1, <2>2, <2>3, <2>4
  <2>5. CASE s = y /\ exch[y] = 0 /\ exch'[y] = 0
    BY <2>1, <2>2, <2>3, <2>5
  <2>6. CASE s = y /\ c = "LONG" /\ exch'[y] \in Int /\ 0 <= exch'[y] /\ exch'[y] <= exch[y] - 1
    BY <2>1, <2>2, <2>3, <2>6
  <2>7. CASE s = y /\ c = "SHORT" /\ exch'[y] \in Int /\ 0 >= exch'[y] /\ exch'[y] >= exch[y] + 1
    BY <2>1, <2>2, <2>3, <2>7
  <2> QED
    BY <2>4, <2>5, <2>6, <2>7 DEF c, t
<1> QED
  BY <1>6 DEF Backed

\* A commit of a close ends a row that was already written off.
LEMMA KeptByCommit ==
  ASSUME NEW G, BInv, NEW h \in Handlers, CloseCommit(h) \/ EmergencyFlat(h) \/ EmergencyCommit(h)
  PROVE  Kept(G)
<1>1. /\ pc[h] \in FinishPCs /\ landed' = landed /\ req' = req
      /\ \A j \in Handlers \ {h} : pc'[j] = pc[j]
      /\ Target(h) \in RowIds /\ row[Target(h)] \in RowSet
  BY TargetStored DEF CloseCommit, EmergencyFlat, EmergencyCommit, FinishPCs, ClosingPCs,
                      BInv, IInv, TypeOK, HandlerTypes, exchangeVars, Goto
<1>2. \A k \in landed : k \in RowIds
  BY RowsAssumption DEF BInv, IInv, TypeOK, ExchangeTypes
<1>3. row'[Target(h)] # NoRow /\ row'[Target(h)].status \in {"CLOSED", "CLOSED_UNKNOWN"}
  BY <1>1, TargetEnds DEF BInv
<1>4. ASSUME NEW k \in landed, k = Target(h) PROVE ~Standing(k) /\ ~Standing(k)'
  BY <1>1, <1>3, <1>4 DEF Standing, Finishing, IsOpen, Target
<1>5. pc'[h] \notin FinishPCs
  BY DEF CloseCommit, EmergencyFlat, EmergencyCommit, FinishPCs, Goto, BInv, IInv, TypeOK, HandlerTypes
<1>6. ASSUME NEW k \in landed, k # Target(h) PROVE Standing(k)' <=> Standing(k)
  <2>1. row'[k] = row[k]
    BY <1>2, <1>6, RowsClose DEF BInv
  <2>2. Finishing(k)' <=> Finishing(k)
    BY <1>1, <1>5, <1>6 DEF Finishing, Target
  <2> QED
    BY <2>1, <2>2 DEF Standing, IsOpen
<1> QED
  BY <1>1, <1>4, <1>6, KeptByStanding

-----------------------------------------------------------------------------
(* One lemma per group of actions: each keeps what is owed in step with    *)
(* the net position.                                                       *)

\* A position that does not change has not grown.
LEMMA ShrinksByFrame ==
  ASSUME BInv, exch' = exch PROVE Shrinks
  BY DEF Shrinks, BInv, IInv, TypeOK, ExchangeTypes

\* The steps that neither fill nor close anything.
LEMMA BackedQuiet ==
  ASSUME Orderly, Undisturbed, BInv, CalmInv, NEW G, Backed(G), NEW h \in Handlers,
         \/ Request(h) \/ Send(h) \/ OpenResolve(h) \/ EntryRejected(h)
         \/ LookupFinds(h) \/ LookupMisses(h) \/ LegPlaced(h) \/ MockProtected(h) \/ LegFails(h)
         \/ EmergencyCancel(h)
  PROVE  Backed(G)'
<1> USE DEF BInv, IInv, TypeOK, HandlerTypes, Goto, exchangeVars, dbVars, FinishPCs
<1>1. CASE Request(h)
  <2>1. h \notin landed /\ pc[h] = "idle"
    BY <1>1 DEF LandedInv, Request, OpenRequest, CloseRequest, EmergencyRequest
  <2>2. /\ row' = row /\ landed' = landed /\ exch' = exch /\ pc'[h] \notin FinishPCs
        /\ \A j \in Handlers \ {h} : pc'[j] = pc[j] /\ req'[j] = req[j]
    BY <1>1 DEF Request, OpenRequest, CloseRequest, EmergencyRequest
  <2> QED
    BY <2>1, <2>2, KeptByFrame, ShrinksByFrame, BackedKept
<1>2. CASE ~Request(h)
  <2>1. /\ row' = row /\ landed' = landed /\ exch' = exch /\ req' = req
        /\ \A j \in Handlers \ {h} : pc'[j] = pc[j]
    BY <1>2 DEF Send, OpenResolve, EntryRejected, LookupFinds, LookupMisses, LegPlaced,
                MockProtected, LegFails, EmergencyCancel
  <2>2. CASE Send(h) \/ LegPlaced(h) \/ MockProtected(h) \/ LegFails(h)
    <3>1. pc' = pc /\ pc[h] \in WritePCs
      BY <2>2 DEF Send, LegPlaced, MockProtected, LegFails, WritePCs
    <3> QED
      BY <2>1, <3>1, KeptByFrame, ShrinksByFrame, BackedKept DEF WritePCs
  <2>3. CASE OpenResolve(h) \/ EntryRejected(h) \/ LookupFinds(h) \/ LookupMisses(h) \/ EmergencyCancel(h)
    <3>1. pc[h] \notin FinishPCs /\ pc'[h] \notin FinishPCs
      BY <2>3 DEF OpenResolve, EntryRejected, LookupFinds, LookupMisses, EmergencyCancel
    <3> QED
      BY <2>1, <3>1, KeptByFrame, ShrinksByFrame, BackedKept
  <2> QED
    BY <1>2, <2>2, <2>3
<1> QED
  BY <1>1, <1>2

\* An entry that is filled, also when its answer is lost.
LEMMA BackedEntry ==
  ASSUME Orderly, Undisturbed, BInv, CalmInv, NEW G, Backed(G), \A k \in G \cap Handlers : row[k] # NoRow,
         NEW h \in Handlers, EntryAccepted(h) \/ EntryTimesOut(h)
  PROVE  Backed(G)'
<1> USE DEF BInv, IInv, TypeOK, HandlerTypes, Goto, exchangeVars, dbVars, FinishPCs
<1>1. /\ pc[h] = "entry" /\ pc'[h] \in {"protect", "lookup"}
      /\ row' = row /\ req' = req /\ \A j \in Handlers \ {h} : pc'[j] = pc[j]
  BY DEF EntryAccepted, EntryTimesOut
<1>2. req[h] \in OpenRequests
  BY <1>1 DEF OpeningInv, OpeningPCs
<1>3. req[h].type # "LIMIT"
  BY <1>2 DEF Orderly, OpenRequests
<1>4. CASE AcceptEntry(h)
  <2>1. landed' = landed \cup {h} /\ exch' = [exch EXCEPT ![req[h].sym] = @ + Sign(req[h].side)]
    BY <1>3, <1>4 DEF AcceptEntry
  <2> QED
    BY <1>1, <1>2, <2>1, BackedByEntry
<1>5. CASE ~AcceptEntry(h)
  <2>1. landed' = landed /\ exch' = exch
    BY <1>5 DEF EntryAccepted, EntryTimesOut, CalmInv
  <2> QED
    BY <1>1, <2>1, KeptByFrame, ShrinksByFrame, BackedKept
<1> QED
  BY <1>4, <1>5

\* The booking of an entry leaves it standing.
LEMMA BackedOpenCommit ==
  ASSUME BInv, CalmInv, NEW G, Backed(G), NEW h \in Handlers, OpenCommit(h)
  PROVE  Backed(G)'
<1> USE DEF BInv, IInv, TypeOK, HandlerTypes, Goto, exchangeVars, dbVars, FinishPCs
<1>1. /\ landed' = landed /\ exch' = exch /\ req' = req /\ row[h] = NoRow
      /\ pc[h] = "protect" /\ pc'[h] = "done" /\ \A j \in Handlers \ {h} : pc'[j] = pc[j]
  BY DEF OpenCommit, BookedInv
<1>2. \A k : Finishing(k)' <=> Finishing(k)
  BY <1>1 DEF Finishing, Target
<1>3. \A r \in RowIds : row'[r] = IF r = h THEN NewRow(h) ELSE row[r]
  BY RowsAssumption DEF OpenCommit, DbTypes
<1>4. NewRow(h).status = "OPEN"
  BY DEF NewRow
<1>5. ASSUME NEW k \in landed PROVE Standing(k)' <=> Standing(k)
  <2>1. k \in RowIds
    BY RowsAssumption DEF ExchangeTypes
  <2>2. CASE k # h
    BY <1>2, <1>3, <2>1, <2>2 DEF Standing, IsOpen
  <2>3. CASE k = h
    BY <1>1, <1>2, <1>3, <1>4, <2>1, <2>3 DEF Standing, IsOpen
  <2> QED
    BY <2>2, <2>3
<1> QED
  BY <1>1, <1>5, KeptByStanding, ShrinksByFrame, BackedKept

\* What a close does to the position of its symbol when the exchange executes it.
LEMMA ExecutedReduces ==
  ASSUME BInv, CalmInv, NEW h \in Handlers, pc[h] \in {"close", "em_close"}, ExecuteClose(h),
         NEW y, y = row[Target(h)].sym
  PROVE  /\ y \in Symbols /\ landed' = landed
         /\ \A s \in Symbols \ {y} : exch'[s] = exch[s]
         /\ \/ /\ row[Target(h)].side = "LONG" /\ exch'[y] \in Int
               /\ 0 <= exch'[y] /\ exch'[y] <= exch[y] - 1
            \/ /\ row[Target(h)].side = "SHORT" /\ exch'[y] \in Int
               /\ 0 >= exch'[y] /\ exch'[y] >= exch[y] + 1
<1>1. row[Target(h)] \in RowSet
  BY TargetStored DEF ClosingPCs, BInv
<1>2. y \in Symbols /\ row[Target(h)].side \in {"LONG", "SHORT"}
  BY <1>1, SidesAssumption DEF RowSet
<1>3. exch \in [Symbols -> Int] /\ size[h] \in Nat /\ size[h] >= 1
  BY DEF BInv, IInv, TypeOK, HandlerTypes, ExchangeTypes, CalmInv
<1>4. /\ landed' = landed /\ Reducible(exch[y], row[Target(h)].side)
      /\ exch' = [exch EXCEPT ![y] = Reduced(exch[y], row[Target(h)].side, size[h])]
  BY DEF ExecuteClose
<1>5. exch[y] # 0 /\ exch[y] \in Int
  BY <1>2, <1>3, <1>4 DEF Reducible, Sign
<1>6. exch'[y] = Reduced(exch[y], row[Target(h)].side, size[h])
  BY <1>2, <1>3, <1>4
<1>7. \A s \in Symbols \ {y} : exch'[s] = exch[s]
  BY <1>3, <1>4
<1>8. CASE row[Target(h)].side = "LONG"
  BY <1>2, <1>3, <1>4, <1>5, <1>6, <1>7, <1>8, ReducedByOne
<1>9. CASE row[Target(h)].side = "SHORT"
  <2>1. row[Target(h)].side # "LONG"
    BY <1>9
  <2> QED
    BY <1>2, <1>3, <1>4, <1>5, <1>6, <1>7, <1>9, <2>1, ReducedByOne
<1> QED
  BY <1>2, <1>8, <1>9

\* A close that is answered, fails or times out, and the read of an emergency close.
LEMMA BackedClose ==
  ASSUME Orderly, Undisturbed, BInv, CalmInv, NEW G, Backed(G), NEW h \in Handlers,
         CloseAccepted(h) \/ CloseFails(h) \/ EmergencyRead(h)
  PROVE  Backed(G)'
<1> DEFINE y == row[Target(h)].sym
<1> USE DEF BInv, IInv, TypeOK, HandlerTypes, Goto, exchangeVars, dbVars, FinishPCs
<1>1. /\ pc[h] \in {"close", "em_close", "em_read"} /\ row' = row /\ req' = req
      /\ \A j \in Handlers \ {h} : pc'[j] = pc[j]
  BY DEF CloseAccepted, CloseFails, EmergencyRead, RolledBack
<1>2. y \in Symbols /\ row[Target(h)].side \in {"LONG", "SHORT"}
  <2>1. row[Target(h)] \in RowSet
    BY <1>1, TargetStored DEF ClosingPCs
  <2> QED
    BY <2>1, SidesAssumption DEF RowSet
<1>3. CASE CloseAccepted(h)
  <2>1. ExecuteClose(h) /\ pc[h] \in {"close", "em_close"} /\ pc'[h] \in FinishPCs
    BY <1>3 DEF CloseAccepted, CalmInv
  <2>2. pc[h] \in ClosingPCs /\ pc[h] \notin FinishPCs
    BY <2>1 DEF ClosingPCs
  <2> QED
    BY <1>1, <2>1, <2>2, ExecutedReduces, BackedByClose
<1>4. CASE CloseFails(h)
  <2>1. pc[h] \in {"close", "em_close"} /\ pc'[h] \notin FinishPCs
    BY <1>4 DEF CloseFails
  <2>2. CASE ExecuteClose(h)
    <3>1. landed' = landed
      BY <2>2 DEF ExecuteClose
    <3>2. Shrinks
      BY <1>2, <2>1, <2>2, ExecutedReduces DEF Shrinks, ExchangeTypes
    <3> QED
      BY <1>1, <2>1, <3>1, <3>2, KeptByFrame, BackedKept
  <2>3. CASE ~ExecuteClose(h)
    <3>1. exch' = exch /\ landed' = landed
      BY <1>4, <2>3 DEF CloseFails
    <3> QED
      BY <1>1, <2>1, <3>1, KeptByFrame, ShrinksByFrame, BackedKept
  <2> QED
    BY <2>2, <2>3
<1>5. CASE EmergencyRead(h)
  <2>1. exch' = exch /\ landed' = landed /\ pc[h] = "em_read"
    BY <1>5 DEF EmergencyRead
  <2>2. CASE pc'[h] = "em_flat"
    <3>1. exch[y] = 0
      BY <1>5, <2>1, <2>2 DEF EmergencyRead, SeenFlat, CalmInv
    <3>2. pc[h] \in ClosingPCs /\ pc[h] \notin FinishPCs /\ pc'[h] \in FinishPCs
      BY <2>1, <2>2 DEF ClosingPCs
    <3> QED
      BY <1>1, <2>1, <3>1, <3>2, BackedByClose
  <2>3. CASE pc'[h] # "em_flat"
    <3>1. pc'[h] \notin FinishPCs
      BY <1>5, <2>3 DEF EmergencyRead
    <3> QED
      BY <1>1, <2>1, <3>1, KeptByFrame, ShrinksByFrame, BackedKept
  <2> QED
    BY <2>2, <2>3
<1> QED
  BY <1>3, <1>4, <1>5

\* The commit of a close.
LEMMA BackedCommit ==
  ASSUME BInv, NEW G, Backed(G), NEW h \in Handlers,
         CloseCommit(h) \/ EmergencyFlat(h) \/ EmergencyCommit(h)
  PROVE  Backed(G)'
<1>1. exch' = exch
  BY DEF CloseCommit, EmergencyFlat, EmergencyCommit, exchangeVars
<1> QED
  BY <1>1, KeptByCommit, ShrinksByFrame, BackedKept

\* A triggered leg only takes from a position.
LEMMA BackedEnvironment ==
  ASSUME Orderly, Undisturbed, BInv, CalmInv, NEW G, Backed(G), Environment
  PROVE  Backed(G)'
<1> USE DEF BInv, IInv, TypeOK, handlerVars, dbVars, exchangeVars
<1>0. ~ToggleGate /\ \A h \in Handlers : ~Aborted(h)
  BY NobodyDies
<1>1. pc' = pc /\ req' = req /\ row' = row /\ landed' = landed
  BY <1>0 DEF CalmInv, Environment, RestingFills, LegTriggers, LegsExpire, ToggleKill
<1>2. Kept(G)
  BY <1>1 DEF Kept, Owed, Standing, Finishing, IsOpen, Target
<1>3. CASE \E s \in Symbols : LegTriggers(s)
  <2>1. PICK s \in Symbols : LegTriggers(s)
    BY <1>3
  <2>2. PICK o \in orders[s] :
          /\ Reducible(exch[s], o[1])
          /\ exch' = [exch EXCEPT ![s] = IF o[2] = "TRAIL" THEN Reduced(exch[s], o[1], 1) ELSE 0]
    BY <2>1 DEF LegTriggers
  <2>3. exch[s] \in Int /\ exch[s] # 0
    BY <2>2 DEF ExchangeTypes, Reducible, Sign
  <2>4. /\ o[1] = "LONG" \/ o[1] # "LONG"
        /\ exch'[s] = IF o[2] = "TRAIL" THEN Reduced(exch[s], o[1], 1) ELSE 0
    BY <2>2 DEF ExchangeTypes
  <2>5. \A r \in Symbols : r # s => exch'[r] = exch[r]
    BY <2>2 DEF ExchangeTypes
  <2>6. /\ exch'[s] \in Int
        /\ exch'[s] <= exch[s] \/ exch'[s] <= 0
        /\ exch'[s] >= exch[s] \/ exch'[s] >= 0
    BY <2>2, <2>3, <2>4, ReducedByOne
  <2>7. Shrinks
    BY <2>5, <2>6 DEF Shrinks, ExchangeTypes
  <2> QED
    BY <1>2, <2>7, BackedKept
<1>4. CASE ~\E s \in Symbols : LegTriggers(s)
  <2>1. exch' = exch
    BY <1>0, <1>4 DEF CalmInv, Environment, RestingFills, LegsExpire, ToggleKill
  <2> QED
    BY <1>2, <2>1, ShrinksByFrame, BackedKept
<1> QED
  BY <1>3, <1>4

LEMMA BackedStep ==
  ASSUME Orderly, Undisturbed, BInv, CalmInv, NEW G, Backed(G), \A k \in G \cap Handlers : row[k] # NoRow,
         [Next]_vars
  PROVE  Backed(G)'
<1>1. CASE UNCHANGED vars
  <2>1. Kept(G) /\ exch' = exch
    BY <1>1 DEF vars, handlerVars, exchangeVars, dbVars, Kept, Owed, Standing, Finishing, IsOpen, Target
  <2> QED
    BY <2>1, ShrinksByFrame, BackedKept
<1> QED
  BY <1>1, BackedQuiet, BackedEntry, BackedOpenCommit, BackedClose, BackedCommit, BackedEnvironment
     DEF Next, HandlerStep

LEMMA BackedInit == Init => CalmInv /\ Backed({})
<1> SUFFICES ASSUME Init PROVE CalmInv /\ Backed({})
  OBVIOUS
<1>1. CalmInv
  BY RowsAssumption DEF Init, CalmInv
<1>2. \A s, d : Owed(s, d, {}) = {}
  BY DEF Init, Owed
<1>3. ASSUME NEW s \in Symbols
      PROVE  /\ \A d \in {"LONG", "SHORT"} : IsFiniteSet(Owed(s, d, {}))
             /\ exch[s] <= Cardinality(Owed(s, "LONG", {}))
             /\ -exch[s] <= Cardinality(Owed(s, "SHORT", {}))
  <2>1. exch[s] = 0
    BY DEF Init
  <2>2. \A d : IsFiniteSet(Owed(s, d, {})) /\ Cardinality(Owed(s, d, {})) = 0
    BY <1>2, FS_EmptySet
  <2> QED
    BY <2>1, <2>2
<1> QED
  BY <1>1, <1>3 DEF Backed

\* A position the exchange holds is somebody's.
LEMMA BackedIsTracked ==
  ASSUME BInv, CalmInv, NEW G, Backed(G), FillAccounted
  PROVE  NoOrphanPosition
<1> SUFFICES ASSUME NEW s \in Symbols, exch[s] # 0
             PROVE  \/ \E r \in RowIds : row[r] # NoRow /\ row[r].sym = s /\ IsOpen(r)
                    \/ \E h \in Handlers : Busy(h) /\ req[h] # NoRequest /\ SymOf(h) = s
  BY DEF NoOrphanPosition
<1>1. exch[s] \in Int
  BY DEF BInv, IInv, TypeOK, ExchangeTypes
<1>2. PICK d \in {"LONG", "SHORT"} : Cardinality(Owed(s, d, G)) # 0
  BY <1>1, FS_CardinalityType DEF Backed
<1>3. PICK k : k \in Owed(s, d, G)
  <2>1. IsFiniteSet(Owed(s, d, G))
    BY DEF Backed
  <2> QED
    BY <1>2, <2>1, FS_EmptySet
<1>4. k \in landed /\ k \in Handlers /\ k \in RowIds /\ req[k].sym = s /\ req[k] \in OpenRequests
  BY <1>3, RowsAssumption DEF Owed, BInv, IInv, TypeOK, ExchangeTypes, CalmInv
<1>5. CASE row[k] # NoRow
  BY <1>3, <1>4, <1>5 DEF Owed, Standing, CalmInv
<1>6. CASE row[k] = NoRow
  BY <1>4, <1>6 DEF FillAccounted, SymOf, Closing, OpenRequests, NoRequest
<1> QED
  BY <1>5, <1>6

\* Without a fault and with market orders, no interleaving of entries, closes and
\* emergency closes, of lost answers and triggered legs, leaves a position that
\* neither an open row nor a running request knows of (NoOrphanPosition).
THEOREM NoOrphans == Calm => (Spec => []NoOrphanPosition)
<1> SUFFICES ASSUME Calm PROVE Spec => []NoOrphanPosition
  OBVIOUS
<1>1. Spec => []FillAccounted
  BY NoFillIsLost DEF Calm
<1>2. SInv /\ (CalmInv /\ Backed({})) /\ [Next]_vars => (CalmInv /\ Backed({}))'
  BY CalmStep, BackedStep, BaseOfSafety, FaultFree DEF Calm, BInv, IInv, TypeOK
<1>3. SInv /\ (CalmInv /\ Backed({})) /\ FillAccounted => NoOrphanPosition
  BY BackedIsTracked, BaseOfSafety
<1> QED
  BY <1>1, <1>2, <1>3, BackedInit, SafetyInvariant, PTL DEF Spec
-----------------------------------------------------------------------------
(***************************************************************************)
(* Recovery sweeps running beside live trading, for any handlers, sweeps,  *)
(* symbols, faults and retry budgets.                                      *)
(***************************************************************************)

\* The rows a sweep queried are stored rows, and stay so until it commits.
KnownInv ==
    \A s \in Sweeps, m \in Symbols :
        known[s][m] # None => known[s][m] \in RowIds /\ row[known[s][m]] # NoRow

\* A sweep that repairs protection works on a row it queried, within its budget.
RepairInv ==
    \A s \in Sweeps : rpc[s] \in {"place", "verify"} =>
        at[s] \in Symbols /\ known[s][at[s]] # None /\ tries[s] < Retries

\* RowTellsTheTruth does not survive a sweep, which certifies rows on its own
\* reading; what live trading knows besides does.
RInv == IInv /\ BookedInv /\ ReviewIsKept /\ SweepTypes /\ KnownInv /\ RepairInv

-----------------------------------------------------------------------------
(* Live trading.                                                            *)

\* A request that was answered stays as it ended.
LEMMA DoneStays ==
  ASSUME IInv, [Next]_vars, NEW h \in Handlers, pc[h] = "done"
  PROVE  pc'[h] = "done" /\ placed'[h] = placed[h] /\ req'[h] = req[h]
<1> USE DEF IInv, TypeOK, HandlerTypes, Goto
<1>1. CASE UNCHANGED vars
  BY <1>1 DEF vars, handlerVars
<1>2. ASSUME NEW k \in Handlers, Request(k)
      PROVE  pc'[h] = "done" /\ placed'[h] = placed[h] /\ req'[h] = req[h]
  BY <1>2 DEF Request, OpenRequest, CloseRequest, EmergencyRequest
<1>3. ASSUME NEW k \in Handlers, HandlerStep(k)
      PROVE  pc'[h] = "done" /\ placed'[h] = placed[h] /\ req'[h] = req[h]
  <2>1. CASE Send(k) \/ OpenResolve(k) \/ EntryAccepted(k) \/ EntryRejected(k) \/ EntryTimesOut(k)
    BY <2>1 DEF Send, OpenResolve, EntryAccepted, EntryRejected, EntryTimesOut
  <2>2. CASE LookupFinds(k) \/ LookupMisses(k)
    BY <2>2 DEF LookupFinds, LookupMisses
  <2>3. CASE LegPlaced(k) \/ MockProtected(k) \/ LegFails(k) \/ OpenCommit(k)
    BY <2>3 DEF LegPlaced, MockProtected, LegFails, OpenCommit
  <2>4. CASE CloseAccepted(k) \/ CloseFails(k) \/ CloseCommit(k)
    BY <2>4 DEF CloseAccepted, CloseFails, CloseCommit
  <2>5. CASE EmergencyRead(k) \/ EmergencyFlat(k) \/ EmergencyCancel(k) \/ EmergencyCommit(k)
    BY <2>5 DEF EmergencyRead, EmergencyFlat, EmergencyCancel, EmergencyCommit
  <2> QED
    BY <1>3, <2>1, <2>2, <2>3, <2>4, <2>5 DEF HandlerStep
<1>4. CASE Environment
  BY <1>4 DEF Environment, Aborted, Busy, TerminalPCs, RestingFills, LegTriggers, LegsExpire,
              ToggleKill, ToggleGate, handlerVars
<1> QED
  BY <1>1, <1>2, <1>3, <1>4 DEF Next

\* What live trading does to the table: an open stores its own row, which asks for
\* review when its legs were not all placed; a close ends a stored row and keeps
\* its review flag; nothing deletes a row.
LEMMA LiveRows ==
  ASSUME IInv, BookedInv, [Next]_vars, NEW r \in RowIds
  PROVE  \/ row'[r] = row[r]
         \/ /\ row[r] # NoRow /\ row'[r] # NoRow /\ row'[r].review = row[r].review
            /\ row'[r].status \in {"CLOSED", "CLOSED_UNKNOWN"}
         \/ /\ r \in Handlers /\ row[r] = NoRow /\ pc'[r] = "done"
            /\ placed'[r] # req'[r].legs => row'[r].review
<1>1. CASE row' = row
  BY <1>1
<1>2. ASSUME NEW h \in Handlers, OpenCommit(h)
      PROVE  \/ row'[r] = row[r]
             \/ /\ r \in Handlers /\ row[r] = NoRow /\ pc'[r] = "done"
                /\ placed'[r] # req'[r].legs => row'[r].review
  <2>1. CASE r = h
    BY <1>2, <2>1 DEF OpenCommit, BookedInv, IInv, TypeOK, DbTypes, HandlerTypes, Goto,
                      ProtectionSettled, NewRow
  <2>2. CASE r # h
    BY <1>2, <2>2 DEF OpenCommit, IInv, TypeOK, DbTypes
  <2> QED
    BY <2>1, <2>2
<1>3. ASSUME NEW h \in Handlers, CloseCommit(h) \/ EmergencyFlat(h) \/ EmergencyCommit(h)
      PROVE  \/ row'[r] = row[r]
             \/ /\ row[r] # NoRow /\ row'[r] # NoRow /\ row'[r].review = row[r].review
                /\ row'[r].status \in {"CLOSED", "CLOSED_UNKNOWN"}
  <2>1. /\ row'[r] # NoRow <=> row[r] # NoRow
        /\ row[r] # NoRow => /\ row'[r].review = row[r].review
                             /\ row'[r] = row[r] \/ row'[r].status \in {"CLOSED", "CLOSED_UNKNOWN"}
    BY <1>3, RowsClose
  <2> QED
    BY <2>1
<1> QED
  BY <1>1, <1>2, <1>3, RowWriters

\* Live trading keeps what it knows, whatever sweeps did to the rows.
LEMMA LiveKeeps ==
  ASSUME IInv, BookedInv, ReviewIsKept, [Next]_vars
  PROVE  IInv' /\ BookedInv' /\ ReviewIsKept'
<1>1. IInv'
  BY NextIInv
<1>2. ASSUME NEW h \in Handlers, row'[h] # NoRow
      PROVE  pc'[h] = "done" /\ (placed'[h] # req'[h].legs => row'[h].review)
  <2>1. CASE row[h] # NoRow
    <3>1. pc[h] = "done" /\ (placed[h] # req[h].legs => row[h].review)
      BY <2>1 DEF BookedInv, ReviewIsKept
    <3>2. pc'[h] = "done" /\ placed'[h] = placed[h] /\ req'[h] = req[h]
      BY <3>1, DoneStays
    <3>3. row'[h] = row[h] \/ row'[h].review = row[h].review
      BY <2>1, LiveRows, RowsAssumption
    <3> QED
      BY <3>1, <3>2, <3>3
  <2>2. CASE row[h] = NoRow
    BY <1>2, <2>2, LiveRows, RowsAssumption
  <2> QED
    BY <2>1, <2>2
<1> QED
  BY <1>1, <1>2 DEF BookedInv, ReviewIsKept
-----------------------------------------------------------------------------
(* Sweeps.                                                                  *)

\* New issues are among those found, what the row is told is a verdict, and a
\* reading of the orders shows a TP, a SL, both or none.
LEMMA SweepValues ==
  /\ \A found : NewIssues(found) \subseteq found
  /\ \A r, legs : Status(r, legs) \in {"SYNCED", "UNSAFE", "MISSING_TP"}
  /\ \A m : Protection(m) \in SUBSET {"TP", "SL"}
  BY DEF NewIssues, Status, Protection

\* Settling a symbol keeps the sweep's variables in their types.
LEMMA SettleTyped ==
  ASSUME SweepTypes, NEW s \in Sweeps, NEW m \in Symbols, NEW v \in Verdicts, Settle(s, m, v)
  PROVE  /\ verdict' \in [Sweeps -> [Symbols -> Verdicts \cup {"none"}]]
         /\ drift' \in [Sweeps -> SUBSET (Symbols \X IssueTypes)]
         /\ rpc' = [rpc EXCEPT ![s] = "sync"]
<1>1. verdict' \in [Sweeps -> [Symbols -> Verdicts \cup {"none"}]]
  BY DEF Settle, SweepTypes
<1>2. NewIssues({<<m, "unprotected">>}) \in SUBSET (Symbols \X IssueTypes)
  BY SweepValues DEF IssueTypes
<1> QED
  BY <1>1, <1>2 DEF Settle, SweepTypes, SweepGoto

\* So does an attempt that did not end in SYNCED; another one is within budget.
LEMMA RetryTyped ==
  ASSUME SweepTypes, RepairInv, NEW s \in Sweeps, rpc[s] \in {"place", "verify"},
         NEW legs, Retry(s, legs)
  PROVE  /\ verdict' \in [Sweeps -> [Symbols -> Verdicts \cup {"none"}]]
         /\ drift' \in [Sweeps -> SUBSET (Symbols \X IssueTypes)]
         /\ tries' \in [Sweeps -> 0 .. Retries]
         /\ \/ rpc' = [rpc EXCEPT ![s] = "sync"]
            \/ rpc' = [rpc EXCEPT ![s] = "place"] /\ tries'[s] < Retries
         /\ \A z \in Sweeps \ {s} : tries'[z] = tries[z]
<1>1. at[s] \in Symbols /\ tries[s] < Retries /\ tries[s] \in 0 .. Retries
  BY DEF RepairInv, SweepTypes
<1>2. /\ tries' \in [Sweeps -> 0 .. Retries] /\ tries'[s] = tries[s] + 1
      /\ \A z \in Sweeps \ {s} : tries'[z] = tries[z]
  BY <1>1, RetriesAssumption DEF Retry, SweepTypes
<1>3. CASE tries[s] + 1 < Retries
  BY <1>2, <1>3 DEF Retry, SweepTypes, SweepGoto
<1>4. CASE ~(tries[s] + 1 < Retries)
  <2>1. Settle(s, at[s], Status(known[s][at[s]], legs))
    BY <1>4 DEF Retry
  <2>2. Status(known[s][at[s]], legs) \in Verdicts
    BY SweepValues DEF Verdicts
  <2> QED
    BY <1>1, <1>2, <2>1, <2>2, SettleTyped
<1> QED
  BY <1>3, <1>4

\* The steps of a sweep that neither write to the exchange nor to the database.
LEMMA ReadingSteps ==
  ASSUME RInv, NEW s \in Sweeps,
         \/ SweepStart(s) \/ ReadPositions(s) \/ PositionsUnreadable(s)
         \/ SyncStart(s) \/ Verify(s) \/ SweepAborts(s)
  PROVE  SweepTypes' /\ KnownInv' /\ RepairInv' /\ UNCHANGED vars
<1> USE DEF RInv
<1>0. UNCHANGED vars /\ UNCHANGED row
  BY DEF SweepStart, ReadPositions, PositionsUnreadable, SyncStart, Verify, SweepAborts, vars, dbVars
<1>1. CASE SweepStart(s)
  <2>1. PICK k \in [Symbols -> RowIds \cup {None}] :
          /\ \A m \in Symbols : IF OpenRows(m) = {} THEN k[m] = None ELSE k[m] \in OpenRows(m)
          /\ known' = [known EXCEPT ![s] = k]
    BY <1>1 DEF SweepStart
  <2>2. \A m \in Symbols : k[m] # None => k[m] \in RowIds /\ row[k[m]] # NoRow
    BY <2>1 DEF OpenRows
  <2>3. KnownInv'
    BY <1>0, <2>1, <2>2 DEF KnownInv, SweepTypes
  <2>4. SweepTypes'
    BY <1>1, <2>1 DEF SweepStart, SweepTypes, ResolveVia, SweepGoto
  <2>5. RepairInv'
    BY <1>1, <2>1 DEF SweepStart, RepairInv, SweepTypes, SweepGoto
  <2> QED
    BY <1>0, <2>3, <2>4, <2>5
<1>2. CASE ReadPositions(s)
  <2>1. Listing(s) \in [Symbols -> Int]
    BY DEF Listing, IInv, TypeOK, ExchangeTypes
  <2>2. Compared(s, Listing(s)) \in [Sweeps -> SUBSET (Symbols \X IssueTypes)]
    BY SweepValues DEF Compared, SweepTypes, IssueTypes
  <2>3. SweepTypes'
    BY <1>2, <2>1, <2>2 DEF ReadPositions, SweepTypes, SweepGoto
  <2>4. KnownInv' /\ RepairInv'
    BY <1>0, <1>2 DEF ReadPositions, KnownInv, RepairInv, SweepTypes, SweepGoto
  <2> QED
    BY <1>0, <2>3, <2>4
<1>3. CASE PositionsUnreadable(s) \/ SweepAborts(s)
  <2>1. SweepTypes'
    BY <1>3 DEF PositionsUnreadable, SkipAccount, SweepAborts, SweepTypes, SweepGoto
  <2>2. KnownInv' /\ RepairInv'
    BY <1>0, <1>3 DEF PositionsUnreadable, SkipAccount, SweepAborts, KnownInv, RepairInv,
                      SweepTypes, SweepGoto
  <2> QED
    BY <1>0, <2>1, <2>2
<1>4. CASE SyncStart(s)
  <2>1. PICK m \in Todo(s) :
          /\ at' = [at EXCEPT ![s] = m]
          /\ ResolveVia(s) /\ tries' = [tries EXCEPT ![s] = 0]
          /\ \/ LET legs == IF gate THEN Protection(m) ELSE {}
                    v    == Status(known[s][m], legs)
                IN  /\ seen' = [seen EXCEPT ![s] = legs]
                    /\ IF v = "SYNCED" THEN Settle(s, m, v)
                       ELSE SweepGoto(s, "place") /\ UNCHANGED <<verdict, drift>>
             \/ gate /\ Settle(s, m, "UNKNOWN") /\ UNCHANGED seen
    BY <1>4 DEF SyncStart
  <2>2. m \in Symbols /\ known[s][m] # None
    BY DEF Todo, Matched
  <2>3. at' \in [Sweeps -> Symbols \cup {None}] /\ via' \in [Sweeps -> {"none", "LIVE", "MOCK"}]
        /\ tries' \in [Sweeps -> 0 .. Retries]
    BY <2>1, <2>2, RetriesAssumption DEF SweepTypes, ResolveVia
  <2>4. seen' \in [Sweeps -> SUBSET {"TP", "SL"}]
    <3>1. \/ seen' = [seen EXCEPT ![s] = IF gate THEN Protection(m) ELSE {}]
          \/ seen' = seen
      BY <2>1
    <3>2. (IF gate THEN Protection(m) ELSE {}) \in SUBSET {"TP", "SL"}
      BY SweepValues
    <3> QED
      BY <3>1, <3>2 DEF SweepTypes
  <2>5. /\ verdict' \in [Sweeps -> [Symbols -> Verdicts \cup {"none"}]]
        /\ drift' \in [Sweeps -> SUBSET (Symbols \X IssueTypes)]
        /\ rpc' = [rpc EXCEPT ![s] = "sync"] \/ rpc' = [rpc EXCEPT ![s] = "place"]
    BY <2>1, <2>2, SettleTyped DEF SweepTypes, Verdicts, SweepGoto
  <2>6. SweepTypes'
    BY <1>4, <2>3, <2>4, <2>5 DEF SyncStart, SweepTypes
  <2>7. KnownInv'
    BY <1>0, <1>4 DEF SyncStart, KnownInv
  <2>8. RepairInv'
    BY <1>4, <2>1, <2>2, <2>5, RetriesAssumption DEF SyncStart, RepairInv, SweepTypes
  <2> QED
    BY <1>0, <2>6, <2>7, <2>8
<1>5. CASE Verify(s)
  <2>1. at[s] \in Symbols /\ rpc[s] = "verify"
    BY <1>5 DEF Verify, RepairInv
  <2>2. seen' \in [Sweeps -> SUBSET {"TP", "SL"}]
    <3>1. \/ seen' = [seen EXCEPT ![s] = IF via[s] = "LIVE" /\ gate THEN Protection(at[s]) ELSE {}]
          \/ seen' = [seen EXCEPT ![s] = {}]
      BY <1>5 DEF Verify
    <3>2. (IF via[s] = "LIVE" /\ gate THEN Protection(at[s]) ELSE {}) \in SUBSET {"TP", "SL"}
      BY SweepValues
    <3> QED
      BY <3>1, <3>2 DEF SweepTypes
  <2>5. UNCHANGED <<via, known, listed, at, issues>>
    BY <1>5 DEF Verify
  <2>3. CASE Settle(s, at[s], "SYNCED") /\ UNCHANGED tries
    <3>1. "SYNCED" \in Verdicts
      BY DEF Verdicts
    <3>2. /\ verdict' \in [Sweeps -> [Symbols -> Verdicts \cup {"none"}]]
          /\ drift' \in [Sweeps -> SUBSET (Symbols \X IssueTypes)]
          /\ rpc' = [rpc EXCEPT ![s] = "sync"]
      BY <2>1, <2>3, <3>1, SettleTyped
    <3> QED
      BY <1>0, <2>2, <2>3, <2>5, <3>2 DEF SweepTypes, KnownInv, RepairInv
  <2>4. CASE Retry(s, seen'[s])
    <3>1. /\ verdict' \in [Sweeps -> [Symbols -> Verdicts \cup {"none"}]]
          /\ drift' \in [Sweeps -> SUBSET (Symbols \X IssueTypes)]
          /\ tries' \in [Sweeps -> 0 .. Retries]
          /\ \/ rpc' = [rpc EXCEPT ![s] = "sync"]
             \/ rpc' = [rpc EXCEPT ![s] = "place"] /\ tries'[s] < Retries
          /\ \A z \in Sweeps \ {s} : tries'[z] = tries[z]
      BY <2>1, <2>4, RetryTyped
    <3>2. SweepTypes' /\ KnownInv'
      BY <1>0, <2>2, <2>5, <3>1 DEF SweepTypes, KnownInv
    <3>3. RepairInv'
      BY <2>1, <2>5, <3>1 DEF SweepTypes, RepairInv
    <3> QED
      BY <1>0, <3>2, <3>3
  <2> QED
    BY <1>5, <2>3, <2>4 DEF Verify
<1> QED
  BY <1>1, <1>2, <1>3, <1>4, <1>5

\* set_tp_sl adds orders of the row's side and leaves everything else of live
\* trading alone.
LEMMA PlaceStep ==
  ASSUME RInv, NEW s \in Sweeps, Place(s)
  PROVE  SweepTypes' /\ KnownInv' /\ RepairInv' /\ IInv' /\ BookedInv' /\ ReviewIsKept'
<1> USE DEF RInv
<1>1. at[s] \in Symbols /\ known[s][at[s]] # None /\ rpc[s] = "place" /\ tries[s] < Retries
  BY DEF Place, RepairInv
<1>2. known[s][at[s]] \in RowIds /\ row[known[s][at[s]]] \in RowSet
  BY <1>1 DEF KnownInv, IInv, TypeOK, DbTypes
<1>3. PICK sent \in SUBSET (Expected(known[s][at[s]]) \ seen[s]) :
        /\ orders' = [orders EXCEPT ![at[s]] = @ \cup {<<row[known[s][at[s]]].side, l>> : l \in sent}]
        /\ \/ SweepGoto(s, "verify") /\ UNCHANGED <<tries, verdict, drift>>
           \/ Retry(s, seen[s])
  BY DEF Place
<1>4. UNCHANGED <<handlerVars, exch, resting, landed, executed, dbVars, switchVars>>
      /\ UNCHANGED <<via, known, listed, at, seen, issues>>
  BY DEF Place
<1>5. IInv'
  <2>1. sent \subseteq Legs
    BY <1>3 DEF Expected, Legs
  <2>2. orders' \in [Symbols -> SUBSET (Sides \X Legs)]
    BY <1>1, <1>2, <1>3, <2>1 DEF RowSet, IInv, TypeOK, ExchangeTypes
  <2> QED
    BY <1>4, <2>2 DEF IInv, TypeOK, HandlerTypes, ExchangeTypes, DbTypes, SwitchTypes, OpeningInv,
                      ClosingInv, AdapterInv, handlerVars, dbVars, switchVars
<1>6. BookedInv' /\ ReviewIsKept' /\ KnownInv'
  BY <1>4 DEF BookedInv, ReviewIsKept, KnownInv, handlerVars, dbVars
<1>7. CASE SweepGoto(s, "verify") /\ UNCHANGED <<tries, verdict, drift>>
  BY <1>1, <1>4, <1>5, <1>6, <1>7 DEF SweepGoto, SweepTypes, RepairInv
<1>8. CASE Retry(s, seen[s])
  <2>1. /\ verdict' \in [Sweeps -> [Symbols -> Verdicts \cup {"none"}]]
        /\ drift' \in [Sweeps -> SUBSET (Symbols \X IssueTypes)]
        /\ tries' \in [Sweeps -> 0 .. Retries]
        /\ \/ rpc' = [rpc EXCEPT ![s] = "sync"]
           \/ rpc' = [rpc EXCEPT ![s] = "place"] /\ tries'[s] < Retries
        /\ \A z \in Sweeps \ {s} : tries'[z] = tries[z]
    BY <1>1, <1>8, RetryTyped
  <2>2. SweepTypes'
    BY <1>4, <2>1 DEF SweepTypes
  <2>3. RepairInv'
    BY <1>1, <1>4, <2>1 DEF SweepTypes, RepairInv
  <2> QED
    BY <1>5, <1>6, <2>2, <2>3
<1> QED
  BY <1>3, <1>7, <1>8
-----------------------------------------------------------------------------
(* The commit of a sweep.                                                   *)

\* The rows whose positions a sweep found gone.
Off(s) == {known[s][m] : m \in Vanished(s)}

\* What a commit does to the table: an import takes an unused row that is no
\* request's; every other row keeps its review flag or gets one, and is left,
\* certified, or, if its position was gone, ended as unknown.
LEMMA CommitRows ==
  ASSUME RInv, NEW s \in Sweeps, SweepCommit(s), NEW r \in RowIds
  PROVE  \/ row'[r] = row[r] /\ r \notin Off(s)
         \/ \E m \in Symbols : r \notin Handlers /\ row[r] = NoRow /\ listed[s][m] # 0
                             /\ row'[r] = Import(m, listed[s][m])
         \/ /\ row[r] # NoRow /\ r \in Off(s)
            /\ row'[r] = [row[r] EXCEPT !.status = "CLOSED_UNKNOWN", !.review = TRUE]
         \/ \E v \in Verdicts, b \in BOOLEAN :
              row[r] # NoRow /\ r \notin Off(s) /\ row'[r] = [row[r] EXCEPT !.tpsl = v, !.review = row[r].review \/ b]
<1> USE DEF RInv
<1>1. PICK id \in [Orphans(s) -> {q \in RowIds \ Handlers : row[q] = NoRow}] :
        row' = [q \in RowIds |->
              IF \E m \in Orphans(s) : id[m] = q
                  THEN LET m == CHOOSE n \in Orphans(s) : id[n] = q IN Import(m, listed[s][m])
              ELSE IF \E m \in Vanished(s) : known[s][m] = q
                  THEN [row[q] EXCEPT !.status = "CLOSED_UNKNOWN", !.review = TRUE]
              ELSE IF \E m \in Matched(s) : known[s][m] = q
                  THEN Synced(s, CHOOSE m \in Matched(s) : known[s][m] = q)
              ELSE row[q]]
  BY DEF SweepCommit
<1>2. CASE \E m \in Orphans(s) : id[m] = r
  <2> DEFINE m == CHOOSE n \in Orphans(s) : id[n] = r
  <2>1. m \in Orphans(s) /\ id[m] = r
    BY <1>2
  <2>2. row'[r] = Import(m, listed[s][m])
    BY <1>1, <1>2
  <2> HIDE DEF m
  <2>3. m \in Symbols /\ listed[s][m] # 0
    BY <2>1 DEF Orphans
  <2>4. r \notin Handlers /\ row[r] = NoRow
    BY <2>1
  <2> QED
    BY <2>2, <2>3, <2>4
<1>3. CASE ~(\E m \in Orphans(s) : id[m] = r) /\ \E m \in Vanished(s) : known[s][m] = r
  <2>1. row'[r] = [row[r] EXCEPT !.status = "CLOSED_UNKNOWN", !.review = TRUE]
    BY <1>1, <1>3
  <2>2. row[r] # NoRow
    BY <1>3 DEF Vanished, KnownInv
  <2> QED
    BY <1>3, <2>1, <2>2 DEF Off
<1>4. CASE /\ ~(\E m \in Orphans(s) : id[m] = r) /\ ~(\E m \in Vanished(s) : known[s][m] = r)
           /\ \E m \in Matched(s) : known[s][m] = r
  <2> DEFINE m == CHOOSE n \in Matched(s) : known[s][n] = r
  <2>1. m \in Matched(s) /\ known[s][m] = r
    BY <1>4
  <2>2. row'[r] = Synced(s, m)
    BY <1>1, <1>4
  <2>3. row[r] # NoRow
    BY <2>1 DEF Matched, KnownInv
  <2>4. verdict[s][m] \in Verdicts
    <3>1. Todo(s) = {}
      BY DEF SweepCommit
    <3>2. m \in Symbols /\ verdict[s][m] # "none"
      BY <2>1, <3>1 DEF Todo, Matched
    <3> QED
      BY <3>2 DEF SweepTypes
  <2>5. row'[r] = [row[r] EXCEPT !.tpsl = verdict[s][m],
                                 !.review = row[r].review \/ verdict[s][m] \in {"UNSAFE", "MISSING_TP"}]
    BY <2>1, <2>2 DEF Synced
  <2> QED
    BY <1>4, <2>3, <2>4, <2>5 DEF Off
<1>5. CASE /\ ~(\E m \in Orphans(s) : id[m] = r) /\ ~(\E m \in Vanished(s) : known[s][m] = r)
           /\ ~(\E m \in Matched(s) : known[s][m] = r)
  BY <1>1, <1>5 DEF Off
<1> QED
  BY <1>2, <1>3, <1>4, <1>5

\* The table keeps its rows' names.
LEMMA CommitTable ==
  ASSUME NEW s \in Sweeps, SweepCommit(s)
  PROVE  row' = [r \in RowIds |-> row'[r]]
<1> DEFINE F(id) == [q \in RowIds |->
              IF \E m \in Orphans(s) : id[m] = q
                  THEN LET m == CHOOSE n \in Orphans(s) : id[n] = q IN Import(m, listed[s][m])
              ELSE IF \E m \in Vanished(s) : known[s][m] = q
                  THEN [row[q] EXCEPT !.status = "CLOSED_UNKNOWN", !.review = TRUE]
              ELSE IF \E m \in Matched(s) : known[s][m] = q
                  THEN Synced(s, CHOOSE m \in Matched(s) : known[s][m] = q)
              ELSE row[q]]
<1>1. PICK id \in [Orphans(s) -> {q \in RowIds \ Handlers : row[q] = NoRow}] : row' = F(id)
  BY DEF SweepCommit
<1>2. \A i : F(i) = [r \in RowIds |-> F(i)[r]]
  OBVIOUS
<1> HIDE DEF F
<1> QED
  BY <1>1, <1>2

\* An import is a stored row: its size and side come from a position.
LEMMA ImportStored ==
  ASSUME Sides = {"LONG", "SHORT"}, NEW m \in Symbols, NEW n \in Int, n # 0
  PROVE  Import(m, n) \in RowSet /\ Import(m, n) # NoRow
<1>1. Abs(n) \in Nat \ {0}
  BY DEF Abs
<1>2. Import(m, n) \in RowSet
  BY <1>1 DEF Import, RowSet
<1> QED
  BY <1>2, RowSetNoRow

\* Every row a commit leaves is well typed; none is deleted or opened again, and
\* none loses its request for review.
LEMMA CommitKeeps ==
  ASSUME RInv, Sides = {"LONG", "SHORT"}, NEW s \in Sweeps, SweepCommit(s), NEW r \in RowIds
  PROVE  /\ row'[r] \in {NoRow} \cup RowSet
         /\ row[r] # NoRow => /\ row'[r] # NoRow
                              /\ ~IsOpen(r) => row'[r].status \notin {"OPEN", "RECOVERED"}
                              /\ row[r].review => row'[r].review
         /\ r \in Handlers /\ row[r] = NoRow => row'[r] = NoRow
<1>0. row[r] \in {NoRow} \cup RowSet /\ \A m \in Symbols : listed[s][m] \in Int
  BY DEF RInv, IInv, TypeOK, DbTypes, SweepTypes
<1>1. CASE row'[r] = row[r]
  BY <1>0, <1>1 DEF IsOpen
<1>2. CASE \E m \in Symbols : r \notin Handlers /\ row[r] = NoRow /\ listed[s][m] # 0
                             /\ row'[r] = Import(m, listed[s][m])
  BY <1>0, <1>2, ImportStored
<1>3. CASE /\ row[r] # NoRow
           /\ row'[r] = [row[r] EXCEPT !.status = "CLOSED_UNKNOWN", !.review = TRUE]
  <2>1. row'[r] \in RowSet /\ row'[r].review /\ row'[r].status = "CLOSED_UNKNOWN"
    BY <1>0, <1>3 DEF RowSet
  <2> QED
    BY <1>3, <2>1, RowSetNoRow
<1>4. ASSUME NEW v \in Verdicts, NEW b \in BOOLEAN, row[r] # NoRow,
             row'[r] = [row[r] EXCEPT !.tpsl = v, !.review = row[r].review \/ b]
      PROVE  /\ row'[r] \in RowSet /\ row'[r].status = row[r].status
             /\ row[r].review => row'[r].review
  BY <1>0, <1>4 DEF RowSet, Verdicts
<1> QED
  BY <1>1, <1>2, <1>3, <1>4, CommitRows, RowSetNoRow DEF IsOpen

\* A commit keeps the invariant.
LEMMA CommitStep ==
  ASSUME RInv, Sides = {"LONG", "SHORT"}, NEW s \in Sweeps, SweepCommit(s)
  PROVE  RInv'
<1> USE DEF RInv
<1>1. UNCHANGED <<handlerVars, exchangeVars, trades, switchVars>>
      /\ UNCHANGED <<via, known, listed, at, seen, tries, verdict, drift>>
      /\ rpc' = [rpc EXCEPT ![s] = "done"]
  BY DEF SweepCommit, SweepGoto
<1>2. IInv'
  <2>1. row' \in [RowIds -> {NoRow} \cup RowSet]
    BY CommitTable, CommitKeeps
  <2>2. ClosingInv'
    <3> SUFFICES ASSUME NEW h \in Handlers, pc[h] \in ClosingPCs
                 PROVE  req[h] \in CloseRequests /\ row'[req[h].tgt] # NoRow
      BY <1>1 DEF ClosingInv, handlerVars
    <3> QED
      BY CommitKeeps, TargetStored DEF Target
  <2> QED
    BY <1>1, <2>1, <2>2 DEF IInv, TypeOK, HandlerTypes, ExchangeTypes, DbTypes, SwitchTypes,
         OpeningInv, AdapterInv, handlerVars, exchangeVars, switchVars
<1>3. BookedInv' /\ ReviewIsKept'
  <2> SUFFICES ASSUME NEW h \in Handlers, row'[h] # NoRow
               PROVE  pc[h] = "done" /\ (placed[h] # req[h].legs => row'[h].review)
    BY <1>1 DEF BookedInv, ReviewIsKept, handlerVars
  <2>1. row[h] # NoRow /\ (row[h].review => row'[h].review)
    BY CommitKeeps, RowsAssumption
  <2> QED
    BY <2>1 DEF BookedInv, ReviewIsKept
<1>4. KnownInv'
  BY <1>1, CommitKeeps DEF KnownInv
<1>5. RepairInv'
  BY <1>1 DEF RepairInv, SweepTypes
<1>6. SweepTypes'
  <2>1. issues' \subseteq [sym : Symbols, type : IssueTypes, by : Sweeps]
    <3>1. issues' = issues \cup {[sym |-> i[1], type |-> i[2], by |-> s] : i \in drift[s]}
      BY DEF SweepCommit
    <3>2. \A i \in drift[s] : i[1] \in Symbols /\ i[2] \in IssueTypes
      BY DEF SweepTypes
    <3> QED
      BY <3>1, <3>2 DEF SweepTypes
  <2> QED
    BY <1>1, <2>1 DEF SweepTypes
<1> QED
  BY <1>2, <1>3, <1>4, <1>5, <1>6

-----------------------------------------------------------------------------
(* Theorems.  Imported positions are long or short, hence the premise.       *)

LEMMA InitRInv == RInit => RInv
<1> SUFFICES ASSUME RInit PROVE RInv
  OBVIOUS
<1>1. IInv
  BY InitIInv DEF RInit
<1>2. BookedInv /\ ReviewIsKept
  BY RowsAssumption DEF RInit, Init, BookedInv, ReviewIsKept
<1>3. SweepTypes
  BY RetriesAssumption DEF RInit, SweepInit, SweepTypes
<1>4. KnownInv /\ RepairInv
  BY DEF RInit, SweepInit, KnownInv, RepairInv
<1> QED
  BY <1>1, <1>2, <1>3, <1>4 DEF RInv

\* A step of live trading while sweeps run.
LEMMA LiveStepKeeps ==
  ASSUME RInv, [Next]_vars, UNCHANGED sweepVars
  PROVE  RInv'
<1> USE DEF RInv
<1>1. IInv' /\ BookedInv' /\ ReviewIsKept'
  BY LiveKeeps
<1>2. SweepTypes' /\ RepairInv'
  BY DEF sweepVars, SweepTypes, RepairInv
<1>3. KnownInv'
  <2> SUFFICES ASSUME NEW r \in RowIds, row[r] # NoRow PROVE row'[r] # NoRow
    BY DEF KnownInv, sweepVars
  <2> QED
    BY LiveRows
<1> QED
  BY <1>1, <1>2, <1>3

LEMMA StepRInv == RInv /\ Sides = {"LONG", "SHORT"} /\ [RNext]_rvars => RInv'
<1> SUFFICES ASSUME RInv, Sides = {"LONG", "SHORT"}, [RNext]_rvars PROVE RInv'
  OBVIOUS
<1>1. CASE LiveStep(Next) \/ UNCHANGED rvars
  BY <1>1, LiveStepKeeps DEF LiveStep, rvars
<1>2. ASSUME NEW s \in Sweeps,
             \/ SweepStart(s) \/ ReadPositions(s) \/ PositionsUnreadable(s)
             \/ SyncStart(s) \/ Verify(s) \/ SweepAborts(s)
      PROVE  RInv'
  <2>1. SweepTypes' /\ KnownInv' /\ RepairInv' /\ UNCHANGED vars
    BY <1>2, ReadingSteps
  <2>2. IInv' /\ BookedInv' /\ ReviewIsKept'
    BY <2>1, LiveKeeps DEF RInv
  <2> QED
    BY <2>1, <2>2 DEF RInv
<1>3. ASSUME NEW s \in Sweeps, Place(s) PROVE RInv'
  BY <1>3, PlaceStep DEF RInv
<1>4. ASSUME NEW s \in Sweeps, SweepCommit(s) PROVE RInv'
  BY <1>4, CommitStep
<1> QED
  BY <1>1, <1>2, <1>3, <1>4 DEF RNext, SweepStep

LEMMA RecoveryInvariant == Sides = {"LONG", "SHORT"} => (RSpec => []RInv)
<1>1. CASE Sides = {"LONG", "SHORT"}
  <2>1. RInv /\ [RNext]_rvars => RInv'
    BY <1>1, StepRInv
  <2> QED
    BY <2>1, InitRInv, PTL DEF RSpec
<1> QED
  BY <1>1

\* Type correctness of recovery beside live trading (RTypeOK).
THEOREM RecoveryTypeCorrect == Sides = {"LONG", "SHORT"} => (RSpec => []RTypeOK)
<1>1. RInv => RTypeOK
  BY DEF RInv, IInv, RTypeOK
<1> QED
  BY <1>1, RecoveryInvariant, PTL

\* No sweep, whatever it read and however it raced the requests, takes the request
\* for review off a row whose legs were never all confirmed (ReviewIsKept).
THEOREM ReviewKept == Sides = {"LONG", "SHORT"} => (RSpec => []ReviewIsKept)
<1>1. RInv => ReviewIsKept
  BY DEF RInv
<1> QED
  BY <1>1, RecoveryInvariant, PTL

\* A closed row stays closed although a sweep may certify it long after a close
\* request ended it (ClosedRowsStayClosed, for live trading with recovery).
THEOREM RecoveryReopensNothing == Sides = {"LONG", "SHORT"} => (RSpec => ClosedRowsStayClosed)
<1> DEFINE Unchanged == \A r \in RowIds : row[r] # NoRow =>
              row'[r] # NoRow /\ (~IsOpen(r) => row'[r].status \notin {"OPEN", "RECOVERED"})
<1>1. ASSUME Sides = {"LONG", "SHORT"}, RInv, [RNext]_rvars PROVE [Unchanged]_vars
  <2>1. CASE LiveStep(Next) \/ UNCHANGED rvars
    <3>1. [Next]_vars
      BY <2>1 DEF LiveStep, rvars
    <3>2. Unchanged
      BY <1>1, <3>1, LiveRows DEF RInv, IsOpen
    <3> QED
      BY <3>2
  <2>2. ASSUME NEW s \in Sweeps,
               \/ SweepStart(s) \/ ReadPositions(s) \/ PositionsUnreadable(s)
               \/ SyncStart(s) \/ Verify(s) \/ SweepAborts(s)
        PROVE  [Unchanged]_vars
    BY <1>1, <2>2, ReadingSteps
  <2>3. ASSUME NEW s \in Sweeps, Place(s) PROVE [Unchanged]_vars
    <3>1. row' = row
      BY <2>3 DEF Place, dbVars
    <3> QED
      BY <3>1 DEF IsOpen
  <2>4. ASSUME NEW s \in Sweeps, SweepCommit(s) PROVE [Unchanged]_vars
    BY <1>1, <2>4, CommitKeeps
  <2> QED
    BY <1>1, <2>1, <2>2, <2>3, <2>4 DEF RNext, SweepStep
<1>2. CASE Sides = {"LONG", "SHORT"}
  <2>1. RInv /\ [RNext]_rvars => [Unchanged]_vars
    BY <1>1, <1>2
  <2> QED
    BY <1>2, <2>1, RecoveryInvariant, PTL DEF RSpec, ClosedRowsStayClosed
<1> QED
  BY <1>2

-----------------------------------------------------------------------------
(* Without a fault, no sweep orphans a position.                            *)

\* The rows running sweeps will end, because they saw their symbol flat.
WrittenOff == UNION {Off(s) : s \in {z \in Sweeps : Syncing(z)}}

\* Sweeps read the exchange through live adapters, and query rows of the symbol.
SweepCalm ==
    /\ \A s \in Sweeps : rpc[s] # "idle" => via[s] = "LIVE"
    /\ \A s \in Sweeps, m \in Symbols : known[s][m] # None => row[known[s][m]].sym = m

CInv == RInv /\ BInv /\ CalmInv /\ FillAccounted /\ SweepCalm

\* A stored row is open with its request's symbol and side until it is ended.
LEMMA CommitOutcome ==
  ASSUME RInv, Sides = {"LONG", "SHORT"}, NEW s \in Sweeps, SweepCommit(s),
         NEW r \in RowIds, row[r] # NoRow
  PROVE  /\ row'[r] # NoRow /\ row'[r].mode = row[r].mode
         /\ row'[r].sym = row[r].sym /\ row'[r].side = row[r].side
         /\ r \in Off(s) => row'[r].status = "CLOSED_UNKNOWN"
         /\ r \notin Off(s) => row'[r].status = row[r].status
<1>1. row[r] \in RowSet
  BY DEF RInv, IInv, TypeOK, DbTypes
<1>2. row'[r] # NoRow
  BY CommitKeeps
<1>3. CASE r \in Off(s)
  <2>1. row'[r] = [row[r] EXCEPT !.status = "CLOSED_UNKNOWN", !.review = TRUE]
    BY <1>3, CommitRows
  <2> QED
    BY <1>1, <1>2, <1>3, <2>1 DEF RowSet
<1>4. ASSUME NEW v \in Verdicts, NEW b \in BOOLEAN,
             row'[r] = [row[r] EXCEPT !.tpsl = v, !.review = row[r].review \/ b]
      PROVE  /\ row'[r].mode = row[r].mode /\ row'[r].status = row[r].status
             /\ row'[r].sym = row[r].sym /\ row'[r].side = row[r].side
  BY <1>1, <1>4 DEF RowSet
<1>5. CASE r \notin Off(s)
  <2>1. CASE row'[r] = row[r]
    BY <1>2, <1>5, <2>1
  <2>2. CASE \E v \in Verdicts, b \in BOOLEAN :
              row[r] # NoRow /\ r \notin Off(s) /\ row'[r] = [row[r] EXCEPT !.tpsl = v, !.review = row[r].review \/ b]
    BY <1>2, <1>4, <1>5, <2>2
  <2> QED
    BY <1>5, <2>1, <2>2, CommitRows
<1> QED
  BY <1>3, <1>5

\* Live trading beside sweeps.
LEMMA CalmLive ==
  ASSUME Orderly, Undisturbed, CInv, RInv', [Next]_vars, UNCHANGED sweepVars
  PROVE  CInv'
<1>1. BInv'
  BY BaseStep DEF CInv, RInv
<1>2. CalmInv'
  BY CalmStep DEF CInv
<1>3. FillAccounted'
  BY FillStep DEF CInv, Orderly, CalmInv
<1>4. SweepCalm'
  <2> SUFFICES ASSUME NEW s \in Sweeps, NEW m \in Symbols, known[s][m] # None
               PROVE  row'[known[s][m]].sym = m
    BY DEF SweepCalm, sweepVars, CInv
  <2>1. known[s][m] \in RowIds /\ row[known[s][m]] # NoRow /\ row[known[s][m]].sym = m
    BY DEF CInv, RInv, KnownInv, SweepCalm
  <2> QED
    BY <2>1, RowKept DEF CInv
<1> QED
  BY <1>1, <1>2, <1>3, <1>4 DEF CInv

\* A step of a sweep that leaves the rows alone.
LEMMA CalmSweep ==
  ASSUME CInv, RInv', NEW s \in Sweeps,
         \/ SweepStart(s) \/ ReadPositions(s) \/ PositionsUnreadable(s)
         \/ SyncStart(s) \/ Place(s) \/ Verify(s)
  PROVE  CInv'
<1>1. UNCHANGED <<handlerVars, exch, resting, landed, executed, dbVars, switchVars>>
  BY DEF SweepStart, ReadPositions, PositionsUnreadable, SyncStart, Verify, Place,
         vars, exchangeVars
<1>2. BInv' /\ CalmInv' /\ FillAccounted'
  BY <1>1 DEF CInv, RInv, BInv, WireInv, LandedInv, CalmInv, FillAccounted, Busy,
              handlerVars, dbVars, switchVars
<1>3. SweepCalm'
  <2>1. CASE SweepStart(s)
    <3>1. PICK k \in [Symbols -> RowIds \cup {None}] :
            /\ \A m \in Symbols : IF OpenRows(m) = {} THEN k[m] = None ELSE k[m] \in OpenRows(m)
            /\ known' = [known EXCEPT ![s] = k]
      BY <2>1 DEF SweepStart
    <3>2. \A m \in Symbols : k[m] # None => row[k[m]].sym = m
      BY <3>1 DEF OpenRows
    <3>3. \A z \in Sweeps, m \in Symbols : known'[z][m] # None => row'[known'[z][m]].sym = m
      BY <1>1, <3>1, <3>2 DEF CInv, SweepCalm, RInv, SweepTypes, dbVars
    <3>4. \A z \in Sweeps : rpc'[z] # "idle" => via'[z] = "LIVE"
      BY <2>1 DEF SweepStart, ResolveVia, SweepGoto, CInv, SweepCalm, CalmInv, RInv, SweepTypes
    <3> QED
      BY <3>3, <3>4 DEF SweepCalm
  <2>2. CASE ~SweepStart(s)
    <3>1. known' = known
      BY <2>2 DEF ReadPositions, PositionsUnreadable, SyncStart, Verify, Place
    <3>2. via' = via \/ ResolveVia(s)
      BY <2>2 DEF ReadPositions, PositionsUnreadable, SyncStart, Verify, Place
    <3>3. /\ rpc[s] # "idle"
          /\ \A z \in Sweeps \ {s} : rpc'[z] = rpc[z]
      BY <2>2 DEF ReadPositions, PositionsUnreadable, SkipAccount, SyncStart, Verify, Place, Settle,
                  Retry, SweepGoto, CInv, RInv, SweepTypes
    <3>4. \A z \in Sweeps : rpc'[z] # "idle" => via'[z] = "LIVE"
      BY <3>2, <3>3 DEF ResolveVia, CInv, SweepCalm, CalmInv, RInv, SweepTypes
    <3> QED
      BY <1>1, <3>1, <3>4 DEF CInv, SweepCalm, dbVars
  <2> QED
    BY <2>1, <2>2
<1> QED
  BY <1>2, <1>3 DEF CInv

\* The commit of a sweep.
LEMMA CalmSweepCommit ==
  ASSUME CInv, RInv', Sides = {"LONG", "SHORT"}, NEW s \in Sweeps, SweepCommit(s)
  PROVE  CInv'
<1>1. UNCHANGED <<handlerVars, exchangeVars, trades, switchVars>> /\ UNCHANGED <<via, known>>
  BY DEF SweepCommit
<1>2. \A h \in Handlers : row[h] = NoRow => row'[h] = NoRow
  BY CommitKeeps, RowsAssumption DEF CInv
<1>3. BInv'
  BY <1>1 DEF CInv, RInv, BInv, WireInv, LandedInv, handlerVars, exchangeVars
<1>4. CalmInv'
  BY <1>1, <1>2, CommitOutcome, RowsAssumption
     DEF CInv, CalmInv, handlerVars, exchangeVars, switchVars
<1>5. FillAccounted'
  <2> SUFFICES ASSUME NEW h \in landed, ~Busy(h)
               PROVE  row'[h] # NoRow /\ row'[h].mode = "LIVE"
    BY <1>1 DEF FillAccounted, Busy, handlerVars, exchangeVars
  <2>1. h \in RowIds /\ row[h] # NoRow /\ row[h].mode = "LIVE"
    BY RowsAssumption DEF CInv, FillAccounted, RInv, IInv, TypeOK, ExchangeTypes
  <2> QED
    BY <2>1, CommitOutcome DEF CInv
<1>6. SweepCalm'
  <2>0. \A z \in Sweeps : rpc'[z] # "idle" => via'[z] = "LIVE"
    BY <1>1 DEF SweepCommit, SweepGoto, CInv, SweepCalm, RInv, SweepTypes
  <2> SUFFICES ASSUME NEW z \in Sweeps, NEW m \in Symbols, known[z][m] # None
               PROVE  row'[known[z][m]].sym = m
    BY <1>1, <2>0 DEF SweepCalm, CInv
  <2>1. known[z][m] \in RowIds /\ row[known[z][m]] # NoRow /\ row[known[z][m]].sym = m
    BY DEF CInv, RInv, KnownInv, SweepCalm
  <2> QED
    BY <2>1, CommitOutcome DEF CInv
<1> QED
  BY <1>3, <1>4, <1>5, <1>6 DEF CInv

\* What a step of a sweep may do to what is owed: nothing, or take from it for a
\* symbol that is flat.
LEMMA BackedOff ==
  ASSUME BInv, Backed(WrittenOff), exch' = exch,
         \A m \in Symbols, d \in {"LONG", "SHORT"} :
            \/ Owed(m, d, WrittenOff)' = Owed(m, d, WrittenOff)
            \/ exch[m] = 0 /\ Owed(m, d, WrittenOff)' \subseteq Owed(m, d, WrittenOff)
  PROVE  Backed(WrittenOff)'
<1> SUFFICES ASSUME NEW m \in Symbols
             PROVE  /\ \A d \in {"LONG", "SHORT"} : IsFiniteSet(Owed(m, d, WrittenOff)')
                    /\ exch'[m] <= Cardinality(Owed(m, "LONG", WrittenOff)')
                    /\ -exch'[m] <= Cardinality(Owed(m, "SHORT", WrittenOff)')
  BY DEF Backed
<1>1. /\ \A d \in {"LONG", "SHORT"} : IsFiniteSet(Owed(m, d, WrittenOff))
      /\ exch[m] <= Cardinality(Owed(m, "LONG", WrittenOff))
      /\ -exch[m] <= Cardinality(Owed(m, "SHORT", WrittenOff))
  BY DEF Backed
<1>2. ASSUME NEW d \in {"LONG", "SHORT"}
      PROVE  /\ IsFiniteSet(Owed(m, d, WrittenOff)')
             /\ \/ Owed(m, d, WrittenOff)' = Owed(m, d, WrittenOff)
                \/ exch[m] = 0 /\ Cardinality(Owed(m, d, WrittenOff)') \in Nat
  <2>1. IsFiniteSet(Owed(m, d, WrittenOff)')
    BY <1>1, FS_Subset
  <2> QED
    BY <2>1, FS_CardinalityType
<1>3. exch'[m] = exch[m] /\ exch[m] \in Int
  BY DEF BInv, IInv, TypeOK, ExchangeTypes
<1>4. exch[m] <= Cardinality(Owed(m, "LONG", WrittenOff)')
  BY <1>1, <1>2, <1>3
<1>5. -exch[m] <= Cardinality(Owed(m, "SHORT", WrittenOff)')
  BY <1>1, <1>2, <1>3
<1> QED
  BY <1>2, <1>3, <1>4, <1>5

\* The steps of a sweep that neither read the positions nor commit leave what is
\* written off as it is.
LEMMA OffStays ==
  ASSUME CInv, NEW s \in Sweeps,
         \/ SweepStart(s) \/ PositionsUnreadable(s) \/ SyncStart(s) \/ Place(s) \/ Verify(s)
  PROVE  WrittenOff' = WrittenOff
<1>1. \A z \in Sweeps \ {s} : rpc'[z] = rpc[z] /\ known'[z] = known[z] /\ listed'[z] = listed[z]
  BY DEF SweepStart, PositionsUnreadable, SkipAccount, SyncStart, Place, Verify, Settle, Retry,
         SweepGoto, CInv, RInv, SweepTypes
<1>2. \A z \in Sweeps \ {s} : Off(z)' = Off(z) /\ (Syncing(z)' <=> Syncing(z))
  BY <1>1 DEF Off, Vanished, Syncing
<1>3. CASE SweepStart(s) \/ PositionsUnreadable(s)
  <2>1. ~Syncing(s) /\ ~Syncing(s)'
    BY <1>3 DEF SweepStart, PositionsUnreadable, SkipAccount, SweepGoto, Syncing, CInv, RInv, SweepTypes
  <2> QED
    BY <1>2, <2>1 DEF WrittenOff
<1>4. CASE SyncStart(s) \/ Place(s) \/ Verify(s)
  <2>1. Syncing(s) /\ Syncing(s)'
    BY <1>4 DEF SyncStart, Place, Verify, Settle, Retry, SweepGoto, Syncing, CInv, RInv, SweepTypes
  <2>2. Off(s)' = Off(s)
    BY <1>4 DEF SyncStart, Place, Verify, Off, Vanished
  <2> QED
    BY <1>2, <2>1, <2>2 DEF WrittenOff
<1> QED
  BY <1>3, <1>4

\* Reading the positions writes off rows of flat symbols only.
LEMMA OffRead ==
  ASSUME CInv, NEW s \in Sweeps, ReadPositions(s)
  PROVE  /\ WrittenOff \subseteq WrittenOff'
         /\ \A k \in WrittenOff' \ WrittenOff : k \in RowIds /\ exch[row[k].sym] = 0
<1>1. \A z \in Sweeps \ {s} : rpc'[z] = rpc[z] /\ known'[z] = known[z] /\ listed'[z] = listed[z]
  BY DEF ReadPositions, SweepGoto, CInv, RInv, SweepTypes
<1>2. \A z \in Sweeps \ {s} : Off(z)' = Off(z) /\ (Syncing(z)' <=> Syncing(z))
  BY <1>1 DEF Off, Vanished, Syncing
<1>3. ~Syncing(s)
  BY DEF ReadPositions, Syncing
<1>4. known' = known /\ listed'[s] = exch
  <2>1. via[s] = "LIVE"
    BY DEF ReadPositions, CInv, SweepCalm
  <2> QED
    BY <2>1 DEF ReadPositions, Listing, CInv, RInv, SweepTypes
<1>5. \A k \in Off(s)' : k \in RowIds /\ exch[row[k].sym] = 0
  BY <1>4 DEF Off, Vanished, CInv, RInv, KnownInv, SweepCalm
<1> QED
  BY <1>2, <1>3, <1>5 DEF WrittenOff

\* The rows running sweeps are about to end are stored.
LEMMA OffStored ==
  ASSUME CInv
  PROVE  /\ \A k \in WrittenOff : row[k] # NoRow
         /\ \A s \in Sweeps : ReadPositions(s) => \A k \in WrittenOff' : row[k] # NoRow
<1>1. \A k \in WrittenOff : row[k] # NoRow
  BY DEF WrittenOff, Off, Vanished, CInv, RInv, KnownInv
<1>2. ASSUME NEW s \in Sweeps, ReadPositions(s), NEW k \in WrittenOff' PROVE row[k] # NoRow
  <2>1. known' = known
    BY <1>2 DEF ReadPositions
  <2> QED
    BY <1>2, <2>1 DEF WrittenOff, Off, Vanished, CInv, RInv, KnownInv
<1> QED
  BY <1>1, <1>2

\* Reading steps and repairs keep every position backed.
LEMMA BackedSweep ==
  ASSUME CInv, Backed(WrittenOff), NEW s \in Sweeps,
         \/ SweepStart(s) \/ ReadPositions(s) \/ PositionsUnreadable(s)
         \/ SyncStart(s) \/ Place(s) \/ Verify(s)
  PROVE  Backed(WrittenOff)'
<1>1. UNCHANGED <<pc, req, exch, landed, row>>
  BY DEF SweepStart, ReadPositions, PositionsUnreadable, SyncStart, Verify, Place,
         vars, handlerVars, exchangeVars, dbVars
<1>2. \A k : Standing(k)' <=> Standing(k)
  BY <1>1 DEF Standing, Finishing, Target, IsOpen
<1>3. CASE ~ReadPositions(s)
  <2>1. WrittenOff' = WrittenOff
    BY <1>3, OffStays
  <2>2. \A m \in Symbols, d \in {"LONG", "SHORT"} :
          Owed(m, d, WrittenOff)' = Owed(m, d, WrittenOff)
    BY <1>1, <1>2, <2>1 DEF Owed
  <2> QED
    BY <1>1, <2>2, BackedOff DEF CInv
<1>4. CASE ReadPositions(s)
  <2>1. /\ WrittenOff \subseteq WrittenOff'
        /\ \A k \in WrittenOff' \ WrittenOff : exch[row[k].sym] = 0
    BY <1>4, OffRead
  <2>2. ASSUME NEW m \in Symbols, NEW d \in {"LONG", "SHORT"}
        PROVE  \/ Owed(m, d, WrittenOff)' = Owed(m, d, WrittenOff)
               \/ exch[m] = 0 /\ Owed(m, d, WrittenOff)' \subseteq Owed(m, d, WrittenOff)
    <3>1. Owed(m, d, WrittenOff)' \subseteq Owed(m, d, WrittenOff)
      BY <1>1, <1>2, <2>1 DEF Owed
    <3>2. ASSUME exch[m] # 0, NEW k \in Owed(m, d, WrittenOff), k \in WrittenOff'
          PROVE  FALSE
      <4>1. k \in landed /\ k \in Handlers /\ req[k].sym = m /\ k \notin WrittenOff
        BY <3>2 DEF Owed, CInv, BInv, IInv, TypeOK, ExchangeTypes
      <4>2. row[k] # NoRow
        BY <1>4, <3>2, <4>1, OffStored
      <4>3. row[k].sym = m
        BY <4>1, <4>2 DEF CInv, CalmInv
      <4> QED
        BY <2>1, <3>2, <4>1, <4>3
    <3>3. CASE exch[m] # 0
      <4>1. Owed(m, d, WrittenOff) \subseteq Owed(m, d, WrittenOff)'
        BY <1>1, <1>2, <3>2, <3>3 DEF Owed
      <4> QED
        BY <3>1, <4>1
    <3> QED
      BY <3>1, <3>3
  <2> QED
    BY <1>1, <2>2, BackedOff DEF CInv
<1> QED
  BY <1>3, <1>4

\* A commit ends the rows it had written off, so they stay nobody's; the others
\* stand as they did.
LEMMA BackedCommitted ==
  ASSUME CInv, Backed(WrittenOff), Sides = {"LONG", "SHORT"}, NEW s \in Sweeps, SweepCommit(s)
  PROVE  Backed(WrittenOff)'
<1>1. UNCHANGED <<pc, req, exch, landed, known, listed>>
  BY DEF SweepCommit, handlerVars, exchangeVars
<1>2. \A k : Finishing(k)' <=> Finishing(k)
  BY <1>1 DEF Finishing, Target
<1>3. ASSUME NEW z \in Sweeps PROVE Off(z)' = Off(z) /\ (z # s => (Syncing(z)' <=> Syncing(z)))
  <2>1. Off(z)' = Off(z)
    BY <1>1 DEF Off, Vanished
  <2>2. z # s => rpc'[z] = rpc[z]
    BY DEF SweepCommit, SweepGoto, CInv, RInv, SweepTypes
  <2> QED
    BY <2>1, <2>2 DEF Syncing
<1>4. Syncing(s) /\ ~Syncing(s)'
  BY DEF SweepCommit, SweepGoto, Syncing, CInv, RInv, SweepTypes
<1>5. /\ WrittenOff' \subseteq WrittenOff
      /\ \A k \in WrittenOff : k \in WrittenOff' \/ k \in Off(s)
  BY <1>3, <1>4 DEF WrittenOff
<1>6. ASSUME NEW k \in landed
      PROVE  IF k \in Off(s) THEN ~Standing(k)' /\ k \in WrittenOff
             ELSE Standing(k)' <=> Standing(k)
  <2>1. k \in RowIds /\ k \in Handlers
    BY RowsAssumption DEF CInv, BInv, IInv, TypeOK, ExchangeTypes
  <2>2. CASE k \in Off(s)
    <3>1. row[k] # NoRow
      BY <2>2 DEF Off, Vanished, CInv, RInv, KnownInv
    <3>2. row'[k] # NoRow /\ row'[k].status = "CLOSED_UNKNOWN"
      BY <2>1, <2>2, <3>1, CommitOutcome DEF CInv
    <3> QED
      BY <1>4, <2>2, <3>2 DEF Standing, IsOpen, WrittenOff
  <2>3. CASE k \notin Off(s)
    <3>1. CASE row[k] = NoRow
      <4>1. row'[k] = NoRow
        BY <2>1, <3>1, CommitKeeps DEF CInv
      <4> QED
        BY <1>2, <2>3, <3>1, <4>1 DEF Standing
    <3>2. CASE row[k] # NoRow
      <4>1. row'[k] # NoRow /\ row'[k].status = row[k].status
        BY <2>1, <2>3, <3>2, CommitOutcome DEF CInv
      <4> QED
        BY <1>2, <2>3, <3>2, <4>1 DEF Standing, IsOpen
    <3> QED
      BY <3>1, <3>2
  <2> QED
    BY <2>2, <2>3
<1>7. \A m \in Symbols, d \in {"LONG", "SHORT"} :
        Owed(m, d, WrittenOff)' = Owed(m, d, WrittenOff)
  BY <1>1, <1>5, <1>6 DEF Owed
<1> QED
  BY <1>1, <1>7, BackedOff DEF CInv

\* Live trading beside sweeps.
LEMMA BackedLive ==
  ASSUME Orderly, Undisturbed, CInv, Backed(WrittenOff), [Next]_vars, UNCHANGED sweepVars
  PROVE  Backed(WrittenOff)'
<1>1. WrittenOff' = WrittenOff
  BY DEF sweepVars, WrittenOff, Off, Vanished, Syncing
<1>2. PICK G : G = WrittenOff
  OBVIOUS
<1>3. \A k \in G : row[k] # NoRow
  BY <1>2, OffStored
<1>4. Backed(G)
  BY <1>2
<1>5. Backed(G)'
  BY <1>3, <1>4, BackedStep DEF CInv
<1> QED
  BY <1>1, <1>2, <1>5 DEF Backed, Owed

\* A step that is no fault and ends no sweep early keeps every position backed.
LEMMA CalmInvariantStep ==
  ASSUME Orderly, Sides = {"LONG", "SHORT"}, CInv, Backed(WrittenOff),
         \/ LiveStep(Next) /\ Undisturbed
         \/ \E s \in Sweeps : SweepStart(s) \/ SweepStep(s)
         \/ UNCHANGED rvars
  PROVE  CInv' /\ Backed(WrittenOff)'
<1>1. RInv'
  BY StepRInv DEF CInv, RNext
<1>2. CASE (LiveStep(Next) /\ Undisturbed) \/ UNCHANGED rvars
  <2>1. [Next]_vars /\ UNCHANGED sweepVars /\ Undisturbed
    BY <1>2 DEF LiveStep, rvars, vars, handlerVars, switchVars, Undisturbed
  <2> QED
    BY <1>1, <2>1, CalmLive, BackedLive
<1>3. ASSUME NEW s \in Sweeps,
             \/ SweepStart(s) \/ ReadPositions(s) \/ PositionsUnreadable(s)
             \/ SyncStart(s) \/ Place(s) \/ Verify(s)
      PROVE  CInv' /\ Backed(WrittenOff)'
  BY <1>1, <1>3, CalmSweep, BackedSweep
<1>4. ASSUME NEW s \in Sweeps, SweepCommit(s) PROVE CInv' /\ Backed(WrittenOff)'
  BY <1>1, <1>4, CalmSweepCommit, BackedCommitted
<1> QED
  BY <1>2, <1>3, <1>4 DEF SweepStep

LEMMA CalmInvariantInit == RInit => CInv /\ Backed(WrittenOff)
<1> SUFFICES ASSUME RInit PROVE CInv /\ Backed(WrittenOff)
  OBVIOUS
<1>1. RInv
  BY InitRInv
<1>2. WireInv /\ LandedInv /\ FillAccounted
  BY DEF RInit, Init, WireInv, LandedInv, FillAccounted, ClosingPCs, WritePCs, TerminalPCs
<1>3. SweepCalm
  BY DEF RInit, SweepInit, SweepCalm
<1>4. WrittenOff = {}
  BY DEF RInit, SweepInit, WrittenOff, Syncing
<1>5. CalmInv /\ Backed({})
  BY BackedInit DEF RInit
<1> QED
  BY <1>1, <1>2, <1>3, <1>4, <1>5 DEF CInv, RInv, BInv

LEMMA CalmInvariant ==
  Calm /\ Sides = {"LONG", "SHORT"} => (RSpec => [](CInv /\ Backed(WrittenOff)))
<1> SUFFICES ASSUME Calm, Sides = {"LONG", "SHORT"} PROVE RSpec => [](CInv /\ Backed(WrittenOff))
  OBVIOUS
<1>1. (CInv /\ Backed(WrittenOff)) /\ [RNext]_rvars => (CInv /\ Backed(WrittenOff))'
  <2> SUFFICES ASSUME CInv, Backed(WrittenOff), [RNext]_rvars PROVE CInv' /\ Backed(WrittenOff)'
    OBVIOUS
  <2>1. LiveStep(Next) => Undisturbed
    BY FaultFree DEF LiveStep, Calm, CInv, BInv, IInv, TypeOK
  <2>2. ~\E s \in Sweeps : SweepAborts(s)
    BY DEF SweepAborts, Calm
  <2> QED
    BY <2>1, <2>2, CalmInvariantStep DEF RNext, Calm
<1> QED
  BY <1>1, CalmInvariantInit, PTL DEF RSpec

LEMMA BackedNoOrphan == CInv /\ Backed(WrittenOff) => NoOrphanPosition
<1> SUFFICES ASSUME CInv, Backed(WrittenOff) PROVE NoOrphanPosition
  OBVIOUS
<1>1. PICK G : G = WrittenOff
  OBVIOUS
<1> QED
  BY <1>1, BackedIsTracked DEF CInv

\* A row that was ended leaves nobody but others to track its position.
LEMMA BackedVanished == CInv /\ Backed(WrittenOff) => VanishedMeansGone
<1> SUFFICES ASSUME CInv, Backed(WrittenOff), NEW r \in RowIds, row[r] # NoRow,
                    row[r].status = "CLOSED_UNKNOWN", exch[row[r].sym] # 0
             PROVE  \/ \E h \in Handlers : Busy(h)
                    \/ \E k \in RowIds \ {r} : k \in OpenRows(row[r].sym)
  BY DEF VanishedMeansGone
<1>1. row[r].sym \in Symbols /\ ~IsOpen(r)
  BY DEF CInv, RInv, IInv, TypeOK, DbTypes, RowSet, IsOpen
<1> QED
  BY <1>1, BackedNoOrphan DEF NoOrphanPosition, OpenRows

\* Nor does a sweep that runs beside them orphan a position: it may find a row
\* vanished on what it read long ago, and end it while the position of a younger
\* entry stands (NoOrphanPosition, for live trading with recovery).
THEOREM SweepsOrphanNothing ==
  Calm /\ Sides = {"LONG", "SHORT"} => (RSpec => []NoOrphanPosition)
  BY BackedNoOrphan, CalmInvariant, PTL

\* Without a fault, a sweep ends a live row as vanished only when its position has
\* gone; only with the gate shut is it otherwise (VanishedMeansGone).
THEOREM CalmVanishedIsGone ==
  Calm /\ Sides = {"LONG", "SHORT"} => (RSpec => []VanishedMeansGone)
  BY BackedVanished, CalmInvariant, PTL

\* The calm setting of MCRecovery, in a program that may well have faults.
LEMMA CalmSettingStep ==
  ASSUME Orderly, Sides = {"LONG", "SHORT"}, setting = "calm" => CInv /\ Backed(WrittenOff),
         [MCNext]_mcvars
  PROVE  setting' = "calm" => CInv' /\ Backed(WrittenOff)'
<1> SUFFICES ASSUME setting' = "calm" PROVE CInv' /\ Backed(WrittenOff)'
  OBVIOUS
<1>1. setting = "calm" /\ (CalmNext \/ UNCHANGED mcvars)
  BY DEF MCNext, CalmNext, FailingNext, mcvars
<1>2. \/ LiveStep(Next) /\ Undisturbed
      \/ \E s \in Sweeps : SweepStart(s) \/ SweepStep(s)
      \/ UNCHANGED rvars
  BY <1>1, FirstAssumption DEF CalmNext, Undisturbed, mcvars
<1> QED
  BY <1>1, <1>2, CalmInvariantStep

\* As long as the gate stays open and no request dies, a sweep ends a live row as vanished
\* only when its position has gone, whatever else the deployment lets fail; one sweep
\* beside any number of requests (VanishedMeansGoneWhenCalm).
THEOREM CalmSettingVanishes ==
  Orderly /\ Sides = {"LONG", "SHORT"} => (MCSpec => []VanishedMeansGoneWhenCalm)
<1> SUFFICES ASSUME Orderly, Sides = {"LONG", "SHORT"} PROVE MCSpec => []VanishedMeansGoneWhenCalm
  OBVIOUS
<1> DEFINE Calmly == setting = "calm" => CInv /\ Backed(WrittenOff)
<1>1. MCInit => Calmly
  BY CalmInvariantInit DEF MCInit
<1>2. Calmly /\ [MCNext]_mcvars => Calmly'
  BY CalmSettingStep
<1>3. Calmly => VanishedMeansGoneWhenCalm
  BY BackedVanished DEF VanishedMeansGoneWhenCalm
<1> QED
  BY <1>1, <1>2, <1>3, PTL DEF MCSpec

-----------------------------------------------------------------------------
(* What a sweep certifies is protected.                                     *)

\* Without trailing stops, which a reading takes for stop losses.
NoTrail == \A w \in Wants : "TRAIL" \notin w
TrailInv == \A m \in Symbols : \A o \in orders[m] : o[2] # "TRAIL"

\* A sweep places again only what its last reading did not show.
RetryInv ==
    \A s \in Sweeps : rpc[s] = "place" => Expected(known[s][at[s]]) \ seen[s] # {}

\* The targets of a stored row are settled.
LEMMA ExpectedStays ==
  ASSUME RInv, [Next]_vars, NEW r \in RowIds, row[r] # NoRow
  PROVE  Expected(r)' = Expected(r)
<1>1. CASE r \in Handlers
  <2>1. pc[r] = "done"
    BY <1>1 DEF RInv, BookedInv
  <2>2. req'[r] = req[r]
    BY <1>1, <2>1, DoneStays DEF RInv
  <2> QED
    BY <2>2 DEF Expected
<1> QED
  BY <1>1 DEF Expected

\* A symbol is settled as SYNCED by a reading that showed every target.
LEMMA StatusSynced ==
  /\ \A r, legs : Status(r, legs) = "SYNCED" <=> Expected(r) \ legs = {}
  /\ \A m : TrailInv /\ m \in Symbols =>
       \A l \in Protection(m) : \E o \in orders[m] : o[2] = l
  BY DEF Status, Protection, TrailInv

LEMMA TrailStep ==
  ASSUME NoTrail, RInv, TrailInv, [Next]_vars
  PROVE  TrailInv'
<1> USE DEF RInv, IInv, TypeOK, HandlerTypes, ExchangeTypes, TrailInv
<1>1. CASE orders' = orders
  BY <1>1
<1>2. ASSUME NEW h \in Handlers, LegPlaced(h) \/ LegFails(h) PROVE TrailInv'
  <2>1. req[h].legs \in Wants /\ req[h].sym \in Symbols
    BY <1>2 DEF LegPlaced, LegFails, OpeningInv, OpeningPCs, OpenRequests
  <2>2. "TRAIL" \notin NextLegs(h)
    BY <2>1 DEF NextLegs, NoTrail
  <2> QED
    BY <1>2, <2>1, <2>2 DEF LegPlaced, LegFails
<1>3. ASSUME NEW h \in Handlers, EmergencyCancel(h) PROVE TrailInv'
  BY <1>3 DEF EmergencyCancel
<1>4. ASSUME NEW m \in Symbols, LegTriggers(m) \/ LegsExpire(m) PROVE TrailInv'
  BY <1>4 DEF LegTriggers, LegsExpire
<1>5. ASSUME NEW h \in Handlers, HandlerStep(h), orders' # orders PROVE TrailInv'
  <2>1. LegPlaced(h) \/ LegFails(h) \/ EmergencyCancel(h)
    BY <1>5 DEF HandlerStep, Send, OpenResolve, EntryAccepted, EntryRejected, EntryTimesOut,
                AcceptEntry, LookupFinds, LookupMisses, MockProtected, OpenCommit, CloseAccepted,
                CloseFails, ExecuteClose, CloseCommit, EmergencyRead, EmergencyFlat,
                EmergencyCommit, exchangeVars
  <2> QED
    BY <1>2, <1>3, <2>1
<1>6. ASSUME NEW h \in Handlers, Request(h) PROVE orders' = orders
  BY <1>6 DEF Request, OpenRequest, CloseRequest, EmergencyRequest, exchangeVars
<1>7. CASE Environment
  <2>1. CASE \E m \in Symbols : LegTriggers(m) \/ LegsExpire(m)
    BY <1>4, <2>1
  <2>2. CASE ~\E m \in Symbols : LegTriggers(m) \/ LegsExpire(m)
    <3>1. orders' = orders
      BY <1>7, <2>2 DEF Environment, Aborted, AcceptEntry, ExecuteClose, RestingFills, ToggleKill,
                        ToggleGate, exchangeVars
    <3> QED
      BY <1>1, <3>1
  <2> QED
    BY <2>1, <2>2
<1> QED
  BY <1>1, <1>5, <1>6, <1>7 DEF Next, vars, exchangeVars

\* What one step of a sweep may newly certify, and that it keeps RetryInv.
LEMMA SettleCertifies ==
  ASSUME RInv, NEW s \in Sweeps, NEW m \in Symbols, NEW v \in Verdicts, Settle(s, m, v)
  PROVE  /\ \A z \in Sweeps, n \in Symbols :
              verdict'[z][n] = "SYNCED" /\ verdict[z][n] # "SYNCED" => z = s /\ n = m /\ v = "SYNCED"
         /\ \A z \in Sweeps : rpc'[z] = IF z = s THEN "sync" ELSE rpc[z]
  BY DEF Settle, SweepGoto, RInv, SweepTypes

LEMMA RetryCertifies ==
  ASSUME RInv, NEW s \in Sweeps, rpc[s] \in {"place", "verify"}, NEW legs, Retry(s, legs),
         Expected(known[s][at[s]]) \ legs # {}
  PROVE  /\ \A z \in Sweeps, n \in Symbols :
              ~(verdict'[z][n] = "SYNCED" /\ verdict[z][n] # "SYNCED")
         /\ \A z \in Sweeps : z # s => rpc'[z] = rpc[z]
<1>1. at[s] \in Symbols
  BY DEF RInv, RepairInv
<1>2. CASE tries[s] + 1 < Retries
  BY <1>2 DEF Retry, SweepGoto, RInv, SweepTypes
<1>3. CASE ~(tries[s] + 1 < Retries)
  <2>1. Settle(s, at[s], Status(known[s][at[s]], legs))
    BY <1>3 DEF Retry
  <2>2. Status(known[s][at[s]], legs) \in Verdicts /\ Status(known[s][at[s]], legs) # "SYNCED"
    BY SweepValues, StatusSynced DEF Verdicts
  <2> QED
    BY <1>1, <2>1, <2>2, SettleCertifies
<1> QED
  BY <1>2, <1>3

\* What certifying a row takes.
Certifies ==
    \A s \in Sweeps, m \in Symbols :
      /\ verdict'[s][m] = "SYNCED" /\ verdict[s][m] # "SYNCED"
      => \/ Expected(known[s][m]) = {}
         \/ Expected(known[s][m]) \subseteq Protection(m)

PInv == RInv /\ TrailInv /\ RetryInv

LEMMA CertifyLive ==
  ASSUME NoTrail, PInv, [Next]_vars, UNCHANGED sweepVars
  PROVE  TrailInv' /\ RetryInv' /\ Certifies
<1>1. TrailInv'
  BY TrailStep DEF PInv
<1>2. RetryInv'
  <2> SUFFICES ASSUME NEW s \in Sweeps, rpc[s] = "place"
               PROVE  Expected(known[s][at[s]])' \ seen[s] # {}
    BY DEF RetryInv, sweepVars
  <2>1. known[s][at[s]] \in RowIds /\ row[known[s][at[s]]] # NoRow
    BY DEF PInv, RInv, RepairInv, KnownInv
  <2>2. PICK r \in RowIds : r = known[s][at[s]]
    BY <2>1
  <2>3. Expected(r)' = Expected(r)
    BY <2>1, <2>2, ExpectedStays DEF PInv
  <2>4. Expected(known[s][at[s]])' = Expected(r)'
    BY <2>2 DEF sweepVars, Expected
  <2> QED
    BY <2>2, <2>3, <2>4 DEF PInv, RetryInv
<1>3. Certifies
  BY DEF Certifies, sweepVars
<1> QED
  BY <1>1, <1>2, <1>3

\* A sweep that only moves on, or leaves the rows it works on alone.
LEMMA CertifyFrame ==
  ASSUME PInv, NEW s \in Sweeps, verdict' = verdict, UNCHANGED <<req, orders>>,
         \A z \in Sweeps \ {s} : rpc'[z] = rpc[z] /\ known'[z] = known[z] /\ at'[z] = at[z] /\ seen'[z] = seen[z],
         rpc'[s] # "place"
  PROVE  TrailInv' /\ RetryInv' /\ Certifies
<1>1. ASSUME NEW z \in Sweeps, rpc'[z] = "place"
      PROVE  Expected(known'[z][at'[z]]) \ seen'[z] # {}
  <2>1. z # s
    BY <1>1
  <2>2. known'[z][at'[z]] = known[z][at[z]] /\ seen'[z] = seen[z] /\ rpc[z] = "place"
    BY <1>1, <2>1
  <2> QED
    BY <2>2 DEF PInv, RetryInv
<1> QED
  BY <1>1 DEF Certifies, PInv, TrailInv, RetryInv, Expected

LEMMA CertifyQuiet ==
  ASSUME PInv, NEW s \in Sweeps,
         \/ SweepStart(s) \/ ReadPositions(s) \/ PositionsUnreadable(s)
         \/ SweepAborts(s) \/ SweepCommit(s)
  PROVE  TrailInv' /\ RetryInv' /\ Certifies
<1>1. verdict' = verdict /\ UNCHANGED <<req, orders>>
  BY DEF SweepStart, ReadPositions, PositionsUnreadable, SweepAborts, SweepCommit, vars,
         handlerVars, exchangeVars
<1>2. /\ \A z \in Sweeps \ {s} : rpc'[z] = rpc[z] /\ known'[z] = known[z] /\ at'[z] = at[z] /\ seen'[z] = seen[z]
      /\ rpc'[s] # "place"
  BY DEF SweepStart, ReadPositions, PositionsUnreadable, SkipAccount, SweepAborts, SweepCommit,
         SweepGoto, PInv, RInv, SweepTypes
<1> QED
  BY <1>1, <1>2, CertifyFrame

\* Starting on a row: it is certified at once only if the reading, or an account
\* that is not read at all, leaves no target open.
LEMMA CertifyStart ==
  ASSUME PInv, NEW s \in Sweeps, SyncStart(s)
  PROVE  TrailInv' /\ RetryInv' /\ Certifies
<1> DEFINE L == IF gate THEN Protection(at'[s]) ELSE {}
<1>1. /\ UNCHANGED <<req, orders, known>>
      /\ \A z \in Sweeps \ {s} : at'[z] = at[z] /\ seen'[z] = seen[z]
  BY DEF SyncStart, Settle, vars, handlerVars, exchangeVars, PInv, RInv, SweepTypes
<1>2. PICK m \in Todo(s) :
        /\ at' = [at EXCEPT ![s] = m]
        /\ \/ LET legs == IF gate THEN Protection(m) ELSE {}
                  v    == Status(known[s][m], legs)
              IN  /\ seen' = [seen EXCEPT ![s] = legs]
                  /\ IF v = "SYNCED" THEN Settle(s, m, v)
                     ELSE SweepGoto(s, "place") /\ UNCHANGED <<verdict, drift>>
           \/ gate /\ Settle(s, m, "UNKNOWN") /\ UNCHANGED seen
  BY DEF SyncStart
<1>3. m \in Symbols /\ at'[s] = m
  BY <1>2 DEF Todo, Matched, PInv, RInv, SweepTypes
<1>4. CASE Settle(s, m, "UNKNOWN")
  <2>1. "UNKNOWN" \in Verdicts
    BY DEF Verdicts
  <2>2. /\ \A z \in Sweeps, n \in Symbols : ~(verdict'[z][n] = "SYNCED" /\ verdict[z][n] # "SYNCED")
        /\ \A z \in Sweeps : rpc'[z] = IF z = s THEN "sync" ELSE rpc[z]
    BY <1>3, <1>4, <2>1, SettleCertifies DEF PInv
  <2> QED
    BY <1>1, <2>2 DEF Certifies, PInv, TrailInv, RetryInv, Expected
<1>5. CASE Settle(s, m, "SYNCED") /\ Status(known[s][m], L) = "SYNCED"
  <2>1. "SYNCED" \in Verdicts
    BY DEF Verdicts
  <2>2. /\ \A z \in Sweeps, n \in Symbols :
              verdict'[z][n] = "SYNCED" /\ verdict[z][n] # "SYNCED" => z = s /\ n = m
        /\ \A z \in Sweeps : rpc'[z] = IF z = s THEN "sync" ELSE rpc[z]
    BY <1>3, <1>5, <2>1, SettleCertifies DEF PInv
  <2>3. Expected(known[s][m]) = {} \/ Expected(known[s][m]) \subseteq Protection(m)
    BY <1>3, <1>5, StatusSynced
  <2> QED
    BY <1>1, <2>2, <2>3 DEF Certifies, PInv, TrailInv, RetryInv, Expected
<1>6. CASE /\ SweepGoto(s, "place") /\ UNCHANGED verdict /\ seen' = [seen EXCEPT ![s] = L]
           /\ Status(known[s][m], L) # "SYNCED"
  <2>1. Expected(known[s][m]) \ L # {}
    BY <1>6, StatusSynced
  <2>2. seen'[s] = L /\ \A z \in Sweeps \ {s} : rpc'[z] = rpc[z]
    BY <1>6 DEF PInv, RInv, SweepTypes, SweepGoto
  <2>3. RetryInv'
    <3> SUFFICES ASSUME NEW z \in Sweeps, rpc'[z] = "place"
                 PROVE  Expected(known[z][at'[z]]) \ seen'[z] # {}
      BY <1>1 DEF RetryInv, Expected
    <3>1. CASE z = s
      BY <1>3, <2>1, <2>2, <3>1
    <3>2. CASE z # s
      BY <1>1, <2>2, <3>2 DEF PInv, RetryInv
    <3> QED
      BY <3>1, <3>2
  <2> QED
    BY <1>1, <1>6, <2>3 DEF Certifies, PInv, TrailInv
<1> QED
  BY <1>2, <1>3, <1>4, <1>5, <1>6

\* set_tp_sl certifies nothing: what failed was missing, and only a reading decides.
LEMMA CertifyPlace ==
  ASSUME PInv, NEW s \in Sweeps, Place(s)
  PROVE  TrailInv' /\ RetryInv' /\ Certifies
<1>1. rpc[s] = "place" /\ Expected(known[s][at[s]]) \ seen[s] # {} /\ at[s] \in Symbols
  BY DEF Place, PInv, RetryInv, RInv, RepairInv
<1>2. PICK sent \in SUBSET (Expected(known[s][at[s]]) \ seen[s]) :
        /\ orders' = [orders EXCEPT ![at[s]] = @ \cup {<<row[known[s][at[s]]].side, l>> : l \in sent}]
        /\ \/ SweepGoto(s, "verify") /\ UNCHANGED <<tries, verdict, drift>>
           \/ Retry(s, seen[s])
  BY DEF Place
<1>3. UNCHANGED <<req, known, at, seen>>
  BY DEF Place, handlerVars
<1>4. TrailInv'
  <2>1. "TRAIL" \notin sent
    BY <1>2 DEF Expected
  <2> QED
    BY <1>1, <1>2, <2>1 DEF PInv, TrailInv, RInv, IInv, TypeOK, ExchangeTypes
<1>5. /\ \A z \in Sweeps, n \in Symbols : ~(verdict'[z][n] = "SYNCED" /\ verdict[z][n] # "SYNCED")
      /\ \A z \in Sweeps : z # s => rpc'[z] = rpc[z]
  <2>1. CASE SweepGoto(s, "verify") /\ UNCHANGED verdict
    BY <2>1 DEF SweepGoto, PInv, RInv, SweepTypes
  <2>2. CASE Retry(s, seen[s])
    BY <1>1, <2>2, RetryCertifies DEF PInv
  <2> QED
    BY <1>2, <2>1, <2>2
<1>6. RetryInv'
  <2>1. \A z \in Sweeps : rpc'[z] = "place" => rpc[z] = "place"
    BY <1>1, <1>5
  <2> QED
    BY <1>3, <2>1 DEF PInv, RetryInv, Expected
<1> QED
  BY <1>4, <1>5, <1>6 DEF Certifies

\* The reading after an attempt decides.
LEMMA CertifyVerify ==
  ASSUME PInv, NEW s \in Sweeps, Verify(s)
  PROVE  TrailInv' /\ RetryInv' /\ Certifies
<1>1. /\ rpc[s] = "verify" /\ at[s] \in Symbols /\ UNCHANGED <<req, orders, known, at>>
      /\ \A z \in Sweeps \ {s} : seen'[z] = seen[z]
      /\ seen'[s] = {} \/ seen'[s] = Protection(at[s])
  BY DEF Verify, vars, handlerVars, exchangeVars, PInv, RInv, RepairInv, SweepTypes
<1>2. CASE Status(known[s][at[s]], seen'[s]) = "SYNCED"
  <2>1. Settle(s, at[s], "SYNCED") /\ "SYNCED" \in Verdicts
    BY <1>2 DEF Verify, Verdicts
  <2>2. /\ \A z \in Sweeps, n \in Symbols :
              verdict'[z][n] = "SYNCED" /\ verdict[z][n] # "SYNCED" => z = s /\ n = at[s]
        /\ \A z \in Sweeps : rpc'[z] = IF z = s THEN "sync" ELSE rpc[z]
    BY <1>1, <2>1, SettleCertifies DEF PInv
  <2>3. Expected(known[s][at[s]]) = {} \/ Expected(known[s][at[s]]) \subseteq Protection(at[s])
    BY <1>1, <1>2, StatusSynced
  <2> QED
    BY <1>1, <2>2, <2>3 DEF Certifies, PInv, TrailInv, RetryInv, Expected
<1>3. CASE Status(known[s][at[s]], seen'[s]) # "SYNCED"
  <2>1. Retry(s, seen'[s]) /\ Expected(known[s][at[s]]) \ seen'[s] # {}
    BY <1>3, StatusSynced DEF Verify
  <2>2. /\ \A z \in Sweeps, n \in Symbols : ~(verdict'[z][n] = "SYNCED" /\ verdict[z][n] # "SYNCED")
        /\ \A z \in Sweeps : z # s => rpc'[z] = rpc[z]
    BY <1>1, <2>1, RetryCertifies DEF PInv
  <2>3. RetryInv'
    <3> SUFFICES ASSUME NEW z \in Sweeps, rpc'[z] = "place"
                 PROVE  Expected(known[z][at[z]]) \ seen'[z] # {}
      BY <1>1 DEF RetryInv, Expected
    <3> QED
      BY <1>1, <2>1, <2>2 DEF PInv, RetryInv
  <2> QED
    BY <1>1, <2>2, <2>3 DEF Certifies, PInv, TrailInv
<1> QED
  BY <1>2, <1>3

LEMMA CertifyStep ==
  ASSUME NoTrail, Sides = {"LONG", "SHORT"}, PInv, [RNext]_rvars
  PROVE  PInv' /\ Certifies
<1>1. RInv'
  BY StepRInv DEF PInv
<1>2. CASE LiveStep(Next) \/ UNCHANGED rvars
  <2>1. [Next]_vars /\ UNCHANGED sweepVars
    BY <1>2 DEF LiveStep, rvars
  <2> QED
    BY <1>1, <2>1, CertifyLive DEF PInv
<1>3. ASSUME NEW s \in Sweeps, SweepStart(s) \/ SweepStep(s) \/ SweepAborts(s) PROVE PInv' /\ Certifies
  BY <1>1, <1>3, CertifyQuiet, CertifyStart, CertifyPlace, CertifyVerify DEF SweepStep, PInv
<1> QED
  BY <1>2, <1>3 DEF RNext

\* A sweep tells a row that its protection is in place only on a reading that showed
\* every target working for the row's side; the reading's two simplifications must
\* not apply: no trailing stop, no order of the other side (CertifiedIsProtected).
THEOREM CertifiedForReal ==
  NoTrail /\ Sides = {"LONG", "SHORT"} => (RSpec => CertifiedIsProtected)
<1> SUFFICES ASSUME NoTrail, Sides = {"LONG", "SHORT"} PROVE RSpec => CertifiedIsProtected
  OBVIOUS
<1> DEFINE Real == \A s \in Sweeps, m \in Symbols :
         LET r == known[s][m] IN
         /\ verdict'[s][m] = "SYNCED" /\ verdict[s][m] # "SYNCED"
         /\ \A o \in orders[m] : o[1] = row[r].side
         => {<<row[r].side, l>> : l \in Expected(r)} \subseteq orders[m]
<1>1. PInv /\ [RNext]_rvars => PInv' /\ [Real]_rvars
  <2> SUFFICES ASSUME PInv, [RNext]_rvars PROVE PInv' /\ Real
    OBVIOUS
  <2>1. PInv' /\ Certifies
    BY CertifyStep
  <2>2. ASSUME NEW s \in Sweeps, NEW m \in Symbols, NEW d,
               verdict'[s][m] = "SYNCED", verdict[s][m] # "SYNCED",
               \A o \in orders[m] : o[1] = d, NEW l \in Expected(known[s][m])
        PROVE  <<d, l>> \in orders[m]
    <3>1. l \in Protection(m)
      BY <2>1, <2>2 DEF Certifies
    <3>2. PICK o \in orders[m] : o[2] = l
      BY <3>1, StatusSynced DEF PInv
    <3>3. o \in Sides \X Legs
      BY <3>2 DEF PInv, RInv, IInv, TypeOK, ExchangeTypes
    <3> QED
      BY <2>2, <3>2, <3>3
  <2> QED
    BY <2>1, <2>2
<1>2. RInit => PInv
  <2> SUFFICES ASSUME RInit PROVE PInv
    OBVIOUS
  <2>1. TrailInv /\ RetryInv
    BY DEF RInit, Init, SweepInit, TrailInv, RetryInv
  <2> QED
    BY <2>1, InitRInv DEF PInv
<1> QED
  BY <1>1, <1>2, PTL DEF RSpec, CertifiedIsProtected
=============================================================================
