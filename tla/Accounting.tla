----------------------------- MODULE Accounting -----------------------------
(***************************************************************************)
(* accounting/service.py: what a close adds to the ledger and to the row   *)
(* of the day.  Closes of several positions of one user run in sessions of *)
(* their own; the row of the day is read, added to in Python and written   *)
(* back, under a unique key and the row locks of READ COMMITTED.  The      *)
(* bookkeeping shares the session of the close (live_trading/service.py,   *)
(* _record_accounting), whose order has already gone to the exchange.      *)
(***************************************************************************)
EXTENDS Integers, FiniteSets, Sequences

CONSTANTS Closes,  \* closes of different positions of one user on one day
          Gross,   \* gross results
          Fee      \* estimated commission

None == "none"
ConstantsOK ==
    /\ IsFiniteSet(Closes) /\ None \notin Closes
    /\ Gross \subseteq Int /\ Fee \in Nat

VARIABLES pc,      \* where each close is
          gross,   \* its gross result
          seen,    \* the row of the day it read, <<>> for none
          day,     \* the committed row of the day
          holder,  \* the close whose flushed row is not committed yet
          since,   \* commits of others since a close read the row
          overlap  \* some close committed over a row newer than it read
vars == <<pc, gross, seen, day, holder, since, overlap>>

Fresh == [net |-> 0, trades |-> 0, wins |-> 0, losses |-> 0]
NetOf(c) == gross[c] - Fee
Done == {c \in Closes : pc[c] = "done"}

Init ==
    /\ pc = [c \in Closes |-> "idle"] /\ gross \in [Closes -> Gross]
    /\ seen = [c \in Closes |-> <<>>] /\ day = <<>> /\ holder = None
    /\ since = [c \in Closes |-> 0] /\ overlap = FALSE

(* The closing order is filled, the row set to CLOSED in the session.      *)
Sent(c) ==
    /\ pc[c] = "idle"
    /\ pc' = [pc EXCEPT ![c] = "sent"]
    /\ UNCHANGED <<gross, seen, day, holder, since, overlap>>

(* _roll_daily reads the row of the day.                                   *)
ReadDay(c) ==
    /\ pc[c] = "sent"
    /\ seen' = [seen EXCEPT ![c] = day]
    /\ since' = [since EXCEPT ![c] = 0]
    /\ pc' = [pc EXCEPT ![c] = "read"]
    /\ UNCHANGED <<gross, day, holder, overlap>>

(* The columns that changed are written with what Python computed; the     *)
(* others keep what is in the table.                                       *)
Rolled(c) ==
    LET old  == IF seen[c] = <<>> THEN Fresh ELSE seen[c][1]
        base == IF day = <<>> THEN Fresh ELSE day[1]
    IN  [net    |-> IF NetOf(c) = 0 THEN base.net ELSE old.net + NetOf(c),
         trades |-> old.trades + 1,
         wins   |-> IF NetOf(c) >= 0 THEN old.wins + 1 ELSE base.wins,
         losses |-> IF NetOf(c) < 0 THEN old.losses + 1 ELSE base.losses]

(* The roll is committed on its own (mutation).                            *)
AfterFlushCommitted(c) == <<Rolled(c)>>

(* Nobody sees a flushed row before its commit.                            *)
AfterFlush(c) == day

(* A second writer waits for the first.  An INSERT whose key came to be in *)
(* the meantime fails; the exception is swallowed by the caller.           *)
Flush(c) ==
    /\ pc[c] = "read" /\ holder = None
    /\ IF seen[c] = <<>> /\ day # <<>>
       THEN /\ pc' = [pc EXCEPT ![c] = "broken"]
            /\ UNCHANGED <<day, holder>>
       ELSE /\ pc' = [pc EXCEPT ![c] = "flushed"]
            /\ holder' = c
            /\ day' = AfterFlush(c)
    /\ UNCHANGED <<gross, seen, since, overlap>>

(* Ledger, fee events and row of the day become visible with the close.    *)
Commit(c) ==
    /\ pc[c] = "flushed"
    /\ day' = <<Rolled(c)>>
    /\ pc' = [pc EXCEPT ![c] = "done"]
    /\ holder' = None
    /\ overlap' = (overlap \/ since[c] > 0)
    /\ since' = [d \in Closes |-> IF pc[d] = "read" THEN since[d] + 1 ELSE since[d]]
    /\ UNCHANGED <<gross, seen>>

(* A later failure, or the end of the process, rolls the session back; and *)
(* a session whose flush failed refuses to commit.                         *)
Rollback(c) ==
    /\ pc[c] \in {"sent", "read", "flushed", "broken"}
    /\ pc' = [pc EXCEPT ![c] = "rolled back"]
    /\ holder' = IF holder = c THEN None ELSE holder
    /\ UNCHANGED <<gross, seen, day, since, overlap>>

Next == \E c \in Closes : Sent(c) \/ ReadDay(c) \/ Flush(c) \/ Commit(c) \/ Rollback(c)
Spec == Init /\ [][Next]_vars

(***************************************************************************)
(* Properties                                                              *)
(***************************************************************************)
(* The ledger, cent by cent: what the closes in S won less what they lost. *)
Won(S)  == UNION {{c} \X (1..NetOf(c)) : c \in S}
Lost(S) == UNION {{c} \X (1..(-NetOf(c))) : c \in S}
Total(S) == Cardinality(Won(S)) - Cardinality(Lost(S))
WinsIn(S) == Cardinality({c \in S : NetOf(c) >= 0})
Today == IF day = <<>> THEN Fresh ELSE day[1]

(* /daily never tells of a trade the ledger of /summary does not have,     *)
(* whichever closes fail, and agrees with it to the cent as long as no two *)
(* closes overlapped.                                                      *)
DayNeverOvercounts ==
    /\ Today.trades <= Cardinality(Done)
    /\ Today.wins <= WinsIn(Done)
    /\ Today.losses <= Cardinality(Done) - WinsIn(Done)
    /\ ~overlap => Today = [net |-> Total(Done), trades |-> Cardinality(Done),
                            wins |-> WinsIn(Done), losses |-> Cardinality(Done) - WinsIn(Done)]

(* The row of the day is the aggregate of its trades (models.py:61).       *)
DayIsSumOfTrades == Today.trades = Cardinality(Done) /\ Today.net = Total(Done)

(* "accounting must never break the close" (live_trading/service.py:973).  *)
AccountingNeverBreaksTheClose == \A c \in Closes : pc[c] # "broken"
=============================================================================
