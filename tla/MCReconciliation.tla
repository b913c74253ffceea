-------------------------- MODULE MCReconciliation --------------------------
(***************************************************************************)
(* Two settings of Reconciliation in one state graph, each a part of Next. *)
(* In the quiet one the loop is alone, its reads and alerts succeed, and   *)
(* every symbol is traded on the exchange directly.  In the mixed one      *)
(* everything happens, to the symbols that are not watched.                *)
(***************************************************************************)
EXTENDS Reconciliation

VARIABLE setting
mcvars == <<vars, setting>>

MCInit ==
    /\ Init
    /\ \/ setting = "quiet"
       \/ setting = "mixed" /\ \A m \in Watched : row[m] = Flat

\* The loop's step when nothing fails.
LoopStep ==
    \/ QueryRows(Loop) \/ Record(Loop) \/ Commit(Loop)
    \/ ReadPositions(Loop) /\ list'[Loop] = ex
    \/ ReadOrders(Loop) /\ orders'[Loop] = guarded
    \/ SendAlert(Loop)

QuietLoop == setting = "quiet" /\ LoopStep /\ UNCHANGED setting

QuietNext ==
    \/ QuietLoop
    \/ setting = "quiet" /\ (\E m \in Symbols : Outside(m)) /\ UNCHANGED setting

MixedNext ==
    /\ setting = "mixed" /\ UNCHANGED setting
    /\ \/ \E s \in Sweepers : SweepStep(s)
       \/ \E m \in Symbols \ Watched : Outside(m) \/ TradeExecuted(m) \/ TradeCommitted(m) \/ Import(m)

\* FairSpec's fairness, in the setting whose liveness is asked for.
MCSpec == MCInit /\ [][QuietNext \/ MixedNext]_mcvars /\ WF_mcvars(QuietLoop)

\* OneIssuePerDrift while the loop is the only sweep (_existing_unresolved).
OneIssueWhenAlone == setting = "quiet" => OneIssuePerDrift
=============================================================================
