----------------------------- MODULE MCRecovery -----------------------------
(***************************************************************************)
(* Two settings of Recovery in one state graph, each a part of RNext.  In  *)
(* the calm one two requests, long or short, run beside one sweep with the *)
(* gate open.  In the failing one two sweeps run beside one request while  *)
(* the gate moves and requests and sweeps abort.                           *)
(***************************************************************************)
EXTENDS Recovery

CONSTANTS FirstHandler, FirstSweep  \* the failing setting's request, the calm one's sweep

ASSUME FirstAssumption == FirstHandler \in Handlers /\ FirstSweep \in Sweeps

\* What requests ask for: sides and legs.
CalmOpenings    == Sides \X {{"TP", "SL"}}
FailingOpenings == {<<"LONG", {"SL"}>>}

VARIABLE setting
mcvars == <<rvars, setting>>

MCInit == RInit /\ setting \in {"calm", "failing"}

Asking(openings) ==
    \A h \in Handlers : req'[h] \in OpenRequests => <<req'[h].side, req'[h].legs>> \in openings

CalmNext ==
    /\ setting = "calm" /\ UNCHANGED setting
    /\ \/ LiveStep(Next) /\ gate' = gate /\ \A h \in Handlers : pc'[h] # "dead"
       \/ SweepStart(FirstSweep) \/ SweepStep(FirstSweep)
    /\ Asking(CalmOpenings)

FailingNext ==
    /\ setting = "failing" /\ UNCHANGED setting
    /\ RNext
    /\ \A h \in Handlers \ {FirstHandler} : pc'[h] = "idle"
    /\ Asking(FailingOpenings)

MCNext == CalmNext \/ FailingNext

\* The fairness of RFairSpec, in the setting whose liveness is asked for.
FailingSweep(s) == setting = "failing" /\ SweepStep(s) /\ UNCHANGED setting
FailingRequest(h) == setting = "failing" /\ LiveStep(HandlerStep(h)) /\ UNCHANGED setting

MCSpec ==
    /\ MCInit /\ [][MCNext]_mcvars
    /\ \A s \in Sweeps : WF_mcvars(FailingSweep(s))
    /\ WF_mcvars(FailingRequest(FirstHandler))

\* VanishedMeansGone while the gate stays open (recover_user_positions).
VanishedMeansGoneWhenCalm == setting = "calm" => VanishedMeansGone

\* SweepsEnd in the failing setting (sync_tp_sl_for_position's retries).
SweepsEndWhenFailing ==
    \A s \in Sweeps : setting = "failing" /\ rpc[s] # "idle" ~> rpc[s] = "done"
=============================================================================
