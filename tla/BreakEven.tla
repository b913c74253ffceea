----------------------------- MODULE BreakEven -----------------------------
(***************************************************************************)
(* The break-even engine (execution/live_trading/break_even.py): a planner *)
(* of protective intents for one position whose first target was hit, and  *)
(* the caller it asks for (it has none but its tests yet): one that reads  *)
(* the position, carries the intents out in order, and folds in those that *)
(* succeeded.  Prices are seen from the position's side: higher is better, *)
(* so LONG and SHORT are one; the trailing distance is absolute here.      *)
(***************************************************************************)
EXTENDS Integers, Sequences

CONSTANTS
    Prices,         \* a range of prices, 0 being no stop at all
    Entry, Target,  \* of the position: Entry < Target
    Distance,       \* trailing_stop_distance_percent
    MoveToEntry,    \* move_sl_to_entry_on_tp1
    Trailing,       \* trailing_stop_enabled
    Faults          \* "fail": an intent fails; "lost": its answer is lost; "user": the stop is moved by hand

ConstantsOK ==
    /\ Prices \subseteq Nat /\ {0, Entry, Target} \subseteq Prices /\ Entry < Target /\ Distance \in Nat
    /\ {MoveToEntry, Trailing} \subseteq BOOLEAN
    /\ Faults \subseteq {"fail", "lost", "user"}

VARIABLES
    price,      \* of the market
    open,       \* slices of the position that are open, of ten
    stop,       \* the working stop at the exchange, 0 if there is none
    known,      \* PositionProtectionState, as the caller keeps it
    plan        \* intents the caller has still to carry out

vars == <<price, open, stop, known, plan>>

TypeOK ==
    /\ price \in Prices /\ open \in 0 .. 10 /\ stop \in Int
    /\ known \in [partial : BOOLEAN, breakEven : BOOLEAN, trailing : BOOLEAN, stop : Int]
    /\ plan \in Seq([action : {"PARTIAL_CLOSE", "MOVE_SL", "ARM_TRAILING", "UPDATE_TRAILING"}, to : Int])

Init ==
    /\ price = Entry /\ open = 10 /\ plan = <<>>
    /\ stop \in {p \in Prices : p < Entry}
    /\ known = [partial |-> FALSE, breakEven |-> FALSE, trailing |-> FALSE, stop |-> 0]

Intent(action, to) == [action |-> action, to |-> to]
If(condition, intent) == IF condition THEN <<intent>> ELSE <<>>

\* Mutant of IsTighter: the stop of one side is compared the wrong way round.
IsOther(current, candidate) == candidate # current

\* Strictly tighter: a wider stop, or the same, is never planned.
IsTighter(current, candidate) == candidate > current

TrailFrom(p) == p - Distance

\* plan_tp1_actions: what is not recorded as done, the trailing stop being
\* compared with the entry when the stop is to be moved there.
TP1Actions ==
    LET reference == IF MoveToEntry THEN Entry ELSE stop
    IN If(~known.partial, Intent("PARTIAL_CLOSE", 0))
       \o If(MoveToEntry /\ ~known.breakEven /\ IsTighter(stop, Entry), Intent("MOVE_SL", Entry))
       \o If(/\ Trailing /\ ~known.trailing /\ Distance > 0
             /\ IsTighter(reference, TrailFrom(Target)), Intent("ARM_TRAILING", TrailFrom(Target)))

\* update_trailing_stop: from what the caller believes the stop to be.
Ratchet ==
    If(Trailing /\ known.trailing /\ Distance > 0 /\ IsTighter(known.stop, TrailFrom(price)),
       Intent("UPDATE_TRAILING", TrailFrom(price)))

\* apply_intents, for one intent.
Applied(i) ==
    [known EXCEPT !.partial = @ \/ i.action = "PARTIAL_CLOSE",
                  !.breakEven = @ \/ i.action = "MOVE_SL",
                  !.trailing = @ \/ i.action = "ARM_TRAILING",
                  !.stop = IF i.action = "PARTIAL_CLOSE" THEN @ ELSE i.to]

Moves(p) ==
    /\ price' = p /\ p > stop
    /\ UNCHANGED <<open, stop, known, plan>>

PlanTP1 ==
    /\ plan = <<>> /\ price >= Target /\ TP1Actions # <<>>
    /\ plan' = TP1Actions
    /\ UNCHANGED <<price, open, stop, known>>

PlanTrailing ==
    /\ plan = <<>> /\ Ratchet # <<>>
    /\ plan' = Ratchet
    /\ UNCHANGED <<price, open, stop, known>>

\* What an intent does at the exchange: 40 % of what is open is closed, or the stop replaced.
Effect(i) ==
    IF i.action = "PARTIAL_CLOSE"
    THEN open' = open - (open * 4) \div 10 /\ UNCHANGED stop
    ELSE stop' = i.to /\ UNCHANGED open

Execute ==
    /\ plan # <<>> /\ Effect(Head(plan))
    /\ known' = Applied(Head(plan)) /\ plan' = Tail(plan)
    /\ UNCHANGED price

\* The rest of the plan is given up; the next tick plans what is not done.
Fails ==
    /\ "fail" \in Faults /\ plan # <<>> /\ plan' = <<>>
    /\ UNCHANGED <<price, open, stop, known>>

AnswerLost ==
    /\ "lost" \in Faults /\ plan # <<>> /\ plan' = <<>> /\ Effect(Head(plan))
    /\ UNCHANGED <<price, known>>

UserMovesStop(p) ==
    /\ "user" \in Faults /\ plan = <<>> /\ p > stop /\ p < price
    /\ stop' = p
    /\ UNCHANGED <<price, open, known, plan>>

Next ==
    \/ \E p \in Prices : Moves(p) \/ UserMovesStop(p)
    \/ PlanTP1 \/ PlanTrailing
    \/ Execute \/ Fails \/ AnswerLost

Spec == Init /\ [][Next]_vars

-----------------------------------------------------------------------------
\* "SL is NEVER widened" and "No intent is produced more than once": whatever the
\* market does between a plan and its execution, and whichever intents fail, the
\* working stop only tightens and the slice of TP1 is closed once.  (With "lost"
\* or "user" among the faults it is violated: the stop of the state is not the
\* one that works, and the trailing stop is compared with the entry.)
ProtectionOnlyGrows ==
    [][stop' >= stop /\ (open' < open => open = 10)]_vars
=============================================================================
