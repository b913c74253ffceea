------------------------------- MODULE Signals -------------------------------
(***************************************************************************)
(* The life of a signal: found and published by the scanner (app/scanner/  *)
(* scanner.py, app/main.py), followed by the tracker (app/scanner/tracker. *)
(* py), and mirrored by two followers, the paper book (app/paper_follow/   *)
(* trading.py) and the positions of the auto engine (app/auto_engine/      *)
(* engine.py).                                                             *)
(*                                                                         *)
(* Scanner and tracker are two tasks of one process.  Each database call   *)
(* is a transaction of its own, so the other task, or the end of the       *)
(* process, comes between any two of them.                                 *)
(***************************************************************************)
EXTENDS Naturals, Sequences, FiniteSets

CONSTANTS
    Ids,             \* signal ids
    Symbols,
    NoSig,           \* an id that is not used
    FillRequired,    \* settings.entry_fill_required
    BreakEven,       \* settings.move_sl_to_breakeven_after_tp1
    ProtectedAsWin,  \* settings.count_protected_sl_as_win
    Faults           \* a subset of the list below

\* "crash": the process ends anywhere and is started again;
\* "db": a transaction of the scanner or the tracker may fail;
\* "follower": opening, moving or closing a follower's position may fail.
FaultKinds == {"crash", "db", "follower"}

ASSUME SettingAssumption == {FillRequired, BreakEven, ProtectedAsWin} \subseteq BOOLEAN
ASSUME FaultAssumption == Faults \subseteq FaultKinds

VARIABLES
    sig,     \* the table of signals
    paper,   \* paper_positions: the status of the position of each signal
    auto,    \* the position the auto engine opened for each signal
    spc,     \* where the scanner is with its finding
    cand,    \* the symbol it found
    saved,   \* the id create_signal gave it
    tpc,     \* where the tracker is in its poll
    polled,  \* the rows of the poll it has not dealt with, as it read them
    cur,     \* the signal it is applying events to
    queue,   \* seq: the events still to apply
    reach    \* max(pre_rank, new_tp) of that signal in this poll

books   == <<sig, paper, auto>>
scanner == <<spc, cand, saved>>
tracker == <<tpc, polled, cur, queue, reach>>
vars    == <<books, scanner, tracker>>

-----------------------------------------------------------------------------
Statuses == {"OPEN", "TP1", "TP2", "TP3", "SL", "EXPIRED"}
Events   == {"TP1", "TP2", "TP3", "SL"}
Final    == {"TP3", "SL"}             \* FINAL_STATUSES, and the tracker's terminal events

Rank(s) == CASE s = "TP1" -> 1 [] s = "TP2" -> 2 [] s = "TP3" -> 3 [] OTHER -> 0
Level(n) == IF n = 1 THEN "TP1" ELSE IF n = 2 THEN "TP2" ELSE "TP3"
Larger(a, b) == IF a > b THEN a ELSE b

\* A row: filled is diagnostics.entry_fill, best and stopped are max_tp_hit and
\* sl_hit_at of diagnostics.tp_history, closed says that closed_at is set.
Rows == [sym : Symbols, status : Statuses, filled : BOOLEAN,
         best : 0 .. 3, stopped : BOOLEAN, closed : BOOLEAN]

ASSUME NoSigAssumption == NoSig \notin Ids /\ NoSig \notin Rows

NewRow(m) == [sym |-> m, status |-> "OPEN", filled |-> FALSE,
              best |-> 0, stopped |-> FALSE, closed |-> FALSE]

Used == {i \in Ids : sig[i] # NoSig}

\* has_active_signal: TP1 and TP2 are not among ACTIVE_STATUSES.
Active(m) == \E i \in Used : sig[i].sym = m /\ sig[i].status = "OPEN"

\* get_open_signals.
Tracked == {i \in Used : sig[i].status \in {"OPEN", "TP1", "TP2"}}

Init ==
    /\ sig = [i \in Ids |-> NoSig]
    /\ paper = [i \in Ids |-> "none"] /\ auto = [i \in Ids |-> "none"]
    /\ spc = "idle" /\ cand \in Symbols /\ saved = NoSig
    /\ tpc = "idle" /\ polled = [i \in Ids |-> NoSig]
    /\ cur = NoSig /\ queue = <<>> /\ reach = 0

-----------------------------------------------------------------------------
(* The scanner: findings are handled one after the other.                  *)

\* _analyze_symbol lets m pass; the cooldowns only delay it.
Find(m) ==
    /\ spc = "idle" /\ ~Active(m)
    /\ spc' = "guard" /\ cand' = m
    /\ UNCHANGED <<books, saved, tracker>>

\* The guard before persisting.
Guard ==
    /\ spc = "guard"
    /\ \/ spc' = IF Active(cand) THEN "idle" ELSE "save"
       \/ "db" \in Faults /\ spc' = "idle"
    /\ UNCHANGED <<books, cand, saved, tracker>>

\* create_signal; the unique index refuses a second OPEN row of the symbol.
Save ==
    /\ spc = "save"
    /\ \/ \E i \in Ids \ Used :
            /\ ~Active(cand)
            /\ sig' = [sig EXCEPT ![i] = NewRow(cand)]
            /\ saved' = i /\ spc' = "paper"
       \/ /\ Active(cand) \/ "db" \in Faults
          /\ spc' = "idle" /\ UNCHANGED <<sig, saved>>
    /\ UNCHANGED <<paper, auto, cand, tracker>>

\* open_paper_position, whose failure is swallowed.
OpenPaper ==
    /\ spc = "paper"
    /\ \/ paper' = [paper EXCEPT ![saved] = "OPEN"]
       \/ "follower" \in Faults /\ UNCHANGED paper
    /\ spc' = "auto"
    /\ UNCHANGED <<sig, auto, cand, saved, tracker>>

\* on_new_signal, if somebody follows; then the broadcast, and the next finding.
OpenAuto ==
    /\ spc = "auto"
    /\ auto' \in {auto, [auto EXCEPT ![saved] = "OPEN"]}
    /\ spc' = "idle" /\ saved' = NoSig
    /\ UNCHANGED <<sig, paper, cand, tracker>>

-----------------------------------------------------------------------------
(* The tracker.                                                            *)

Rest ==
    /\ tpc' = "idle" /\ polled' = [i \in Ids |-> NoSig]
    /\ cur' = NoSig /\ queue' = <<>> /\ reach' = 0

\* Read the open signals, then await their prices.
Poll ==
    /\ tpc = "idle" /\ Tracked # {}
    /\ polled' = [i \in Ids |-> IF i \in Tracked THEN sig[i] ELSE NoSig]
    /\ tpc' = "poll"
    /\ UNCHANGED <<books, scanner, cur, queue, reach>>

\* The symbol has no price.
NoPrice(i) ==
    /\ tpc = "poll" /\ polled[i] # NoSig
    /\ polled' = [polled EXCEPT ![i] = NoSig]
    /\ UNCHANGED <<books, scanner, tpc, cur, queue, reach>>

\* Mutation: the age is looked at whether or not the entry was filled.
UnfilledUnlessTouched(c, touched) == FillRequired /\ ~touched

\* The entry has not been filled yet and was not touched now.
Unfilled(c, touched) == FillRequired /\ ~c.filled /\ ~touched

\* _check_one without a fill: expired when old, left alone otherwise.
Wait(i) ==
    /\ tpc = "poll" /\ polled[i] # NoSig /\ Unfilled(polled[i], FALSE)
    /\ \/ sig' = [sig EXCEPT ![i] = [polled[i] EXCEPT !.status = "EXPIRED", !.closed = TRUE]]
       \/ UNCHANGED sig
    /\ polled' = [polled EXCEPT ![i] = NoSig]
    /\ UNCHANGED <<paper, auto, scanner, tpc, cur, queue, reach>>

\* The stop is hit: after TP1 it stands at the entry.
StopHit(c, low) == low = "stop" \/ (BreakEven /\ Rank(c.status) >= 1 /\ low = "entry")

\* The events of one poll: targets first, then the stop.
EventsOf(c, tp, low) ==
    IF tp = 3 THEN <<"TP3">>
    ELSE (IF tp > Rank(c.status) THEN <<Level(tp)>> ELSE <<>>)
         \o (IF StopHit(c, low) THEN <<"SL">> ELSE <<>>)

\* Mutation: only the status before the poll counts.
RankBefore(c, tp) == Rank(c.status)

\* max(pre_rank, new_tp), for event_max_tp.
TopOf(c, tp) == Larger(Rank(c.status), tp)

\* _check_one with a fill: note it, and derive the events from the candle.
Check(i, tp, low, touched) ==
    LET c == [polled[i] EXCEPT !.filled = @ \/ FillRequired] IN
    /\ tpc = "poll" /\ polled[i] # NoSig /\ ~Unfilled(polled[i], touched)
    /\ sig' = [sig EXCEPT ![i] = c]
    /\ IF EventsOf(c, tp, low) = <<>>
       THEN /\ polled' = [polled EXCEPT ![i] = NoSig]
            /\ UNCHANGED <<tpc, cur, queue, reach>>
       ELSE /\ polled' = [polled EXCEPT ![i] = c]
            /\ tpc' = "apply" /\ cur' = i
            /\ queue' = EventsOf(c, tp, low) /\ reach' = TopOf(c, tp)
    /\ UNCHANGED <<paper, auto, scanner>>

\* Mutations: such a stop is recorded as the first target, or as a status of its own.
RecordedAsFirst(e, top) ==
    IF e = "SL" /\ top >= 1 /\ ProtectedAsWin THEN "TP1" ELSE e
RecordedAsWin(e, top) ==
    IF e = "SL" /\ top >= 1 /\ ProtectedAsWin THEN "WIN" ELSE e

\* recorded_status: a stop after a target is recorded as the target.
Recorded(e, top) ==
    IF e = "SL" /\ top >= 1 /\ ProtectedAsWin THEN Level(top) ELSE e

\* The row after event e, record_exit_event included.
After(c, e) ==
    [c EXCEPT !.status = Recorded(e, IF e = "TP3" THEN 3 ELSE reach),
              !.best = Larger(@, Rank(e)),
              !.stopped = @ \/ e = "SL",
              !.closed = @ \/ e \in Final]

\* Mutation: an update that failed is logged, and the event told all the same.
Swallowed(c) == sig' \in {sig, [sig EXCEPT ![cur] = c]}

\* update_signal.
Update(c) == sig' = [sig EXCEPT ![cur] = c]

\* Write one event of the poll; its fan-out follows.
Apply ==
    /\ tpc = "apply"
    /\ LET c == After(polled[cur], Head(queue)) IN
         Update(c) /\ polled' = [polled EXCEPT ![cur] = c]
    /\ tpc' = "paper"
    /\ UNCHANGED <<paper, auto, scanner, cur, queue, reach>>

\* _handle_tracker_event, after the broadcast: the paper book's on_signal_event ...
TellPaper ==
    /\ tpc = "paper"
    /\ \/ paper' = IF paper[cur] \in Final \cup {"none"} THEN paper
                   ELSE [paper EXCEPT ![cur] = Head(queue)]
       \/ "follower" \in Faults /\ UNCHANGED paper
    /\ tpc' = "auto"
    /\ UNCHANGED <<sig, auto, scanner, polled, cur, queue, reach>>

\* ... and the auto engine's: a terminal event closes.
TellAuto ==
    /\ tpc = "auto"
    /\ \/ auto' = IF auto[cur] = "OPEN" /\ Head(queue) \in Final
                  THEN [auto EXCEPT ![cur] = "CLOSED"] ELSE auto
       \/ "follower" \in Faults /\ UNCHANGED auto
    /\ IF Tail(queue) = <<>>
       THEN /\ tpc' = "poll" /\ polled' = [polled EXCEPT ![cur] = NoSig]
            /\ cur' = NoSig /\ queue' = <<>> /\ reach' = 0
       ELSE tpc' = "apply" /\ queue' = Tail(queue) /\ UNCHANGED <<polled, cur, reach>>
    /\ UNCHANGED <<sig, paper, scanner>>

\* The position of the auto engine is closed by its user, or liquidated.
ByHand(i) ==
    /\ auto[i] = "OPEN"
    /\ auto' = [auto EXCEPT ![i] = "none"]
    /\ UNCHANGED <<sig, paper, scanner, tracker>>

\* All signals are dealt with, or a transaction failed and the poll is given up.
PollEnds ==
    /\ \/ tpc = "poll" /\ \A i \in Ids : polled[i] = NoSig
       \/ tpc \in {"poll", "apply"} /\ "db" \in Faults
    /\ Rest
    /\ UNCHANGED <<books, scanner>>

\* The process is started again.
Crash ==
    /\ "crash" \in Faults
    /\ spc' = "idle" /\ saved' = NoSig /\ Rest
    /\ UNCHANGED <<books, cand>>

-----------------------------------------------------------------------------
TrackerStep ==
    \/ Poll \/ Apply \/ TellPaper \/ TellAuto \/ PollEnds
    \/ \E i \in Ids :
          \/ NoPrice(i) \/ Wait(i)
          \/ \E tp \in 0 .. 3, low \in {"above", "entry", "stop"}, touched \in BOOLEAN :
                Check(i, tp, low, touched)

ScannerStep == Guard \/ Save \/ OpenPaper \/ OpenAuto

Next ==
    \/ \E m \in Symbols : Find(m)
    \/ \E i \in Ids : ByHand(i)
    \/ ScannerStep \/ TrackerStep \/ Crash

Spec == Init /\ [][Next]_vars

\* Both tasks go on: their awaits end within the timeouts of the clients they use.
FairSpec == Spec /\ WF_vars(ScannerStep) /\ WF_vars(TrackerStep)

-----------------------------------------------------------------------------
(* Properties.                                                             *)

\* The events one poll can yield.
Queues == {<<e>> : e \in Events} \cup {<<e, "SL">> : e \in {"TP1", "TP2"}}

\* Every variable stays in its set of values.
TypeOK ==
    /\ sig \in [Ids -> Rows \cup {NoSig}]
    /\ paper \in [Ids -> {"none", "OPEN"} \cup Events]
    /\ auto \in [Ids -> {"none", "OPEN", "CLOSED"}]
    /\ spc \in {"idle", "guard", "save", "paper", "auto"}
    /\ cand \in Symbols /\ saved \in Ids \cup {NoSig}
    /\ tpc \in {"idle", "poll", "apply", "paper", "auto"}
    /\ polled \in [Ids -> Rows \cup {NoSig}]
    /\ cur \in Ids \cup {NoSig} /\ queue \in Queues \cup {<<>>} /\ reach \in 0 .. 3

\* No follower is ahead of the signal, whatever fails or restarts: what the paper
\* book and the auto engine acted on is on record.
FollowersNotAhead ==
    \A i \in Ids :
        /\ paper[i] # "none" => sig[i] # NoSig
        /\ Rank(paper[i]) > 0 => Rank(paper[i]) <= sig[i].best
        /\ paper[i] = "SL" => sig[i].stopped
        /\ auto[i] = "CLOSED" => sig[i].closed

\* A signal whose entry was never filled has no outcome, and one that was filled
\* never expires.
NoPhantomFill ==
    FillRequired => \A i \in Used :
        IF sig[i].filled THEN sig[i].status # "EXPIRED"
        ELSE sig[i].status \in {"OPEN", "EXPIRED"} /\ sig[i].best = 0 /\ ~sig[i].stopped

\* A stop after a target is never recorded as a loss, also when one candle holds
\* both or a restart comes between them (count_protected_sl_as_win).
ProtectedIsNoLoss ==
    ProtectedAsWin => \A i \in Used : sig[i].status = "SL" => sig[i].best = 0

\* The status of a signal never falls back to a lower target, and never to OPEN: a
\* stop keeps what a target has earned (count_protected_sl_as_win).
StatusOnlyRises ==
    [][ProtectedAsWin => \A i \in Used :
                       /\ Rank(sig'[i].status) >= Rank(sig[i].status)
                       /\ sig[i].status # "OPEN" => sig'[i].status # "OPEN"]_vars

-----------------------------------------------------------------------------
(* What the repository's comments say, which the code denies.              *)

\* The status of a closed signal is terminal.
ClosedIsTerminal ==
    [][\A i \in Used : sig[i].closed => sig'[i].status = sig[i].status]_vars

\* One symbol has one signal that is not over.
OneTrackedPerSymbol ==
    \A i, j \in Tracked : i # j /\ sig[i].sym = sig[j].sym => sig[i].closed \/ sig[j].closed

\* Without faults, the paper position of a signal that is over is closed.
PaperFollowsToTheEnd ==
    \A i \in Ids : sig[i] # NoSig /\ sig[i].closed /\ paper[i] # "none" ~> paper[i] \in Final
=============================================================================
