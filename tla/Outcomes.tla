------------------------------ MODULE Outcomes ------------------------------
(***************************************************************************)
(* How the story of a signal is written down and read back: the tracker    *)
(* books exits into the row and its tp_history (scanner/tracker.py,        *)
(* analytics/trade_outcome.py, analytics/lifecycle_pnl.py), a migration    *)
(* rewrites histories (migrations/backfill_tp_history.py), a rebuild       *)
(* stores daily tallies (performance/rebuild.py), and a dozen reports      *)
(* count wins and losses, each with a filter of its own.  Reports add up   *)
(* rows, so one row is enough to compare them.  Prices are ticks from the  *)
(* entry: the targets at 1, 2, 3, the stop at -2; shares are tenths.       *)
(***************************************************************************)
EXTENDS Integers, Sequences

CONSTANTS First, Second,  \* tenths of a position booked at TP1 and at TP2
          BreakEven,      \* move_sl_to_breakeven_after_tp1
          Policies        \* values of count_protected_sl_as_win

ConstantsOK ==
    /\ First \in 0..10 /\ Second \in 0..(10 - First)
    /\ BreakEven \in BOOLEAN /\ Policies \subseteq BOOLEAN

VARIABLES row,     \* the signal, as committed
          policy,  \* count_protected_sl_as_win
          plan,    \* the histories a running backfill is about to write
          day      \* what the last rebuild stored for the day of the signal
vars == <<row, policy, plan, day>>

Stop == -2
Targets == {"TP1", "TP2", "TP3"}
Prices == Stop..3
Rank(s) == CASE s = "TP1" -> 1 [] s = "TP2" -> 2 [] s = "TP3" -> 3 [] OTHER -> 0
Higher(a, b) == IF a >= b THEN a ELSE b
Target(k) == CASE k = 1 -> "TP1" [] k = 2 -> "TP2" [] k = 3 -> "TP3"

NoHistory == [max |-> 0, sl |-> FALSE, first |-> "", final |-> "", pnl |-> 0,
              outcome |-> "", again |-> FALSE]

(***************************************************************************)
(* Classification                                                          *)
(***************************************************************************)

MaxTp(status, hist) == Higher(hist.max, Rank(status))

(* The highest target ever reached decides; a stop counts only without     *)
(* one, and an ending of another name is judged by its money.              *)
Classify(status, hist, pnl) ==
    LET top == MaxTp(status, hist)
    IN  CASE top = 3 -> "FULL_WIN" [] top = 2 -> "WIN" [] top = 1 -> "PARTIAL_WIN"
          [] top = 0 /\ (hist.sl \/ status = "SL") -> "LOSS"
          [] top = 0 /\ ~hist.sl /\ status = "OPEN" -> "OPEN"
          [] top = 0 /\ ~hist.sl /\ status \notin {"SL", "OPEN"} ->
                 (IF pnl > 0 THEN "WIN" ELSE IF pnl < 0 THEN "LOSS" ELSE "BREAKEVEN")

BucketOf(outcome) ==
    IF outcome \in {"FULL_WIN", "WIN", "PARTIAL_WIN"} THEN "WIN" ELSE outcome
Bucket(r) == BucketOf(Classify(r.status, r.hist, r.pnl))

(* The level of the last event replaces the highest (mutation).            *)
RecordLast(hist, event, pnl) ==
    LET h == [hist EXCEPT !.max = Rank(event), !.sl = @ \/ event = "SL",
                          !.first = IF @ = "" THEN event ELSE @,
                          !.final = event, !.pnl = pnl]
    IN  [h EXCEPT !.outcome = Classify(event, h, pnl)]

(* An event is merged into the history: the lower targets come with it,    *)
(* the first exit stays, the highest target only rises.                    *)
RecordExit(hist, event, pnl) ==
    LET h == [hist EXCEPT !.max = Higher(@, Rank(event)), !.sl = @ \/ event = "SL",
                          !.first = IF @ = "" THEN event ELSE @,
                          !.final = event, !.pnl = pnl]
    IN  [h EXCEPT !.outcome = Classify(event, h, pnl)]

(***************************************************************************)
(* The tracker                                                             *)
(***************************************************************************)

(* The rest of a protected trade leaves at the full stop (mutation).       *)
BlendedAtStop(top, event) ==
    LET booked == (IF top >= 1 THEN First * 1 ELSE 0) + (IF top >= 2 THEN Second * 2 ELSE 0)
        left   == 10 - (IF top >= 1 THEN First ELSE 0) - (IF top >= 2 THEN Second ELSE 0)
    IN  IF event = "TP3" \/ top = 3 THEN booked + (10 - First - Second) * 3
        ELSE booked + left * Stop

(* Shares booked at the targets, and the rest at the end: at the third     *)
(* target, at the entry once the stop was moved there, or at the stop.     *)
Blended(top, event) ==
    LET booked == (IF top >= 1 THEN First * 1 ELSE 0) + (IF top >= 2 THEN Second * 2 ELSE 0)
        left   == 10 - (IF top >= 1 THEN First ELSE 0) - (IF top >= 2 THEN Second ELSE 0)
    IN  IF event = "TP3" \/ top = 3 THEN booked + (10 - First - Second) * 3
        ELSE booked + left * (IF top >= 1 /\ BreakEven THEN 0 ELSE Stop)

(* The events of one poll: a new target first, then the stop, which stands *)
(* at the entry if a target had been reached before this poll.  The third  *)
(* target leaves nothing to stop.                                          *)
Advanced(r, hi) == hi > Rank(r.status)
Stopped(r, hi, lo) == hi < 3 /\ lo <= (IF Rank(r.status) >= 1 /\ BreakEven THEN 0 ELSE Stop)

Booked(r, event, top, price) ==
    LET final == event \in {"TP3", "SL"}
        pnl   == IF final THEN Blended(top, event) ELSE 10 * price
    IN  [r EXCEPT
           !.status = IF event = "SL" /\ top >= 1 /\ policy THEN Target(top) ELSE event,
           !.pnl = pnl, !.closed = @ \/ final, !.hist = RecordExit(@, event, pnl)]

(* get_open_signals asks for the statuses only.                            *)
Polled == row.status \in {"OPEN", "TP1", "TP2"}

(* Until the entry was touched nothing is booked; an old one expires.      *)
PollUnfilled ==
    /\ Polled /\ ~row.filled
    /\ row' = [row EXCEPT !.status = "EXPIRED", !.closed = TRUE, !.pnl = 0]
    /\ UNCHANGED <<policy, plan, day>>

Poll ==
    /\ Polled
    /\ \E lo, price, hi \in Prices :
        /\ lo <= price /\ price <= hi
        /\ row.filled \/ (lo <= 0 /\ hi >= 0)
        /\ LET top == Higher(Rank(row.status), hi)
               seen == [row EXCEPT !.filled = TRUE, !.fav = Higher(@, hi)]
               reached == IF Advanced(row, hi) THEN Booked(seen, Target(hi), top, price) ELSE seen
           IN  row' = IF Stopped(row, hi, lo) THEN Booked(reached, "SL", top, price)
                      ELSE IF Advanced(row, hi) THEN reached ELSE [seen EXCEPT !.pnl = 10 * price]
    /\ UNCHANGED <<policy, plan, day>>

(***************************************************************************)
(* The backfill reads every row in one session and writes in another.      *)
(***************************************************************************)
Inferred(r) == Higher(r.fav, Rank(r.status))

Rebuilt(r) ==
    LET reached == RecordExit(r.hist, Target(Inferred(r)), r.pnl)
        ended   == IF r.status = "SL" THEN RecordExit(reached, "SL", r.pnl) ELSE reached
    IN  [ended EXCEPT !.again = TRUE]

BackfillReads ==
    /\ plan = <<>> /\ Inferred(row) >= 1 /\ Rebuilt(row) # row.hist
    /\ plan' = <<Rebuilt(row)>>
    /\ UNCHANGED <<row, policy, day>>

BackfillWrites ==
    /\ plan # <<>>
    /\ row' = [row EXCEPT !.hist = Head(plan)]
    /\ plan' = <<>>
    /\ UNCHANGED <<policy, day>>

(***************************************************************************)
(* The reports: is the row counted at all, as a win, as a loss             *)
(***************************************************************************)
Decided(r) == r.status \in Targets \cup {"SL"}
Tally(counted, r) == [in |-> counted, win |-> counted /\ Bucket(r) = "WIN",
                      loss |-> counted /\ Bucket(r) = "LOSS"]

WinrateAnalysis(r)   == Tally(Decided(r), r)
PerformanceStats(r)  == Tally(Decided(r), r)
ReportStats(r)       == Tally(Decided(r), r)
DashboardStats(r)    == Tally(Decided(r), r)
BacktestStats(r)     == Tally(Decided(r), r)
PublicStats(r)       == Tally(Decided(r), r)
DailyCard(r)         == Tally(Decided(r), r)
WeeklyCard(r)        == Tally(Decided(r), r)
WinrateSummary(r)    == Tally(r.status # "OPEN", r)
SymbolReport(r)      == Tally(r.status # "OPEN", r)
ScoringReport(r)     == Tally(r.status # "OPEN", r)
PerformanceCenter(r) == Tally(Decided(r) \/ r.status = "EXPIRED", r)
DailyReport(r)       == Tally(TRUE, r)

Reports(r) ==
    {WinrateAnalysis(r), PerformanceStats(r), ReportStats(r), DashboardStats(r),
     BacktestStats(r), PublicStats(r), DailyCard(r), WeeklyCard(r), WinrateSummary(r),
     SymbolReport(r), ScoringReport(r), PerformanceCenter(r), DailyReport(r)}

(* A backtest over the stored signals, and the rows of the rebuild, go by  *)
(* the status alone.                                                       *)
ByStatus(r) == [in |-> Decided(r), win |-> r.status \in Targets, loss |-> r.status = "SL"]
StoredBacktest(r) == ByStatus(r)
RebuiltDay(r) == ByStatus(r)
RebuildSummary(r) == Tally(Decided(r), r)

RebuildStats ==
    /\ day' = <<RebuiltDay(row), RebuildSummary(row)>>
    /\ UNCHANGED <<row, policy, plan>>

(* A new signal, or one that ended before there were histories.            *)
Init ==
    /\ row \in {[kind |-> "new", status |-> "OPEN", filled |-> FALSE, closed |-> FALSE,
                 pnl |-> 0, fav |-> 0, hist |-> NoHistory]}
             \cup [kind : {"old"}, status : {"TP3", "SL", "EXPIRED"}, filled : {TRUE},
                   closed : {TRUE}, pnl : {10 * Stop, 0, 30}, fav : 0..3, hist : {NoHistory}]
    /\ row.kind = "old" =>
          /\ row.pnl = CASE row.status = "SL" -> 10 * Stop [] row.status = "TP3" -> 30 [] OTHER -> 0
          /\ row.status = "TP3" <=> row.fav = 3
          /\ row.status = "EXPIRED" => row.fav = 0
    /\ policy \in Policies
    /\ plan = <<>> /\ day = <<>>

Next == PollUnfilled \/ Poll \/ BackfillReads \/ BackfillWrites \/ RebuildStats
Spec == Init /\ [][Next]_vars

(***************************************************************************)
(* Properties                                                              *)
(***************************************************************************)

(* Whatever the filter of a report, they all count the same wins and the   *)
(* same losses, and what counts as a win booked money, also when a stop    *)
(* came later: win rate and profit tell one story.                         *)
OneStory ==
    /\ \A a, b \in Reports(row) : a.win = b.win /\ a.loss = b.loss
    /\ row.kind = "new" /\ row.hist.final \in {"TP3", "SL"} =>
          (row.hist.pnl > 0 <=> BucketOf(row.hist.outcome) = "WIN")

(* A win is never taken back: neither a later stop nor a history written   *)
(* over a newer one turns it into a loss.                                  *)
WinsStayWins == [][Bucket(row) = "WIN" => Bucket(row') = "WIN"]_vars

(* "a TP-then-SL trade counts as a win, not a loss" (rebuild.py:67): the   *)
(* stored rows of a rebuild agree with its summary, and so does a backtest *)
(* over the stored signals.                                                *)
StatusTellsTheSame ==
    /\ day = <<>> \/ day[1] = day[2]
    /\ StoredBacktest(row) = RebuildSummary(row)

(* "idempotent: already backfilled / live-tracked" (backfill_tp_history.py *)
(* :122): a tracked history keeps its final event.                         *)
TrackedIsLeftAlone ==
    [][row.kind = "new" /\ plan # <<>> /\ plan' = <<>> => row'.hist.final = row.hist.final]_vars

(* A closed signal keeps the money booked at its exit.                     *)
ClosedKeepsItsMoney ==
    row.kind = "new" /\ row.closed /\ row.status # "EXPIRED" => row.pnl = row.hist.pnl
=============================================================================
