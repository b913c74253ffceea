------------------------------ MODULE Backtest ------------------------------
(***************************************************************************)
(* The candle replay of backtesting/historical.py.  The 15m candles are    *)
(* known in advance; the replay walks over them, keeps one snapshot per    *)
(* higher timeframe, rebuilds it only when another candle of it closed,    *)
(* and on a signal looks ahead for the exit, so that no second trade       *)
(* starts before it.  Candles are lows, highs and closes in ticks, a       *)
(* snapshot is the number of candles it was built from, and what the       *)
(* pipeline decides from the snapshots is arbitrary.                       *)
(***************************************************************************)
EXTENDS Integers, Sequences
LOCAL INSTANCE SequencesExt
LOCAL INSTANCE FiniteSetsExt

CONSTANTS Bars,       \* number of 15m candles fetched
          Shapes,     \* candles [lo, hi, close] a market may print
          First, Past,\* the test window: First .. Past - 1
          MaxHold,    \* _MAX_HOLD
          Period,     \* 15m candles in a candle of 1d, 4h, 1h
          MinBars     \* 60: fewer closed candles give no snapshot

ConstantsOK ==
    /\ Bars \in Nat \ {0} /\ First \in 1..Bars /\ Past \in First..(Bars + 1)
    /\ MaxHold \in Nat \ {0} /\ MinBars \in Nat \ {0}
    /\ Period \in [{"1d", "4h", "1h"} -> Nat \ {0}]

VARIABLES candles, i, until, seen, snap, trades, report
vars == <<candles, i, until, seen, snap, trades, report>>

Frames == {"1d", "4h", "1h"}
Sides == {"LONG", "SHORT"}
Wins == {"TP1", "TP2", "TP3"}

(* Higher candles closed at the close of the i-th: searchsorted, right.    *)
Closed(tf) == i \div Period[tf]

(* One ladder stands for those of build_levels, which ends in a guard that *)
(* puts the targets in order; which ladders there are is in Levels.tla.    *)
Levels(side, entry) ==
    LET d == IF side = "LONG" THEN 1 ELSE -1
    IN  [sl |-> entry - d, TP1 |-> entry + d, TP2 |-> entry + 2 * d, TP3 |-> entry + 3 * d]

Reaches(j, side, level) ==
    IF side = "LONG" THEN candles[j].hi >= level ELSE candles[j].lo <= level
Stops(j, side, level) ==
    IF side = "LONG" THEN candles[j].lo <= level ELSE candles[j].hi >= level

(* What the scan answers at a candle; "none" lets it go on.                *)
HitAt(j, side, lv) ==
    IF Stops(j, side, lv.sl) THEN "SL"
    ELSE IF Reaches(j, side, lv.TP3) THEN "TP3"
    ELSE IF Reaches(j, side, lv.TP2) THEN "TP2"
    ELSE IF Reaches(j, side, lv.TP1) THEN "TP1" ELSE "none"

(* The scan's end is exclusive, and an expired trade is closed at it.      *)
SimulateExit(from, side, lv) ==
    LET end  == Min({from + MaxHold, Bars + 1})
        hits == {j \in from..(end - 1) : HitAt(j, side, lv) # "none"}
        out  == Min({end, Bars})
    IN  IF hits = {}
        THEN [at |-> out, status |-> "EXPIRED", price |-> candles[out].close]
        ELSE LET at == Min(hits) status == HitAt(at, side, lv)
             IN  [at |-> at, status |-> status,
                  price |-> IF status = "SL" THEN lv.sl ELSE lv[status]]

Trade(side) ==
    LET entry == candles[i].close
        exit  == SimulateExit(i + 1, side, Levels(side, entry))
    IN  [side |-> side, entry |-> i, exit |-> exit.at, status |-> exit.status,
         pnl |-> IF side = "LONG" THEN exit.price - entry ELSE entry - exit.price,
         from |-> [tf \in Frames |-> snap'[tf]]]

(* The fall is measured from the start and not from the peak (mutation).   *)
DrawdownFromStart(pnls) ==
    FoldLeft(LAMBDA acc, p : [cum |-> acc.cum + p, dd |-> Max({acc.dd, 0 - (acc.cum + p)})],
             [cum |-> 0, dd |-> 0], pnls).dd

(* The curve is walked once, with the peak so far and the deepest fall.    *)
Drawdown(pnls) ==
    FoldLeft(LAMBDA acc, p :
                 LET cum  == acc.cum + p
                     peak == Max({acc.peak, cum})
                 IN  [cum |-> cum, peak |-> peak, dd |-> Max({acc.dd, peak - cum})],
             [cum |-> 0, peak |-> 0, dd |-> 0], pnls).dd

Metrics(ts) ==
    LET pnls  == [k \in DOMAIN ts |-> ts[k].pnl]
        Of(S) == Len(SelectSeq(ts, LAMBDA t : t.status \in S))
    IN  [total |-> Len(ts), wins |-> Of(Wins), losses |-> Of({"SL"}),
         expired |-> Of({"EXPIRED"}), net |-> FoldLeft(+, 0, pnls),
         drawdown |-> Drawdown(pnls)]

Running == report = <<>>

Init ==
    /\ candles \in [1..Bars -> Shapes]
    /\ i = First /\ until = 0
    /\ seen = [tf \in Frames |-> -1]
    /\ snap = [tf \in Frames |-> 0]
    /\ trades = <<>> /\ report = <<>>

(* Candles up to the exit of the last trade are passed over.               *)
Hold ==
    /\ Running /\ i < Past /\ i <= until
    /\ i' = i + 1
    /\ UNCHANGED <<candles, until, seen, snap, trades, report>>

(* A cache filled once and never rebuilt (mutation).                        *)
RefreshMissing(tfs) ==
    /\ seen' = [tf \in Frames |-> IF tf \in tfs THEN Closed(tf) ELSE seen[tf]]
    /\ snap' = [tf \in Frames |->
                  IF tf \notin tfs \/ snap[tf] # 0 THEN snap[tf]
                  ELSE IF Closed(tf) >= MinBars THEN Closed(tf) ELSE 0]

(* The snapshots of a set of frames are brought up to this candle.         *)
Refresh(tfs) ==
    /\ seen' = [tf \in Frames |-> IF tf \in tfs THEN Closed(tf) ELSE seen[tf]]
    /\ snap' = [tf \in Frames |->
                  IF tf \notin tfs \/ Closed(tf) = seen[tf] THEN snap[tf]
                  ELSE IF Closed(tf) >= MinBars THEN Closed(tf) ELSE 0]

(* The frames are visited from the slowest to the fastest; a missing       *)
(* snapshot or, at 1d, an absent trend ends the visit of the candle, and   *)
(* the faster frames stay as they were.                                    *)
Visits == {{"1d"}, {"1d", "4h"}, {"1d", "4h", "1h"}}

PassOver ==
    /\ Running /\ i < Past /\ i > until
    /\ \E tfs \in Visits :
        /\ Refresh(tfs)
        /\ \A tf \in tfs : (\E more \in tfs : Period[more] < Period[tf]) => snap'[tf] # 0
        /\ tfs = {"1d", "4h"} => snap'["4h"] = 0
    /\ i' = i + 1
    /\ UNCHANGED <<candles, until, trades, report>>

Enter ==
    /\ Running /\ i < Past /\ i > until
    /\ Refresh(Frames)
    /\ \A tf \in Frames : snap'[tf] # 0
    /\ \E side \in Sides :
        /\ trades' = Append(trades, Trade(side))
        /\ until' = Trade(side).exit
    /\ i' = i + 1
    /\ UNCHANGED <<candles, report>>

Report ==
    /\ Running /\ i = Past
    /\ report' = <<Metrics(trades)>>
    /\ UNCHANGED <<candles, i, until, seen, snap, trades>>

Next == Hold \/ PassOver \/ Enter \/ Report
Spec == Init /\ [][Next]_vars

(***************************************************************************)
(* Properties                                                              *)
(***************************************************************************)

(* A trade rests on every higher candle closed by its entry and on none    *)
(* that closed later, whatever candles the walk left out in between, and   *)
(* two trades never overlap.                                               *)
NoLookAhead ==
    \A k \in DOMAIN trades :
        /\ \A tf \in Frames : trades[k].from[tf] = trades[k].entry \div Period[tf]
        /\ k > 1 => trades[k].entry > trades[k - 1].exit

(* The one-pass drawdown is the deepest fall between any two points of the *)
(* equity curve, and every trade is counted once.                          *)
DrawdownIsDeepest ==
    \A m \in {report[k] : k \in DOMAIN report} :
        LET At(k) == FoldLeft(LAMBDA a, t : a + t.pnl, 0, SubSeq(trades, 1, k))
        IN  /\ m.drawdown = Max(UNION {{At(a) - At(b) : b \in a..Len(trades)}
                                      : a \in 0..Len(trades)})
            /\ m.wins + m.losses + m.expired = m.total

(* "Neither TP nor SL hit within MAX_HOLD" (historical.py:194): no candle  *)
(* from entry to exit of an expired trade touches one of its levels.       *)
ExpiredUntouched ==
    \A k \in DOMAIN trades :
        LET t == trades[k] lv == Levels(t.side, candles[t.entry].close)
        IN  t.status = "EXPIRED" =>
                \A j \in (t.entry + 1)..t.exit : HitAt(j, t.side, lv) = "none"
=============================================================================
