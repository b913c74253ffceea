------------------------------- MODULE Levels -------------------------------
(***************************************************************************)
(* The trade levels of a candidate: which stop engine speaks, how far the  *)
(* stop lies, which target is chosen and where the ladder of take profits  *)
(* stands (src/app/risk/levels.py, stoploss_modes.py), under thresholds    *)
(* that the regime of the market may move (regime_adaptive_gate.py).       *)
(*                                                                         *)
(* LONG and SHORT are mirror images in the code, so everything is a        *)
(* distance from the price: the stop and the swing behind it on one side,  *)
(* the targets on the other.  The price is 1000000 units, one tenth of a   *)
(* percent is 1000 of them; ratios are in thousandths, and so targets and  *)
(* the entry band, multiples of the risk, are in thousandths of a unit.    *)
(***************************************************************************)
EXTENDS Integers, FiniteSets

Tenth == 1000        \* one tenth of a percent of the price

NoRegime == "none"   \* nothing cached: the gate says UNKNOWN
Regimes == {"LOW_VOLATILITY", "HIGH_VOLATILITY", "SIDEWAYS", "BULL", "BEAR", "NORMAL", NoRegime}
\* BALANCED_1D is BALANCED with balanced_stop_allow_1d_fallback.
Modes == {"LEGACY_ATR", "PREV_1D_SUPPORT", "BALANCED", "BALANCED_1D"}

Most(a, b) == IF a > b THEN a ELSE b
Least(a, b) == IF a < b THEN a ELSE b

-----------------------------------------------------------------------------
\* The thresholds: the least risk reward, the widest stop, the least confidence.

Base == [rr |-> 2000, stop |-> 100 * Tenth, conf |-> 750]

OfRegime(r) ==
  CASE r = "LOW_VOLATILITY"  -> [rr |-> 1000, stop |-> 150 * Tenth, conf |-> Base.conf - 30]
    [] r = "HIGH_VOLATILITY" -> [rr |-> 1800, stop |-> 80 * Tenth, conf |-> Base.conf + 30]
    [] r = "SIDEWAYS"        -> [rr |-> 1600, stop |-> 80 * Tenth, conf |-> Base.conf + 30]
    [] r = "BULL"            -> [rr |-> 1800, stop |-> 100 * Tenth, conf |-> Base.conf]
    [] r = "BEAR"            -> [rr |-> 2000, stop |-> 80 * Tenth, conf |-> Base.conf + 30]
    [] OTHER                 -> [rr |-> 1500, stop |-> 100 * Tenth, conf |-> Base.conf]

Hard == [rr |-> 1000, stop |-> 200 * Tenth, conf |-> 700]

Tighter(s, t) == [rr |-> Most(s.rr, t.rr), stop |-> Least(s.stop, t.stop), conf |-> Most(s.conf, t.conf)]

\* A variation of Thresholds: the gate as first written, which relaxed every regime.
Adapted(gate, r) == IF gate THEN Tighter(OfRegime(r), Hard) ELSE Base

\* The gate moves the thresholds within its clamps, and loosens them in a quiet market only.
Thresholds(gate, r) ==
  IF ~gate THEN Base
  ELSE LET t == Tighter(OfRegime(r), Hard)
       IN  IF r = "LOW_VOLATILITY" THEN t ELSE Tighter(t, Base)

-----------------------------------------------------------------------------
\* The stops.  s is a snapshot: the range of a candle, the distance of the swing
\* behind the stop, and yesterday's level with the range of a day, which may be missing.

NoStop == -1
NoDay == [missing |-> TRUE]

BalancedMin == 18 * Tenth
BalancedMax(gate, r) ==
  CASE gate /\ r = "LOW_VOLATILITY" -> 120 * Tenth
    [] gate /\ r \in {"HIGH_VOLATILITY", "SIDEWAYS"} -> 60 * Tenth
    [] OTHER -> 80 * Tenth

\* The farther of the volatility stop and the swing stop, the former when that is too far.
BalancedStop(s, max) ==
  LET atrStop == (22 * s.atr) \div 10
      swingStop == s.swing + s.atr \div 4
      farther == IF swingStop > 0 THEN Most(atrStop, swingStop) ELSE atrStop
      chosen == IF farther > max THEN atrStop ELSE farther
  IN  IF chosen > max THEN NoStop ELSE Most(chosen, BalancedMin)

\* Beyond yesterday's extreme: refused on the wrong side or too far, widened when too close.
DayStop(s, min, max) ==
  LET d == s.day.level + (15 * s.day.atr) \div 100
  IN  IF d <= 0 \/ d > max THEN NoStop ELSE Most(d, min)

LegacyStop(s) == Most(s.swing + s.atr \div 5, (18 * s.atr) \div 10)

\* Without daily candles the engine of the day's levels hands over to the old one.
Stop(mode, gate, r, thr, s) ==
  LET max == BalancedMax(gate, r)
  IN  CASE mode = "BALANCED_1D" /\ s.day # NoDay /\ BalancedStop(s, max) = NoStop -> DayStop(s, BalancedMin, max)
        [] mode \in {"BALANCED", "BALANCED_1D"} -> BalancedStop(s, max)
        [] mode = "PREV_1D_SUPPORT" /\ s.day # NoDay -> DayStop(s, 20 * Tenth, thr.stop)
        [] OTHER -> LegacyStop(s)

-----------------------------------------------------------------------------
\* The targets.

NoPool == -1

\* 2.5 times the risk in a calm market, 1.8 in a wild one, linear between.
AtrMultiplier(s) ==
  LET pct == s.atr \div Tenth
  IN  CASE pct <= 5 -> 2500 [] pct >= 30 -> 1800 [] OTHER -> 2500 - 28 * (pct - 5)

\* By volatility; and by structure and liquidity, when beyond one and a half risks.
Candidates(s, risk) ==
  {AtrMultiplier(s) * risk} \cup {1000 * m : m \in {n \in {s.far, s.pool} : 2 * n > 3 * risk}}

\* The targets whose reward is worth the risk.
Paying(s, risk, thr) == {c \in Candidates(s, risk) : c >= thr.rr * risk}

\* A variation of Nearest: the most flattering target, as once chosen.
Farthest(cs) == CHOOSE c \in cs : \A d \in cs : c >= d

Nearest(cs) == CHOOSE c \in cs : \A d \in cs : c <= d

Refused == [refused |-> TRUE]

\* The nearest target that still pays, and the other two clamped around it.
BuildLevels(mode, gate, r, thr, s) ==
  LET stop == Stop(mode, gate, r, thr, s)
      paying == Paying(s, stop, thr)
      tp2 == Nearest(paying)
  IN  IF stop <= 0 THEN Refused
      ELSE IF paying = {} THEN Refused
      ELSE [stop |-> stop, tp1 |-> Least(1200 * stop, tp2 - 100 * stop), tp2 |-> tp2,
            tp3 |-> Most(3500 * stop, tp2 + 500 * stop)]

\* The entry is a band around the price.
EntryPad(s) == 150 * s.atr
=============================================================================
