------------------------------ MODULE Analysis ------------------------------
(***************************************************************************)
(* The analysis of one symbol in a scan (src/app/scanner/scanner.py), from *)
(* the four layers of the pipeline (ai_scoring/mtf.py) over the market     *)
(* filters (risk/filters.py), the levels (module Levels) and the context   *)
(* of open interest, funding and liquidity to the protection of shorts     *)
(* (scanner/short_protection.py).  Between its steps the task waits for    *)
(* candles, the exchange and Redis; the regime of the market is read from  *)
(* the cache twice, and the cache may have moved.                          *)
(*                                                                         *)
(* Confidence is in tenths of a percent.  What comes before the first read *)
(* and after the verdict (guards, cooldown, cap) is in Publisher.          *)
(***************************************************************************)
EXTENDS Levels

CONSTANTS Snapshots,   \* what Levels reads of the primary timeframe
          Layers,      \* how many factors of each layer hold for the side
          Markets,     \* what the filters read
          Contexts,    \* open interest, funding, liquidity, trends
          Deployments  \* [mode, gate, bias]: the settings

\* A candle's range is floored at a tenth of a percent; yesterday may be missing.
Day == [level: Int, atr: Nat] \cup {NoDay}
ConstantsOK ==
  /\ \A s \in Snapshots : /\ s.atr \in Nat /\ s.atr >= Tenth
                          /\ s.swing \in Int /\ s.far \in Int /\ s.pool \in Int
                          /\ s.day \in Day
  /\ \A l \in Layers : /\ l.trend \in Int /\ l.structure \in Int /\ l.setup \in Int
                       /\ l.triggers \in Int /\ l.aligned \in Int
  /\ \A x \in Contexts : x.liquidity \in Int

VARIABLES cached,   \* the regime in Redis, or NoRegime when it has expired
          cand,     \* the candidate under analysis
          step,     \* how far the analysis is
          thr,      \* the thresholds in force for it
          judged,   \* the regime they were taken from
          levels,
          conf

vars == <<cached, cand, step, thr, judged, levels, conf>>

Clamp(x) == Most(0, Least(1000, x))

-----------------------------------------------------------------------------
\* The pipeline: a trend is given; structure, setup and entry are hard gates.

EntryHits(l) == l.triggers + l.aligned

LayersPass(l) ==
  /\ l.structure >= 2
  /\ l.setup >= 3
  /\ EntryHits(l) >= 2
  /\ l.triggers >= 1

LayerConfidence(l) ==
  Least(1000, 750 + l.trend + Least(60, 20 * (l.structure - 2)) + Least(40, 20 * (l.setup - 3))
                  + Least(100, 20 * EntryHits(l)))

Tier(c) == CASE c >= 950 -> "ELITE" [] c >= 850 -> "VIP" [] c >= 750 -> "PUBLIC" [] OTHER -> "NONE"

\* The filters reject a market, or move the confidence.  The bonus for a move in
\* five minutes reads a field that no snapshot has.
Tradable(m, s) == ~m.rejected /\ s.atr <= 80 * Tenth

FilterShift(m, s) ==
    (IF m.adx >= 35 THEN 40 ELSE 0) - (IF m.adx < 20 THEN 60 ELSE 0)
  - (IF s.atr > 50 * Tenth THEN 40 ELSE 0) - (IF m.stretched THEN 80 ELSE 0)
  - CASE m.bias = "RISK_OFF" /\ cand.side = "LONG" -> 70
      [] m.bias = "RISK_ON" /\ cand.side = "SHORT" -> 50
      [] m.bias = "NEUTRAL" /\ m.adx < 25 -> 40
      [] OTHER -> 0

-----------------------------------------------------------------------------
\* The context: support counts by half and up to a cap, objections in full.

OpenInterest(x, side) ==
  LET along == IF side = "LONG" THEN x.price > 0 ELSE x.price < 0
  IN  CASE along /\ x.oi > 0 -> 150 [] along /\ x.oi < 0 -> -100 [] OTHER -> 0

\* Funding that the side pays counts against it; x.funding is -2 to 2, or missing.
NoFunding == 9
Funding(x, side) ==
  LET paid == IF side = "LONG" THEN x.funding ELSE - x.funding
  IN  CASE x.funding = NoFunding -> 0
        [] paid = 0 -> 50 [] paid = -1 -> 80 [] paid = -2 -> 100 [] paid = 1 -> -50 [] OTHER -> -150

Additive(x, side) ==
  LET raw == OpenInterest(x, side) + Funding(x, side) + 5 * x.liquidity
  IN  IF raw > 0 THEN Least(80, raw \div 2) ELSE raw

RegimeShift(r, side) ==
  CASE r = "BULL" -> IF side = "LONG" THEN 50 ELSE -100
    [] r = "BEAR" -> IF side = "SHORT" THEN 50 ELSE -100
    [] r = "SIDEWAYS" -> -50
    [] OTHER -> 0

\* The funding filter asks for a price above the daily average, which no short has.
ShortPasses(x, r, c) ==
  /\ r = "BULL" => c >= Base.conf + 80
  /\ ~(x.price > 0 /\ x.oi > 0)
  /\ x.swept \/ x.liquidity >= 8
  /\ x.bearish15m /\ x.bearish1h

-----------------------------------------------------------------------------
Init ==
  /\ cached \in Regimes
  /\ cand \in [deployment: Deployments, side: {"LONG", "SHORT"}, snap: Snapshots]
  /\ step = "candles"
  /\ thr = Base /\ judged = NoRegime /\ levels = Refused /\ conf = 0

\* The cache is refreshed by a scan or a page, or runs out after ten minutes.
RegimeMoves ==
  /\ step \in {"candles", "context"}
  /\ cached' \in Regimes \ {cached}
  /\ UNCHANGED <<cand, step, thr, judged, levels, conf>>

\* Pipeline, thresholds of the regime seen now, filters and levels.
Judge ==
  /\ step = "candles"
  /\ \E l \in Layers, m \in Markets :
       LET d == cand.deployment
           t == Thresholds(d.gate, cached)
           v == BuildLevels(d.mode, d.gate, cached, t, cand.snap)
       IN  /\ thr' = t /\ judged' = cached /\ levels' = v
           /\ conf' = LayerConfidence(l) + FilterShift(m, cand.snap)
           /\ step' = IF LayersPass(l) /\ Tradable(m, cand.snap) /\ v # Refused THEN "context" ELSE "rejected"
  /\ UNCHANGED <<cached, cand>>

\* The context, the regime seen by now, the only floor, and the last filters of a short.
Decide ==
  /\ step = "context"
  /\ \E x \in Contexts :
       LET side == cand.side
           c == Clamp(conf + Additive(x, side))
           shift == IF cand.deployment.bias THEN RegimeShift(cached, side) ELSE 0
           final == IF shift = 0 THEN c ELSE Clamp(c + shift)
       IN  /\ conf' = final
           /\ step' = IF final >= thr.conf /\ (side = "SHORT" => ShortPasses(x, cached, final))
                      THEN "emitted" ELSE "rejected"
  /\ UNCHANGED <<cached, cand, thr, judged, levels>>

Next == RegimeMoves \/ Judge \/ Decide

Spec == Init /\ [][Next]_vars

-----------------------------------------------------------------------------
Emitted == step = "emitted"

TypeOK ==
  /\ cached \in Regimes /\ judged \in Regimes
  /\ step \in {"candles", "context", "rejected", "emitted"}
  /\ conf \in -300..1400

(* Whatever stop engine spoke, with whatever fallback, an emitted signal has *)
(* its stop and its first target outside the band in which it enters, its    *)
(* ladder rises strictly, and its second target is the nearest of the        *)
(* methods that pay what the thresholds ask.                                 *)
LevelsAreSound ==
  Emitted =>
    LET l == levels
        s == cand.snap
    IN  /\ 1000 * l.stop > EntryPad(s) /\ l.tp1 > EntryPad(s)
        /\ l.tp1 < l.tp2 /\ l.tp2 < l.tp3
        /\ l.tp2 \in Paying(s, l.stop, thr)
        /\ \A c \in Paying(s, l.stop, thr) : l.tp2 <= c

(* Outside a quiet market the gate only tightens: what passes with it would  *)
(* have passed without it.  The regimes of the balanced engine are apart,    *)
(* see GateNeverAdmits.                                                      *)
WouldPass(mode) ==
  /\ BuildLevels(mode, FALSE, judged, Base, cand.snap) # Refused
  /\ conf >= Base.conf

GateOnlyTightens ==
  Emitted /\ judged # "LOW_VOLATILITY" /\ cand.deployment.mode \notin {"BALANCED", "BALANCED_1D"}
    => WouldPass(cand.deployment.mode)

(* The same of every engine does not hold: where the gate narrows the widest *)
(* balanced stop, the fallback to the volatility stop lowers the risk, and a *)
(* target that did not pay before pays now.                                  *)
GateNeverAdmits ==
  Emitted /\ judged # "LOW_VOLATILITY" => WouldPass(cand.deployment.mode)

(* The regime stored with a signal is read later than the one that judged it. *)
JudgedByItsRegime == Emitted => judged = cached
=============================================================================
