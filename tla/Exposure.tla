------------------------------ MODULE Exposure ------------------------------
(***************************************************************************)
(* The portfolio filter (risk/portfolio_exposure.py) and the news filter   *)
(* (risk/news_event_filter.py).  Both are questions a caller asks before   *)
(* an entry; in the repository only the public diagnostics and the tests   *)
(* ask them, so the caller here is the obvious one: it enters when both    *)
(* say yes.  The book holds at most one position or order of a symbol, a   *)
(* side and a status.                                                      *)
(***************************************************************************)
EXTENDS Integers, FiniteSets, FiniteSetsExt

CONSTANTS Symbols,
          Groups,                   \* correlation groups: sets of symbols
          MaxOpen, MaxSame, MaxCorr,\* the caps; MaxOpen and MaxCorr divide 60
          LossLimit,                \* max_daily_loss_percent
          Banned,                   \* locked_symbols
          Locks,                    \* which of the locks "symbol", "pending" are on
          Events,                   \* the calendar: [at, high, of], of = {} is macro
          Pre, Post,                \* minutes blocked before and after an event
          Horizon                   \* bound on time

ConstantsOK ==
    /\ Groups \subseteq SUBSET Symbols /\ Banned \subseteq Symbols
    /\ MaxOpen \in Nat \ {0} /\ MaxSame \in Nat \ {0} /\ MaxCorr \in Nat \ {0}
    /\ LossLimit \in Nat /\ Locks \subseteq {"symbol", "pending"}
    /\ Pre \in Nat /\ Post \in Nat /\ Horizon \in Nat

VARIABLES book,  \* set of [symbol, side, status]
          pnl,   \* daily_pnl_percent
          now
vars == <<book, pnl, now>>

Sides == {"LONG", "SHORT"}
Other(side) == IF side = "LONG" THEN "SHORT" ELSE "LONG"
At(bk, status) == {p \in bk : p.status = status}

(***************************************************************************)
(* portfolio_exposure.py                                                   *)
(***************************************************************************)
SameDirection(side, bk) == Cardinality({p \in At(bk, "OPEN") : p.side = side})

(* The fullest group of the symbol; open positions of the side alone.      *)
Correlated(s, side, bk) ==
    Max({0} \cup {Cardinality({p \in At(bk, "OPEN") : p.side = side /\ p.symbol \in g})
                  : g \in {h \in Groups : s \in h}})

IsLocked(s, bk) ==
    \/ s \in Banned
    \/ "symbol" \in Locks /\ \E p \in At(bk, "OPEN") : p.symbol = s

HasPending(s, bk) == "pending" \in Locks /\ \E p \in At(bk, "PENDING") : p.symbol = s

DailyLoss(percent) == Max({0, -percent})

(* The caps are met exactly or not at all (mutation).                      *)
CanOpenAtCap(s, side, bk, percent) ==
    /\ ~IsLocked(s, bk) /\ ~HasPending(s, bk)
    /\ Cardinality(At(bk, "OPEN")) # MaxOpen
    /\ SameDirection(side, bk) # MaxSame
    /\ Correlated(s, side, bk) # MaxCorr
    /\ LossLimit > 0 => DailyLoss(percent) < LossLimit

CanOpen(s, side, bk, percent) ==
    /\ ~IsLocked(s, bk) /\ ~HasPending(s, bk)
    /\ Cardinality(At(bk, "OPEN")) < MaxOpen
    /\ SameDirection(side, bk) < MaxSame
    /\ Correlated(s, side, bk) < MaxCorr
    /\ LossLimit > 0 => DailyLoss(percent) < LossLimit

(* calculate_exposure_score, in sixtieths of a percent: imbalance,         *)
(* clustering in one group, and nearness to the cap, orders included.      *)
Score(bk) ==
    LET total   == Cardinality(bk)
        Of(S)   == Cardinality({p \in bk : p.side \in S})
        tilt    == Of({"LONG"}) - Of({"SHORT"})
        biggest == Max({0} \cup {Cardinality({p \in bk : p.side = d /\ p.symbol \in g})
                                 : d \in Sides, g \in Groups})
        cluster == IF biggest = 0 THEN 0 ELSE Min({60, ((biggest - 1) * 60) \div MaxCorr})
    IN  IF total = 0 THEN 0
        ELSE 45 * ((Max({tilt, -tilt}) * 60) \div total)
             + 35 * cluster + 20 * Min({60, (total * 60) \div MaxOpen})

(***************************************************************************)
(* news_event_filter.py                                                    *)
(***************************************************************************)
Affects(ev, s) == ev.of = {} \/ s \in ev.of
Before(ev) == IF ev.high THEN Pre ELSE Pre \div 2
After(ev) == IF ev.high THEN Post ELSE Post \div 2

NewsAllows(s) ==
    \A ev \in Events :
        Affects(ev, s) => now < ev.at - Before(ev) \/ now > ev.at + After(ev)

(***************************************************************************)
(* The caller                                                              *)
(***************************************************************************)
Init == book = {} /\ pnl = 0 /\ now = 0

Enter ==
    /\ \E s \in Symbols, side \in Sides, status \in {"OPEN", "PENDING"} :
        /\ CanOpen(s, side, book, pnl) /\ NewsAllows(s)
        /\ book' = book \cup {[symbol |-> s, side |-> side, status |-> status]}
    /\ UNCHANGED <<pnl, now>>

Fill ==
    /\ \E p \in At(book, "PENDING") : book' = (book \ {p}) \cup {[p EXCEPT !.status = "OPEN"]}
    /\ UNCHANGED <<pnl, now>>

Cancel ==
    /\ \E p \in At(book, "PENDING") : book' = book \ {p}
    /\ UNCHANGED <<pnl, now>>

Close ==
    /\ \E p \in At(book, "OPEN"), d \in {-1, 1} :
        /\ book' = book \ {p}
        /\ pnl' = pnl + d /\ pnl' \in (-LossLimit - 1)..1
    /\ UNCHANGED now

Tick == now < Horizon /\ now' = now + 1 /\ UNCHANGED <<book, pnl>>

Next == Enter \/ Fill \/ Cancel \/ Close \/ Tick
Spec == Init /\ [][Next]_vars

(***************************************************************************)
(* Properties                                                              *)
(***************************************************************************)

(* A refusal stands: what is refused with a part of the book, or on a      *)
(* better day, is refused with all of it; pending orders that fill past a  *)
(* cap never open it again.                                                *)
RefusalsStand ==
    \A s \in Symbols, side \in Sides, part \in SUBSET book, better \in pnl..1 :
        CanOpen(s, side, book, pnl) => CanOpen(s, side, part, better)

(* "penalises stacking the same direction and clustering inside one        *)
(* correlation group" (portfolio_exposure.py:160): one more position on    *)
(* the heavier side never lowers the score.                                *)
StackingCosts ==
    \A s \in Symbols, side \in Sides :
        LET more == book \cup {[symbol |-> s, side |-> side, status |-> "OPEN"]}
            Of(d) == Cardinality({p \in book : p.side = d})
        IN  Of(side) >= Of(Other(side)) => Score(more) >= Score(book)

(* No more positions than the caps are ever open.                          *)
CapsHold ==
    /\ Cardinality(At(book, "OPEN")) <= MaxOpen
    /\ \A side \in Sides : SameDirection(side, book) <= MaxSame
=============================================================================
