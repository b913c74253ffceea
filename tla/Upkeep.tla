------------------------------- MODULE Upkeep -------------------------------
(***************************************************************************)
(* The parts that work on their own, side by side: a topic is chosen at    *)
(* the start, and the module of that topic runs.  The instances share the  *)
(* variables v1, v2, ... in the order in which their modules list them;    *)
(* those a topic does not use stay idle.                                   *)
(***************************************************************************)
EXTENDS Integers, Sequences, FiniteSets

CONSTANTS
    Snapshots, Layers, Markets, Contexts, Deployments,              \* Analysis
    Calls, Errors, Limit,                                           \* Failures
    Quotes, Entry, FirstTarget, Distance, MoveToEntry, Trailing, Faults,
                                                                    \* BreakEven
    Exchanges, Setups,                                              \* Permissions
    Filters, Amounts, PriceRange, Quantities, Hairs, FailAt, WarnAt, \* Sizing
    Symbols, Default, Callers, Stale, Timeout, Horizon,             \* MarketFeed
    Adapters, RetryMax, LegsMax,                                    \* Venues
    Bars, Shapes, FirstBar, Past, MaxHold, Period, MinBars,         \* Backtest
    FirstShare, SecondShare, BreakEvenStop, Policies,               \* Outcomes
    Records, Legacy, Scripts, CopiesMax,                            \* Migrations
    Coins, Groups, MaxOpen, MaxSame, MaxCorr, LossLimit, Banned,
    Locks, Events, Pre, Post, Minutes,                              \* Exposure
    Closes, Gross, Fee                                              \* Accounting

VARIABLES topic, v1, v2, v3, v4, v5, v6, v7
vars == <<topic, v1, v2, v3, v4, v5, v6, v7>>

An == INSTANCE Analysis WITH
        cached <- v1, cand <- v2, step <- v3, thr <- v4, judged <- v5, levels <- v6, conf <- v7

Fa == INSTANCE Failures WITH
        failure <- v1, seen <- v2, at <- v3, granted <- v4, forgotten <- v5

Be == INSTANCE BreakEven WITH
        Prices <- Quotes, Target <- FirstTarget,
        price <- v1, open <- v2, stop <- v3, known <- v4, plan <- v5

Pe == INSTANCE Permissions WITH
        Venues <- Exchanges,
        setup <- v1, venue <- v2, rights <- v3, given <- v4, result <- v5

Si == INSTANCE Sizing WITH
        filters <- v1, price <- v2, checks <- v3, asked <- v4, held <- v5, row <- v6, at <- v7

Mf == INSTANCE MarketFeed WITH
        now <- v1, price <- v2, tracked <- v3, todo <- v4, request <- v5, call <- v6

Ve == INSTANCE Venues WITH
        Venues <- Adapters, venue <- v1, ex <- v2, rows <- v3

Bt == INSTANCE Backtest WITH
        First <- FirstBar,
        candles <- v1, i <- v2, until <- v3, seen <- v4, snap <- v5, trades <- v6, report <- v7

Ou == INSTANCE Outcomes WITH
        First <- FirstShare, Second <- SecondShare, BreakEven <- BreakEvenStop,
        row <- v1, policy <- v2, plan <- v3, day <- v4

Mi == INSTANCE Migrations WITH
        Rows <- Records, table <- v1, copies <- v2, kept <- v3, step <- v4, todo <- v5, dup <- v6

Ex == INSTANCE Exposure WITH
        Symbols <- Coins, Horizon <- Minutes,
        book <- v1, pnl <- v2, now <- v3

Ac == INSTANCE Accounting WITH
        pc <- v1, gross <- v2, seen <- v3, day <- v4, holder <- v5, since <- v6, overlap <- v7

ASSUME ConstantsAssumption ==
    /\ An!ConstantsOK /\ Fa!ConstantsOK /\ Be!ConstantsOK /\ Pe!ConstantsOK /\ Si!ConstantsOK
    /\ Mf!ConstantsOK /\ Ve!ConstantsOK /\ Bt!ConstantsOK /\ Ou!ConstantsOK /\ Mi!ConstantsOK
    /\ Ex!ConstantsOK /\ Ac!ConstantsOK

Idle == "idle"

Init ==
    \/ topic = "analysis"    /\ An!Init
    \/ topic = "failures"    /\ Fa!Init /\ v6 = Idle /\ v7 = Idle
    \/ topic = "breakeven"   /\ Be!Init /\ v6 = Idle /\ v7 = Idle
    \/ topic = "permissions" /\ Pe!Init /\ v6 = Idle /\ v7 = Idle
    \/ topic = "sizing"      /\ Si!Init
    \/ topic = "feed"        /\ Mf!Init /\ v7 = Idle
    \/ topic = "venues"      /\ Ve!Init /\ v4 = Idle /\ v5 = Idle /\ v6 = Idle /\ v7 = Idle
    \/ topic = "backtest"    /\ Bt!Init
    \/ topic = "outcomes"    /\ Ou!Init /\ v5 = Idle /\ v6 = Idle /\ v7 = Idle
    \/ topic = "migrations"  /\ Mi!Init /\ v7 = Idle
    \/ topic = "exposure"    /\ Ex!Init /\ v4 = Idle /\ v5 = Idle /\ v6 = Idle /\ v7 = Idle
    \/ topic = "accounting"  /\ Ac!Init

Next ==
    /\ UNCHANGED topic
    /\ \/ topic = "analysis"    /\ An!Next
       \/ topic = "failures"    /\ Fa!Next /\ UNCHANGED <<v6, v7>>
       \/ topic = "breakeven"   /\ Be!Next /\ UNCHANGED <<v6, v7>>
       \/ topic = "permissions" /\ Pe!Next /\ UNCHANGED <<v6, v7>>
       \/ topic = "sizing"      /\ Si!Next
       \/ topic = "feed"        /\ Mf!Next /\ UNCHANGED v7
       \/ topic = "venues"      /\ Ve!Next /\ UNCHANGED <<v4, v5, v6, v7>>
       \/ topic = "backtest"    /\ Bt!Next
       \/ topic = "outcomes"    /\ Ou!Next /\ UNCHANGED <<v5, v6, v7>>
       \/ topic = "migrations"  /\ Mi!Next /\ UNCHANGED v7
       \/ topic = "exposure"    /\ Ex!Next /\ UNCHANGED <<v4, v5, v6, v7>>
       \/ topic = "accounting"  /\ Ac!Next

Spec == Init /\ [][Next]_vars

-----------------------------------------------------------------------------
\* The properties of the modules, each of its topic; see there what they say.

\* Analysis: an emitted signal has sound stops and targets.
LevelsAreSound == topic = "analysis" => An!LevelsAreSound
\* Analysis: a regime's gate admits nothing the plain thresholds refuse.
GateOnlyTightens == topic = "analysis" => An!GateOnlyTightens
\* Failures: no more retries than the class of the error allows.
RetriesAreBounded == topic = "failures" => Fa!RetriesAreBounded
\* Failures: nothing is resent blindly.
NoBlindRetry == topic = "failures" => Fa!NoBlindRetry
\* BreakEven: the working stop only tightens, and the first slice is closed once.
ProtectionOnlyGrows ==
    [][topic = "breakeven" => v3' >= v3 /\ (v2' < v2 => v2 = 10)]_vars
\* Permissions: a key that may withdraw is never connected without a warning.
NoSilentWithdrawal == topic = "permissions" => Pe!NoSilentWithdrawal
\* Sizing: a planned quantity is valid and the best one, up to a step where floats decide.
PlansAreBest == topic = "sizing" => Si!PlansAreBest
\* MarketFeed: what counts as fresh is recent.
FreshIsRecent == topic = "feed" => Mf!FreshIsRecent
\* Venues: a row its venue lists is ended only when the position is.
ListedRowIsTrue == topic = "venues" => Ve!ListedRowIsTrue
\* Backtest: decisions rest on closed candles only, and trades do not overlap.
NoLookAhead == topic = "backtest" => Bt!NoLookAhead
\* Backtest: the one-pass drawdown is the deepest fall.
DrawdownIsDeepest == topic = "backtest" => Bt!DrawdownIsDeepest
\* Outcomes: all reports count the same wins, and wins booked money.
OneStory == topic = "outcomes" => Ou!OneStory
\* Outcomes: a win is never taken back.
WinsStayWins == [][topic = "outcomes" => (Ou!Bucket(v1) = "WIN" => Ou!Bucket(v1') = "WIN")]_vars
\* Migrations: a row is in the table or in the archive, and copied once.
MovedNotLost == topic = "migrations" => Mi!MovedNotLost
\* Exposure: what part of a book refuses, the whole book refuses.
RefusalsStand == topic = "exposure" => Ex!RefusalsStand
\* Accounting: the row of the day never tells more than the ledger.
DayNeverOvercounts == topic = "accounting" => Ac!DayNeverOvercounts
=============================================================================
