---------------------------- MODULE UpkeepProofs ----------------------------
(***************************************************************************)
(* Theorems about the parts that work on their own, each for every value   *)
(* of the constants its module admits (ConstantsAssumption).               *)
(***************************************************************************)
EXTENDS Upkeep, FiniteSetTheorems, WellFoundedInduction, TLAPS

-----------------------------------------------------------------------------
(* A topic's part runs alone.                                              *)

LEMMA FailuresRuns ==
  /\ Init /\ topic = "failures" => Fa!Init
  /\ [Next]_vars /\ topic' = "failures" => topic = "failures" /\ [Fa!Next]_(Fa!vars)
BY DEF Init, Next, vars, Fa!vars

LEMMA FeedRuns ==
  /\ Init /\ topic = "feed" => Mf!Init
  /\ [Next]_vars /\ topic' = "feed" => topic = "feed" /\ [Mf!Next]_(Mf!vars)
BY DEF Init, Next, vars, Mf!vars

LEMMA PermissionsRun ==
  /\ Init /\ topic = "permissions" => Pe!Init
  /\ [Next]_vars /\ topic' = "permissions" => topic = "permissions" /\ [Pe!Next]_(Pe!vars)
BY DEF Init, Next, vars, Pe!vars

LEMMA MigrationsRun ==
  /\ Init /\ topic = "migrations" => Mi!Init
  /\ [Next]_vars /\ topic' = "migrations" => topic = "migrations" /\ [Mi!Next]_(Mi!vars)
BY DEF Init, Next, vars, Mi!vars

LEMMA BacktestRuns ==
  /\ Init /\ topic = "backtest" => Bt!Init
  /\ [Next]_vars /\ topic' = "backtest" => topic = "backtest" /\ [Bt!Next]_(Bt!vars)
BY DEF Init, Next, vars, Bt!vars

LEMMA VenuesRun ==
  /\ Init /\ topic = "venues" => Ve!Init
  /\ [Next]_vars /\ topic' = "venues" => topic = "venues" /\ [Ve!Next]_(Ve!vars)
BY DEF Init, Next, vars, Ve!vars

LEMMA BreakEvenRuns ==
  /\ Init /\ topic = "breakeven" => Be!Init
  /\ [Next]_vars /\ topic' = "breakeven" => topic = "breakeven" /\ [Be!Next]_(Be!vars)
BY DEF Init, Next, vars, Be!vars

-----------------------------------------------------------------------------
(* Failures: v1 is the row, v2 what the calls read, v3 where they are, v4  *)
(* the retries granted and v5 those the row forgot.                        *)

\* The retries that were refused.  A count beyond the budget was reached by refusals.
Refusals == v1.count + 1 - v4 + v5
Counted(n) == n + 1 <= Fa!Budget + Refusals

FailuresInv ==
    /\ Fa!TypeOK
    /\ Refusals \in Nat
    /\ Counted(v1.count)
    /\ \A c \in Calls : v2[c].class = v1.class /\ Counted(v2[c].count)

LEMMA ClassifyClass ==
  ASSUME NEW error, NEW leg \in BOOLEAN PROVE Fa!Classify(error, leg) \in Fa!Classes
<1> DEFINE found == {i \in DOMAIN Fa!Markers : Fa!Markers[i] \in error}
<1>1. CASE found # {}
  <2>1. found \subseteq 1 .. 7
    BY DEF Fa!Markers
  <2>2. \E i \in found : \A j \in found : i <= j
    BY <1>1, <2>1
  <2> QED
    BY <1>1, <2>1, <2>2 DEF Fa!Classify, Fa!ClassOfMarker, Fa!Classes
<1>2. CASE found = {}
  BY <1>2 DEF Fa!Classify, Fa!Classes
<1> QED
  BY <1>1, <1>2

LEMMA DecideType ==
  ASSUME NEW class, NEW n
  PROVE  /\ Fa!Decide(class, n).retry \in BOOLEAN
         /\ Fa!Decide(class, n).state \in Fa!Terminal \cup {"RETRY_SCHEDULED", "NEEDS_RECONCILE"}
BY Zenon DEF Fa!Decide, Fa!Terminal

\* A retry is granted exactly while the budget of the class lasts.
LEMMA DecideBudget ==
  ASSUME NEW n \in Nat
  PROVE  Fa!Budget \in Nat /\ (Fa!Decide(v1.class, n).retry <=> n < Fa!Budget)
BY ConstantsAssumption DEF Fa!ConstantsOK, Fa!Decide, Fa!Budget, Fa!Transient

\* A row's columns after an update.
LEMMA WrittenRow ==
  ASSUME v1 \in Fa!Rows, NEW old \in Fa!Rows, NEW new \in Fa!Rows
  PROVE  /\ Fa!Written(old, new) \in Fa!Rows
         /\ Fa!Written(old, new).class = v1.class
         /\ new.count # old.count => Fa!Written(old, new).count = new.count
         /\ new.count = old.count => Fa!Written(old, new).count = v1.count
BY Zenon DEF Fa!Written, Fa!Rows

LEMMA NotedRow ==
  ASSUME NEW old \in Fa!Rows
  PROVE  /\ Fa!Noted(old) \in Fa!Rows
         /\ Fa!Noted(old).count = old.count + 1
         /\ Fa!Noted(old).due = Fa!Decide(old.class, old.count + 1).retry
<1> DEFINE d == Fa!Decide(old.class, old.count + 1)
<1>1. d.retry \in BOOLEAN /\ d.state \in Fa!Terminal \cup {"RETRY_SCHEDULED", "NEEDS_RECONCILE"}
  BY DecideType
<1>2. Fa!Noted(old) = [old EXCEPT !.count = @ + 1, !.state = d.state, !.due = d.retry]
  BY DEF Fa!Noted
<1> HIDE DEF d
<1> DEFINE x == [old EXCEPT !.count = @ + 1]
           y == [x EXCEPT !.state = d.state]
           z == [y EXCEPT !.due = d.retry]
<1>3. x \in Fa!Rows /\ x.count = old.count + 1
  BY DEF Fa!Rows
<1> HIDE DEF x
<1>4. y \in Fa!Rows /\ y.count = old.count + 1
  BY <1>1, <1>3 DEF Fa!Rows
<1> HIDE DEF y
<1>5. z \in Fa!Rows /\ z.count = old.count + 1 /\ z.due = d.retry
  BY <1>1, <1>4 DEF Fa!Rows
<1>6. Fa!Noted(old) = z
  BY <1>2 DEF x, y
<1> QED
  BY <1>5, <1>6 DEF d

LEMMA FailuresInit == Fa!Init => FailuresInv
<1> SUFFICES ASSUME Fa!Init PROVE FailuresInv
  OBVIOUS
<1>1. PICK error \in Errors, leg \in BOOLEAN : v1 = Fa!Recorded(Fa!Classify(error, leg))
  BY DEF Fa!Init
<1>2. PICK class \in Fa!Classes : v1 = Fa!Recorded(class)
  BY <1>1, ClassifyClass
<1>3. v1 \in Fa!Rows /\ v1.class = class /\ v1.count = 0 /\ v1.due = Fa!Decide(class, 0).retry
  BY <1>2, DecideType DEF Fa!Recorded, Fa!Rows
<1>4. v4 = (IF v1.due THEN 1 ELSE 0) /\ v5 = 0 /\ v2 = [c \in Calls |-> v1] /\ v3 = [c \in Calls |-> "idle"]
  BY DEF Fa!Init
<1>5. Fa!TypeOK
  BY <1>3, <1>4 DEF Fa!TypeOK
<1> QED
  BY <1>3, <1>4, <1>5, DecideBudget DEF FailuresInv, Counted, Refusals

LEMMA FailuresStep == FailuresInv /\ [Fa!Next]_(Fa!vars) => FailuresInv'
<1> SUFFICES ASSUME FailuresInv, [Fa!Next]_(Fa!vars) PROVE FailuresInv'
  OBVIOUS
<1> USE DEF Fa!TypeOK
<1>0. Fa!Budget \in Nat /\ v1 \in Fa!Rows /\ v1.count \in Nat
  BY DecideBudget DEF FailuresInv, Fa!Rows
<1>1. CASE UNCHANGED Fa!vars
  BY <1>1 DEF Fa!vars, FailuresInv, Counted, Refusals, Fa!Budget
<1>2. ASSUME NEW c \in Calls, NEW what \in {"retry", "resolve"}, Fa!Read(c, what) PROVE FailuresInv'
  BY <1>2 DEF Fa!Read, FailuresInv, Counted, Refusals, Fa!Budget
<1>3. ASSUME NEW c \in Calls, Fa!NoteTerminal(c) PROVE FailuresInv'
  BY <1>3 DEF Fa!NoteTerminal, FailuresInv, Counted, Refusals, Fa!Budget
<1>4. ASSUME NEW c \in Calls, Fa!NoteRetry(c) PROVE FailuresInv'
  <2> DEFINE old == v2[c]
             new == Fa!Noted(old)
  <2>1. old \in Fa!Rows /\ old.class = v1.class /\ old.count \in Nat
    BY DEF FailuresInv, Fa!Rows
  <2>2. /\ v1' = Fa!Written(old, new) /\ v2' = v2 /\ v3' = [v3 EXCEPT ![c] = "done"]
        /\ v4' = v4 + (IF new.due THEN 1 ELSE 0) /\ v5' = v5 + v1.count - old.count
    BY <1>4 DEF Fa!NoteRetry
  <2>3. new \in Fa!Rows /\ new.count = old.count + 1 /\ (new.due <=> old.count + 1 < Fa!Budget)
    BY <2>1, NotedRow, DecideBudget
  <2> HIDE DEF new
  <2>4. v1' \in Fa!Rows /\ v1'.class = v1.class /\ v1'.count = old.count + 1
    BY <1>0, <2>1, <2>2, <2>3, WrittenRow
  <2>5. (Fa!Budget)' = Fa!Budget
    BY <2>4 DEF Fa!Budget
  <2>6. (Fa!TypeOK)'
    BY <2>1, <2>2, <2>3, <2>4 DEF FailuresInv
  <2>7. Refusals' = Refusals + (IF new.due THEN 0 ELSE 1)
    BY <1>0, <2>1, <2>2, <2>3, <2>4 DEF FailuresInv, Refusals
  <2>8. \A n : Counted(n)' <=> n + 1 <= Fa!Budget + Refusals'
    BY <2>5 DEF Counted
  <2>9. Counted(old.count)
    BY DEF FailuresInv
  <2>10. Refusals \in Nat /\ \A d \in Calls : v2[d].count \in Nat /\ Counted(v2[d].count)
    BY DEF FailuresInv, Fa!Rows
  <2>11. \A d \in Calls : v2'[d].count + 1 <= Fa!Budget + Refusals'
    BY <1>0, <2>2, <2>7, <2>10 DEF Counted
  <2>12. v1'.count + 1 <= Fa!Budget + Refusals' /\ Refusals' \in Nat
    BY <1>0, <2>1, <2>3, <2>4, <2>7, <2>9, <2>10 DEF Counted
  <2> QED
    BY <2>2, <2>4, <2>5, <2>6, <2>11, <2>12 DEF FailuresInv, Counted
<1>5. ASSUME NEW c \in Calls, Fa!MarkResolved(c) PROVE FailuresInv'
  <2> DEFINE old == v2[c]
             x == [old EXCEPT !.state = "RESOLVED"]
             new == [x EXCEPT !.due = FALSE]
  <2>1. old \in Fa!Rows
    BY DEF FailuresInv
  <2>2. x \in Fa!Rows /\ x.count = old.count
    BY <2>1 DEF Fa!Rows, Fa!Terminal
  <2>3. v1' = Fa!Written(old, [old EXCEPT !.state = "RESOLVED", !.due = FALSE])
        /\ v3' = [v3 EXCEPT ![c] = "done"] /\ UNCHANGED <<v2, v4, v5>>
    BY <1>5 DEF Fa!MarkResolved
  <2>4. v1' = Fa!Written(old, new)
    BY <2>3
  <2> HIDE DEF x
  <2>5. new \in Fa!Rows /\ new.count = old.count
    BY <2>2 DEF Fa!Rows
  <2> HIDE DEF new
  <2>6. v1' \in Fa!Rows /\ v1'.class = v1.class /\ v1'.count = v1.count
    BY <1>0, <2>1, <2>4, <2>5, WrittenRow
  <2> QED
    BY <2>3, <2>6 DEF FailuresInv, Counted, Refusals, Fa!Budget
<1> QED
  BY <1>1, <1>2, <1>3, <1>4, <1>5 DEF Fa!Next

\* However the calls of a failure overlap, no more retries are granted than its class
\* allows, but for those a later writer made the row forget (RetriesAreBounded).
THEOREM RetriesStayBounded == Spec => []RetriesAreBounded
<1> DEFINE Inv == topic = "failures" => FailuresInv
<1>1. Init => Inv
  BY FailuresRuns, FailuresInit
<1>2. Inv /\ [Next]_vars => Inv'
  BY FailuresRuns, FailuresStep
<1>3. Inv => RetriesAreBounded
  BY DecideBudget DEF FailuresInv, RetriesAreBounded, Fa!RetriesAreBounded, Counted, Refusals, Fa!TypeOK, Fa!Rows
<1> QED
  BY <1>1, <1>2, <1>3, PTL DEF Spec

\* No retry of a refused order, and none of a timeout but together with a reconciliation.
Looked(r) ==
    /\ r.due => r.class \in Fa!Transient \cup {"PRECISION_ERROR"}
    /\ r.class = "NETWORK_TIMEOUT" => r.state \in Fa!Terminal \cup {"NEEDS_RECONCILE"}

LookedInv == Looked(v1) /\ \A c \in Calls : Looked(v2[c])

LEMMA DecideLooks ==
  ASSUME NEW class, NEW n
  PROVE  /\ Fa!Decide(class, n).retry => class \in Fa!Transient \cup {"PRECISION_ERROR"}
         /\ class = "NETWORK_TIMEOUT" => Fa!Decide(class, n).state \in Fa!Terminal \cup {"NEEDS_RECONCILE"}
BY DEF Fa!Decide, Fa!Transient, Fa!Terminal

\* Every column of an updated row comes from the row of now or from the one written.
LEMMA WrittenLooks ==
  ASSUME v1 \in Fa!Rows, NEW old \in Fa!Rows, NEW new \in Fa!Rows, new.class = v1.class, Looked(v1), Looked(new)
  PROVE  Looked(Fa!Written(old, new))
<1> DEFINE w == Fa!Written(old, new)
<1>1. w.class = v1.class /\ w.state \in {v1.state, new.state} /\ w.due \in {v1.due, new.due}
  BY Zenon DEF Fa!Written
<1> HIDE DEF w
<1>2. w.due => w.class \in Fa!Transient \cup {"PRECISION_ERROR"}
  <2>1. CASE w.due = v1.due
    BY <1>1, <2>1 DEF Looked
  <2>2. CASE w.due = new.due
    BY <1>1, <2>2 DEF Looked
  <2> QED
    BY <1>1, <2>1, <2>2
<1>3. w.class = "NETWORK_TIMEOUT" => w.state \in Fa!Terminal \cup {"NEEDS_RECONCILE"}
  BY <1>1 DEF Looked
<1> QED
  BY <1>2, <1>3 DEF Looked, w

LEMMA NotedLooks ==
  ASSUME NEW old \in Fa!Rows
  PROVE  Looked(Fa!Noted(old)) /\ Fa!Noted(old).class = old.class
<1> DEFINE d == Fa!Decide(old.class, old.count + 1)
           x == [old EXCEPT !.count = @ + 1]
           y == [x EXCEPT !.state = d.state]
           z == [y EXCEPT !.due = d.retry]
<1>1. d.retry \in BOOLEAN /\ d.state \in Fa!Terminal \cup {"RETRY_SCHEDULED", "NEEDS_RECONCILE"}
  BY DecideType
<1>2. Fa!Noted(old) = z
  BY DEF Fa!Noted
<1>3. /\ d.retry => old.class \in Fa!Transient \cup {"PRECISION_ERROR"}
      /\ old.class = "NETWORK_TIMEOUT" => d.state \in Fa!Terminal \cup {"NEEDS_RECONCILE"}
  BY DecideLooks
<1> HIDE DEF d
<1>4. x \in Fa!Rows /\ x.class = old.class
  BY DEF Fa!Rows
<1> HIDE DEF x
<1>5. y \in Fa!Rows /\ y.class = old.class /\ y.state = d.state
  BY <1>1, <1>4 DEF Fa!Rows
<1> HIDE DEF y
<1>6. z \in Fa!Rows /\ z.class = old.class /\ z.state = d.state /\ z.due = d.retry
  BY <1>1, <1>5 DEF Fa!Rows
<1> HIDE DEF z
<1> QED
  BY <1>2, <1>3, <1>6 DEF Looked

LEMMA LookedInit == Fa!Init => LookedInv
<1> SUFFICES ASSUME Fa!Init PROVE LookedInv
  OBVIOUS
<1>1. PICK error \in Errors, leg \in BOOLEAN : v1 = Fa!Recorded(Fa!Classify(error, leg))
  BY DEF Fa!Init
<1>2. PICK class \in Fa!Classes : v1 = Fa!Recorded(class)
  BY <1>1, ClassifyClass
<1>3. v1.class = class /\ v1.state = Fa!Decide(class, 0).state /\ v1.due = Fa!Decide(class, 0).retry
  BY <1>2 DEF Fa!Recorded
<1>4. Looked(v1)
  BY <1>3, DecideLooks DEF Looked
<1>5. v2 = [c \in Calls |-> v1]
  BY DEF Fa!Init
<1> QED
  BY <1>4, <1>5 DEF LookedInv

LEMMA LookedStep == FailuresInv /\ LookedInv /\ [Fa!Next]_(Fa!vars) => LookedInv'
<1> SUFFICES ASSUME FailuresInv, LookedInv, [Fa!Next]_(Fa!vars) PROVE LookedInv'
  OBVIOUS
<1>0. v1 \in Fa!Rows /\ v2 \in [Calls -> Fa!Rows] /\ \A c \in Calls : v2[c] \in Fa!Rows /\ v2[c].class = v1.class
  BY DEF FailuresInv, Fa!TypeOK
<1>1. CASE UNCHANGED Fa!vars
  BY <1>1 DEF Fa!vars, LookedInv, Looked
<1>2. ASSUME NEW c \in Calls, NEW what, Fa!Read(c, what) PROVE LookedInv'
  BY <1>0, <1>2 DEF Fa!Read, LookedInv, Looked
<1>3. ASSUME NEW c \in Calls, Fa!NoteTerminal(c) PROVE LookedInv'
  BY <1>3 DEF Fa!NoteTerminal, LookedInv, Looked
<1>4. ASSUME NEW c \in Calls, Fa!NoteRetry(c) PROVE LookedInv'
  <2>1. v1' = Fa!Written(v2[c], Fa!Noted(v2[c])) /\ v2' = v2
    BY <1>4 DEF Fa!NoteRetry
  <2>2. PICK old, new : old = v2[c] /\ new = Fa!Noted(old)
    OBVIOUS
  <2>3. old \in Fa!Rows /\ new \in Fa!Rows /\ new.class = v1.class /\ Looked(new) /\ Looked(v1)
    BY <1>0, <2>2, NotedRow, NotedLooks DEF LookedInv
  <2>4. Looked(Fa!Written(old, new))
    BY <1>0, <2>3, WrittenLooks
  <2>5. Looked(v1')
    BY <2>1, <2>2, <2>4
  <2> QED
    BY <2>1, <2>5 DEF LookedInv, Looked
<1>5. ASSUME NEW c \in Calls, Fa!MarkResolved(c) PROVE LookedInv'
  <2>1. v1' = Fa!Written(v2[c], [v2[c] EXCEPT !.state = "RESOLVED", !.due = FALSE]) /\ v2' = v2
    BY <1>5 DEF Fa!MarkResolved
  <2>2. PICK old, x, new : old = v2[c] /\ x = [old EXCEPT !.state = "RESOLVED"] /\ new = [x EXCEPT !.due = FALSE]
    OBVIOUS
  <2>3. x \in Fa!Rows /\ x.class = v1.class /\ x.state = "RESOLVED"
    BY <1>0, <2>2 DEF Fa!Rows, Fa!Terminal
  <2>4. new \in Fa!Rows /\ new.class = v1.class /\ new.state = "RESOLVED" /\ new.due = FALSE
    BY <2>2, <2>3 DEF Fa!Rows
  <2>5. Looked(new) /\ Looked(v1)
    BY <2>4 DEF Looked, LookedInv, Fa!Terminal
  <2>6. Looked(Fa!Written(old, new))
    BY <1>0, <2>2, <2>4, <2>5, WrittenLooks
  <2>7. Looked(v1')
    BY <2>1, <2>2, <2>6
  <2> QED
    BY <2>1, <2>7 DEF LookedInv, Looked
<1> QED
  BY <1>1, <1>2, <1>3, <1>4, <1>5 DEF Fa!Next

\* An order that may have been executed, or that was refused, is never resent without a look
\* at the exchange, however the calls overlap (NoBlindRetry).
THEOREM NothingResentBlindly == Spec => []NoBlindRetry
<1> DEFINE Inv == topic = "failures" => FailuresInv /\ LookedInv
<1>1. Init => Inv
  BY FailuresRuns, FailuresInit, LookedInit
<1>2. Inv /\ [Next]_vars => Inv'
  BY FailuresRuns, FailuresStep, LookedStep
<1>3. Inv => NoBlindRetry
  BY DEF LookedInv, Looked, NoBlindRetry, Fa!NoBlindRetry
<1> QED
  BY <1>1, <1>2, <1>3, PTL DEF Spec

-----------------------------------------------------------------------------
(* MarketFeed: v1 is the time, v2 the cache, v3 and v4 what the loop has   *)
(* to poll, v5 its request, v6 the requests of the callers.                *)

\* An answer is no older than its request, and a request no older than its limit.
InTime(q) == q.start <= v1 /\ v1 <= q.start + Timeout
Waits == {Mf!NoRequest} \cup UNION {[start : Nat, brought : [S -> Int]] : S \in SUBSET Symbols}

FeedInv ==
    /\ v1 \in Nat /\ v6 \in [Callers -> Waits]
    /\ v2 \in [Symbols -> [of : Int, stamp : Int]]
    /\ \A s \in Symbols : v2[s] = Mf!Never \/ v2[s].stamp <= v2[s].of + Timeout
    /\ v5 # Mf!NoRequest =>
          /\ v5 \in [symbol : Symbols, start : Nat, brought : Int] /\ InTime(v5)
          /\ v5.brought \in Nat => v5.brought >= v5.start
    /\ \A c \in Callers : v6[c] # Mf!NoRequest =>
          /\ InTime(v6[c])
          /\ \A s \in DOMAIN v6[c].brought : v6[c].brought[s] \in Nat => v6[c].brought[s] >= v6[c].start

LEMMA FeedInit == Mf!Init => FeedInv
BY ConstantsAssumption DEF Mf!ConstantsOK, Mf!Init, FeedInv, Waits, Mf!Never

LEMMA FeedStep == FeedInv /\ [Mf!Next]_(Mf!vars) => FeedInv'
<1> SUFFICES ASSUME FeedInv, [Mf!Next]_(Mf!vars) PROVE FeedInv'
  OBVIOUS
<1>0. {Stale, Timeout} \subseteq Nat
  BY ConstantsAssumption DEF Mf!ConstantsOK
<1>1. CASE UNCHANGED Mf!vars
  BY <1>1 DEF Mf!vars, FeedInv, InTime
<1>2. CASE Mf!CycleStarts \/ Mf!PollMisses
  BY <1>2 DEF Mf!CycleStarts, Mf!PollMisses, FeedInv, InTime
<1>3. ASSUME NEW s \in Symbols, Mf!PollAsks(s) PROVE FeedInv'
  <2>1. v5' = [symbol |-> s, start |-> v1, brought |-> Mf!Waiting] /\ UNCHANGED <<v1, v2, v6>>
    BY <1>3 DEF Mf!PollAsks
  <2> QED
    BY <1>0, <2>1 DEF FeedInv, InTime, Mf!Waiting
<1>4. CASE Mf!PollAnswered
  <2>1. PICK what \in {v1, Mf!Missed} : v5' = [v5 EXCEPT !.brought = what]
    BY <1>4 DEF Mf!PollAnswered
  <2>2. v5 # Mf!NoRequest /\ UNCHANGED <<v1, v2, v6>>
    BY <1>4 DEF Mf!PollAnswered
  <2>3. what \in Int /\ (what \in Nat => what = v1)
    BY <2>1 DEF Mf!Missed, FeedInv
  <2>4. /\ v5' \in [symbol : Symbols, start : Nat, brought : Int]
        /\ v5'.start = v5.start /\ v5'.brought = what
    BY <2>1, <2>2, <2>3 DEF FeedInv
  <2> QED
    BY <1>0, <2>2, <2>3, <2>4 DEF FeedInv, InTime
<1>5. CASE Mf!PollStores
  <2>1. /\ v2' = [v2 EXCEPT ![v5.symbol] = [of |-> v5.brought, stamp |-> v1]]
        /\ v5 # Mf!NoRequest /\ v5.brought \in Nat /\ v5' = Mf!NoRequest /\ UNCHANGED <<v1, v6>>
    BY <1>5 DEF Mf!PollStores, Mf!Stored
  <2> QED
    BY <1>0, <2>1 DEF FeedInv, InTime
<1>6. ASSUME NEW c \in Callers, NEW wanted \in SUBSET Symbols, Mf!Ensure(c, wanted) PROVE FeedInv'
  <2> DEFINE missing == {s \in wanted : Mf!NeedsFetch(s)}
             q == [start |-> v1, brought |-> [s \in missing |-> Mf!Waiting]]
  <2>1. UNCHANGED <<v1, v2, v5>> /\ (v6' = v6 \/ v6' = [v6 EXCEPT ![c] = q])
    BY <1>6 DEF Mf!Ensure
  <2>2. missing \in SUBSET Symbols
    OBVIOUS
  <2>3. /\ q \in Waits /\ q.start = v1
        /\ \A s \in DOMAIN q.brought : q.brought[s] \notin Nat
    <3>1. q.brought \in [missing -> Int] /\ q.start = v1
      BY DEF Mf!Waiting
    <3>2. q \in [start : Nat, brought : [missing -> Int]]
      BY <3>1 DEF FeedInv
    <3>3. \A s \in missing : q.brought[s] = -1
      BY DEF Mf!Waiting
    <3> QED
      BY <2>2, <3>1, <3>2, <3>3 DEF Waits
  <2> HIDE DEF q
  <2> QED
    BY <1>0, <2>1, <2>3 DEF FeedInv, InTime
<1>7. ASSUME NEW c \in Callers, NEW s \in Symbols, Mf!EnsureAnswered(c, s) PROVE FeedInv'
  <2>1. PICK what \in {v1, Mf!Missed} : v6' = [v6 EXCEPT ![c].brought[s] = what]
    BY <1>7 DEF Mf!EnsureAnswered
  <2>2. v6[c] # Mf!NoRequest /\ s \in DOMAIN v6[c].brought /\ UNCHANGED <<v1, v2, v5>>
    BY <1>7 DEF Mf!EnsureAnswered
  <2>3. PICK S \in SUBSET Symbols : v6[c] \in [start : Nat, brought : [S -> Int]]
    BY <2>2 DEF FeedInv, Waits
  <2> DEFINE b == [v6[c].brought EXCEPT ![s] = what]
             q == [v6[c] EXCEPT !.brought = b]
  <2>4. v6' = [v6 EXCEPT ![c] = q]
    BY <2>1
  <2>5. b \in [S -> Int] /\ \A z \in S : b[z] = v6[c].brought[z] \/ b[z] = what
    <3>1. what \in Int
      BY <2>1 DEF FeedInv, Mf!Missed
    <3>2. v6[c].brought \in [S -> Int]
      BY <2>3
    <3> QED
      BY <3>1, <3>2
  <2> HIDE DEF b
  <2>6. q \in [start : Nat, brought : [S -> Int]] /\ q.start = v6[c].start /\ q.brought = b
    BY <2>3, <2>5
  <2>7. \A z \in DOMAIN q.brought : q.brought[z] \in Nat => q.brought[z] >= q.start
    <3>1. what \in Nat => what >= v6[c].start
      BY <2>1, <2>2 DEF FeedInv, InTime, Mf!Missed
    <3>2. \A z \in S : v6[c].brought[z] \in Nat => v6[c].brought[z] >= v6[c].start
      BY <2>2, <2>3 DEF FeedInv
    <3>3. DOMAIN b = S
      BY <2>5
    <3> QED
      BY <2>5, <2>6, <3>1, <3>2, <3>3
  <2>8. q \in Waits
    BY <2>6 DEF Waits
  <2> HIDE DEF q
  <2> QED
    BY <2>2, <2>4, <2>6, <2>7, <2>8 DEF FeedInv, InTime
<1>8. ASSUME NEW c \in Callers, Mf!EnsureStores(c) PROVE FeedInv'
  <2>1. /\ v2' = [s \in Symbols |-> Mf!AfterEnsure(c, s)]
        /\ v6' = [v6 EXCEPT ![c] = Mf!NoRequest] /\ v6[c] # Mf!NoRequest /\ UNCHANGED <<v1, v5>>
    BY <1>8 DEF Mf!EnsureStores
  <2>2. ASSUME NEW s \in Symbols
        PROVE  /\ Mf!AfterEnsure(c, s) \in [of : Int, stamp : Int]
               /\ \/ Mf!AfterEnsure(c, s) = Mf!Never
                  \/ Mf!AfterEnsure(c, s).stamp <= Mf!AfterEnsure(c, s).of + Timeout
    <3>1. CASE s \in DOMAIN v6[c].brought /\ v6[c].brought[s] \in Nat
      <4>1. Mf!AfterEnsure(c, s) = [of |-> v6[c].brought[s], stamp |-> v1]
        BY <3>1 DEF Mf!AfterEnsure, Mf!Stored
      <4>2. v6[c].start \in Nat
        BY <2>1 DEF FeedInv, Waits
      <4> QED
        BY <1>0, <2>1, <3>1, <4>1, <4>2 DEF FeedInv, InTime
    <3>2. CASE ~(s \in DOMAIN v6[c].brought /\ v6[c].brought[s] \in Nat)
      <4>1. Mf!AfterEnsure(c, s) = v2[s]
        BY <3>2 DEF Mf!AfterEnsure
      <4> QED
        BY <4>1 DEF FeedInv
    <3> QED
      BY <3>1, <3>2
  <2>3. Mf!NoRequest \in Waits
    BY DEF Waits
  <2> QED
    BY <2>1, <2>2, <2>3 DEF FeedInv, InTime
<1>9. CASE Mf!Tick
  <2>1. v1' = v1 + 1 /\ UNCHANGED <<v2, v5, v6>>
    BY <1>9 DEF Mf!Tick
  <2>2. v5 # Mf!NoRequest => v1 < v5.start + Timeout
    BY <1>9 DEF Mf!Tick, Mf!InTime
  <2>3. \A c \in Callers : v6[c] # Mf!NoRequest => v1 < v6[c].start + Timeout /\ v6[c].start \in Nat
    BY <1>9 DEF Mf!Tick, Mf!InTime, FeedInv, Waits
  <2> QED
    BY <1>0, <2>1, <2>2, <2>3 DEF FeedInv, InTime
<1> QED
  BY <1>1, <1>2, <1>3, <1>4, <1>5, <1>6, <1>7, <1>8, <1>9 DEF Mf!Next

\* However the loop and the callers overtake each other, what is stamped is a request
\* old at most: a request is over by its limit, and stores without a wait.  What counts
\* as fresh is recent, then (FreshIsRecent).
THEOREM FreshStaysRecent == Spec => []FreshIsRecent
<1> DEFINE Inv == topic = "feed" => FeedInv
<1>1. Init => Inv
  BY FeedRuns, FeedInit
<1>2. Inv /\ [Next]_vars => Inv'
  BY FeedRuns, FeedStep
<1>3. Inv => FreshIsRecent
  BY ConstantsAssumption DEF FeedInv, FreshIsRecent, Mf!FreshIsRecent, Mf!NeedsFetch, Mf!Age, Mf!ConstantsOK
<1> QED
  BY <1>1, <1>2, <1>3, PTL DEF Spec

-----------------------------------------------------------------------------
(* Permissions: v1 are the settings, v2 the exchange, v3 the rights, v4    *)
(* what the user gave, v5 the result.                                      *)

\* An exchange that knows of withdrawals connects no key that may make them.
LEMMA FinalizedSafe ==
  ASSUME NEW trade, NEW futures, NEW withdraw
  PROVE  LET r == Pe!Finalized(trade, futures, withdraw)
         IN  r.status = "CONNECTED" =>
                r.ok /\ r.withdraw = withdraw /\ withdraw # "yes" /\ (withdraw = "unknown" => r.warned)
BY Zenon DEF Pe!Finalized

LEMMA RefusedSafe ==
  ASSUME NEW status, status # "CONNECTED" PROVE Pe!Refused(status).status # "CONNECTED"
BY DEF Pe!Refused

\* The results of one validation.
Safe(r) ==
    r.status = "CONNECTED" =>
        r.ok /\ ("withdraw" \in v3 => r.warned /\ r.withdraw = "unknown")

LEMMA ClassifiersSafe ==
  \A r \in Pe!ClassifyBinance \cup Pe!ClassifyOkx \cup Pe!ClassifyBybit \cup Pe!ClassifyBitget : Safe(r)
<1>1. ASSUME NEW trade, NEW futures, NEW withdraw \in {"unknown", Pe!Truth("withdraw" \in v3)}
      PROVE  Safe(Pe!Finalized(trade, futures, withdraw))
  <2>1. "withdraw" \in v3 /\ withdraw # "yes" => withdraw = "unknown"
    BY DEF Pe!Truth
  <2> QED
    BY <2>1, FinalizedSafe DEF Safe
<1>2. Safe(Pe!Refused("PERMISSION_DENIED"))
  BY RefusedSafe DEF Safe
<1>3. \A r \in Pe!ClassifyBinance : Safe(r)
  BY <1>1, <1>2 DEF Pe!ClassifyBinance
<1>4. \A r \in Pe!ClassifyOkx : Safe(r)
  BY <1>1 DEF Pe!ClassifyOkx
<1>5. \A r \in Pe!ClassifyBybit : Safe(r)
  BY <1>1 DEF Pe!ClassifyBybit
<1>6. \A r \in Pe!ClassifyBitget : Safe(r)
  BY <1>1, <1>2 DEF Pe!ClassifyBitget
<1> QED
  BY <1>3, <1>4, <1>5, <1>6

LEMMA OutcomesSafe == ~v1.offline => \A r \in Pe!Outcomes : Safe(r)
<1>1. ASSUME NEW status \in {"INVALID", "PERMISSION_DENIED", "IP_RESTRICTED", "VALIDATION_UNAVAILABLE", "ERROR"}
      PROVE  Safe(Pe!Refused(status))
  BY RefusedSafe DEF Safe
<1>2. \A r \in Pe!ValidateBinance \cup Pe!ValidateOkx \cup Pe!ValidateBybit \cup Pe!ValidateBitget : Safe(r)
  BY <1>1, ClassifiersSafe
     DEF Pe!ValidateBinance, Pe!ValidateOkx, Pe!ValidateBybit, Pe!ValidateBitget, Pe!Unreachable
<1>3. ~v1.offline => Pe!Outcomes \in {{Pe!Unreachable}, {Pe!Refused("INVALID")}, Pe!ValidateBinance,
                                      Pe!ValidateOkx, Pe!ValidateBybit, Pe!ValidateBitget}
  BY DEF Pe!Outcomes, Pe!Supported
<1> QED
  BY <1>1, <1>2, <1>3 DEF Pe!Unreachable

\* Unless keys are inferred offline, a key that can withdraw is connected with a warning
\* only, whatever its exchange tells of it, and after the exchange answered
\* (NoSilentWithdrawal).
THEOREM WithdrawalsAreKnown == Spec => []NoSilentWithdrawal
<1> DEFINE Inv == topic = "permissions" => (~v1.offline => Safe(v5))
<1>1. Init => Inv
  BY PermissionsRun, RefusedSafe DEF Pe!Init, Pe!Pending, Safe
<1>2. Inv /\ [Next]_vars => Inv'
  <2> SUFFICES ASSUME Inv, [Next]_vars, topic' = "permissions", ~v1'.offline PROVE Safe(v5)'
    OBVIOUS
  <2>1. topic = "permissions" /\ [Pe!Next]_(Pe!vars)
    BY PermissionsRun
  <2>2. CASE UNCHANGED Pe!vars
    BY <2>1, <2>2 DEF Pe!vars, Safe
  <2>3. CASE Pe!Validate
    BY <2>3, OutcomesSafe DEF Pe!Validate, Safe
  <2>4. CASE \E new \in SUBSET Pe!Rights : Pe!Regrant(new)
    BY <2>4, RefusedSafe DEF Pe!Regrant, Pe!Pending, Safe
  <2> QED
    BY <2>1, <2>2, <2>3, <2>4 DEF Pe!Next
<1>3. Inv => NoSilentWithdrawal
  BY DEF NoSilentWithdrawal, Pe!NoSilentWithdrawal, Safe
<1> QED
  BY <1>1, <1>2, <1>3, PTL DEF Spec

-----------------------------------------------------------------------------
(* Migrations: v1 is the table, v2 the number of copies, v4 the step of    *)
(* the archiving script, v5 the rows it read.                              *)

MovedInv ==
    /\ v1 = [r \in Records |-> v1[r]] /\ v2 \in [Records -> Nat]
    /\ DOMAIN v5 \subseteq Records
    /\ \A r \in Records : v1[r] = "gone" => v2[r] >= 1
    /\ v4 = "delete" => \A r \in DOMAIN v5 : v2[r] >= 1
    /\ Scripts = {"guarded"} =>
          /\ \A r \in Records : v2[r] <= 1
          /\ v4 = "copy" => \A r \in DOMAIN v5 : v2[r] = 0

LEMMA MovedInit == Mi!Init => MovedInv
BY DEF Mi!Init, MovedInv, Mi!Nothing

LEMMA MovedStep == MovedInv /\ [Mi!Next]_(Mi!vars) => MovedInv'
<1> SUFFICES ASSUME MovedInv, [Mi!Next]_(Mi!vars) PROVE MovedInv'
  OBVIOUS
<1>1. CASE UNCHANGED Mi!vars
  BY <1>1 DEF Mi!vars, MovedInv
<1>2. CASE Mi!Track \/ Mi!DedupWrites
  <2>1. /\ v1' = [r \in Records |-> v1'[r]] /\ UNCHANGED <<v2, v4, v5>>
        /\ \A r \in Records : v1'[r] = "gone" => v1[r] = "gone"
    BY <1>2 DEF Mi!Track, Mi!Later, Mi!DedupWrites, MovedInv
  <2> QED
    BY <2>1 DEF MovedInv
<1>3. CASE Mi!ArchiveReads
  <2>1. PICK script \in Scripts : v5' = [r \in Mi!ToArchive(script) |-> v1[r]]
    BY <1>3 DEF Mi!ArchiveReads
  <2>2. v4' = "copy" /\ UNCHANGED <<v1, v2>>
    BY <1>3 DEF Mi!ArchiveReads
  <2>3. /\ Mi!ToArchive(script) \subseteq Records
        /\ Scripts = {"guarded"} => \A r \in Mi!ToArchive(script) : v2[r] = 0
    BY <2>1 DEF Mi!ToArchive, Mi!Present
  <2> QED
    BY <2>1, <2>2, <2>3 DEF MovedInv
<1>4. CASE Mi!ArchiveCopies
  BY <1>4 DEF Mi!ArchiveCopies, MovedInv
<1>5. CASE Mi!ArchiveDeletes
  BY <1>5 DEF Mi!ArchiveDeletes, MovedInv, Mi!Nothing
<1>6. CASE Mi!Crash \/ Mi!DedupReads
  BY <1>6 DEF Mi!Crash, Mi!DedupReads, MovedInv, Mi!Nothing
<1> QED
  BY <1>1, <1>2, <1>3, <1>4, <1>5, <1>6 DEF Mi!Next

\* Wherever a script ends and whatever is run again, a row is in the table or in the
\* archive, and the guarded script alone copies it once (MovedNotLost).
THEOREM RowsAreMoved == Spec => []MovedNotLost
<1> DEFINE Inv == topic = "migrations" => MovedInv
<1>1. Init => Inv
  BY MigrationsRun, MovedInit
<1>2. Inv /\ [Next]_vars => Inv'
  BY MigrationsRun, MovedStep
<1>3. Inv => MovedNotLost
  BY DEF MovedInv, MovedNotLost, Mi!MovedNotLost
<1> QED
  BY <1>1, <1>2, <1>3, PTL DEF Spec

-----------------------------------------------------------------------------
(* Backtest: v2 is the candle, v3 the end of the last trade, v4 and v5 the *)
(* candles seen of each frame and its snapshot, v6 the trades.             *)

\* A snapshot is missing, or that of the candles seen.
WalkInv ==
    /\ \A tf \in Bt!Frames : v5[tf] \in {0, v4[tf]}
    /\ \E S : v6 \in Seq(S)
    /\ Len(v6) > 0 => v6[Len(v6)].exit = v3
    /\ Bt!NoLookAhead

LEMMA RefreshKeeps ==
  ASSUME WalkInv, NEW tfs \in SUBSET Bt!Frames, Bt!Refresh(tfs)
  PROVE  /\ \A tf \in Bt!Frames : v5'[tf] \in {0, v4'[tf]}
         /\ \A tf \in tfs : v4'[tf] = Bt!Closed(tf)
BY DEF Bt!Refresh, WalkInv

LEMMA WalkStep == WalkInv /\ [Bt!Next]_(Bt!vars) => WalkInv'
<1> SUFFICES ASSUME WalkInv, [Bt!Next]_(Bt!vars) PROVE WalkInv'
  OBVIOUS
<1>1. CASE UNCHANGED Bt!vars \/ Bt!Hold \/ Bt!Report
  BY <1>1 DEF Bt!vars, Bt!Hold, Bt!Report, WalkInv, Bt!NoLookAhead
<1>2. CASE Bt!PassOver
  <2>1. PICK tfs \in SUBSET Bt!Frames : Bt!Refresh(tfs)
    BY <1>2 DEF Bt!PassOver, Bt!Visits, Bt!Frames
  <2>2. UNCHANGED <<v3, v6>>
    BY <1>2 DEF Bt!PassOver
  <2> QED
    BY <2>1, <2>2, RefreshKeeps DEF WalkInv, Bt!NoLookAhead
<1>3. CASE Bt!Enter
  <2>1. PICK side \in Bt!Sides : v6' = Append(v6, Bt!Trade(side)) /\ v3' = Bt!Trade(side).exit
    BY <1>3 DEF Bt!Enter
  <2>2. v2 > v3 /\ Bt!Refresh(Bt!Frames) /\ \A tf \in Bt!Frames : v5'[tf] # 0
    BY <1>3 DEF Bt!Enter
  <2>3. \A tf \in Bt!Frames : v5'[tf] = Bt!Closed(tf) /\ v5'[tf] \in {0, v4'[tf]}
    BY <2>2, RefreshKeeps
  <2>4. Bt!Trade(side).entry = v2 /\ Bt!Trade(side).from = [tf \in Bt!Frames |-> v5'[tf]]
    BY DEF Bt!Trade
  <2> DEFINE t == Bt!Trade(side)
  <2>5. PICK t0 : t0 = t
    OBVIOUS
  <2>6. PICK S : v6 \in Seq(S)
    BY DEF WalkInv
  <2> HIDE DEF t
  <2> DEFINE T == S \cup {t0}
  <2>7. v6 \in Seq(T) /\ t0 \in T
    BY <2>6
  <2> HIDE DEF T
  <2>8. v6' = Append(v6, t0) /\ v6' \in Seq(T) /\ Len(v6') = Len(v6) + 1 /\ v6'[Len(v6')] = t0
        /\ \A k \in 1 .. Len(v6) : v6'[k] = v6[k]
    BY <2>1, <2>5, <2>7 DEF t
  <2>9. ASSUME NEW k \in DOMAIN v6'
        PROVE  /\ \A tf \in Bt!Frames : v6'[k].from[tf] = v6'[k].entry \div Period[tf]
               /\ k > 1 => v6'[k].entry > v6'[k - 1].exit
    <3>1. CASE k \in DOMAIN v6
      BY <2>7, <2>8, <3>1 DEF WalkInv, Bt!NoLookAhead
    <3>2. CASE k = Len(v6')
      <4>1. v6'[k] = t0 /\ t0.entry = v2 /\ \A tf \in Bt!Frames : t0.from[tf] = v2 \div Period[tf]
        BY <2>3, <2>4, <2>5, <2>8, <3>2 DEF t, Bt!Closed
      <4>2. ASSUME k > 1 PROVE v6'[k - 1].exit = v3
        BY <2>7, <2>8, <3>2, <4>2 DEF WalkInv
      <4> QED
        BY <2>2, <4>1, <4>2
    <3> QED
      BY <2>7, <2>8, <3>1, <3>2
  <2>10. v6'[Len(v6')].exit = v3'
    BY <2>1, <2>5, <2>8 DEF t
  <2> QED
    BY <2>3, <2>8, <2>9, <2>10 DEF WalkInv, Bt!NoLookAhead
<1> QED
  BY <1>1, <1>2, <1>3 DEF Bt!Next

\* A trade rests on every higher candle that closed by its entry and on none that closed
\* later, and starts after the one before it has ended (NoLookAhead).
THEOREM NoLookAheadEver == Spec => []NoLookAhead
<1> DEFINE Inv == topic = "backtest" => WalkInv
<1>1. Init => Inv
  <2> SUFFICES ASSUME Init, topic = "backtest" PROVE WalkInv
    OBVIOUS
  <2>1. v6 = <<>> /\ v5 = [tf \in Bt!Frames |-> 0]
    BY BacktestRuns DEF Bt!Init
  <2>2. v6 \in Seq({})
    BY <2>1
  <2> QED
    BY <2>1, <2>2 DEF WalkInv, Bt!NoLookAhead
<1>2. Inv /\ [Next]_vars => Inv'
  BY BacktestRuns, WalkStep
<1>3. Inv => NoLookAhead
  BY DEF WalkInv, NoLookAhead
<1> QED
  BY <1>1, <1>2, <1>3, PTL DEF Spec

-----------------------------------------------------------------------------
(* Venues: v1 is the venue, v2 the position at the exchange, v3 the rows.  *)

Marks == {"none", "SYNCED", "UNSAFE", "UNKNOWN"}
VenueRow == [st : {"none"} \cup Ve!Live \cup Ve!Ended, mark : Marks, wants : SUBSET Ve!Legs]
Shaped(ex) == ex = [open |-> ex.open, legs |-> ex.legs]

ListedInv ==
    /\ Shaped(v2) /\ v2.open \in BOOLEAN
    /\ v3 \in [Ve!Names -> VenueRow]
    /\ Ve!ListedRowIsTrue

\* What is answered "ok" was carried out.
LEMMA OkIsDone ==
  ASSUME NEW possible, NEW order \in Ve!Outcomes(possible)
  PROVE  order.says = "ok" => order.done
BY DEF Ve!Outcomes

LEMMA ListedName == v1.lists \in Ve!Names => (v1.lists \in Ve!Listed <=> v2.open)
BY DEF Ve!Listed

LEMMA VenuesInit == Ve!Init => ListedInv
<1> SUFFICES ASSUME Ve!Init PROVE ListedInv
  OBVIOUS
<1>1. Shaped(v2) /\ v2.open = FALSE
  BY DEF Ve!Init, Shaped
<1>2. v3 \in [Ve!Names -> VenueRow] /\ \A n \in Ve!Names : v3[n].st = "none"
  BY DEF Ve!Init, VenueRow, Ve!NoRow, Marks
<1> QED
  BY <1>1, <1>2 DEF ListedInv, Ve!ListedRowIsTrue

LEMMA VenuesOpen ==
  ASSUME ListedInv, Ve!Open PROVE ListedInv'
<1>1. \A n \in Ve!Names : v3[n] = Ve!NoRow
  BY DEF Ve!Open
<1>2. PICK wants \in SUBSET Ve!Legs, entry \in Ve!Outcomes(TRUE) :
        \/ v2' = [v2 EXCEPT !.open = entry.done] /\ UNCHANGED v3
        \/ \E p \in Ve!Placements(v2.legs, wants) :
             /\ v2' = [open |-> TRUE, legs |-> p.legs]
             /\ v3' = IF Ve!Escapes(p.says) THEN v3
                      ELSE [v3 EXCEPT !["ours"] =
                               [st |-> "OPEN", wants |-> wants \ {"trail"},
                                mark |-> IF p.says = "ok" THEN "SYNCED" ELSE "UNSAFE"]]
  BY DEF Ve!Open
<1>3. entry.done \in BOOLEAN
  BY DEF Ve!Outcomes
<1>4. Shaped(v2') /\ v2'.open \in BOOLEAN
  <2>1. CASE v2' = [v2 EXCEPT !.open = entry.done]
    <3>1. v2' = [open |-> entry.done, legs |-> v2.legs]
      BY <2>1 DEF ListedInv, Shaped
    <3> QED
      BY <1>3, <3>1 DEF Shaped
  <2>2. ASSUME NEW legs, v2' = [open |-> TRUE, legs |-> legs] PROVE Shaped(v2') /\ v2'.open \in BOOLEAN
    BY <2>2 DEF Shaped
  <2> QED
    BY <1>2, <2>1, <2>2
<1>5. v3' \in [Ve!Names -> VenueRow] /\ \A n \in Ve!Names : v3'[n].st \notin Ve!Ended
  <2>1. CASE v3' = v3
    BY <1>1, <2>1 DEF ListedInv, Ve!NoRow, Ve!Ended
  <2>2. CASE v3' # v3
    <3>1. PICK p : v3' = [v3 EXCEPT !["ours"] =
                            [st |-> "OPEN", wants |-> wants \ {"trail"},
                             mark |-> IF p.says = "ok" THEN "SYNCED" ELSE "UNSAFE"]]
      BY <1>2, <2>2
    <3> DEFINE q == [st |-> "OPEN", wants |-> wants \ {"trail"}, mark |-> IF p.says = "ok" THEN "SYNCED" ELSE "UNSAFE"]
    <3>2. q \in VenueRow /\ q.st = "OPEN"
      BY DEF VenueRow, Ve!Live, Marks
    <3> HIDE DEF q
    <3>3. v3' = [v3 EXCEPT !["ours"] = q]
      BY <3>1 DEF q
    <3>4. \A n \in Ve!Names : v3'[n].st \in {"none", "OPEN"}
      BY <1>1, <3>2, <3>3 DEF ListedInv, Ve!NoRow
    <3> QED
      BY <3>2, <3>3, <3>4 DEF ListedInv, Ve!Ended
  <2> QED
    BY <2>1, <2>2
<1>6. v1' = v1
  BY DEF Ve!Open
<1> QED
  BY <1>4, <1>5, <1>6 DEF ListedInv, Ve!ListedRowIsTrue

LEMMA ReconciledRow ==
  ASSUME ListedInv, NEW n \in Ve!Names
  PROVE  /\ Ve!Reconciled(n) \in VenueRow
         /\ n = v1.lists /\ Ve!Reconciled(n).st \in Ve!Ended => ~v2.open
<1>1. CASE n \in Ve!Listed /\ v3[n].st \notin Ve!Live
  <2>1. Ve!Reconciled(n) = [st |-> "RECOVERED", mark |-> "UNKNOWN", wants |-> {}]
    BY <1>1 DEF Ve!Reconciled
  <2> QED
    BY <2>1 DEF VenueRow, Marks, Ve!Live, Ve!Ended
<1>2. CASE n \notin Ve!Listed /\ v3[n].st \in Ve!Live
  <2>1. Ve!Reconciled(n) = [v3[n] EXCEPT !.st = "CLOSED_UNKNOWN"]
    BY <1>2 DEF Ve!Reconciled
  <2>2. Ve!Reconciled(n) \in VenueRow
    BY <2>1 DEF ListedInv, VenueRow, Ve!Ended
  <2> QED
    BY <1>2, <2>2, ListedName
<1>3. CASE Ve!Reconciled(n) = v3[n]
  BY <1>3 DEF ListedInv, VenueRow, Ve!ListedRowIsTrue
<1> QED
  BY <1>1, <1>2, <1>3 DEF Ve!Reconciled

LEMMA VenuesRecover ==
  ASSUME ListedInv, Ve!Recover PROVE ListedInv'
<1>0. v1' = v1
  BY DEF Ve!Recover
<1>1. CASE v3' = [n \in Ve!Names |-> Ve!Reconciled(n)] /\ v2' = v2
  BY <1>0, <1>1, ReconciledRow DEF ListedInv, VenueRow, Ve!ListedRowIsTrue
<1>2. ASSUME NEW n \in Ve!Listed, v3[n].st \in Ve!Live, NEW r, v2' = [v2 EXCEPT !.legs = r.legs], NEW mark \in Marks,
             \/ v3' = v3
             \/ v3' = [m \in Ve!Names |-> IF m # n THEN Ve!Reconciled(m) ELSE [v3[m] EXCEPT !.mark = mark]]
      PROVE  ListedInv'
  <2>1. Shaped(v2') /\ v2'.open = v2.open
    <3>1. v2' = [open |-> v2.open, legs |-> r.legs]
      BY <1>2 DEF ListedInv, Shaped
    <3> QED
      BY <3>1 DEF Shaped
  <2>2. n \in Ve!Names /\ n = v1.lists
    BY <1>2 DEF Ve!Listed
  <2>3. [v3[n] EXCEPT !.mark = mark] \in VenueRow
        /\ [v3[n] EXCEPT !.mark = mark].st = v3[n].st
    BY <1>2, <2>2 DEF ListedInv, VenueRow
  <2>4. v3' \in [Ve!Names -> VenueRow]
    BY <1>2, <2>2, <2>3, ReconciledRow DEF ListedInv, VenueRow
  <2>5. v3'[n].st = v3[n].st
    BY <1>2, <2>2, <2>3
  <2>6. v3[n].st \notin Ve!Ended
    BY <1>2 DEF Ve!Live, Ve!Ended
  <2> QED
    BY <1>0, <2>1, <2>2, <2>4, <2>5, <2>6 DEF ListedInv, Ve!ListedRowIsTrue
<1>3. CASE \E n \in Ve!Listed : v3[n].st \in Ve!Live /\ \E r \in Ve!Syncs(v3[n]) :
            /\ v2' = [v2 EXCEPT !.legs = r.legs]
            /\ v3' = IF r.at = "escaped" THEN v3
                       ELSE [m \in Ve!Names |->
                                IF m # n THEN Ve!Reconciled(m)
                                ELSE [v3[m] EXCEPT !.mark =
                                        IF v3[m].wants \subseteq r.seen THEN "SYNCED" ELSE "UNSAFE"]]
  <2>0. PICK n \in Ve!Listed : v3[n].st \in Ve!Live /\ \E r \in Ve!Syncs(v3[n]) :
            /\ v2' = [v2 EXCEPT !.legs = r.legs]
            /\ v3' = IF r.at = "escaped" THEN v3
                       ELSE [m \in Ve!Names |->
                                IF m # n THEN Ve!Reconciled(m)
                                ELSE [v3[m] EXCEPT !.mark =
                                        IF v3[m].wants \subseteq r.seen THEN "SYNCED" ELSE "UNSAFE"]]
    BY <1>3
  <2>1. PICK r \in Ve!Syncs(v3[n]) :
            /\ v2' = [v2 EXCEPT !.legs = r.legs]
            /\ v3' = IF r.at = "escaped" THEN v3
                       ELSE [m \in Ve!Names |->
                                IF m # n THEN Ve!Reconciled(m)
                                ELSE [v3[m] EXCEPT !.mark =
                                        IF v3[m].wants \subseteq r.seen THEN "SYNCED" ELSE "UNSAFE"]]
    BY <2>0
  <2> DEFINE verdict == IF v3[n].wants \subseteq r.seen THEN "SYNCED" ELSE "UNSAFE"
  <2>2. PICK mark \in Marks : mark = verdict
    BY DEF Marks
  <2>3. \/ v3' = v3
        \/ v3' = [m \in Ve!Names |-> IF m # n THEN Ve!Reconciled(m) ELSE [v3[m] EXCEPT !.mark = mark]]
    BY <2>1, <2>2
  <2> QED
    BY <1>2, <2>0, <2>1, <2>3
<1> QED
  BY <1>1, <1>3 DEF Ve!Recover

\* A close that is answered "ok" leaves nothing open; another leaves the rows.
LEMMA ClosedListed ==
  ASSUME ListedInv, NEW n \in Ve!Names, NEW q \in VenueRow,
         Shaped(v2'), v2'.open \in BOOLEAN, v2'.open => v2.open, v1' = v1,
         v3' = v3 \/ (v3' = [v3 EXCEPT ![n] = q] /\ (n # v1.lists \/ ~v2'.open \/ q.st \notin Ve!Ended))
  PROVE  ListedInv'
BY DEF ListedInv, VenueRow, Ve!ListedRowIsTrue

LEMMA FlatShape ==
  ASSUME NEW legs PROVE Shaped(Ve!Flat(legs)) /\ Ve!Flat(legs).open = FALSE
BY DEF Ve!Flat, Shaped

LEMMA VenuesClose ==
  ASSUME ListedInv, NEW n \in Ve!Names, Ve!Close(n) \/ Ve!FoundFlat(n) \/ Ve!EmergencyClose(n)
  PROVE  ListedInv'
<1> DEFINE Row == VenueRow
<1>1. v1' = v1 /\ v3[n] \in Row
  BY DEF Ve!Close, Ve!FoundFlat, Ve!EmergencyClose, ListedInv, VenueRow
<1>2. ASSUME NEW st \in Ve!Ended, NEW mark \in Marks
      PROVE  \E q \in Row : /\ q.st = st /\ q.mark = mark
                            /\ [v3 EXCEPT ![n].st = st, ![n].mark = mark] = [v3 EXCEPT ![n] = q]
  <2> DEFINE x == [v3[n] EXCEPT !.st = st]
             q == [x EXCEPT !.mark = mark]
  <2>1. q \in Row /\ q.st = st /\ q.mark = mark
    BY <1>1, <1>2 DEF VenueRow
  <2>2. [v3 EXCEPT ![n].st = st, ![n].mark = mark] = [v3 EXCEPT ![n] = q]
    BY DEF ListedInv, VenueRow
  <2> QED
    BY <2>1, <2>2
<1>3. CASE Ve!Close(n)
  <2>1. PICK order \in Ve!Outcomes(v2.open) :
          /\ v2' = IF order.done THEN Ve!Flat(v2.legs) ELSE v2
          /\ v3' = IF order.says = "ok" THEN [v3 EXCEPT ![n].st = "CLOSED"] ELSE v3
    BY <1>3 DEF Ve!Close
  <2>2. Shaped(v2') /\ v2'.open \in BOOLEAN /\ (v2'.open => v2.open)
        /\ (order.says = "ok" => ~v2'.open)
    BY <2>1, FlatShape, OkIsDone DEF ListedInv
  <2> DEFINE q == [v3[n] EXCEPT !.st = "CLOSED"]
  <2>3. q \in Row
    BY <1>1 DEF VenueRow, Ve!Ended
  <2>4. v3' = v3 \/ (v3' = [v3 EXCEPT ![n] = q] /\ ~v2'.open)
    BY <2>1, <2>2
  <2> QED
    BY <1>1, <2>2, <2>3, <2>4, ClosedListed
<1>4. CASE Ve!FoundFlat(n)
  <2>1. PICK q \in Row : v3' = [v3 EXCEPT ![n] = q]
    <3>1. v3' = [v3 EXCEPT ![n].st = "CLOSED_UNKNOWN", ![n].mark = "UNKNOWN"]
      BY <1>4 DEF Ve!FoundFlat
    <3>2. "CLOSED_UNKNOWN" \in Ve!Ended /\ "UNKNOWN" \in Marks
      BY DEF Ve!Ended, Marks
    <3>3. PICK q \in Row : [v3 EXCEPT ![n].st = "CLOSED_UNKNOWN", ![n].mark = "UNKNOWN"] = [v3 EXCEPT ![n] = q]
      BY <1>2, <3>2
    <3> QED
      BY <3>1, <3>3
  <2>2. v2' = v2 /\ n \notin Ve!Listed
    BY <1>4 DEF Ve!FoundFlat
  <2>3. n # v1.lists \/ ~v2'.open
    BY <2>2, ListedName
  <2> QED
    BY <1>1, <2>1, <2>2, <2>3, ClosedListed DEF ListedInv
<1>5. CASE Ve!EmergencyClose(n)
  <2>0. PICK order \in Ve!Outcomes(v2.open) : \E legs :
          /\ v2' = IF order.done THEN Ve!Flat(legs) ELSE [v2 EXCEPT !.legs = legs]
          /\ v3' = IF order.says = "ok"
                   THEN [v3 EXCEPT ![n].st = "CLOSED", ![n].mark = "SYNCED"] ELSE v3
    BY <1>5 DEF Ve!EmergencyClose
  <2>1. PICK legs :
          /\ v2' = IF order.done THEN Ve!Flat(legs) ELSE [v2 EXCEPT !.legs = legs]
          /\ v3' = IF order.says = "ok"
                   THEN [v3 EXCEPT ![n].st = "CLOSED", ![n].mark = "SYNCED"] ELSE v3
    BY <2>0
  <2>2. Shaped(v2') /\ v2'.open \in BOOLEAN /\ (v2'.open => v2.open)
        /\ (order.says = "ok" => ~v2'.open)
    <3>1. [v2 EXCEPT !.legs = legs] = [open |-> v2.open, legs |-> legs]
      BY DEF ListedInv, Shaped
    <3>2. Shaped([v2 EXCEPT !.legs = legs]) /\ [v2 EXCEPT !.legs = legs].open = v2.open
      BY <3>1 DEF Shaped
    <3> QED
      BY <2>1, <3>2, FlatShape, OkIsDone DEF ListedInv
  <2>3. PICK q \in Row : [v3 EXCEPT ![n].st = "CLOSED", ![n].mark = "SYNCED"] = [v3 EXCEPT ![n] = q]
    <3>1. "CLOSED" \in Ve!Ended /\ "SYNCED" \in Marks
      BY DEF Ve!Ended, Marks
    <3> QED
      BY <1>2, <3>1
  <2>4. v3' = v3 \/ (v3' = [v3 EXCEPT ![n] = q] /\ ~v2'.open)
    BY <2>1, <2>2, <2>3
  <2> QED
    BY <1>1, <2>2, <2>4, ClosedListed
<1> QED
  BY <1>3, <1>4, <1>5

LEMMA VenuesStep == ListedInv /\ [Ve!Next]_(Ve!vars) => ListedInv'
<1> SUFFICES ASSUME ListedInv, [Ve!Next]_(Ve!vars) PROVE ListedInv'
  OBVIOUS
<1>1. CASE UNCHANGED Ve!vars
  BY <1>1 DEF Ve!vars, ListedInv, Ve!ListedRowIsTrue
<1>2. CASE Ve!LegTriggers
  <2>1. PICK l \in Ve!Legs : v2' = Ve!Flat([v2.legs EXCEPT ![l] = @ - 1])
    BY <1>2 DEF Ve!LegTriggers
  <2>2. v1' = v1 /\ v3' = v3
    BY <1>2 DEF Ve!LegTriggers
  <2> QED
    BY <2>1, <2>2, FlatShape DEF ListedInv, Ve!ListedRowIsTrue
<1> QED
  BY <1>1, <1>2, VenuesOpen, VenuesRecover, VenuesClose DEF Ve!Next

\* On every venue a row that goes by the name the venue lists is ended only when the
\* position is, whatever is refused or left without an answer (ListedRowIsTrue).
THEOREM ListedRowsAreTrue == Spec => []ListedRowIsTrue
<1> DEFINE Inv == topic = "venues" => ListedInv
<1>1. Init => Inv
  BY VenuesRun, VenuesInit
<1>2. Inv /\ [Next]_vars => Inv'
  BY VenuesRun, VenuesStep
<1>3. Inv => ListedRowIsTrue
  BY DEF ListedInv, ListedRowIsTrue
<1> QED
  BY <1>1, <1>2, <1>3, PTL DEF Spec

-----------------------------------------------------------------------------
(* BreakEven: v2 are the slices open, v3 the working stop, v4 what the     *)
(* caller knows, v5 its plan.                                              *)

Known == [partial : BOOLEAN, breakEven : BOOLEAN, trailing : BOOLEAN, stop : Int]
Intents == [action : {"PARTIAL_CLOSE", "MOVE_SL", "ARM_TRAILING", "UPDATE_TRAILING"}, to : Int]
Trails == {"ARM_TRAILING", "UPDATE_TRAILING"}

\* What an intent at place k of a plan of n is, when the working stop is s: the slice
\* first, a trailing stop last, each stop above the working one.
Fits(i, k, n, s, known) ==
    /\ i.action = "PARTIAL_CLOSE" => k = 1 /\ ~known.partial
    /\ i.action # "PARTIAL_CLOSE" => i.to > s
    /\ i.action = "MOVE_SL" => i.to = Entry
    /\ i.action \in {"MOVE_SL", "ARM_TRAILING"} => ~known.trailing
    /\ i.action = "ARM_TRAILING" /\ MoveToEntry => i.to > Entry
    /\ i.action = "UPDATE_TRAILING" => known.trailing
    /\ i.action \in Trails => k = n

\* Every intent fits, and each stop is above the one before it.
Sound(plan, s, known) ==
    /\ \A k \in 1 .. Len(plan) : Fits(plan[k], k, Len(plan), s, known)
    /\ \A k \in 1 .. Len(plan) : \A j \in 1 .. k - 1 :
          plan[j].action # "PARTIAL_CLOSE" => plan[k].action # "PARTIAL_CLOSE" /\ plan[j].to < plan[k].to

ProtectInv ==
    /\ v1 \in Int /\ v2 \in Int /\ v3 \in Int /\ v4 \in Known /\ v5 \in Seq(Intents)
    /\ ~v4.partial => v2 = 10
    /\ v4.trailing => v4.stop = v3 /\ (MoveToEntry => v3 > Entry)
    /\ ~v4.trailing => v3 <= Entry
    /\ Sound(v5, v3, v4)

LEMMA QuotesInt == Quotes \subseteq Nat /\ Entry \in Nat /\ FirstTarget \in Nat /\ Distance \in Nat
BY ConstantsAssumption DEF Be!ConstantsOK

LEMMA BreakEvenInit == Be!Init => ProtectInv
<1> SUFFICES ASSUME Be!Init PROVE ProtectInv
  OBVIOUS
<1>1. v4 \in Known /\ ~v4.partial /\ ~v4.trailing
  BY DEF Be!Init, Known
<1>2. v3 \in Nat /\ v3 < Entry
  BY QuotesInt DEF Be!Init
<1>3. v5 = <<>> /\ v2 = 10 /\ v1 = Entry
  BY DEF Be!Init
<1> QED
  BY <1>1, <1>2, <1>3, QuotesInt DEF ProtectInv, Sound, Fits

LEMMA OneIsSeq ==
  ASSUME NEW S, NEW i \in S PROVE <<i>> \in Seq(S) /\ Len(<<i>>) = 1 /\ <<i>>[1] = i
OBVIOUS

LEMMA JoinOfTwo ==
  ASSUME NEW S, NEW P \in Seq(S), NEW M \in Seq(S)
  PROVE  LET r == P \o M IN
         /\ r \in Seq(S) /\ Len(r) = Len(P) + Len(M)
         /\ \A k \in 1 .. Len(r) : r[k] = IF k <= Len(P) THEN P[k] ELSE M[k - Len(P)]
OBVIOUS

LEMMA JoinOfThree ==
  ASSUME NEW S, NEW P \in Seq(S), NEW M \in Seq(S), NEW T \in Seq(S), NEW joined, joined = P \o M \o T
  PROVE  /\ joined \in Seq(S) /\ Len(joined) = Len(P) + Len(M) + Len(T)
         /\ \A k \in 1 .. Len(joined) :
               joined[k] = IF k <= Len(P) THEN P[k]
                           ELSE IF k <= Len(P) + Len(M) THEN M[k - Len(P)] ELSE T[k - Len(P) - Len(M)]
<1>1. PICK r \in Seq(S) : r = P \o M
  BY JoinOfTwo
<1>2. Len(r) = Len(P) + Len(M)
      /\ \A k \in 1 .. Len(r) : r[k] = IF k <= Len(P) THEN P[k] ELSE M[k - Len(P)]
  BY <1>1, JoinOfTwo
<1>3. PICK s \in Seq(S) : s = r \o T
  BY JoinOfTwo
<1>4. Len(s) = Len(r) + Len(T)
      /\ \A k \in 1 .. Len(s) : s[k] = IF k <= Len(r) THEN r[k] ELSE T[k - Len(r)]
  BY <1>3, JoinOfTwo
<1>5. ASSUME NEW k \in 1 .. Len(s)
      PROVE  s[k] = IF k <= Len(P) THEN P[k]
                    ELSE IF k <= Len(P) + Len(M) THEN M[k - Len(P)] ELSE T[k - Len(P) - Len(M)]
  <2>1. Len(P) \in Nat /\ Len(M) \in Nat /\ Len(T) \in Nat /\ k \in Nat /\ k >= 1
    OBVIOUS
  <2>2. CASE k <= Len(P)
    BY <1>2, <1>4, <2>1, <2>2
  <2>3. CASE k > Len(P) /\ k <= Len(P) + Len(M)
    BY <1>2, <1>4, <2>1, <2>3
  <2>4. CASE k > Len(P) + Len(M)
    <3>1. k - Len(r) = k - Len(P) - Len(M) /\ k > Len(r)
      BY <1>2, <2>1, <2>4
    <3> QED
      BY <1>4, <2>1, <2>4, <3>1
  <2> QED
    BY <2>1, <2>2, <2>3, <2>4
<1>6. s = joined
  BY <1>1, <1>3
<1> QED
  BY <1>2, <1>3, <1>4, <1>5, <1>6

\* Carrying out the head of a plan leaves a sound one, for the stop and the knowledge
\* that come of it.
LEMMA RestSound ==
  ASSUME NEW plan \in Seq(Intents), Len(plan) > 0, NEW s \in Int, NEW known \in Known,
         NEW s2 \in Int, NEW known2 \in Known, Sound(plan, s, known),
         known2.partial => known.partial \/ plan[1].action = "PARTIAL_CLOSE",
         known2.trailing = (known.trailing \/ plan[1].action = "ARM_TRAILING"),
         s2 = IF plan[1].action = "PARTIAL_CLOSE" THEN s ELSE plan[1].to
  PROVE  Sound(Tail(plan), s2, known2)
<1>1. plan # <<>>
  OBVIOUS
<1> DEFINE tail == Tail(plan)
<1>2. tail \in Seq(Intents)
  BY <1>1
<1>3. PICK rest \in Seq(Intents) : rest = tail
  BY ONLY <1>2, Zenon
<1>4. Len(plan) \in Nat /\ Len(rest) = Len(plan) - 1 /\ \A k \in 1 .. Len(rest) : rest[k] = plan[k + 1]
  BY <1>3
<1>5. ASSUME NEW k \in 1 .. Len(rest) PROVE Fits(rest[k], k, Len(rest), s2, known2)
  <2>1. k + 1 \in 1 .. Len(plan) /\ rest[k] = plan[k + 1] /\ k + 1 # 1 /\ 1 \in 1 .. (k + 1) - 1 /\ 1 \in 1 .. Len(plan)
    BY <1>4
  <2>2. Fits(plan[k + 1], k + 1, Len(plan), s, known) /\ Fits(plan[1], 1, Len(plan), s, known)
        /\ (plan[1].action # "PARTIAL_CLOSE" => plan[k + 1].action # "PARTIAL_CLOSE" /\ plan[1].to < plan[k + 1].to)
    BY <2>1 DEF Sound
  <2>3. plan[1].action # "ARM_TRAILING"
    BY <2>1, <2>2, <1>4 DEF Fits, Trails
  <2>4. plan[1] \in Intents /\ plan[k + 1] \in Intents
    BY <2>1
  <2>5. /\ plan[k + 1].action # "PARTIAL_CLOSE"
        /\ s2 = s \/ s2 < plan[k + 1].to
    BY <2>1, <2>2 DEF Fits
  <2>6. plan[k + 1].to > s
    BY <2>2, <2>5 DEF Fits
  <2>7. plan[k + 1].to > s2
    BY <2>4, <2>5, <2>6 DEF Intents
  <2>8. known2.trailing = known.trailing
    BY <2>3 DEF Known
  <2>9. plan[k + 1].action \in Trails => k = Len(rest)
    BY <1>4, <2>1, <2>2 DEF Fits
  <2> QED
    BY <2>1, <2>2, <2>5, <2>7, <2>8, <2>9 DEF Fits
<1>6. ASSUME NEW k \in 1 .. Len(rest), NEW j \in 1 .. k - 1, rest[j].action # "PARTIAL_CLOSE"
      PROVE  rest[k].action # "PARTIAL_CLOSE" /\ rest[j].to < rest[k].to
  <2>1. k \in Int /\ j \in Int /\ Len(rest) \in Int /\ k >= 1 /\ k <= Len(rest) /\ j >= 1 /\ j <= k - 1
    BY <1>4
  <2>2. k + 1 \in 1 .. Len(plan) /\ j + 1 \in 1 .. (k + 1) - 1
    BY <1>4, <2>1
  <2>3. j \in 1 .. Len(rest)
    BY <2>1
  <2>4. rest[k] = plan[k + 1] /\ rest[j] = plan[j + 1]
    BY <1>4, <2>3
  <2>5. k + 1 \in 1 .. Len(plan) /\ j + 1 \in 1 .. (k + 1) - 1 /\ rest[k] = plan[k + 1] /\ rest[j] = plan[j + 1]
    BY <2>2, <2>4
  <2> QED
    BY <1>6, <2>5 DEF Sound
<1> QED
  BY <1>3, <1>5, <1>6 DEF Sound

\* The plan after the first target, of the parts that apply.
LEMMA TP1Sound ==
  ASSUME ProtectInv PROVE Be!TP1Actions \in Seq(Intents) /\ Sound(Be!TP1Actions, v3, v4)
<1> DEFINE reference == IF MoveToEntry THEN Entry ELSE v3
           p == Be!Intent("PARTIAL_CLOSE", 0)
           m == Be!Intent("MOVE_SL", Entry)
           t == Be!Intent("ARM_TRAILING", Be!TrailFrom(FirstTarget))
           hasM == MoveToEntry /\ ~v4.breakEven /\ Be!IsTighter(v3, Entry)
           hasT == /\ Trailing /\ ~v4.trailing /\ Distance > 0
                   /\ Be!IsTighter(reference, Be!TrailFrom(FirstTarget))
           P == Be!If(~v4.partial, p)
           M == Be!If(hasM, m)
           T == Be!If(hasT, t)
<1>1. Be!TP1Actions = P \o M \o T
  BY DEF Be!TP1Actions
<1>2. Be!TrailFrom(FirstTarget) \in Int
  BY QuotesInt DEF Be!TrailFrom
<1>3. /\ {p, m, t} \subseteq Intents
      /\ p.action = "PARTIAL_CLOSE" /\ m.action = "MOVE_SL" /\ t.action = "ARM_TRAILING"
      /\ m.to = Entry /\ t.to = Be!TrailFrom(FirstTarget)
  BY <1>2, QuotesInt DEF Be!Intent, Intents
<1>4. P = IF ~v4.partial THEN <<p>> ELSE <<>>
  BY DEF Be!If
<1>5. M = IF hasM THEN <<m>> ELSE <<>>
  BY DEF Be!If
<1>6. T = IF hasT THEN <<t>> ELSE <<>>
  BY DEF Be!If
<1>7. hasM => ~v4.trailing /\ m.to > v3 /\ MoveToEntry
  <2>1. hasM => Entry > v3 /\ MoveToEntry
    BY DEF Be!IsTighter
  <2> QED
    BY <1>3, <2>1, QuotesInt DEF ProtectInv
<1>8. hasT => ~v4.trailing /\ t.to > v3 /\ (MoveToEntry => t.to > Entry)
  <2>1. hasT => ~v4.trailing /\ t.to > reference
    BY <1>3 DEF Be!IsTighter
  <2> QED
    BY <1>2, <1>3, <2>1, QuotesInt DEF ProtectInv
<1>9. /\ P \in Seq(Intents) /\ Len(P) = (IF ~v4.partial THEN 1 ELSE 0) /\ (Len(P) = 1 => P[1] = p)
      /\ M \in Seq(Intents) /\ Len(M) = (IF hasM THEN 1 ELSE 0) /\ (Len(M) = 1 => M[1] = m)
      /\ T \in Seq(Intents) /\ Len(T) = (IF hasT THEN 1 ELSE 0) /\ (Len(T) = 1 => T[1] = t)
  <2> HIDE DEF p, m, t, hasM, hasT, P, M, T
  <2>1. <<>> \in Seq(Intents) /\ Len(<<>>) = 0
    OBVIOUS
  <2>2. ASSUME NEW i \in Intents PROVE <<i>> \in Seq(Intents) /\ Len(<<i>>) = 1 /\ <<i>>[1] = i
    OBVIOUS
  <2>3. p \in Intents /\ m \in Intents /\ t \in Intents
    BY <1>3
  <2>4. P \in Seq(Intents) /\ Len(P) = (IF ~v4.partial THEN 1 ELSE 0) /\ (Len(P) = 1 => P[1] = p)
    BY <1>4, <2>1, <2>2, <2>3
  <2>5. M \in Seq(Intents) /\ Len(M) = (IF hasM THEN 1 ELSE 0) /\ (Len(M) = 1 => M[1] = m)
    BY <1>5, <2>1, <2>2, <2>3
  <2>6. T \in Seq(Intents) /\ Len(T) = (IF hasT THEN 1 ELSE 0) /\ (Len(T) = 1 => T[1] = t)
    BY <1>6, <2>1, <2>2, <2>3
  <2> QED
    BY <2>4, <2>5, <2>6
<1> HIDE DEF p, m, t, hasM, hasT, P, M, T
<1>10. PICK plan \in Seq(Intents) : plan = Be!TP1Actions
  BY <1>1, <1>9, JoinOfThree
<1>11. /\ Len(plan) = Len(P) + Len(M) + Len(T)
       /\ \A k \in 1 .. Len(plan) :
             plan[k] = IF k <= Len(P) THEN P[k]
                       ELSE IF k <= Len(P) + Len(M) THEN M[k - Len(P)] ELSE T[k - Len(P) - Len(M)]
  <2>1. plan = P \o M \o T
    BY <1>1, <1>10
  <2>2. P \in Seq(Intents) /\ M \in Seq(Intents) /\ T \in Seq(Intents)
    BY <1>9
  <2> QED
    BY ONLY <2>1, <2>2, JoinOfThree
<1>12. ASSUME NEW k \in 1 .. Len(plan)
       PROVE  \/ plan[k] = p /\ k = 1 /\ Len(P) = 1 /\ ~v4.partial
              \/ plan[k] = m /\ k = Len(P) + 1 /\ Len(M) = 1 /\ hasM
              \/ plan[k] = t /\ k = Len(plan) /\ k > Len(P) + Len(M) /\ hasT
  <2>1. Len(P) \in {0, 1} /\ Len(M) \in {0, 1} /\ Len(T) \in {0, 1} /\ k \in Nat /\ k >= 1 /\ k <= Len(P) + Len(M) + Len(T)
    BY <1>9, <1>11
  <2>2. CASE k <= Len(P)
    BY <1>9, <1>11, <2>1, <2>2
  <2>3. CASE k > Len(P) /\ k <= Len(P) + Len(M)
    <3>1. Len(M) = 1
      BY <2>1, <2>3
    <3>2. k = Len(P) + 1 /\ k - Len(P) = 1 /\ ~(k <= Len(P)) /\ k <= Len(P) + Len(M)
      BY <2>1, <2>3, <3>1
    <3> QED
      BY <1>9, <1>11, <2>1, <3>1, <3>2
  <2>4. CASE k > Len(P) + Len(M)
    <3>1. k = Len(P) + Len(M) + 1 /\ Len(T) = 1 /\ k - Len(P) - Len(M) = 1 /\ k = Len(plan) /\ ~(k <= Len(P))
      <4>1. PICK x \in {0, 1}, y \in {0, 1}, z \in {0, 1} : x = Len(P) /\ y = Len(M) /\ z = Len(T)
        BY <2>1
      <4>2. Len(plan) = x + y + z
        BY <1>11, <4>1
      <4>3. k \in Nat /\ k >= 1 /\ k <= x + y + z /\ k > x + y
        BY <2>1, <2>4, <4>1
      <4>4. k = x + y + 1 /\ z = 1 /\ k - x - y = 1 /\ k = x + y + z /\ ~(k <= x)
        BY <4>3
      <4> QED
        BY <4>1, <4>2, <4>4
    <3> QED
      BY <1>9, <1>11, <2>1, <2>4, <3>1
  <2> QED
    BY <2>1, <2>2, <2>3, <2>4
<1>13. ASSUME NEW k \in 1 .. Len(plan) PROVE Fits(plan[k], k, Len(plan), v3, v4)
  BY <1>3, <1>7, <1>8, <1>12 DEF Fits, Trails
<1>14. ASSUME NEW k \in 1 .. Len(plan), NEW j \in 1 .. k - 1, plan[j].action # "PARTIAL_CLOSE"
       PROVE  plan[k].action # "PARTIAL_CLOSE" /\ plan[j].to < plan[k].to
  <2>1. j \in 1 .. Len(plan) /\ j < k /\ j # Len(plan) /\ k \in Nat /\ j \in Nat /\ Len(P) \in Nat /\ Len(M) \in Nat /\ Len(plan) \in Nat
    BY <1>9
  <2>2. plan[j] = m /\ j = Len(P) + 1 /\ hasM
    BY <1>3, <1>12, <1>14, <2>1
  <2>3. plan[k] = t /\ hasT
    BY <1>9, <1>12, <2>1, <2>2
  <2> QED
    BY <1>3, <1>7, <1>8, <2>2, <2>3
<1> QED
  BY <1>10, <1>13, <1>14 DEF Sound

LEMMA RatchetSound ==
  ASSUME ProtectInv PROVE Be!Ratchet \in Seq(Intents) /\ Sound(Be!Ratchet, v3, v4)
<1> DEFINE u == Be!Intent("UPDATE_TRAILING", Be!TrailFrom(v1))
<1>1. Be!TrailFrom(v1) \in Int
  BY QuotesInt DEF Be!TrailFrom, ProtectInv
<1>2. u \in Intents /\ u.action = "UPDATE_TRAILING" /\ u.to = Be!TrailFrom(v1)
  BY <1>1 DEF Be!Intent, Intents
<1>3. Be!Ratchet = <<>> \/ (Be!Ratchet = <<u>> /\ v4.trailing /\ u.to > v4.stop)
  BY <1>2 DEF Be!Ratchet, Be!If, Be!IsTighter
<1> HIDE DEF u
<1>4. CASE Be!Ratchet = <<>>
  BY <1>4 DEF Sound
<1>5. CASE Be!Ratchet = <<u>> /\ v4.trailing /\ u.to > v4.stop
  <2>1. PICK plan \in Seq(Intents) : plan = <<u>> /\ Len(plan) = 1 /\ plan[1] = u
    BY <1>2, OneIsSeq
  <2>2. Len(plan) = 1 /\ plan[1] = u
    BY <2>1
  <2>3. Fits(u, 1, 1, v3, v4)
    BY <1>2, <1>5 DEF Fits, Trails, ProtectInv
  <2>4. Sound(plan, v3, v4)
    BY <2>2, <2>3 DEF Sound
  <2> QED
    BY <1>5, <2>1, <2>4
<1> QED
  BY <1>3, <1>4, <1>5

\* One step does not move the stop back, and closes a slice of the whole position only.
Grows == v3' >= v3 /\ (v2' < v2 => v2 = 10)

LEMMA ExecuteGrows ==
  ASSUME ProtectInv, Be!Execute PROVE ProtectInv' /\ Grows
<1> DEFINE i == Head(v5)
<1>1. v5 # <<>> /\ Be!Effect(i) /\ v4' = Be!Applied(i) /\ v5' = Tail(v5) /\ v1' = v1
  BY DEF Be!Execute
<1>2. /\ i = v5[1] /\ i \in Intents /\ v5' \in Seq(Intents) /\ Len(v5) \in Nat \ {0}
      /\ Len(v5') = Len(v5) - 1 /\ \A k \in 1 .. Len(v5') : v5'[k] = v5[k + 1]
  BY <1>1 DEF ProtectInv
<1>3. /\ i.action = "PARTIAL_CLOSE" => ~v4.partial
      /\ i.action # "PARTIAL_CLOSE" => i.to > v3
      /\ i.action = "MOVE_SL" => i.to = Entry
      /\ i.action \in {"MOVE_SL", "ARM_TRAILING"} => ~v4.trailing
      /\ i.action = "ARM_TRAILING" /\ MoveToEntry => i.to > Entry
      /\ i.action = "UPDATE_TRAILING" => v4.trailing
      /\ i.action \in Trails => v5' = <<>>
  BY <1>2 DEF ProtectInv, Sound, Fits
<1> HIDE DEF i
<1>4. /\ v4' \in Known
      /\ v4'.partial = (v4.partial \/ i.action = "PARTIAL_CLOSE")
      /\ v4'.trailing = (v4.trailing \/ i.action = "ARM_TRAILING")
      /\ v4'.stop = IF i.action = "PARTIAL_CLOSE" THEN v4.stop ELSE i.to
  <2> DEFINE w == [v4 EXCEPT !.partial = @ \/ i.action = "PARTIAL_CLOSE"]
             x == [w EXCEPT !.breakEven = @ \/ i.action = "MOVE_SL"]
             y == [x EXCEPT !.trailing = @ \/ i.action = "ARM_TRAILING"]
             z == [y EXCEPT !.stop = IF i.action = "PARTIAL_CLOSE" THEN @ ELSE i.to]
  <2>1. v4' = z
    BY <1>1 DEF Be!Applied
  <2>2. w \in Known /\ w.partial = (v4.partial \/ i.action = "PARTIAL_CLOSE")
        /\ w.trailing = v4.trailing /\ w.stop = v4.stop
    BY DEF ProtectInv, Known
  <2> HIDE DEF w
  <2>3. x \in Known /\ x.partial = w.partial /\ x.trailing = w.trailing /\ x.stop = w.stop
    BY <2>2 DEF Known
  <2> HIDE DEF x
  <2>4. y \in Known /\ y.partial = x.partial /\ y.stop = x.stop
        /\ y.trailing = (x.trailing \/ i.action = "ARM_TRAILING")
    BY <2>3 DEF Known
  <2> HIDE DEF y
  <2>5. z \in Known /\ z.partial = y.partial /\ z.trailing = y.trailing
        /\ z.stop = IF i.action = "PARTIAL_CLOSE" THEN y.stop ELSE i.to
    BY <1>2, <2>4 DEF Known, Intents
  <2> HIDE DEF z
  <2> QED
    BY <2>1, <2>2, <2>3, <2>4, <2>5
<1>7. Sound(v5', v3', v4')
  <2>1. v3' = (IF i.action = "PARTIAL_CLOSE" THEN v3 ELSE i.to) /\ v3' \in Int
    BY <1>1, <1>2 DEF Be!Effect, Intents, ProtectInv
  <2>2. Len(v5) > 0 /\ Sound(v5, v3, v4) /\ v5 \in Seq(Intents) /\ v3 \in Int /\ v4 \in Known
    BY <1>2 DEF ProtectInv
  <2> QED
    BY <1>1, <1>2, <1>4, <2>1, <2>2, RestSound
<1>5. CASE i.action = "PARTIAL_CLOSE"
  <2>1. v2' = v2 - (v2 * 4) \div 10 /\ v3' = v3
    BY <1>1, <1>5 DEF Be!Effect
  <2>2. v2 = 10
    BY <1>3, <1>5 DEF ProtectInv
  <2>3. v2' = 6
    BY <2>1, <2>2
  <2>4. v4'.partial /\ v4'.trailing = v4.trailing /\ v4'.stop = v4.stop
    BY <1>4, <1>5 DEF ProtectInv, Known
  <2> QED
    BY <1>1, <1>2, <1>4, <1>7, <2>1, <2>2, <2>3, <2>4 DEF ProtectInv, Grows
<1>6. CASE i.action # "PARTIAL_CLOSE"
  <2>1. v3' = i.to /\ v2' = v2 /\ v3' > v3 /\ v3' \in Int
    BY <1>1, <1>2, <1>3, <1>6 DEF Be!Effect, Intents
  <2>2. v4'.partial = v4.partial /\ v4'.stop = v3'
    BY <1>4, <1>6, <2>1 DEF ProtectInv, Known
  <2>3. CASE i.action = "MOVE_SL"
    <3>1. v3' = Entry /\ v4'.trailing = FALSE
      BY <1>3, <1>4, <2>1, <2>3 DEF ProtectInv, Known
    <3> QED
      BY <1>1, <1>2, <1>4, <1>7, <2>1, <2>2, <3>1, QuotesInt DEF ProtectInv, Grows
  <2>4. CASE i.action \in Trails
    <3>1. v5' = <<>> /\ v4'.trailing = TRUE
      BY <1>3, <1>4, <2>4 DEF Trails
    <3>2. MoveToEntry => v3' > Entry
      BY <1>3, <2>1, <2>4, QuotesInt DEF ProtectInv, Trails
    <3> QED
      BY <1>1, <1>2, <1>4, <1>7, <2>1, <2>2, <3>1, <3>2 DEF ProtectInv, Grows
  <2> QED
    BY <1>2, <1>6, <2>3, <2>4 DEF Intents, Trails
<1> QED
  BY <1>5, <1>6

LEMMA BreakEvenStep ==
  ASSUME Faults \subseteq {"fail"}, ProtectInv, [Be!Next]_(Be!vars) PROVE ProtectInv' /\ Grows
<1>0. v2 \in Int /\ v3 \in Int
  BY DEF ProtectInv
<1>1. CASE UNCHANGED Be!vars
  BY <1>0, <1>1 DEF Be!vars, ProtectInv, Sound, Grows
<1>2. ASSUME NEW p \in Quotes, Be!Moves(p) PROVE ProtectInv' /\ Grows
  BY <1>0, <1>2, QuotesInt DEF Be!Moves, ProtectInv, Sound, Grows
<1>3. CASE Be!PlanTP1
  <2>1. v5' = Be!TP1Actions /\ UNCHANGED <<v1, v2, v3, v4>>
    BY <1>3 DEF Be!PlanTP1
  <2>2. Sound(v5', v3', v4') /\ v5' \in Seq(Intents)
    BY <2>1, TP1Sound
  <2> QED
    BY <1>0, <2>1, <2>2 DEF ProtectInv, Grows
<1>4. CASE Be!PlanTrailing
  <2>1. v5' = Be!Ratchet /\ UNCHANGED <<v1, v2, v3, v4>>
    BY <1>4 DEF Be!PlanTrailing
  <2>2. Sound(v5', v3', v4') /\ v5' \in Seq(Intents)
    BY <2>1, RatchetSound
  <2> QED
    BY <1>0, <2>1, <2>2 DEF ProtectInv, Grows
<1>5. CASE Be!Fails
  BY <1>0, <1>5 DEF Be!Fails, ProtectInv, Sound, Grows
<1>6. CASE Be!AnswerLost \/ \E p \in Quotes : Be!UserMovesStop(p)
  BY <1>6 DEF Be!AnswerLost, Be!UserMovesStop
<1> QED
  BY <1>1, <1>2, <1>3, <1>4, <1>5, <1>6, ExecuteGrows DEF Be!Next

\* Whatever the market does between a plan and its execution and whichever intents
\* fail, the working stop only tightens and the slice of the first target is closed
\* once, provided that the caller knows what became of an intent and nobody else moves
\* the stop (ProtectionOnlyGrows).
THEOREM ProtectionGrows == Faults \subseteq {"fail"} => (Spec => ProtectionOnlyGrows)
<1> SUFFICES ASSUME Faults \subseteq {"fail"} PROVE Spec => ProtectionOnlyGrows
  OBVIOUS
<1> DEFINE Inv == topic = "breakeven" => ProtectInv
<1>1. Init => Inv
  BY BreakEvenRuns, BreakEvenInit
<1>2. Inv /\ [Next]_vars => Inv' /\ [topic = "breakeven" => Grows]_vars
  <2> SUFFICES ASSUME Inv, [Next]_vars, topic = "breakeven", topic' = topic PROVE ProtectInv' /\ Grows
    BY BreakEvenRuns DEF Next, vars
  <2> QED
    BY BreakEvenRuns, BreakEvenStep
<1> QED
  BY <1>1, <1>2, PTL DEF Spec, ProtectionOnlyGrows, Grows

-----------------------------------------------------------------------------
(* Outcomes: v1 is the row of the signal, v2 the policy, v3 the histories  *)
(* a running backfill is about to write, v4 what the last rebuild stored.  *)

\* A run about the outcomes is a behaviour of Outcomes.
LEMMA OutcomesRun ==
  /\ Init => (topic = "outcomes" => Ou!Init)
  /\ [Next]_vars /\ topic = "outcomes" => [Ou!Next]_(Ou!vars)
  /\ [Next]_vars => topic' = topic
BY DEF Init, Next, vars, Ou!vars

Targets == {"TP1", "TP2", "TP3"}
\* What can end or move a trade, and what the row of one may be.
Exits == {"TP1", "TP2", "TP3", "SL"}
Statuses == {"OPEN", "TP1", "TP2", "TP3", "SL", "EXPIRED"}
Hist == [max : 0 .. 3, sl : BOOLEAN, first : Exits \cup {""}, final : Exits \cup {""}, pnl : Int,
         outcome : {"", "FULL_WIN", "WIN", "PARTIAL_WIN", "LOSS", "OPEN", "BREAKEVEN"}, again : BOOLEAN]
Signal == [kind : {"new", "old"}, status : Statuses, filled : BOOLEAN, closed : BOOLEAN,
           pnl : Int, fav : 0 .. 3, hist : Hist]

\* A share is booked at the first target and the rest leaves at the entry after it.
Pays == BreakEvenStop /\ FirstShare > 0

\* A history of which the last event ends the trade: it is a win if and only if it paid.
Tells(hist) ==
    Pays /\ hist.final \in {"TP3", "SL"} => (hist.pnl > 0 <=> Ou!BucketOf(hist.outcome) = "WIN")

\* A signal that is still open, or that expired, has no history.  What it reached is filled in
\* and is in its history; a third target, or a stop after a target, was booked with a gain;
\* and what a backfill is about to write says the same as what it read.
StoryInv ==
    /\ v1 \in Signal
    /\ v1.status \in {"OPEN", "EXPIRED"} =>
         v1.hist.max = 0 /\ ~v1.hist.sl /\ v1.fav = 0 /\ v3 = <<>>
    /\ v1.status = "EXPIRED" => v1.pnl = 0
    /\ v1.status \in {"OPEN", "TP1", "TP2"} => v1.kind = "new" /\ v1.fav <= Ou!Rank(v1.status)
    /\ v1.status \in Exits => v1.filled
    /\ v1.kind = "new" =>
         /\ v1.status \in Targets => v1.hist.max >= 1
         /\ Pays /\ (v1.status = "TP3" \/ (v1.status = "SL" /\ v1.fav >= 1)) => v1.pnl > 0
         /\ Tells(v1.hist)
    /\ v3 # <<>> =>
         /\ Head(v3) \in Hist /\ Head(v3).max >= 1
         /\ v1.kind = "new" => Tells(Head(v3))

\* The shares are tenths of one position.
LEMMA SharesOK == FirstShare \in 0 .. 10 /\ SecondShare \in 0 .. (10 - FirstShare)
BY ConstantsAssumption DEF Ou!ConstantsOK

\* The higher of two levels is one of them, and below neither.
LEMMA HigherIs ==
  ASSUME NEW a \in 0 .. 3, NEW b \in 0 .. 3
  PROVE  Ou!Higher(a, b) \in {a, b} /\ Ou!Higher(a, b) >= a /\ Ou!Higher(a, b) >= b
BY DEF Ou!Higher

\* The levels of the statuses, one by one.
LEMMA RankIs ==
  /\ Ou!Rank("TP1") = 1 /\ Ou!Rank("TP2") = 2 /\ Ou!Rank("TP3") = 3
  /\ Ou!Rank("SL") = 0 /\ Ou!Rank("OPEN") = 0 /\ Ou!Rank("EXPIRED") = 0
BY DEF Ou!Rank

\* A new signal has no history, and those of old have their money from their exit.
LEMMA OutcomesInit == Ou!Init => StoryInv
<1> SUFFICES ASSUME Ou!Init PROVE StoryInv
  OBVIOUS
<1>1. Ou!NoHistory \in Hist /\ Ou!NoHistory.max = 0 /\ ~Ou!NoHistory.sl /\ Ou!NoHistory.final = ""
  BY DEF Ou!NoHistory, Hist
<1>2. v3 = <<>>
  BY DEF Ou!Init
<1>3. CASE v1 = [kind |-> "new", status |-> "OPEN", filled |-> FALSE, closed |-> FALSE,
                 pnl |-> 0, fav |-> 0, hist |-> Ou!NoHistory]
  <2>1. v1.status = "OPEN" /\ v1.fav = 0 /\ v1.hist = Ou!NoHistory /\ v1.kind = "new"
    BY <1>3
  <2> DEFINE none == Ou!NoHistory
  <2>2. none \in Hist
    BY <1>1
  <2> HIDE DEF none
  <2>3. [kind |-> "new", status |-> "OPEN", filled |-> FALSE, closed |-> FALSE, pnl |-> 0, fav |-> 0, hist |-> none] \in Signal
    BY <2>2 DEF Signal, Statuses
  <2>4. v1 \in Signal
    BY <1>3, <2>3 DEF none
  <2>5. v1.status \notin Exits /\ v1.status \notin Targets /\ Ou!Rank(v1.status) = 0 /\ Tells(v1.hist)
    BY <1>1, <2>1, RankIs DEF Exits, Targets, Tells
  <2>6. v1.hist.max = 0 /\ ~v1.hist.sl
    BY <1>1, <2>1
  <2>7. v1.status # "EXPIRED" /\ v1.status # "TP3" /\ v1.status # "SL"
    BY <2>1
  <2> QED
    BY <1>2, <2>1, <2>4, <2>5, <2>6, <2>7 DEF StoryInv
<1>4. CASE v1 \in [kind : {"old"}, status : {"TP3", "SL", "EXPIRED"}, filled : {TRUE},
                  closed : {TRUE}, pnl : {10 * Ou!Stop, 0, 30}, fav : 0 .. 3, hist : {Ou!NoHistory}]
  <2>1. v1.status \in {"TP3", "SL", "EXPIRED"} /\ v1.filled /\ v1.kind = "old" /\ v1.hist = Ou!NoHistory
    BY <1>4
  <2> DEFINE none == Ou!NoHistory
  <2>2. none \in Hist
    BY <1>1
  <2>3. 10 * Ou!Stop \in Int
    BY DEF Ou!Stop
  <2> DEFINE lost == 10 * Ou!Stop
  <2> HIDE DEF none, lost
  <2>4. v1 \in [kind : {"old"}, status : {"TP3", "SL", "EXPIRED"}, filled : {TRUE},
                closed : {TRUE}, pnl : {lost, 0, 30}, fav : 0 .. 3, hist : {none}]
    BY <1>4 DEF none, lost
  <2>5. lost \in Int
    BY <2>3 DEF lost
  <2>6. v1 \in Signal
    <3>1. v1.status \in Statuses
      BY <2>1 DEF Statuses
    <3>2. v1 \in [kind : {"old"}, status : Statuses, filled : {TRUE},
                  closed : {TRUE}, pnl : {lost, 0, 30}, fav : 0 .. 3, hist : {none}]
      BY <2>4, <3>1
    <3>3. v1.pnl \in Int /\ v1.hist \in Hist
      BY <2>2, <2>5, <3>2
    <3> QED
      BY <3>2, <3>3 DEF Signal
  <2>7. v1.status = "EXPIRED" => v1.pnl = 0 /\ v1.fav = 0
    BY <2>1 DEF Ou!Init
  <2> QED
    BY <1>1, <1>2, <2>1, <2>6, <2>7 DEF StoryInv, Targets
<1> QED
  BY <1>3, <1>4 DEF Ou!Init

\* What a merged history says.
\* Recording an exit: the highest target only rises, and a history with a target is a win.
LEMMA ExitRecorded ==
  ASSUME NEW hist \in Hist, NEW event \in Exits, NEW pnl \in Int
  PROVE  LET h == Ou!RecordExit(hist, event, pnl) IN
         /\ h \in Hist /\ h.max = Ou!Higher(hist.max, Ou!Rank(event))
         /\ h.final = event /\ h.pnl = pnl
         /\ h.max >= 1 => Ou!BucketOf(h.outcome) = "WIN"
         /\ h.max = 0 => h.outcome = "LOSS"
<1> DEFINE a == [hist EXCEPT !.max = Ou!Higher(@, Ou!Rank(event))]
           b == [a EXCEPT !.sl = @ \/ event = "SL"]
           c == [b EXCEPT !.first = IF @ = "" THEN event ELSE @]
           d == [c EXCEPT !.final = event]
           h == [d EXCEPT !.pnl = pnl]
           outcome == Ou!Classify(event, h, pnl)
           z == [h EXCEPT !.outcome = outcome]
<1>1. Ou!RecordExit(hist, event, pnl) = z
  BY DEF Ou!RecordExit
<1>2. Ou!Higher(hist.max, Ou!Rank(event)) \in 0 .. 3 /\ Ou!Higher(hist.max, Ou!Rank(event)) >= Ou!Rank(event)
      /\ Ou!Rank(event) \in 0 .. 3 /\ (Ou!Rank(event) = 0 => event = "SL")
  <2>1. Ou!Rank(event) \in 0 .. 3 /\ (Ou!Rank(event) = 0 => event = "SL")
    BY RankIs DEF Exits
  <2>2. hist.max \in 0 .. 3
    BY DEF Hist
  <2> QED
    BY <2>1, <2>2, HigherIs
<1>3. a \in Hist /\ a.max = Ou!Higher(hist.max, Ou!Rank(event))
  BY <1>2 DEF Hist
<1> HIDE DEF a
<1>4. b \in Hist /\ b.max = a.max /\ (event = "SL" => b.sl)
  BY <1>3 DEF Hist
<1> HIDE DEF b
<1>5. c \in Hist /\ c.max = b.max /\ c.sl = b.sl
  BY <1>4 DEF Hist
<1> HIDE DEF c
<1>6. d \in Hist /\ d.max = c.max /\ d.sl = c.sl /\ d.final = event
  BY <1>5 DEF Hist
<1> HIDE DEF d
<1>7. h \in Hist /\ h.max = d.max /\ h.sl = d.sl /\ h.final = event /\ h.pnl = pnl
  BY <1>6 DEF Hist
<1> HIDE DEF h
<1>8. Ou!MaxTp(event, h) = h.max
  BY <1>2, <1>3, <1>4, <1>5, <1>6, <1>7, ZenonT(30) DEF Ou!MaxTp, Ou!Higher, Hist
<1>9. h.max = 3 \/ h.max = 2 \/ h.max = 1 \/ (h.max = 0 /\ h.sl)
  <2>1. h.max \in 0 .. 3 /\ h.max = Ou!Higher(hist.max, Ou!Rank(event)) /\ (event = "SL" => h.sl)
    BY <1>3, <1>4, <1>5, <1>6, <1>7, ZenonT(30) DEF Hist
  <2> QED
    BY <1>2, <2>1
<1>10. outcome = CASE h.max = 3 -> "FULL_WIN" [] h.max = 2 -> "WIN" [] h.max = 1 -> "PARTIAL_WIN"
                   [] h.max = 0 -> "LOSS"
  BY <1>8, <1>9 DEF Ou!Classify
<1>11. outcome \in {"FULL_WIN", "WIN", "PARTIAL_WIN", "LOSS"} /\ (h.max >= 1 => Ou!BucketOf(outcome) = "WIN")
       /\ (h.max = 0 => outcome = "LOSS")
  BY <1>9, <1>10 DEF Ou!BucketOf
<1> HIDE DEF outcome
<1>12. z \in Hist /\ z.max = h.max /\ z.final = h.final /\ z.pnl = h.pnl /\ z.outcome = outcome
  BY <1>7, <1>11 DEF Hist
<1> QED
  BY <1>1, <1>3, <1>4, <1>5, <1>6, <1>7, <1>11, <1>12

\* What a stop or the third target brings, when the stop moves to the entry.
\* With a share at the first target and the rest at the entry, a trade pays if and only if it
\* reached a target; this is where both hypotheses of the theorem are needed.
LEMMA BlendedPays ==
  ASSUME NEW top \in 0 .. 3, NEW event \in {"TP3", "SL"}, top = 3 <=> event = "TP3"
  PROVE  Ou!Blended(top, event) \in Int /\ (Pays => (Ou!Blended(top, event) > 0 <=> top >= 1))
<1>1. FirstShare \in Int /\ SecondShare \in Int /\ FirstShare <= 10 /\ SecondShare >= 0 /\ SecondShare <= 10 - FirstShare
  BY SharesOK
<1>2. CASE top = 3
  BY <1>1, <1>2 DEF Ou!Blended, Pays
<1>3. CASE top = 0
  BY <1>1, <1>3 DEF Ou!Blended, Ou!Stop, Pays
<1>4. CASE top \in {1, 2}
  BY <1>1, <1>4 DEF Ou!Blended, Ou!Stop, Pays
<1> QED
  BY <1>2, <1>3, <1>4

\* Booking an event leaves a signal of which the history tells whether it paid.
LEMMA Booking ==
  ASSUME NEW r \in Signal, NEW event \in Exits, NEW top \in 0 .. 3, NEW price \in Int,
         top = 3 <=> event = "TP3", event = "SL" => (top >= 1 <=> r.hist.max >= 1)
  PROVE  LET q == Ou!Booked(r, event, top, price) IN
         /\ q \in Signal /\ q.kind = r.kind /\ q.filled = r.filled /\ q.fav = r.fav
         /\ q.hist.max = Ou!Higher(r.hist.max, Ou!Rank(event)) /\ Tells(q.hist)
         /\ event # "SL" => q.status = event
         /\ event = "SL" => q.status = "SL" \/ (top >= 1 /\ q.status = Ou!Target(top))
         /\ Pays /\ event \in {"TP3", "SL"} => (q.pnl > 0 <=> top >= 1)
<1> DEFINE final == event \in {"TP3", "SL"}
           pnl == IF final THEN Ou!Blended(top, event) ELSE 10 * price
           status == IF event = "SL" /\ top >= 1 /\ v2 THEN Ou!Target(top) ELSE event
           hist == Ou!RecordExit(r.hist, event, pnl)
           a == [r EXCEPT !.status = status]
           b == [a EXCEPT !.pnl = pnl]
           c == [b EXCEPT !.closed = @ \/ final]
           q == [c EXCEPT !.hist = Ou!RecordExit(@, event, pnl)]
<1>1. Ou!Booked(r, event, top, price) = q
  BY DEF Ou!Booked
<1>2. pnl \in Int /\ (Pays /\ final => (pnl > 0 <=> top >= 1))
  BY BlendedPays
<1>3. /\ status \in Statuses /\ (event # "SL" => status = event)
      /\ event = "SL" => status = "SL" \/ (top >= 1 /\ status = Ou!Target(top))
  <2>1. top >= 1 => Ou!Target(top) \in Targets
    BY DEF Ou!Target, Targets
  <2> QED
    BY <2>1 DEF Statuses, Exits, Targets
<1> HIDE DEF pnl, status
<1>4. a \in Signal /\ a.kind = r.kind /\ a.filled = r.filled /\ a.fav = r.fav /\ a.hist = r.hist /\ a.status = status
  BY <1>3 DEF Signal
<1> HIDE DEF a
<1>5. b \in Signal /\ b.kind = a.kind /\ b.filled = a.filled /\ b.fav = a.fav /\ b.hist = a.hist /\ b.status = a.status
      /\ b.pnl = pnl
  BY <1>2, <1>4 DEF Signal
<1> HIDE DEF b
<1>6. c \in Signal /\ c.kind = b.kind /\ c.filled = b.filled /\ c.fav = b.fav /\ c.hist = b.hist /\ c.status = b.status
      /\ c.pnl = b.pnl
  BY <1>5 DEF Signal
<1> HIDE DEF c, final
<1>7. r.hist \in Hist
  BY DEF Signal
<1>8. /\ hist \in Hist /\ hist.max = Ou!Higher(r.hist.max, Ou!Rank(event))
      /\ hist.final = event /\ hist.pnl = pnl
      /\ hist.max >= 1 => Ou!BucketOf(hist.outcome) = "WIN"
      /\ hist.max = 0 => hist.outcome = "LOSS"
  BY <1>2, <1>7, ExitRecorded
<1>9. Ou!RecordExit(c.hist, event, pnl) = hist
  BY <1>4, <1>5, <1>6
<1> HIDE DEF hist
<1>10. /\ q \in Signal /\ q.kind = c.kind /\ q.filled = c.filled /\ q.fav = c.fav /\ q.hist = hist
       /\ q.status = c.status /\ q.pnl = c.pnl
  BY <1>6, <1>8, <1>9 DEF Signal
<1> HIDE DEF q
<1>11. Tells(hist)
  <2>1. SUFFICES ASSUME Pays, event \in {"TP3", "SL"} PROVE pnl > 0 <=> Ou!BucketOf(hist.outcome) = "WIN"
    BY <1>8 DEF Tells
  <2>2. Ou!Rank(event) \in 0 .. 3
    BY RankIs DEF Exits
  <2>3. r.hist.max \in 0 .. 3 /\ hist.max \in 0 .. 3 /\ Ou!Rank(event) \in 0 .. 3
    BY <1>7, <1>8, <2>2 DEF Hist
  <2>4. top >= 1 <=> hist.max >= 1
    BY <1>8, <2>1, <2>3, HigherIs, RankIs
  <2>5. hist.outcome = "LOSS" => Ou!BucketOf(hist.outcome) # "WIN"
    BY DEF Ou!BucketOf
  <2>6. pnl > 0 <=> top >= 1
    BY <1>2, <2>1 DEF final
  <2> QED
    BY <1>8, <2>3, <2>4, <2>5, <2>6
<1>12. Pays /\ event \in {"TP3", "SL"} => (pnl > 0 <=> top >= 1)
  BY <1>2 DEF final
<1> QED
  BY <1>1, <1>3, <1>4, <1>5, <1>6, <1>8, <1>10, <1>11, <1>12

\* A poll: a new target, the stop, both or neither.
LEMMA PollStep == ASSUME StoryInv, Ou!Poll PROVE StoryInv' /\ (v1.status # "OPEN" => v1'.hist.max >= 1)
<1>1. PICK lo \in Int, price \in Int, hi \in Int :
        /\ hi <= 3 /\ price <= hi
        /\ LET top == Ou!Higher(Ou!Rank(v1.status), hi)
               seen == [v1 EXCEPT !.filled = TRUE, !.fav = Ou!Higher(@, hi)]
               reached == IF Ou!Advanced(v1, hi) THEN Ou!Booked(seen, Ou!Target(hi), top, price) ELSE seen
           IN  v1' = IF Ou!Stopped(v1, hi, lo) THEN Ou!Booked(reached, "SL", top, price)
                      ELSE IF Ou!Advanced(v1, hi) THEN reached ELSE [seen EXCEPT !.pnl = 10 * price]
  <2>1. PICK lo \in Ou!Prices, price \in Ou!Prices, hi \in Ou!Prices :
          /\ lo <= price /\ price <= hi
          /\ LET top == Ou!Higher(Ou!Rank(v1.status), hi)
                 seen == [v1 EXCEPT !.filled = TRUE, !.fav = Ou!Higher(@, hi)]
                 reached == IF Ou!Advanced(v1, hi) THEN Ou!Booked(seen, Ou!Target(hi), top, price) ELSE seen
             IN  v1' = IF Ou!Stopped(v1, hi, lo) THEN Ou!Booked(reached, "SL", top, price)
                        ELSE IF Ou!Advanced(v1, hi) THEN reached ELSE [seen EXCEPT !.pnl = 10 * price]
    BY DEF Ou!Poll
  <2>2. lo \in Int /\ price \in Int /\ hi \in Int /\ hi <= 3
    BY DEF Ou!Prices, Ou!Stop
  <2> QED
    BY <2>1, <2>2, Zenon
<1>2. hi <= 3 /\ price <= hi
  BY <1>1, Zenon
<1>3. v1.status \in {"OPEN", "TP1", "TP2"} /\ v3' = v3 /\ v2' = v2
  BY DEF Ou!Poll, Ou!Polled
<1>4. \/ v1.status = "OPEN" /\ Ou!Rank(v1.status) = 0
      \/ v1.status = "TP1" /\ Ou!Rank(v1.status) = 1
      \/ v1.status = "TP2" /\ Ou!Rank(v1.status) = 2
  BY <1>3, RankIs
<1>5. PICK pre \in 0 .. 2 : pre = Ou!Rank(v1.status)
  BY <1>4
<1>6. v1.fav \in 0 .. 3
  BY DEF StoryInv, Signal
<1>7. PICK top \in 0 .. 3 : top = Ou!Higher(pre, hi)
  BY <1>2 DEF Ou!Higher
<1>8. PICK fav \in 0 .. 3 : fav = Ou!Higher(v1.fav, hi)
  BY <1>2, <1>6 DEF Ou!Higher
<1> DEFINE target == Ou!Target(hi)
           further == Ou!Advanced(v1, hi)
           opened == [v1 EXCEPT !.filled = TRUE]
           seen == [opened EXCEPT !.fav = Ou!Higher(@, hi)]
           reached == IF further THEN Ou!Booked(seen, target, top, price) ELSE seen
           priced == [seen EXCEPT !.pnl = 10 * price]
<1>9. /\ v1' = IF Ou!Stopped(v1, hi, lo) THEN Ou!Booked(reached, "SL", top, price)
               ELSE IF further THEN reached ELSE priced
      /\ v3' = v3 /\ v2' = v2 /\ v1.status \in {"OPEN", "TP1", "TP2"}
  BY <1>1, <1>3, <1>5, <1>7
<1>10. /\ v1 \in Signal /\ v1.kind = "new" /\ v1.fav \in 0 .. 3 /\ v1.fav <= pre /\ v1.hist \in Hist /\ v1.hist.max \in 0 .. 3
       /\ v1.hist.max >= 1 <=> pre >= 1
       /\ (pre = 0 <=> v1.status = "OPEN") /\ Tells(v1.hist)
  <2>1. v1 \in Signal /\ v1.kind = "new" /\ v1.fav <= pre /\ Tells(v1.hist)
        /\ (v1.status = "OPEN" => v1.hist.max = 0) /\ (v1.status \in Targets => v1.hist.max >= 1)
    BY <1>9, <1>5 DEF StoryInv
  <2>2. v1.fav \in 0 .. 3 /\ v1.hist \in Hist /\ v1.hist.max \in 0 .. 3
    BY <2>1 DEF Signal, Hist
  <2>3. v1.hist.max >= 1 <=> pre >= 1
    BY <1>4, <1>5, <2>1, <2>2 DEF Targets
  <2>4. pre = 0 <=> v1.status = "OPEN"
    BY <1>4, <1>5
  <2> QED
    BY <2>1, <2>2, <2>3, <2>4
<1>11. /\ top >= pre /\ (hi > pre => top = hi) /\ (hi <= pre => top = pre)
       /\ fav <= top
  BY <1>10, <1>7, <1>8 DEF Ou!Higher
<1>12. further <=> hi > pre
  BY <1>5 DEF Ou!Advanced
<1>13. hi > pre => hi >= 1 /\ target \in Targets /\ Ou!Rank(target) = hi /\ (hi = 3 <=> target = "TP3")
  <2>1. hi > pre => hi = 1 \/ hi = 2 \/ hi = 3
    BY <1>2
  <2>2. hi = 1 => target = "TP1" /\ Ou!Rank(target) = 1
    BY RankIs DEF Ou!Target
  <2>3. hi = 2 => target = "TP2" /\ Ou!Rank(target) = 2
    BY RankIs DEF Ou!Target
  <2>4. hi = 3 => target = "TP3" /\ Ou!Rank(target) = 3
    BY RankIs DEF Ou!Target
  <2> HIDE DEF target
  <2> QED
    BY <2>1, <2>2, <2>3, <2>4 DEF Targets
<1>14. opened \in Signal /\ opened.kind = "new" /\ opened.filled = TRUE /\ opened.status = v1.status /\ opened.fav = v1.fav /\ opened.hist = v1.hist
  BY <1>10 DEF Signal
<1> HIDE DEF opened
<1>15. seen \in Signal /\ seen.kind = "new" /\ seen.filled = TRUE /\ seen.status = v1.status /\ seen.fav = fav /\ seen.hist = v1.hist
  <2>1. Ou!Higher(opened.fav, hi) = fav
    BY <1>14, <1>8
  <2> QED
    BY <1>11, <1>14, <2>1 DEF Signal
<1> HIDE DEF seen, target, further
<1>16. 10 * price \in Int
  OBVIOUS
<1>17. further => hi > pre /\ top = hi /\ top >= 1
  BY <1>11, <1>12
<1>18. ~further => hi <= pre /\ top = pre
  BY <1>11, <1>12
<1>19. ASSUME further
       PROVE  /\ reached \in Signal /\ reached.kind = "new" /\ reached.filled /\ reached.fav = fav
              /\ reached.hist.max >= 1 /\ Tells(reached.hist) /\ reached.status = target
              /\ reached.status \in Targets /\ Ou!Rank(reached.status) = top
              /\ Pays /\ reached.status = "TP3" => reached.pnl > 0
  <2>1. target \in Targets /\ Ou!Rank(target) = top /\ (top = 3 <=> target = "TP3") /\ top >= 1
    BY <1>10, <1>13, <1>19, <1>17
  <2>2. target \in Exits /\ target # "SL"
    BY <2>1 DEF Targets, Exits
  <2> DEFINE b == Ou!Booked(seen, target, top, price)
  <2>3. /\ b \in Signal /\ b.kind = seen.kind /\ b.filled = seen.filled /\ b.fav = seen.fav
        /\ b.hist.max = Ou!Higher(seen.hist.max, Ou!Rank(target)) /\ Tells(b.hist)
        /\ b.status = target /\ (Pays /\ target = "TP3" => (b.pnl > 0 <=> top >= 1))
    <3>1. PICK r \in Signal, event \in Exits : r = seen /\ event = target
      BY <1>15, <2>2
    <3>2. (top = 3 <=> event = "TP3") /\ (event = "SL" => (top >= 1 <=> r.hist.max >= 1))
      BY <2>1, <2>2, <3>1
    <3> DEFINE c == Ou!Booked(r, event, top, price)
    <3>3. /\ c \in Signal /\ c.kind = r.kind /\ c.filled = r.filled /\ c.fav = r.fav
          /\ c.hist.max = Ou!Higher(r.hist.max, Ou!Rank(event)) /\ Tells(c.hist)
          /\ event # "SL" => c.status = event
          /\ Pays /\ event \in {"TP3", "SL"} => (c.pnl > 0 <=> top >= 1)
      BY <3>2, Booking
    <3>4. c = b
      BY <3>1
    <3> HIDE DEF b, c
    <3> QED
      BY <2>2, <3>1, <3>3, <3>4
  <2>4. reached = b
    BY <1>19
  <2> HIDE DEF b
  <2>5. b.hist.max >= 1
    <3>1. seen.hist.max \in 0 .. 3
      BY <1>10, <1>15
    <3>2. Ou!Higher(seen.hist.max, top) >= top
      BY <1>11, <3>1, HigherIs
    <3>3. b.hist.max \in 0 .. 3
      BY <2>3 DEF Signal, Hist
    <3> QED
      BY <1>11, <2>1, <2>3, <3>2, <3>3
  <2> HIDE DEF reached
  <2> QED
    BY <1>15, <2>1, <2>4, <2>3, <2>5
<1>20. reached \in Signal /\ reached.kind = "new" /\ reached.filled /\ reached.fav = fav /\ (reached.hist.max >= 1 <=> top >= 1)
       /\ reached.hist.max \in 0 .. 3
  <2>1. CASE further
    BY <1>19, <1>17, <2>1 DEF Signal, Hist
  <2>2. CASE ~further
    BY <1>10, <1>15, <1>18, <2>2
  <2> QED
    BY <2>1, <2>2
<1>21. v3 # <<>> => Head(v3) \in Hist /\ Head(v3).max >= 1 /\ Tells(Head(v3))
  BY <1>10 DEF StoryInv
<1>22. v1.status = "OPEN" => v3 = <<>> /\ ~v1.hist.sl
  BY DEF StoryInv
<1>23. CASE Ou!Stopped(v1, hi, lo)
  <2> DEFINE q == Ou!Booked(reached, "SL", top, price)
  <2>1. hi < 3 /\ top # 3
    BY <1>10, <1>11, <1>23 DEF Ou!Stopped
  <2>2. "SL" \in Exits /\ "SL" # "TP3"
    BY DEF Exits
  <2>3. /\ q \in Signal /\ q.kind = "new" /\ q.filled /\ q.fav = fav
        /\ q.hist.max = Ou!Higher(reached.hist.max, Ou!Rank("SL")) /\ Tells(q.hist)
        /\ q.status = "SL" \/ (top >= 1 /\ q.status = Ou!Target(top))
        /\ Pays => (q.pnl > 0 <=> top >= 1)
    <3> HIDE DEF reached
    <3>1. top \in 0 .. 3 /\ reached \in Signal /\ price \in Int /\ "SL" \in Exits
      BY <1>11, <1>16, <1>20, <2>2
    <3>2. (top = 3 <=> "SL" = "TP3") /\ (top >= 1 <=> reached.hist.max >= 1)
      BY <1>20, <2>1
    <3>3. "SL" \in {"TP3", "SL"} /\ ~("SL" # "SL")
      OBVIOUS
    <3>4. /\ q \in Signal /\ q.kind = reached.kind /\ q.filled = reached.filled /\ q.fav = reached.fav
          /\ q.hist.max = Ou!Higher(reached.hist.max, Ou!Rank("SL")) /\ Tells(q.hist)
          /\ q.status = "SL" \/ (top >= 1 /\ q.status = Ou!Target(top))
          /\ Pays => (q.pnl > 0 <=> top >= 1)
      BY <3>1, <3>2, Booking
    <3> HIDE DEF q
    <3> QED
      BY <1>20, <3>4
  <2> HIDE DEF q, reached
  <2>4. q.hist.max = reached.hist.max
    BY <1>20, <2>3, RankIs DEF Ou!Higher
  <2>5. v1' = q
    BY <1>9, <1>23 DEF q
  <2>6. q.status = "SL" \/ (top \in {1, 2} /\ q.status \in {"TP1", "TP2"} /\ Ou!Rank(q.status) = top)
    <3>1. top >= 1 => top \in {1, 2}
      BY <1>11, <2>1
    <3> QED
      BY <2>3, <3>1, RankIs DEF Ou!Target
  <2>7. q.status \notin {"OPEN", "EXPIRED", "TP3"} /\ (q.status \in Targets => q.hist.max >= 1)
    BY <1>20, <2>4, <2>6 DEF Targets
  <2>8. q.status \in {"TP1", "TP2"} => q.fav <= Ou!Rank(q.status)
    BY <1>11, <2>3, <2>6
  <2>9. Pays /\ q.fav >= 1 => q.pnl > 0
    BY <1>11, <2>3
  <2>10. v1.status # "OPEN" => q.hist.max >= 1
    BY <1>10, <1>11, <1>20, <2>4
  <2>11. StoryInv'
    BY <1>9, <1>21, <2>3, <2>5, <2>7, <2>8, <2>9 DEF StoryInv
  <2> QED
    BY <2>5, <2>10, <2>11
<1>24. CASE ~Ou!Stopped(v1, hi, lo) /\ further
  <2>1. v1' = reached
    BY <1>9, <1>24
  <2> HIDE DEF reached
  <2>2. StoryInv'
    BY <1>9, <1>11, <1>19, <1>21, <1>24, <2>1 DEF StoryInv, Exits, Targets
  <2> QED
    BY <1>19, <1>24, <2>1, <2>2
<1>25. CASE ~Ou!Stopped(v1, hi, lo) /\ ~further
  <2>1. v1' = priced
    BY <1>9, <1>25
  <2>2. priced \in Signal /\ priced.kind = "new" /\ priced.filled /\ priced.status = v1.status /\ priced.fav = fav /\ priced.hist = v1.hist
    BY <1>15, <1>16 DEF Signal
  <2> HIDE DEF priced
  <2>3. hi <= pre /\ top = pre
    BY <1>25, <1>18
  <2>4. fav <= Ou!Rank(v1.status)
    BY <1>10, <1>11, <1>5, <2>3
  <2>5. v1.hist.max = 0 \/ v1.status # "OPEN"
    BY <1>10
  <2>6. v1.status \in Targets => v1.hist.max >= 1
    BY <1>10 DEF StoryInv
  <2>7. v1.status = "OPEN" => priced.fav = 0
    BY <1>10, <1>11, <2>2, <2>3
  <2>8. v1.status # "EXPIRED" /\ v1.status # "TP3" /\ v1.status # "SL"
    BY <1>9
  <2>9. StoryInv'
    BY <1>9, <1>10, <1>21, <1>22, <2>1, <2>2, <2>4, <2>5, <2>6, <2>7, <2>8 DEF StoryInv
  <2>10. v1.status # "OPEN" => priced.hist.max >= 1
    BY <1>10, <2>2
  <2> QED
    BY <2>1, <2>9, <2>10
<1> QED
  BY <1>23, <1>24, <1>25

\* What the backfill plans to write has a target, and is written of rows that reached one.
LEMMA BackfillReadsStep == ASSUME StoryInv, Ou!BackfillReads PROVE StoryInv'
<1>1. v3' = <<Ou!Rebuilt(v1)>> /\ v1' = v1 /\ Ou!Inferred(v1) >= 1
  BY DEF Ou!BackfillReads
<1>2. v1 \in Signal /\ v1.hist \in Hist /\ v1.fav \in 0 .. 3 /\ v1.pnl \in Int /\ v1.status \in Statuses
  BY DEF StoryInv, Signal
<1>3. Ou!Rank(v1.status) \in 0 .. 3
  BY <1>2, RankIs DEF Statuses
<1>4. PICK k \in 1 .. 3 : k = Ou!Inferred(v1)
  BY <1>1, <1>2, <1>3, HigherIs DEF Ou!Inferred
<1>5. Ou!Target(k) \in Targets /\ Ou!Rank(Ou!Target(k)) = k /\ (k = 3 <=> Ou!Target(k) = "TP3")
  BY RankIs DEF Ou!Target, Targets
<1>6. PICK event \in Exits : event = Ou!Target(k)
  BY <1>5 DEF Targets, Exits
<1> DEFINE reached == Ou!RecordExit(v1.hist, event, v1.pnl)
           ended == IF v1.status = "SL" THEN Ou!RecordExit(reached, "SL", v1.pnl) ELSE reached
           rebuilt == [ended EXCEPT !.again = TRUE]
<1>7. Ou!Rebuilt(v1) = rebuilt
  BY <1>4, <1>6 DEF Ou!Rebuilt
<1>8. /\ reached \in Hist /\ reached.max >= 1 /\ reached.final = event /\ reached.pnl = v1.pnl
      /\ Ou!BucketOf(reached.outcome) = "WIN"
  <2>1. v1.hist.max \in 0 .. 3
    BY <1>2 DEF Hist
  <2>2. Ou!Higher(v1.hist.max, k) >= k
    BY <2>1, HigherIs
  <2>3. /\ reached \in Hist /\ reached.max = Ou!Higher(v1.hist.max, Ou!Rank(event))
        /\ reached.final = event /\ reached.pnl = v1.pnl
        /\ reached.max >= 1 => Ou!BucketOf(reached.outcome) = "WIN"
    BY <1>2, ExitRecorded
  <2>4. reached.max \in 0 .. 3
    BY <2>3 DEF Hist
  <2> QED
    BY <1>5, <1>6, <2>2, <2>3, <2>4
<1> HIDE DEF reached
<1>9. /\ ended \in Hist /\ ended.max >= 1 /\ ended.pnl = v1.pnl /\ Ou!BucketOf(ended.outcome) = "WIN"
      /\ ended.final = IF v1.status = "SL" THEN "SL" ELSE event
  <2>1. CASE v1.status # "SL"
    BY <1>8, <2>1
  <2>2. CASE v1.status = "SL"
    <3> DEFINE h == Ou!RecordExit(reached, "SL", v1.pnl)
    <3>1. "SL" \in Exits /\ reached.max \in 0 .. 3
      BY <1>8 DEF Exits, Hist
    <3>2. /\ h \in Hist /\ h.max = Ou!Higher(reached.max, Ou!Rank("SL")) /\ h.final = "SL" /\ h.pnl = v1.pnl
          /\ h.max >= 1 => Ou!BucketOf(h.outcome) = "WIN"
      BY <1>2, <1>8, <3>1, ExitRecorded
    <3>3. h.max >= 1
      BY <1>8, <3>1, <3>2, RankIs DEF Ou!Higher
    <3>4. ended = h
      BY <2>2
    <3> HIDE DEF h
    <3> QED
      BY <2>2, <3>2, <3>3, <3>4
  <2> QED
    BY <2>1, <2>2
<1> HIDE DEF ended
<1>10. rebuilt \in Hist /\ rebuilt.max = ended.max /\ rebuilt.pnl = ended.pnl /\ rebuilt.outcome = ended.outcome
       /\ rebuilt.final = ended.final
  BY <1>9 DEF Hist
<1> HIDE DEF rebuilt
<1>11. v1.status \notin {"EXPIRED", "OPEN"}
  <2> SUFFICES ASSUME v1.status \in {"EXPIRED", "OPEN"} PROVE FALSE
    OBVIOUS
  <2>1. v1.fav = 0 /\ Ou!Rank(v1.status) = 0
    BY RankIs DEF StoryInv
  <2> QED
    BY <1>1, <2>1 DEF Ou!Inferred, Ou!Higher
<1>12. v1.kind = "new" => Tells(rebuilt)
  <2> SUFFICES ASSUME Pays, v1.kind = "new", rebuilt.final \in {"TP3", "SL"} PROVE v1.pnl > 0
    BY <1>9, <1>10 DEF Tells
  <2>1. CASE v1.status = "SL"
    <3>1. v1.fav >= 1
      BY <1>2, <1>4, <2>1, RankIs DEF Ou!Inferred, Ou!Higher
    <3> QED
      BY <2>1, <3>1 DEF StoryInv
  <2>2. CASE v1.status # "SL"
    <3>1. event = "TP3"
      BY <1>6, <1>5, <1>9, <1>10, <2>2 DEF Targets
    <3>2. k = 3
      BY <1>5, <1>6, <3>1
    <3>3. v1.fav = 3 \/ Ou!Rank(v1.status) = 3
      BY <1>2, <1>3, <1>4, <3>2, HigherIs DEF Ou!Inferred
    <3>4. v1.status \notin {"EXPIRED", "OPEN"}
      BY <1>11
    <3>5. v1.status = "TP3"
      <4>1. v1.status \notin {"TP1", "TP2"}
        <5> SUFFICES ASSUME v1.status \in {"TP1", "TP2"} PROVE FALSE
          OBVIOUS
        <5>1. v1.fav <= Ou!Rank(v1.status) /\ Ou!Rank(v1.status) <= 2
          BY RankIs DEF StoryInv
        <5> QED
          BY <1>2, <1>3, <3>3, <5>1
      <4> QED
        BY <1>2, <2>2, <3>4, <4>1 DEF Statuses
    <3> QED
      BY <3>5 DEF StoryInv
  <2> QED
    BY <2>1, <2>2
<1> QED
  <2>1. Head(v3') = rebuilt
    BY <1>1, <1>7
  <2> QED
    BY <1>1, <1>9, <1>10, <1>12, <1>11, <2>1 DEF StoryInv

\* A signal that was never filled has reached nothing.
LEMMA PollUnfilledStep == ASSUME StoryInv, Ou!PollUnfilled PROVE StoryInv'
<1> DEFINE a == [v1 EXCEPT !.status = "EXPIRED"]
           b == [a EXCEPT !.closed = TRUE]
           c == [b EXCEPT !.pnl = 0]
<1>1. /\ v1' = c /\ v3' = v3 /\ ~v1.filled /\ v1.status \in {"OPEN", "TP1", "TP2"}
  BY DEF Ou!PollUnfilled, Ou!Polled
<1>2. v1.status = "OPEN"
  BY <1>1 DEF StoryInv, Exits
<1>3. v1 \in Signal /\ v1.hist.max = 0 /\ ~v1.hist.sl /\ v1.fav = 0 /\ v3 = <<>> /\ v1.kind = "new" /\ Tells(v1.hist)
  BY <1>2 DEF StoryInv
<1>4. a \in Signal /\ a.status = "EXPIRED" /\ a.hist = v1.hist /\ a.fav = v1.fav /\ a.kind = v1.kind
  BY <1>3 DEF Signal, Statuses
<1> HIDE DEF a
<1>5. b \in Signal /\ b.status = "EXPIRED" /\ b.hist = v1.hist /\ b.fav = v1.fav /\ b.kind = v1.kind
  BY <1>4 DEF Signal
<1> HIDE DEF b
<1>6. c \in Signal /\ c.status = "EXPIRED" /\ c.hist = v1.hist /\ c.fav = v1.fav /\ c.kind = v1.kind /\ c.pnl = 0
  BY <1>5 DEF Signal
<1> HIDE DEF c
<1> QED
  BY <1>1, <1>3, <1>6 DEF StoryInv, Targets, Exits

\* The planned history may be older than the row, and still tells the same.
LEMMA BackfillWritesStep == ASSUME StoryInv, Ou!BackfillWrites PROVE StoryInv'
<1>1. v3 # <<>> /\ v3' = <<>> /\ v1' = [v1 EXCEPT !.hist = Head(v3)]
  BY DEF Ou!BackfillWrites
<1>2. PICK written \in Hist : written = Head(v3) /\ written.max >= 1 /\ (v1.kind = "new" => Tells(written))
  BY <1>1 DEF StoryInv
<1>3. v1 \in Signal /\ v1.status \notin {"OPEN", "EXPIRED"}
  BY <1>1 DEF StoryInv
<1> DEFINE a == [v1 EXCEPT !.hist = written]
<1>4. /\ a \in Signal /\ a.kind = v1.kind /\ a.status = v1.status /\ a.filled = v1.filled
      /\ a.pnl = v1.pnl /\ a.fav = v1.fav /\ a.hist = written
  BY <1>3 DEF Signal
<1>5. v1' = a
  BY <1>1, <1>2
<1> HIDE DEF a
<1> QED
  BY <1>1, <1>2, <1>3, <1>4, <1>5 DEF StoryInv

\* One case for each action.
LEMMA OutcomesNext ==
  ASSUME StoryInv, [Ou!Next]_(Ou!vars)
  PROVE  StoryInv'
<1>1. CASE Ou!PollUnfilled
  BY <1>1, PollUnfilledStep
<1>2. CASE Ou!Poll
  BY <1>2, PollStep
<1>3. CASE Ou!BackfillReads
  BY <1>3, BackfillReadsStep
<1>4. CASE Ou!BackfillWrites
  BY <1>4, BackfillWritesStep
<1>5. CASE Ou!RebuildStats
  BY <1>5 DEF Ou!RebuildStats, StoryInv
<1>6. CASE UNCHANGED Ou!vars
  BY <1>6 DEF Ou!vars, StoryInv
<1> QED
  BY <1>1, <1>2, <1>3, <1>4, <1>5, <1>6 DEF Ou!Next

\* The buckets of the three kinds of rows that a report may leave out.
LEMMA BucketOfRow ==
  ASSUME StoryInv
  PROVE  /\ v1.status = "OPEN" => Ou!Bucket(v1) = "OPEN"
         /\ v1.status = "EXPIRED" => Ou!Bucket(v1) = "BREAKEVEN"
<1>1. v1.status \in {"OPEN", "EXPIRED"} => v1.hist.max = 0 /\ ~v1.hist.sl
  BY DEF StoryInv
<1>2. v1.status \in {"OPEN", "EXPIRED"} => Ou!MaxTp(v1.status, v1.hist) = 0
  BY <1>1, RankIs DEF Ou!MaxTp, Ou!Higher
<1>3. ASSUME v1.status = "OPEN" PROVE Ou!Classify("OPEN", v1.hist, v1.pnl) = "OPEN"
  BY <1>1, <1>2, <1>3 DEF Ou!Classify
<1>4. ASSUME v1.status = "EXPIRED" PROVE Ou!Classify("EXPIRED", v1.hist, v1.pnl) = "BREAKEVEN"
  <2>1. v1.pnl = 0
    BY <1>4 DEF StoryInv
  <2> QED
    BY <1>1, <1>2, <1>4, <2>1 DEF Ou!Classify
<1>5. v1.status = "OPEN" => Ou!Bucket(v1) = "OPEN"
  BY <1>3 DEF Ou!Bucket, Ou!BucketOf
<1>6. v1.status = "EXPIRED" => Ou!Bucket(v1) = "BREAKEVEN"
  BY <1>4 DEF Ou!Bucket, Ou!BucketOf
<1> QED
  BY <1>5, <1>6

\* The reports differ in which rows they leave out, and those are neither won nor lost.
LEMMA StoryIsOne == ASSUME Pays, StoryInv PROVE Ou!OneStory
<1> DEFINE counted == Ou!Decided(v1)
           bucket == Ou!Bucket(v1)
<1>1. counted \/ (bucket # "WIN" /\ bucket # "LOSS")
  <2>1. v1.status \in Statuses
    BY DEF StoryInv, Signal
  <2> QED
    BY <2>1, BucketOfRow DEF Ou!Decided, Ou!Targets, Statuses
<1>2. v1.status # "OPEN" \/ (bucket # "WIN" /\ bucket # "LOSS")
  BY BucketOfRow
<1>3. ASSUME NEW a \in Ou!Reports(v1)
      PROVE  a.win = (bucket = "WIN") /\ a.loss = (bucket = "LOSS")
  <2>1. \/ a = Ou!Tally(counted, v1)
        \/ a = Ou!Tally(v1.status # "OPEN", v1)
        \/ a = Ou!Tally(counted \/ v1.status = "EXPIRED", v1)
        \/ a = Ou!Tally(TRUE, v1)
    BY <1>3 DEF Ou!Reports, Ou!WinrateAnalysis, Ou!PerformanceStats, Ou!ReportStats, Ou!DashboardStats,
         Ou!BacktestStats, Ou!PublicStats, Ou!DailyCard, Ou!WeeklyCard, Ou!WinrateSummary,
         Ou!SymbolReport, Ou!ScoringReport, Ou!PerformanceCenter, Ou!DailyReport
  <2>2. ASSUME NEW c, c \/ (bucket # "WIN" /\ bucket # "LOSS")
        PROVE  Ou!Tally(c, v1).win = (bucket = "WIN") /\ Ou!Tally(c, v1).loss = (bucket = "LOSS")
    <3>1. Ou!Tally(c, v1).win = (c /\ bucket = "WIN") /\ Ou!Tally(c, v1).loss = (c /\ bucket = "LOSS")
      BY DEF Ou!Tally
    <3> HIDE DEF bucket
    <3> QED
      BY <2>2, <3>1, Zenon
  <2> HIDE DEF counted, bucket
  <2> QED
    BY <1>1, <1>2, <2>1, <2>2, Zenon
<1>4. \A a, b \in Ou!Reports(v1) : a.win = b.win /\ a.loss = b.loss
  BY <1>3
<1>5. v1.kind = "new" /\ v1.hist.final \in {"TP3", "SL"} =>
         (v1.hist.pnl > 0 <=> Ou!BucketOf(v1.hist.outcome) = "WIN")
  BY DEF StoryInv, Tells
<1> QED
  BY <1>4, <1>5, Zenon DEF Ou!OneStory

\* With a share booked at the first target and the stop moved to the entry after it, all the
\* reports count a signal alike, and a trade that ended is a win in them if and only if it paid
\* (OneStory): for any shares and policy, whatever the price does.
THEOREM OneStoryTold == BreakEvenStop /\ FirstShare > 0 => (Spec => []OneStory)
<1> SUFFICES ASSUME BreakEvenStop, FirstShare > 0 PROVE Spec => []OneStory
  OBVIOUS
<1>0. Pays
  BY DEF Pays
<1> DEFINE I == topic = "outcomes" => StoryInv
<1>1. Init => I
  BY OutcomesRun, OutcomesInit
<1>2. I /\ [Next]_vars => I'
  <2> SUFFICES ASSUME I, [Next]_vars, topic' = "outcomes" PROVE StoryInv'
    OBVIOUS
  <2>1. topic = "outcomes" /\ [Ou!Next]_(Ou!vars) /\ StoryInv
    BY OutcomesRun
  <2> QED
    BY <2>1, OutcomesNext
<1>3. I => OneStory
  BY <1>0, StoryIsOne DEF OneStory
<1> QED
  BY <1>1, <1>2, <1>3, PTL DEF Spec

\* A signal counts as a win when a target is in its history or in its status: one that ended
\* without either was stopped, or expired with nothing booked.
WonAt(r) == r.hist.max >= 1 \/ r.status \in Targets

LEMMA WonIs ==
  ASSUME NEW r \in Signal,
         r.status \in {"OPEN", "EXPIRED"} => r.hist.max = 0 /\ ~r.hist.sl,
         r.status = "EXPIRED" => r.pnl = 0
  PROVE  Ou!Bucket(r) = "WIN" <=> WonAt(r)
<1> DEFINE top == Ou!MaxTp(r.status, r.hist)
<1>1. r.hist \in Hist /\ r.hist.max \in 0 .. 3 /\ r.status \in Statuses
  BY DEF Signal, Hist
<1>2. Ou!Rank(r.status) \in 0 .. 3 /\ (Ou!Rank(r.status) >= 1 <=> r.status \in Targets)
  BY <1>1, RankIs DEF Statuses, Targets
<1>3. top \in 0 .. 3 /\ (top >= 1 <=> WonAt(r))
  BY <1>1, <1>2, HigherIs DEF Ou!MaxTp, WonAt
<1>4. Ou!Bucket(r) = Ou!BucketOf(Ou!Classify(r.status, r.hist, r.pnl))
  BY DEF Ou!Bucket
<1>5. CASE top >= 1
  <2>1. Ou!Classify(r.status, r.hist, r.pnl) \in {"FULL_WIN", "WIN", "PARTIAL_WIN"}
    <3>1. top = 1 \/ top = 2 \/ top = 3
      BY <1>3, <1>5
    <3> QED
      BY <3>1 DEF Ou!Classify
  <2> QED
    BY <1>3, <1>4, <1>5, <2>1 DEF Ou!BucketOf
<1>6. CASE top = 0
  <2>1. Ou!Classify(r.status, r.hist, r.pnl) \in {"LOSS", "OPEN", "BREAKEVEN"}
    <3>1. r.status \in {"OPEN", "SL", "EXPIRED"}
      BY <1>1, <1>3, <1>6 DEF WonAt, Statuses, Targets
    <3>2. CASE r.status = "OPEN"
      BY <1>6, <3>2 DEF Ou!Classify
    <3>3. CASE r.status = "SL"
      BY <1>6, <3>3 DEF Ou!Classify
    <3>4. CASE r.status = "EXPIRED"
      BY <1>6, <3>4 DEF Ou!Classify
    <3> QED
      BY <3>1, <3>2, <3>3, <3>4
  <2>2. Ou!Classify(r.status, r.hist, r.pnl) \notin {"FULL_WIN", "WIN", "PARTIAL_WIN"}
        /\ Ou!Classify(r.status, r.hist, r.pnl) # "WIN"
    BY <2>1
  <2> QED
    BY <1>3, <1>4, <1>6, <2>2 DEF Ou!BucketOf
<1> QED
  BY <1>3, <1>5, <1>6

\* No step loses the target: a poll adds to the history, and what a backfill writes has one.
LEMMA WonStays ==
  ASSUME StoryInv, StoryInv', [Ou!Next]_(Ou!vars), Ou!Bucket(v1) = "WIN"
  PROVE  Ou!Bucket(v1') = "WIN"
<1>1. WonAt(v1)
  BY WonIs DEF StoryInv
<1>2. v1.status # "OPEN"
  BY <1>1 DEF StoryInv, WonAt, Targets
<1>3. WonAt(v1')
  <2>1. CASE Ou!PollUnfilled
    <3>1. ~v1.filled /\ v1.status \in {"TP1", "TP2"}
      BY <1>2, <2>1 DEF Ou!PollUnfilled, Ou!Polled
    <3> QED
      BY <3>1 DEF StoryInv, Exits
  <2>2. CASE Ou!Poll
    BY <1>2, <2>2, PollStep DEF WonAt
  <2>3. CASE Ou!BackfillReads
    BY <1>1, <2>3 DEF Ou!BackfillReads, WonAt
  <2>4. CASE Ou!BackfillWrites
    <3>1. PICK h : h = Head(v3)
      OBVIOUS
    <3>2. v1' = [v1 EXCEPT !.hist = h] /\ h.max >= 1 /\ v1 \in Signal
      BY <2>4, <3>1 DEF Ou!BackfillWrites, StoryInv
    <3>3. v1'.hist = h
      BY <3>2 DEF Signal
    <3> QED
      BY <3>2, <3>3 DEF WonAt
  <2>5. CASE Ou!RebuildStats
    BY <1>1, <2>5 DEF Ou!RebuildStats, WonAt
  <2>6. CASE UNCHANGED Ou!vars
    BY <1>1, <2>6 DEF Ou!vars, WonAt
  <2> QED
    BY <2>1, <2>2, <2>3, <2>4, <2>5, <2>6 DEF Ou!Next
<1>4. PICK r : r = v1'
  OBVIOUS
<1>5. /\ r \in Signal
      /\ r.status \in {"OPEN", "EXPIRED"} => r.hist.max = 0 /\ ~r.hist.sl
      /\ r.status = "EXPIRED" => r.pnl = 0
  BY <1>4 DEF StoryInv
<1>6. Ou!Bucket(r) = "WIN"
  BY <1>3, <1>4, <1>5, WonIs
<1> QED
  BY <1>4, <1>6

\* A win is never taken back, neither by a later stop nor by a history that is written over a
\* newer one (WinsStayWins of Outcomes): for any shares and policy, also without break-even.
THEOREM WinsAreKept == Spec => WinsStayWins
<1> DEFINE I == topic = "outcomes" => StoryInv
           Kept == topic = "outcomes" => (Ou!Bucket(v1) = "WIN" => Ou!Bucket(v1') = "WIN")
<1>1. Init => I
  BY OutcomesRun, OutcomesInit
<1>2. I /\ [Next]_vars => I' /\ [Kept]_vars
  <2> SUFFICES ASSUME I, [Next]_vars, topic = "outcomes", topic' = topic
               PROVE  StoryInv' /\ (Ou!Bucket(v1) = "WIN" => Ou!Bucket(v1') = "WIN")
    BY OutcomesRun
  <2>1. [Ou!Next]_(Ou!vars) /\ StoryInv
    BY OutcomesRun
  <2>2. StoryInv'
    BY <2>1, OutcomesNext
  <2> QED
    BY <2>1, <2>2, WonStays
<1> QED
  BY <1>1, <1>2, PTL DEF Spec, WinsStayWins

-----------------------------------------------------------------------------
(* Accounting: v1 is where each close is, v2 its gross result, v3 the row  *)
(* of the day it read, v4 the committed row, v5 who has flushed, v6 the    *)
(* commits since a close read, v7 whether closes overlapped.               *)

LEMMA AccountingRuns ==
  /\ Init /\ topic = "accounting" => Ac!Init
  /\ [Next]_vars /\ topic' = "accounting" => topic = "accounting" /\ [Ac!Next]_(Ac!vars)
BY DEF Init, Next, vars, Ac!vars

Ledger == Ac!Total(Ac!Done)
Booked == Cardinality(Ac!Done)
Wins   == Ac!WinsIn(Ac!Done)

Places == {"idle", "sent", "read", "flushed", "broken", "done", "rolled back"}
DayRow == [net : Int, trades : Nat, wins : Nat, losses : Nat]
\* A row of the day or none, and what it tells.
Days   == {<<>>} \cup {<<r>> : r \in DayRow}
Told(d) == IF d = <<>> THEN Ac!Fresh ELSE d[1]
Within(r) == r.trades <= Booked /\ r.wins <= Wins /\ r.losses <= Booked - Wins

\* A row that was read tells no more than the ledger of now; it is still the committed one
\* unless a close committed in between, which it will know when it commits.
DayInv ==
    /\ v1 \in [Closes -> Places] /\ v2 \in [Closes -> Gross] /\ v3 \in [Closes -> Days] /\ v4 \in Days
    /\ v6 \in [Closes -> Nat] /\ v7 \in BOOLEAN
    /\ IsFiniteSet(Ac!Won(Ac!Done)) /\ IsFiniteSet(Ac!Lost(Ac!Done))
    /\ Within(Told(v4))
    /\ \A c \in Closes :
         /\ v1[c] \in {"read", "flushed"} => Within(Told(v3[c])) /\ (v6[c] = 0 => v3[c] = v4)
         /\ v1[c] = "flushed" => v5 = c
    /\ ~v7 => Told(v4) = [net |-> Ledger, trades |-> Booked, wins |-> Wins, losses |-> Booked - Wins]

\* The cents of one close.
LEMMA CentsOf ==
  ASSUME NEW c, NEW n \in Int
  PROVE  IsFiniteSet({c} \X (1 .. n)) /\ Cardinality({c} \X (1 .. n)) = IF n >= 0 THEN n ELSE 0
<1>1. IsFiniteSet(1 .. n) /\ Cardinality(1 .. n) = IF n >= 0 THEN n ELSE 0
  BY FS_Interval
<1>2. IsFiniteSet({c}) /\ Cardinality({c}) = 1
  BY FS_Singleton
<1>3. IsFiniteSet({c} \X (1 .. n)) /\ Cardinality({c} \X (1 .. n)) = Cardinality({c}) * Cardinality(1 .. n)
  BY <1>1, <1>2, FS_Product
<1> QED
  BY <1>1, <1>2, <1>3

\* The cents of one close more.
LEMMA CentsMore ==
  ASSUME NEW S, NEW c, c \notin S, NEW f, f[c] \in Int,
         NEW U, U = UNION {{d} \X (1 .. f[d]) : d \in S}, IsFiniteSet(U),
         NEW V, V = UNION {{d} \X (1 .. f[d]) : d \in S \cup {c}}
  PROVE  IsFiniteSet(V) /\ Cardinality(V) = Cardinality(U) + (IF f[c] >= 0 THEN f[c] ELSE 0)
<1> DEFINE W == {c} \X (1 .. f[c])
<1>1. V = U \cup W
  OBVIOUS
<1>2. \A x \in U : x[1] \in S
  OBVIOUS
<1>3. \A x \in W : x[1] = c
  OBVIOUS
<1>4. IsFiniteSet(W) /\ Cardinality(W) = IF f[c] >= 0 THEN f[c] ELSE 0
  BY CentsOf
<1> HIDE DEF W
<1>5. U \cap W = {}
  BY <1>2, <1>3
<1>6. Cardinality(U \cup W) = Cardinality(U) + Cardinality(W)
  <2>1. Cardinality(U \cup W) = Cardinality(U) + Cardinality(W) - Cardinality(U \cap W)
    BY <1>4, FS_Union
  <2>2. Cardinality(U \cap W) = 0 /\ Cardinality(U) \in Nat /\ Cardinality(W) \in Nat
    BY <1>4, <1>5, FS_EmptySet, FS_CardinalityType
  <2> QED
    BY <2>1, <2>2
<1>7. IsFiniteSet(U \cup W)
  BY <1>4, FS_Union
<1> QED
  BY <1>1, <1>4, <1>6, <1>7

\* The counts of the instance are those of the library.
LEMMA SameCounts ==
  /\ \A S : Ac!IsFiniteSet(S) <=> IsFiniteSet(S)
  /\ \A S : Ac!Cardinality(S) = Cardinality(S)
BY DEF IsFiniteSet, Ac!IsFiniteSet, Cardinality, Ac!Cardinality

LEMMA ClosesAre == IsFiniteSet(Closes) /\ Ac!None \notin Closes /\ Gross \in SUBSET Int /\ Fee \in Int
<1>1. Ac!ConstantsOK
  BY ConstantsAssumption
<1>2. IsFiniteSet(Closes) /\ Ac!None \notin Closes
  BY <1>1, SameCounts DEF Ac!ConstantsOK
<1>3. Gross \subseteq Int /\ Fee \in Nat
  BY <1>1 DEF Ac!ConstantsOK
<1> QED
  BY <1>2, <1>3

\* The closes that are booked: finitely many, with results in cents.
LEMMA BookedAre ==
  ASSUME DayInv
  PROVE  /\ Ac!Done \subseteq Closes /\ IsFiniteSet(Ac!Done) /\ Booked \in Nat
         /\ \A c \in Closes : Ac!NetOf(c) \in Int
         /\ Wins \in Nat /\ Ledger \in Int
<1>1. Ac!Done \in SUBSET Closes
  BY DEF Ac!Done
<1>2. IsFiniteSet(Ac!Done)
  BY <1>1, ClosesAre, FS_Subset
<1>3. IsFiniteSet({c \in Ac!Done : Ac!NetOf(c) >= 0})
  BY <1>2, FS_Subset
<1>4. \A c \in Closes : Ac!NetOf(c) \in Int
  <2> SUFFICES ASSUME NEW c \in Closes PROVE Ac!NetOf(c) \in Int
    OBVIOUS
  <2>1. v2[c] \in Int
    BY ClosesAre DEF DayInv
  <2> QED
    BY <2>1, ClosesAre DEF Ac!NetOf
<1>5. Cardinality(Ac!Won(Ac!Done)) \in Nat /\ Cardinality(Ac!Lost(Ac!Done)) \in Nat
  BY FS_CardinalityType DEF DayInv
<1>6. Booked \in Nat /\ Wins \in Nat
  BY <1>2, <1>3, FS_CardinalityType, SameCounts DEF Booked, Wins, Ac!WinsIn
<1>7. Ledger \in Int
  BY <1>5, SameCounts DEF Ledger, Ac!Total
<1> QED
  BY <1>1, <1>2, <1>4, <1>6, <1>7

\* Steps that book nothing.
LEMMA NothingBooked ==
  ASSUME v2' = v2, Ac!Done' = Ac!Done
  PROVE  /\ Ledger' = Ledger /\ Booked' = Booked /\ Wins' = Wins
         /\ Ac!Won(Ac!Done)' = Ac!Won(Ac!Done) /\ Ac!Lost(Ac!Done)' = Ac!Lost(Ac!Done)
<1>1. Ac!Won(Ac!Done)' = Ac!Won(Ac!Done) /\ Ac!Lost(Ac!Done)' = Ac!Lost(Ac!Done)
  BY DEF Ac!Won, Ac!Lost, Ac!NetOf
<1>2. Ac!WinsIn(Ac!Done)' = Ac!WinsIn(Ac!Done)
  BY DEF Ac!WinsIn, Ac!NetOf
<1>3. Ac!Total(Ac!Done)' = Ac!Total(Ac!Done)
  BY <1>1 DEF Ac!Total
<1> QED
  BY <1>1, <1>2, <1>3 DEF Ledger, Booked, Wins

\* A close is booked.
LEMMA OneBooked ==
  ASSUME DayInv, v2' = v2, NEW c \in Closes, c \notin Ac!Done, Ac!Done' = Ac!Done \cup {c}
  PROVE  /\ Ledger' = Ledger + Ac!NetOf(c) /\ Booked' = Booked + 1
         /\ Wins' = Wins + (IF Ac!NetOf(c) >= 0 THEN 1 ELSE 0)
         /\ IsFiniteSet(Ac!Won(Ac!Done)') /\ IsFiniteSet(Ac!Lost(Ac!Done)')
<1>1. PICK S, T, f, g : S = Ac!Done /\ T = S \cup {c} /\ f = [d \in Closes |-> Ac!NetOf(d)] /\ g = [d \in Closes |-> -Ac!NetOf(d)]
  OBVIOUS
<1>2. S \subseteq Closes /\ T \subseteq Closes /\ c \notin S /\ IsFiniteSet(S) /\ f[c] \in Int /\ g[c] \in Int /\ g[c] = -f[c]
  BY <1>1, BookedAre
<1>3. PICK U, V, L, M :
        /\ U = UNION {{d} \X (1 .. f[d]) : d \in S} /\ V = UNION {{d} \X (1 .. f[d]) : d \in T}
        /\ L = UNION {{d} \X (1 .. g[d]) : d \in S} /\ M = UNION {{d} \X (1 .. g[d]) : d \in T}
  OBVIOUS
<1>4. U = Ac!Won(Ac!Done) /\ L = Ac!Lost(Ac!Done)
  BY <1>1, <1>2, <1>3 DEF Ac!Won, Ac!Lost
<1>5. V = Ac!Won(Ac!Done)' /\ M = Ac!Lost(Ac!Done)'
  BY <1>1, <1>2, <1>3 DEF Ac!Won, Ac!Lost, Ac!NetOf
<1>6. IsFiniteSet(U) /\ IsFiniteSet(L)
  BY <1>4 DEF DayInv
<1>7. IsFiniteSet(V) /\ Cardinality(V) = Cardinality(U) + (IF f[c] >= 0 THEN f[c] ELSE 0)
  <2>1. U = UNION {{d} \X (1 .. f[d]) : d \in S} /\ V = UNION {{d} \X (1 .. f[d]) : d \in S \cup {c}}
    BY <1>1, <1>3
  <2>2. c \notin S /\ f[c] \in Int /\ IsFiniteSet(U)
    BY <1>2, <1>6
  <2> QED
    BY <2>1, <2>2, CentsMore
<1>8. IsFiniteSet(M) /\ Cardinality(M) = Cardinality(L) + (IF g[c] >= 0 THEN g[c] ELSE 0)
  <2>1. L = UNION {{d} \X (1 .. g[d]) : d \in S} /\ M = UNION {{d} \X (1 .. g[d]) : d \in S \cup {c}}
    BY <1>1, <1>3
  <2>2. c \notin S /\ g[c] \in Int /\ IsFiniteSet(L)
    BY <1>2, <1>6
  <2> QED
    BY <2>1, <2>2, CentsMore
<1>9. Cardinality(U) \in Nat /\ Cardinality(L) \in Nat
  BY <1>6, FS_CardinalityType
<1>10. Ledger' = Ledger + Ac!NetOf(c)
  <2>1. Ledger = Cardinality(U) - Cardinality(L) /\ Ledger' = Cardinality(V) - Cardinality(M)
    <3>1. Ledger = Cardinality(Ac!Won(Ac!Done)) - Cardinality(Ac!Lost(Ac!Done))
      BY SameCounts DEF Ledger, Ac!Total
    <3>2. Ledger' = Cardinality(Ac!Won(Ac!Done)') - Cardinality(Ac!Lost(Ac!Done)')
      BY SameCounts DEF Ledger, Ac!Total
    <3> QED
      BY <3>1, <3>2, <1>4, <1>5
  <2>2. f[c] = Ac!NetOf(c)
    BY <1>1
  <2> QED
    BY <1>2, <1>7, <1>8, <1>9, <2>1, <2>2
<1>11. Booked' = Booked + 1
  BY <1>1, <1>2, FS_AddElement DEF Booked
<1>12. Wins' = Wins + (IF Ac!NetOf(c) >= 0 THEN 1 ELSE 0)
  <2>1. PICK A, B : A = {d \in S : f[d] >= 0} /\ B = {d \in T : f[d] >= 0}
    OBVIOUS
  <2>2. Wins = Cardinality(A) /\ Wins' = Cardinality(B)
    <3>1. A = {d \in Ac!Done : Ac!NetOf(d) >= 0}
      BY <1>1, <1>2, <2>1
    <3>2. B = {d \in Ac!Done : Ac!NetOf(d) >= 0}'
      BY <1>1, <1>2, <2>1 DEF Ac!NetOf
    <3>3. Wins = Cardinality(A)
      BY <3>1, SameCounts DEF Wins, Ac!WinsIn
    <3>4. Wins' = Cardinality({d \in Ac!Done : Ac!NetOf(d) >= 0}')
      BY SameCounts DEF Wins, Ac!WinsIn
    <3> QED
      BY <3>2, <3>3, <3>4
  <2>3. A \subseteq S /\ IsFiniteSet(A) /\ c \notin A /\ Cardinality(A) \in Nat
    BY <1>2, <2>1, FS_Subset, FS_CardinalityType
  <2>4. CASE f[c] >= 0
    <3>1. B = A \cup {c}
      BY <1>1, <2>1, <2>4
    <3> QED
      BY <1>1, <2>2, <2>3, <2>4, <3>1, FS_AddElement
  <2>5. CASE ~(f[c] >= 0)
    <3>1. B = A
      BY <1>1, <2>1, <2>5
    <3> QED
      BY <1>1, <2>2, <2>3, <2>5, <3>1
  <2> QED
    BY <2>4, <2>5
<1> QED
  BY <1>5, <1>7, <1>8, <1>10, <1>11, <1>12
\* A step that books nothing, and after which a close that has read still read what it did, or the row of now.
LEMMA DayKept ==
  ASSUME DayInv, v2' = v2, v4' = v4, v7' = v7, Ac!Done' = Ac!Done,
         v1' \in [Closes -> Places], v3' \in [Closes -> Days], v6' \in [Closes -> Nat],
         \A d \in Closes : v1'[d] \in {"read", "flushed"} =>
            (v6'[d] = v6[d] /\ v3'[d] = v3[d] /\ v1[d] \in {"read", "flushed"}) \/ v3'[d] = v4,
         \A d \in Closes : v1'[d] = "flushed" => v5' = d
  PROVE  DayInv'
<1>1. /\ Ledger' = Ledger /\ Booked' = Booked /\ Wins' = Wins
      /\ Ac!Won(Ac!Done)' = Ac!Won(Ac!Done) /\ Ac!Lost(Ac!Done)' = Ac!Lost(Ac!Done)
  BY NothingBooked
<1>2. v1' \in [Closes -> Places] /\ v2' \in [Closes -> Gross] /\ v3' \in [Closes -> Days] /\ v4' \in Days
      /\ v6' \in [Closes -> Nat] /\ v7' \in BOOLEAN
  BY DEF DayInv
<1>3. IsFiniteSet(Ac!Won(Ac!Done)') /\ IsFiniteSet(Ac!Lost(Ac!Done)')
  BY <1>1 DEF DayInv
<1>4. Told(v4') = Told(v4)
  OBVIOUS
<1>7. Within(Told(v4))'
  BY <1>1 DEF DayInv, Within, Told, Ac!Fresh
<1>5. ASSUME NEW d \in Closes, v1'[d] \in {"read", "flushed"}
      PROVE  Within(Told(v3[d]))' /\ (v6'[d] = 0 => v3'[d] = v4')
  <2>1. CASE v3'[d] = v4
    BY <1>1, <2>1 DEF DayInv, Within, Told, Ac!Fresh
  <2>2. CASE v6'[d] = v6[d] /\ v3'[d] = v3[d] /\ v1[d] \in {"read", "flushed"}
    BY <1>1, <2>2 DEF DayInv, Within, Told, Ac!Fresh
  <2> QED
    BY <1>5, <2>1, <2>2
<1>6. ~v7' => Told(v4') = [net |-> Ledger', trades |-> Booked', wins |-> Wins', losses |-> Booked' - Wins']
  BY <1>1, <1>4 DEF DayInv
<1> QED
  BY <1>2, <1>3, <1>5, <1>6, <1>7 DEF DayInv

LEMMA DayInit == Ac!Init => DayInv
<1> SUFFICES ASSUME Ac!Init PROVE DayInv
  OBVIOUS
<1>1. v1 \in [Closes -> Places] /\ v2 \in [Closes -> Gross] /\ v3 \in [Closes -> Days] /\ v4 \in Days
      /\ v6 \in [Closes -> Nat] /\ v7 \in BOOLEAN
  BY DEF Ac!Init, Places, Days
<1>2. Ac!Done = {} /\ \A c \in Closes : v1[c] = "idle"
  BY DEF Ac!Init, Ac!Done
<1>3. Ac!Won(Ac!Done) = {} /\ Ac!Lost(Ac!Done) = {} /\ {c \in Ac!Done : Ac!NetOf(c) >= 0} = {}
  BY <1>2 DEF Ac!Won, Ac!Lost
<1>4. IsFiniteSet({}) /\ Cardinality({}) = 0
  BY FS_EmptySet
<1>5. Ledger = 0
  BY <1>3, <1>4, SameCounts DEF Ledger, Ac!Total
<1>6. Booked = 0 /\ Wins = 0 /\ IsFiniteSet(Ac!Won(Ac!Done)) /\ IsFiniteSet(Ac!Lost(Ac!Done))
  BY <1>2, <1>3, <1>4, SameCounts DEF Booked, Wins, Ac!WinsIn
<1>7. Told(v4) = [net |-> 0, trades |-> 0, wins |-> 0, losses |-> 0]
  BY DEF Ac!Init, Told, Ac!Fresh
<1>8. Within(Told(v4))
  BY <1>6, <1>7 DEF Within
<1>9. Told(v4) = [net |-> Ledger, trades |-> Booked, wins |-> Wins, losses |-> Booked - Wins]
  BY <1>5, <1>6, <1>7
<1> QED
  BY <1>1, <1>2, <1>6, <1>8, <1>9 DEF DayInv

LEMMA DaySent == ASSUME DayInv, NEW c \in Closes, Ac!Sent(c) PROVE DayInv'
<1>1. v1' = [v1 EXCEPT ![c] = "sent"] /\ v1[c] = "idle" /\ UNCHANGED <<v2, v3, v4, v5, v6, v7>>
  BY DEF Ac!Sent
<1>2. v1 \in [Closes -> Places] /\ v1' \in [Closes -> Places]
  BY <1>1 DEF DayInv, Places
<1>3. Ac!Done' = Ac!Done
  BY <1>1, <1>2 DEF Ac!Done
<1>4. v3' \in [Closes -> Days] /\ v6' \in [Closes -> Nat]
  BY <1>1 DEF DayInv
<1>5. \A d \in Closes : v1'[d] \in {"read", "flushed"} =>
            (v6'[d] = v6[d] /\ v3'[d] = v3[d] /\ v1[d] \in {"read", "flushed"}) \/ v3'[d] = v4
  BY <1>1, <1>2
<1>6. \A d \in Closes : v1'[d] = "flushed" => v5' = d
  BY <1>1, <1>2 DEF DayInv
<1> QED
  BY <1>1, <1>2, <1>3, <1>4, <1>5, <1>6, DayKept

LEMMA DayRead == ASSUME DayInv, NEW c \in Closes, Ac!ReadDay(c) PROVE DayInv'
<1>1. /\ v1' = [v1 EXCEPT ![c] = "read"] /\ v1[c] = "sent" /\ UNCHANGED <<v2, v4, v5, v7>>
      /\ v3' = [v3 EXCEPT ![c] = v4] /\ v6' = [v6 EXCEPT ![c] = 0]
  BY DEF Ac!ReadDay
<1>2. v1 \in [Closes -> Places] /\ v1' \in [Closes -> Places]
  BY <1>1 DEF DayInv, Places
<1>3. Ac!Done' = Ac!Done
  BY <1>1, <1>2 DEF Ac!Done
<1>4. v3' \in [Closes -> Days] /\ v6' \in [Closes -> Nat]
  BY <1>1 DEF DayInv
<1>5. \A d \in Closes : v1'[d] \in {"read", "flushed"} =>
            (v6'[d] = v6[d] /\ v3'[d] = v3[d] /\ v1[d] \in {"read", "flushed"}) \/ v3'[d] = v4
  BY <1>1, <1>2 DEF DayInv
<1>6. \A d \in Closes : v1'[d] = "flushed" => v5' = d
  BY <1>1, <1>2 DEF DayInv
<1> QED
  BY <1>1, <1>2, <1>3, <1>4, <1>5, <1>6, DayKept

\* Nobody else has flushed when the holder is none.
LEMMA DayFlush == ASSUME DayInv, NEW c \in Closes, Ac!Flush(c) PROVE DayInv'
<1>1. v1[c] = "read" /\ v5 = Ac!None /\ UNCHANGED <<v2, v3, v4, v6, v7>>
  BY DEF Ac!Flush, Ac!AfterFlush
<1>2. PICK p \in {"broken", "flushed"} : v1' = [v1 EXCEPT ![c] = p] /\ (p = "flushed" => v5' = c)
  BY DEF Ac!Flush
<1>3. v1 \in [Closes -> Places] /\ v1' \in [Closes -> Places]
  BY <1>2 DEF DayInv, Places
<1>4. Ac!Done' = Ac!Done
  BY <1>1, <1>2, <1>3 DEF Ac!Done
<1>5. v3' \in [Closes -> Days] /\ v6' \in [Closes -> Nat]
  BY <1>1 DEF DayInv
<1>6. \A d \in Closes : v1'[d] \in {"read", "flushed"} =>
            (v6'[d] = v6[d] /\ v3'[d] = v3[d] /\ v1[d] \in {"read", "flushed"}) \/ v3'[d] = v4
  BY <1>1, <1>2, <1>3
<1>7. \A d \in Closes : v1'[d] = "flushed" => v5' = d
  BY <1>1, <1>2, <1>3, ClosesAre DEF DayInv
<1> QED
  BY <1>1, <1>3, <1>4, <1>5, <1>6, <1>7, DayKept

LEMMA DayRolledBack == ASSUME DayInv, NEW c \in Closes, Ac!Rollback(c) PROVE DayInv'
<1>1. /\ v1' = [v1 EXCEPT ![c] = "rolled back"] /\ v1[c] # "done" /\ UNCHANGED <<v2, v3, v4, v6, v7>>
      /\ v5' = IF v5 = c THEN Ac!None ELSE v5
  BY DEF Ac!Rollback
<1>2. v1 \in [Closes -> Places] /\ v1' \in [Closes -> Places]
  BY <1>1 DEF DayInv, Places
<1>3. Ac!Done' = Ac!Done
  BY <1>1, <1>2 DEF Ac!Done
<1>4. v3' \in [Closes -> Days] /\ v6' \in [Closes -> Nat]
  BY <1>1 DEF DayInv
<1>5. \A d \in Closes : v1'[d] \in {"read", "flushed"} =>
            (v6'[d] = v6[d] /\ v3'[d] = v3[d] /\ v1[d] \in {"read", "flushed"}) \/ v3'[d] = v4
  BY <1>1, <1>2
<1>6. \A d \in Closes : v1'[d] = "flushed" => v5' = d
  BY <1>1, <1>2 DEF DayInv
<1> QED
  BY <1>1, <1>2, <1>3, <1>4, <1>5, <1>6, DayKept

\* What was within the ledger stays within it when one close more is booked.
LEMMA StaysWithin ==
  ASSUME NEW r \in DayRow, NEW n \in Nat, NEW w \in Nat, NEW o \in {0, 1},
         r.trades <= n, r.wins <= w, r.losses <= n - w
  PROVE  r.trades <= n + 1 /\ r.wins <= w + o /\ r.losses <= n + 1 - (w + o)
<1>1. r.trades \in Nat /\ r.wins \in Nat /\ r.losses \in Nat
  BY DEF DayRow
<1> QED
  BY <1>1

LEMMA ToldIs == \A d \in Days : Told(d) \in DayRow
BY DEF Days, Told, DayRow, Ac!Fresh

\* The row a close writes: over what it read, or over what is there.
LEMMA RolledIs ==
  ASSUME DayInv, NEW c \in Closes
  PROVE  Ac!Rolled(c) = LET old == Told(v3[c]) base == Told(v4) IN
           [net    |-> IF Ac!NetOf(c) = 0 THEN base.net ELSE old.net + Ac!NetOf(c),
            trades |-> old.trades + 1,
            wins   |-> IF Ac!NetOf(c) >= 0 THEN old.wins + 1 ELSE base.wins,
            losses |-> IF Ac!NetOf(c) < 0 THEN old.losses + 1 ELSE base.losses]
BY DEF Ac!Rolled, Told

\* The commit books the close and the row together.
LEMMA DayCommit == ASSUME DayInv, NEW c \in Closes, Ac!Commit(c) PROVE DayInv'
<1>1. /\ v1[c] = "flushed" /\ v1' = [v1 EXCEPT ![c] = "done"] /\ v2' = v2 /\ v3' = v3
      /\ v4' = <<Ac!Rolled(c)>> /\ v7' = (v7 \/ v6[c] > 0)
      /\ v6' = [d \in Closes |-> IF v1[d] = "read" THEN v6[d] + 1 ELSE v6[d]]
  BY DEF Ac!Commit
<1>2. v1 \in [Closes -> Places] /\ v6 \in [Closes -> Nat] /\ v3 \in [Closes -> Days] /\ v4 \in Days
  BY DEF DayInv
<1>3. v1' \in [Closes -> Places] /\ v6' \in [Closes -> Nat] /\ v7' \in BOOLEAN
  <2>3. v1' \in [Closes -> Places]
    BY <1>1, <1>2 DEF Places
  <2>4. \A d \in Closes : v6[d] \in Nat /\ v6[d] + 1 \in Nat
    BY <1>2
  <2>1. v6' \in [Closes -> Nat]
    BY <1>1, <2>4
  <2>2. v7' \in BOOLEAN
    BY <1>1, Zenon
  <2> QED
    BY <2>1, <2>2, <2>3
<1>4. c \notin Ac!Done /\ Ac!Done' = Ac!Done \cup {c}
  BY <1>1, <1>2 DEF Ac!Done
<1>5. PICK n, w, l, net, o : n = Booked /\ w = Wins /\ l = Ledger /\ net = Ac!NetOf(c) /\ o = IF net >= 0 THEN 1 ELSE 0
  OBVIOUS
<1>6. n \in Nat /\ w \in Nat /\ l \in Int /\ net \in Int /\ o \in {0, 1}
  BY <1>5, BookedAre
<1>7. Booked' = n + 1 /\ Wins' = w + o /\ Ledger' = l + net
  BY <1>1, <1>4, <1>5, OneBooked
<1>19. IsFiniteSet(Ac!Won(Ac!Done)') /\ IsFiniteSet(Ac!Lost(Ac!Done)')
  BY <1>1, <1>4, OneBooked
<1>8. PICK old, base : old = Told(v3[c]) /\ base = Told(v4)
  OBVIOUS
<1>9. /\ old \in DayRow /\ old.trades <= n /\ old.wins <= w /\ old.losses <= n - w
      /\ base \in DayRow /\ base.trades <= n /\ base.wins <= w /\ base.losses <= n - w
  BY <1>1, <1>2, <1>5, <1>8, ToldIs DEF DayInv, Within
<1>10. PICK r : r = [net    |-> IF net = 0 THEN base.net ELSE old.net + net,
                     trades |-> old.trades + 1,
                     wins   |-> IF net >= 0 THEN old.wins + 1 ELSE base.wins,
                     losses |-> IF net < 0 THEN old.losses + 1 ELSE base.losses]
  OBVIOUS
<1>11. v4' = <<r>>
  BY <1>1, <1>5, <1>8, <1>10, RolledIs
<1>12. Told(v4') = r /\ r \in DayRow /\ v4' \in Days
  <2>1. r \in DayRow
    BY <1>6, <1>9, <1>10 DEF DayRow
  <2>2. Told(v4') = r /\ v4' \in Days
    BY <1>11, <2>1 DEF Told, Days
  <2> QED
    BY <2>1, <2>2
<1>13. r.trades <= n + 1 /\ r.wins <= w + o /\ r.losses <= n + 1 - (w + o)
  <2>1. /\ old.trades \in Nat /\ old.wins \in Nat /\ old.losses \in Nat
        /\ base.trades \in Nat /\ base.wins \in Nat /\ base.losses \in Nat
    BY <1>9 DEF DayRow
  <2>2. r.trades = old.trades + 1
    BY <1>10
  <2>3. CASE net >= 0
    <3>1. r.wins = old.wins + 1 /\ r.losses = base.losses /\ o = 1
      BY <1>5, <1>6, <1>10, <2>3
    <3> QED
      BY <1>6, <1>9, <2>1, <2>2, <3>1
  <2>4. CASE ~(net >= 0)
    <3>1. r.wins = base.wins /\ r.losses = old.losses + 1 /\ o = 0
      BY <1>5, <1>6, <1>10, <2>4
    <3> QED
      BY <1>6, <1>9, <2>1, <2>2, <3>1
  <2> QED
    BY <2>3, <2>4
<1>14. Within(Told(v4))'
  <2>1. Told(v4') = Told(v4)'
    BY DEF Told, Ac!Fresh
  <2>2. Told(v4)'.trades <= Booked' /\ Told(v4)'.wins <= Wins' /\ Told(v4)'.losses <= Booked' - Wins'
    BY <1>6, <1>7, <1>12, <1>13, <2>1
  <2> QED
    BY <2>2 DEF Within
<1>15. ASSUME NEW d \in Closes, v1'[d] \in {"read", "flushed"}
       PROVE  Within(Told(v3[d]))' /\ (v6'[d] = 0 => v3'[d] = v4')
  <2>1. d # c /\ v1[d] \in {"read", "flushed"}
    BY <1>1, <1>2, <1>15
  <2>2. v1[d] = "read"
    BY <1>1, <2>1 DEF DayInv
  <2>3. v6'[d] # 0
    BY <1>1, <1>2, <2>2
  <2>4. PICK x : x = Told(v3[d])
    OBVIOUS
  <2>5. x \in DayRow /\ x.trades <= n /\ x.wins <= w /\ x.losses <= n - w
    BY <1>2, <1>5, <2>1, <2>4, ToldIs DEF DayInv, Within
  <2>6. x.trades <= n + 1 /\ x.wins <= w + o /\ x.losses <= n + 1 - (w + o)
    BY <1>6, <2>5, StaysWithin
  <2>7. Told(v3[d])' = x
    BY <1>1, <2>4 DEF Told, Ac!Fresh
  <2>8. Within(Told(v3[d]))'
    <3>1. Told(v3[d])'.trades <= Booked' /\ Told(v3[d])'.wins <= Wins' /\ Told(v3[d])'.losses <= Booked' - Wins'
      BY <1>6, <1>7, <2>6, <2>7
    <3> QED
      BY <3>1 DEF Within
  <2> QED
    BY <2>3, <2>8
<1>16. ASSUME ~v7'
       PROVE  Told(v4') = [net |-> Ledger', trades |-> Booked', wins |-> Wins', losses |-> Booked' - Wins']
  <2>5. ~v7 /\ ~(v6[c] > 0)
    BY <1>1, <1>16
  <2>1. ~v7 /\ v6[c] = 0
    BY <1>2, <2>5
  <2>2. old = base
    BY <1>1, <1>8, <2>1 DEF DayInv
  <2>3. base = [net |-> l, trades |-> n, wins |-> w, losses |-> n - w]
    BY <1>5, <1>8, <2>1 DEF DayInv
  <2>4. r = [net |-> l + net, trades |-> n + 1, wins |-> w + o, losses |-> n + 1 - (w + o)]
    <3>1. CASE net >= 0
      BY <1>5, <1>6, <1>10, <2>2, <2>3, <3>1
    <3>2. CASE ~(net >= 0)
      BY <1>5, <1>6, <1>10, <2>2, <2>3, <3>2
    <3> QED
      BY <3>1, <3>2
  <2>6. r = [net |-> Ledger', trades |-> Booked', wins |-> Wins', losses |-> Booked' - Wins']
    BY <1>6, <1>7, <2>4
  <2> QED
    BY <1>12, <2>6
<1>17. \A d \in Closes : v1'[d] = "flushed" => v5' = d
  BY <1>1, <1>2 DEF DayInv
<1>18. v2' \in [Closes -> Gross] /\ v3' \in [Closes -> Days]
  BY <1>1 DEF DayInv
<1> QED
  BY <1>3, <1>12, <1>14, <1>15, <1>16, <1>17, <1>18, <1>19 DEF DayInv

LEMMA DayStep == DayInv /\ [Ac!Next]_(Ac!vars) => DayInv'
<1> SUFFICES ASSUME DayInv, [Ac!Next]_(Ac!vars) PROVE DayInv'
  OBVIOUS
<1>1. CASE UNCHANGED Ac!vars
  <2>1. UNCHANGED <<v1, v2, v3, v4, v5, v6, v7>>
    BY <1>1 DEF Ac!vars
  <2>2. Ac!Done' = Ac!Done
    BY <2>1 DEF Ac!Done
  <2>3. /\ v1' \in [Closes -> Places] /\ v3' \in [Closes -> Days] /\ v6' \in [Closes -> Nat]
        /\ \A d \in Closes : v1'[d] = "flushed" => v5' = d
    BY <2>1 DEF DayInv
  <2>4. \A d \in Closes : v1'[d] \in {"read", "flushed"} =>
            (v6'[d] = v6[d] /\ v3'[d] = v3[d] /\ v1[d] \in {"read", "flushed"}) \/ v3'[d] = v4
    BY <2>1
  <2> QED
    BY <2>1, <2>2, <2>3, <2>4, DayKept
<1>2. ASSUME NEW c \in Closes, Ac!Sent(c) \/ Ac!ReadDay(c) \/ Ac!Flush(c) \/ Ac!Commit(c) \/ Ac!Rollback(c)
      PROVE  DayInv'
  BY <1>2, DaySent, DayRead, DayFlush, DayCommit, DayRolledBack
<1> QED
  BY <1>1, <1>2 DEF Ac!Next

\* The row of the day never tells of a trade the ledger does not have, whichever closes
\* fail, and agrees with it to the cent as long as no two overlapped (DayNeverOvercounts).
THEOREM DayIsNeverAhead == Spec => []DayNeverOvercounts
<1> DEFINE Inv == topic = "accounting" => DayInv
<1>1. Init => Inv
  BY AccountingRuns, DayInit
<1>2. Inv /\ [Next]_vars => Inv'
  BY AccountingRuns, DayStep
<1>3. Inv => DayNeverOvercounts
  <2> SUFFICES ASSUME DayInv PROVE Ac!DayNeverOvercounts
    BY DEF DayNeverOvercounts
  <2>1. Ac!Today = Told(v4)
    BY DEF Ac!Today, Told
  <2>2. Ac!Cardinality(Ac!Done) = Booked
    BY SameCounts DEF Booked
  <2> QED
    BY <2>1, <2>2 DEF DayInv, Within, Wins, Ledger, Ac!DayNeverOvercounts
<1> QED
  BY <1>1, <1>2, <1>3, PTL DEF Spec

-----------------------------------------------------------------------------
(* Sizing: v1 are the filters, v2 is the price, v4 what was asked for.     *)

LEMMA SizingRuns ==
  /\ Init /\ topic = "sizing" => Si!Init
  /\ [Next]_vars /\ topic' = "sizing" => topic = "sizing" /\ [Si!Next]_(Si!vars)
BY DEF Init, Next, vars, Si!vars

\* Times a positive number keeps the order.
LEMMA TimesOrder ==
  ASSUME NEW b \in Nat \ {0}, NEW x \in Int, NEW y \in Int
  PROVE  /\ b * x \in Int /\ (x <= y <=> b * x <= b * y)
         /\ b * (y + 1) = b * y + b
<1>1. b * x \in Int /\ b * (y + 1) = b * y + b
  OBVIOUS
<1>2. x <= y => b * x <= b * y
  OBVIOUS
<1>3. ~(x <= y) => ~(b * x <= b * y)
  OBVIOUS
<1> QED
  BY <1>1, <1>2, <1>3

LEMMA Quotient ==
  ASSUME NEW a \in Nat, NEW b \in Nat \ {0}
  PROVE  a \div b \in Nat /\ b * (a \div b) <= a /\ a < b * (a \div b) + b
OBVIOUS

\* A quantity of k steps.
LEMMA Steps ==
  ASSUME NEW s \in Nat \ {0}, NEW p \in Nat \ {0}, NEW k \in Nat
  PROVE  /\ (s * k) % s = 0 /\ s * k \in Nat /\ p * s \in Nat \ {0} /\ (p * s) * k \in Nat
         /\ (s * k) * p = (p * s) * k /\ (s * k > 0 <=> k > 0)
<1>1. (s * k) % s = 0 /\ s * k \in Nat
  OBVIOUS
<1>2. p * s \in Nat \ {0}
  OBVIOUS
<1>3. (s * k) * p = (p * s) * k
  OBVIOUS
<1>4. s * k > 0 <=> k > 0
  OBVIOUS
<1>5. (p * s) * k \in Nat
  OBVIOUS
<1> QED
  BY <1>1, <1>2, <1>3, <1>4, <1>5

LEMMA InSteps ==
  ASSUME NEW s \in Nat \ {0}, NEW q \in Nat, q % s = 0
  PROVE  \E k \in Nat : q = s * k
<1>1. q \div s \in Nat /\ q = s * (q \div s)
  OBVIOUS
<1> QED
  BY <1>1

Signs == {-1, 0, 1}

\* n is the most that b is in a, and the least that makes a; a hair below and above, the
\* number that is a itself is missed.
MostOf(b, a, h, n) ==
    b * n <= a /\ \A j \in Nat : b * j <= a => (j <= n \/ (h = -1 /\ b * j = a /\ j = n + 1))
LeastOf(b, a, h, n) ==
    b * n >= a /\ \A j \in Nat : b * j >= a => (j >= n \/ (h = 1 /\ b * j = a /\ n = j + 1))

\* Rounded down, the most steps that a pays; rounded up, the least that are worth it: but for
\* one where a is that very number of steps.
LEMMA DownIs ==
  ASSUME NEW a \in Nat \ {0}, NEW p \in Nat \ {0}, NEW s \in Nat \ {0}, NEW h \in Signs
  PROVE  \E n \in Nat : Si!Down(a, p, s, h) = s * n /\ MostOf(p * s, a, h, n)
<1>1. PICK b \in Nat \ {0} : b = p * s
  OBVIOUS
<1>2. PICK c \in Nat, d \in Nat \ {0} : c = 2 * a + h /\ d = 2 * b
  BY DEF Signs
<1>3. PICK n \in Nat : n = c \div d
  BY Quotient
<1>4. d * n <= c /\ c < d * n + d /\ d * n = 2 * (b * n) /\ b * n \in Nat
  <2>1. (2 * b) * n = 2 * (b * n) /\ b * n \in Nat
    OBVIOUS
  <2>2. d * n <= c /\ c < d * n + d
    BY <1>3, Quotient
  <2> QED
    BY <1>2, <2>1, <2>2
<1>5. b * n <= a
  BY <1>2, <1>4 DEF Signs
<1>6. ASSUME NEW j \in Nat, b * j <= a, ~(j <= n) PROVE h = -1 /\ b * j = a /\ j = n + 1
  <2>1. b * j \in Int /\ b * (n + 1) = b * n + b /\ b * (n + 2) = b * n + b + b
    <3>1. b * (n + 1) = b * n + b /\ b * ((n + 1) + 1) = b * (n + 1) + b
      BY TimesOrder
    <3> QED
      BY <3>1
  <2>2. b * (n + 1) <= b * j
    BY <1>6, TimesOrder
  <2>3. h = -1 /\ b * j = a
    BY <1>2, <1>4, <1>6, <2>1, <2>2 DEF Signs
  <2>4. ~(b * (n + 2) <= b * j)
    BY <1>2, <1>4, <2>1, <2>3
  <2>5. ~(n + 2 <= j)
    BY <2>4, TimesOrder
  <2> QED
    BY <1>6, <2>3, <2>5
<1>7. Si!Down(a, p, s, h) = s * n
  BY <1>1, <1>2, <1>3 DEF Si!Down
<1>8. MostOf(b, a, h, n)
  BY <1>5, <1>6 DEF MostOf
<1> QED
  BY <1>1, <1>7, <1>8

LEMMA UpIs ==
  ASSUME NEW a \in Nat, NEW p \in Nat \ {0}, NEW s \in Nat \ {0}, NEW h \in Signs
  PROVE  \E n \in Nat : Si!Up(a, p, s, h) = s * n /\ LeastOf(p * s, a, h, n)
<1>1. PICK b \in Nat \ {0} : b = p * s
  OBVIOUS
<1>2. PICK c \in Nat, d \in Nat \ {0} : c = 2 * a + h + d - 1 /\ d = 2 * b
  <2>1. 2 * b \in Nat \ {0} /\ 2 * b >= 2
    OBVIOUS
  <2> QED
    BY <2>1 DEF Signs
<1>3. PICK n \in Nat : n = c \div d
  BY Quotient
<1>4. d * n <= c /\ c < d * n + d /\ d * n = 2 * (b * n) /\ b * n \in Nat
  <2>1. (2 * b) * n = 2 * (b * n) /\ b * n \in Nat
    OBVIOUS
  <2>2. d * n <= c /\ c < d * n + d
    BY <1>3, Quotient
  <2> QED
    BY <1>2, <2>1, <2>2
<1>5. b * n >= a
  BY <1>2, <1>4 DEF Signs
<1>6. ASSUME NEW j \in Nat, b * j >= a, ~(j >= n) PROVE h = 1 /\ b * j = a /\ n = j + 1
  <2>1. b * j \in Int /\ b * (j + 1) = b * j + b /\ b * (j + 2) = b * j + b + b
    <3>1. b * j \in Int /\ b * (j + 1) = b * j + b /\ b * ((j + 1) + 1) = b * (j + 1) + b
      BY TimesOrder
    <3> QED
      BY <3>1
  <2>2. b * (j + 1) <= b * n
    BY <1>6, TimesOrder
  <2>3. h = 1 /\ b * j = a
    BY <1>2, <1>4, <1>6, <2>1, <2>2 DEF Signs
  <2>4. ~(b * (j + 2) <= b * n)
    BY <1>2, <1>4, <2>1, <2>3
  <2>5. ~(j + 2 <= n)
    BY <2>4, TimesOrder
  <2> QED
    BY <1>6, <2>3, <2>5
<1>7. Si!Up(a, p, s, h) = s * n
  BY <1>1, <1>2, <1>3 DEF Si!Up
<1>8. LeastOf(b, a, h, n)
  BY <1>5, <1>6 DEF LeastOf
<1> QED
  BY <1>1, <1>7, <1>8

\* What the exchange takes, counted in steps; its maximum is looked at apart.
Takes(f, p, k) == k > 0 /\ f.step * k >= f.minQty /\ (p * f.step) * k >= f.minNotional

Filter == [found : BOOLEAN, trading : BOOLEAN, step : Nat \ {0}, minQty : Nat, maxQty : Nat,
           minNotional : Nat]
AnyNoise == [paid : Signs, least : Signs, worth : Signs]

\* The steps of a plan: B are what steps are worth.
Few(B, w, h, j) == w > 0 /\ 2 * B[j] + h < 2 * w
Good(B, w, u, j) == j > 0 /\ j >= u /\ B[j] >= w

Worth(B) == B \in [Nat -> Nat] /\ B[0] = 0 /\ \A i, j \in Nat : i <= j <=> B[i] <= B[j]
Paid(B, a, n) == B[n] <= a /\ \A j \in Nat : B[j] <= a => (j <= n \/ (B[j] = a /\ j = n + 1))
Made(B, w, v) == B[v] >= w /\ \A j \in Nat : B[j] >= w => (j >= v \/ (B[j] = w /\ v = j + 1))

\* The steps of PlannedQty: n are paid for, u make the minimal quantity and v the notional.
Chosen(B, w, h, n, u, v) ==
    LET e == IF n < u THEN u ELSE n
        l == IF v < u THEN u ELSE v
        g == IF Few(B, w, h, e) THEN l ELSE e
    IN IF Few(B, w, h, g) THEN 0 ELSE g

\* What k steps are when they are planned.
Near(B, a, w, u, k) ==
    /\ Good(B, w, u, k)
    /\ \A j \in Nat : Good(B, w, u, j) /\ B[j] <= a => j <= k + 1
    /\ B[k] <= a \/ \A j \in Nat : j + 1 < k => ~Good(B, w, u, j)
Exact(B, a, w, u, k) ==
    \/ Good(B, w, u, k) /\ B[k] <= a /\ (\A j \in Nat : B[j] <= a => j <= k)
    \/ /\ Good(B, w, u, k)
       /\ \A j \in Nat : j < k => ~Good(B, w, u, j)
       /\ \A j \in Nat : B[j] <= a => ~Good(B, w, u, j)
    \/ k = 0 /\ u = 0 /\ w = 0 /\ (\A j \in Nat : B[j] <= a => j = 0)
NoTie(B, a, w) == (\A j \in Nat : B[j] # a) /\ (w = 0 \/ \A j \in Nat : B[j] # w)

\* n are paid with a, u make the minimal quantity and v the minimal notional w; k are planned.
LEMMA PlanInNumbers ==
  ASSUME NEW B, Worth(B),
         NEW a \in Nat \ {0}, NEW w \in Nat, NEW n \in Nat, NEW u \in Nat, NEW v \in Nat,
         NEW h \in Signs, NEW k \in Nat, Paid(B, a, n), Made(B, w, v), k = Chosen(B, w, h, n, u, v)
  PROVE  /\ k > 0 => Near(B, a, w, u, k)
         /\ k = 0 => \A j \in Nat : Good(B, w, u, j) /\ B[j] <= a => B[j] \in {a, w}
         /\ NoTie(B, a, w) => Exact(B, a, w, u, k)
<1> USE DEF Worth, Paid, Made, Near, Exact, NoTie
<1>0. PICK e \in Nat, l \in Nat, g \in Nat :
        /\ e = IF n < u THEN u ELSE n
        /\ l = IF v < u THEN u ELSE v
        /\ g = IF Few(B, w, h, e) THEN l ELSE e
        /\ k = IF Few(B, w, h, g) THEN 0 ELSE g
  BY DEF Chosen
<1> DEFINE tied == (\E j \in Nat : B[j] = a) \/ (w > 0 /\ \E j \in Nat : B[j] = w)
<1>1. /\ \A j \in Nat : B[j] \in Nat
      /\ n <= e /\ u <= e /\ v <= l /\ u <= l
  BY <1>0
<1>2. CASE Few(B, w, h, e) /\ ~Few(B, w, h, l)
  <2>1. k = l /\ w > 0 /\ B[e] <= w /\ B[l] >= w
    BY <1>0, <1>1, <1>2 DEF Few, Signs
  <2>2. e <= v /\ Good(B, w, u, l)
    BY <1>0, <1>1, <2>1 DEF Good
  <2>3. \A j \in Nat : B[j] <= a => j <= l + 1
    BY <1>0, <1>1, <2>2
  <2>4. \A j \in Nat : j + 1 < l => ~Good(B, w, u, j)
    BY <1>0 DEF Good
  <2>5. ASSUME ~tied
        PROVE  /\ \A j \in Nat : j < l => ~Good(B, w, u, j)
               /\ \A j \in Nat : B[j] <= a => ~Good(B, w, u, j)
    <3>1. B[e] < w /\ e < v
      BY <1>0, <1>1, <2>1, <2>5
    <3>2. \A j \in Nat : B[j] >= w => j >= v
      BY <1>0, <2>1, <2>5
    <3>3. \A j \in Nat : B[j] <= a => j <= n
      BY <1>0, <2>5
    <3> QED
      BY <1>0, <1>1, <3>1, <3>2, <3>3 DEF Good
  <2> QED
    BY <1>0, <1>1, <2>1, <2>2, <2>3, <2>4, <2>5 DEF Good
<1>3. CASE Few(B, w, h, e) /\ Few(B, w, h, l)
  <2>1. k = 0 /\ w > 0 /\ B[e] <= w /\ B[l] <= w
    BY <1>0, <1>1, <1>3 DEF Few, Signs
  <2>2. B[l] = w /\ l \in Nat
    BY <1>0, <1>1, <2>1
  <2>3. \A j \in Nat : Good(B, w, u, j) /\ B[j] <= a => B[j] \in {a, w}
    <3> SUFFICES ASSUME NEW j \in Nat, B[j] >= w, B[j] <= a, B[j] # a PROVE B[j] = w
      BY DEF Good
    <3>1. j <= e
      BY <1>0, <1>1
    <3> QED
      BY <1>0, <1>1, <2>1, <3>1
  <2> QED
    BY <1>0, <2>1, <2>2, <2>3
<1>4. CASE ~Few(B, w, h, e) /\ e > 0
  <2>1. k = e /\ B[e] >= w /\ Good(B, w, u, e)
    BY <1>0, <1>1, <1>4 DEF Few, Good, Signs
  <2>2. \A j \in Nat : B[j] <= a => j <= e + 1
    BY <1>0, <1>1
  <2>3. CASE e = n
    BY <1>0, <2>1, <2>2, <2>3
  <2>4. CASE n < u /\ e = u
    <3>1. \A j \in Nat : j < e => ~Good(B, w, u, j)
      BY <1>0, <2>4 DEF Good
    <3>2. ASSUME ~tied, NEW j \in Nat, B[j] <= a PROVE j < e
      BY <1>0, <2>4, <3>2
    <3> QED
      BY <1>0, <2>1, <2>2, <3>1, <3>2
  <2> QED
    BY <1>0, <1>4, <2>3, <2>4
<1>5. CASE ~Few(B, w, h, e) /\ e = 0
  <2>1. k = 0 /\ n = 0 /\ u = 0 /\ w = 0
    BY <1>0, <1>1, <1>5 DEF Few, Signs
  <2> QED
    BY <1>0, <2>1 DEF Good
<1> QED
  BY <1>2, <1>3, <1>4, <1>5

\* The plan is k steps.  Where there are no ties: the most that the amount pays; or the least
\* that are taken, where none of what it pays is; or none.
LEMMA PlanInSteps ==
  ASSUME NEW f \in Filter, NEW p \in Nat \ {0}, NEW a \in Nat \ {0}, NEW z \in AnyNoise
  PROVE  \E k \in Nat :
           /\ Si!PlannedQty(f, p, a, z) = f.step * k
           /\ k > 0 =>
                /\ Takes(f, p, k)
                /\ \A j \in Nat : Takes(f, p, j) /\ (p * f.step) * j <= a => j <= k + 1
                /\ (p * f.step) * k <= a \/ \A j \in Nat : j + 1 < k => ~Takes(f, p, j)
           /\ k = 0 =>
                \A j \in Nat : Takes(f, p, j) /\ (p * f.step) * j <= a =>
                  (p * f.step) * j \in {a, f.minNotional}
           /\ ~Si!Ties(f, p, a) =>
                \/ Takes(f, p, k) /\ (p * f.step) * k <= a /\ (\A j \in Nat : (p * f.step) * j <= a => j <= k)
                \/ /\ Takes(f, p, k)
                   /\ \A j \in Nat : j < k => ~Takes(f, p, j)
                   /\ \A j \in Nat : (p * f.step) * j <= a => ~Takes(f, p, j)
                \/ /\ k = 0 /\ f.minQty = 0 /\ f.minNotional = 0
                   /\ \A j \in Nat : (p * f.step) * j <= a => j = 0
<1>1. PICK s \in Nat \ {0}, m \in Nat, w \in Nat : s = f.step /\ m = f.minQty /\ w = f.minNotional
  BY DEF Filter
<1>2. PICK b \in Nat \ {0} : b = p * s
  OBVIOUS
<1>3. z.paid \in Signs /\ z.least \in Signs /\ z.worth \in Signs
  BY DEF AnyNoise
<1>4. PICK h \in Signs : h = z.worth
  BY <1>3
<1>5. PICK n \in Nat : Si!Down(a, p, s, z.paid) = s * n /\ MostOf(b, a, z.paid, n)
  <2>1. \E n \in Nat : Si!Down(a, p, s, z.paid) = s * n /\ MostOf(p * s, a, z.paid, n)
    BY <1>3, DownIs
  <2> QED
    BY <1>2, <2>1
<1>6. PICK u \in Nat : Si!Up(m, 1, s, 0) = s * u /\ s * u >= m /\ \A j \in Nat : s * j >= m => j >= u
  <2>1. 1 \in Nat \ {0} /\ 0 \in Signs /\ 1 * s = s
    BY DEF Signs
  <2>2. \E x \in Nat : Si!Up(m, 1, s, 0) = s * x /\ LeastOf(1 * s, m, 0, x)
    BY <2>1, UpIs
  <2>3. PICK x \in Nat : Si!Up(m, 1, s, 0) = s * x /\ LeastOf(s, m, 0, x)
    BY <2>1, <2>2
  <2> QED
    BY <2>3 DEF LeastOf
<1>7. PICK v \in Nat : Si!Up(w, p, s, z.least) = s * v /\ LeastOf(b, w, z.least, v)
  <2>1. \E v \in Nat : Si!Up(w, p, s, z.least) = s * v /\ LeastOf(p * s, w, z.least, v)
    BY <1>3, UpIs
  <2> QED
    BY <1>2, <2>1
<1> DEFINE B == [j \in Nat |-> b * j]
<1>8. /\ B \in [Nat -> Nat] /\ (\A i, j \in Nat : i <= j <=> B[i] <= B[j]) /\ B[0] = 0
      /\ \A j \in Nat : B[j] = b * j
  <2>1. \A i, j \in Nat : b * j \in Nat /\ (i <= j <=> b * i <= b * j)
    BY TimesOrder
  <2>2. b * 0 = 0
    OBVIOUS
  <2> QED
    BY <2>1, <2>2
<1>9. \A j \in Nat : s * j \in Nat /\ (s * j) * p = b * j /\ (s * j >= m <=> j >= u)
  <2> SUFFICES ASSUME NEW j \in Nat PROVE s * j \in Nat /\ (s * j) * p = b * j /\ (s * j >= m <=> j >= u)
    OBVIOUS
  <2>1. s * j \in Nat /\ (s * j) * p = b * j
    BY <1>2, Steps
  <2>2. j >= u => s * u <= s * j
    BY TimesOrder
  <2>3. s * u \in Nat
    OBVIOUS
  <2> QED
    BY <1>6, <2>1, <2>2, <2>3
<1> HIDE DEF B
<1>10. \A j \in Nat : Takes(f, p, j) <=> Good(B, w, u, j)
  <2> SUFFICES ASSUME NEW j \in Nat PROVE Takes(f, p, j) <=> Good(B, w, u, j)
    OBVIOUS
  <2>1. Takes(f, p, j) <=> j > 0 /\ s * j >= m /\ b * j >= w
    BY <1>1, <1>2 DEF Takes
  <2>2. B[j] = b * j /\ (s * j >= m <=> j >= u)
    BY <1>8, <1>9
  <2> QED
    BY <2>1, <2>2 DEF Good
<1>11. PICK e \in Nat : e = IF n < u THEN u ELSE n
  OBVIOUS
<1>12. PICK l \in Nat : l = IF v < u THEN u ELSE v
  OBVIOUS
<1>13. PICK g \in Nat : g = IF Few(B, w, h, e) THEN l ELSE e
  OBVIOUS
<1>14. PICK k \in Nat : k = IF Few(B, w, h, g) THEN 0 ELSE g
  OBVIOUS
<1>15. Si!PlannedQty(f, p, a, z) = s * k
  <2> DEFINE enough == Si!Enough(f, p, a, z)
             least == Si!Up(f.minNotional, p, f.step, z.least)
             bumped == IF least < f.minQty THEN Si!Up(f.minQty, 1, f.step, 0) ELSE least
             planned == IF Si!Low(f, p, enough, z) THEN bumped ELSE enough
  <2>1. enough = s * e
    <3>1. s * n < m <=> n < u
      BY <1>9
    <3> QED
      BY <1>1, <1>5, <1>6, <1>11, <3>1 DEF Si!Enough
  <2>2. bumped = s * l
    <3>1. s * v < m <=> v < u
      BY <1>9
    <3> QED
      BY <1>1, <1>6, <1>7, <1>12, <3>1
  <2>3. \A j \in Nat : Si!Low(f, p, s * j, z) <=> Few(B, w, h, j)
    <3> SUFFICES ASSUME NEW j \in Nat PROVE Si!Low(f, p, s * j, z) <=> Few(B, w, h, j)
      OBVIOUS
    <3>1. B[j] = b * j /\ (s * j) * p = b * j
      BY <1>8, <1>9
    <3>2. Si!Low(f, p, s * j, z) <=> w > 0 /\ 2 * ((s * j) * p) + h < 2 * w
      BY <1>1, <1>4 DEF Si!Low
    <3> QED
      BY <3>1, <3>2 DEF Few
  <2>4. Si!PlannedQty(f, p, a, z) = IF Si!Low(f, p, planned, z) THEN 0 ELSE planned
    BY DEF Si!PlannedQty
  <2> HIDE DEF enough, bumped
  <2>5. planned = s * g
    BY <1>13, <2>1, <2>2, <2>3
  <2> HIDE DEF planned
  <2>6. s * 0 = 0
    OBVIOUS
  <2> QED
    BY <1>14, <2>3, <2>4, <2>5, <2>6
<1>16. /\ k > 0 => Near(B, a, w, u, k)
       /\ k = 0 => \A j \in Nat : Good(B, w, u, j) /\ B[j] <= a => B[j] \in {a, w}
       /\ NoTie(B, a, w) => Exact(B, a, w, u, k)
  <2>1. Worth(B)
    BY <1>8 DEF Worth
  <2>2. Paid(B, a, n)
    BY <1>5, <1>8, ZenonT(30) DEF Paid, MostOf
  <2>3. Made(B, w, v)
    <3>1. B[v] >= w
      BY <1>7, <1>8 DEF LeastOf
    <3>2. ASSUME NEW j \in Nat, B[j] >= w PROVE j >= v \/ (B[j] = w /\ v = j + 1)
      <4>1. B[j] = b * j /\ b * j >= w
        BY <1>8, <3>2
      <4>2. \A i \in Nat : b * i >= w => (i >= v \/ (z.least = 1 /\ b * i = w /\ v = i + 1))
        BY <1>7, Zenon DEF LeastOf
      <4>3. j >= v \/ (b * j = w /\ v = j + 1)
        BY <4>1, <4>2, Zenon
      <4> QED
        BY <4>1, <4>3
    <3> QED
      BY <3>1, <3>2 DEF Made
  <2>4. k = Chosen(B, w, h, n, u, v)
    BY <1>11, <1>12, <1>13, <1>14 DEF Chosen
  <2> QED
    BY <2>1, <2>2, <2>3, <2>4, PlanInNumbers
<1>17. ~Si!Ties(f, p, a) => NoTie(B, a, w)
  <2>1. \A j \in Nat : (b * j) % b = 0
    BY Steps
  <2>2. Si!Ties(f, p, a) <=> a % b = 0 \/ (w > 0 /\ w % b = 0)
    BY <1>1, <1>2 DEF Si!Ties, Si!Tied
  <2>3. \A j \in Nat : (B[j] = a => a % b = 0) /\ (B[j] = w => w % b = 0)
    BY <1>8, <2>1, ZenonT(30)
  <2> QED
    BY <2>2, <2>3 DEF NoTie
<1>18. u = 0 => m = 0
  BY <1>6
<1>19. \A j \in Nat : B[j] = (p * f.step) * j /\ Si!PlannedQty(f, p, a, z) = f.step * k
  BY <1>1, <1>2, <1>8, <1>15
<1> HIDE DEF B
<1>20. k > 0 =>
         /\ Takes(f, p, k)
         /\ \A j \in Nat : Takes(f, p, j) /\ (p * f.step) * j <= a => j <= k + 1
         /\ (p * f.step) * k <= a \/ \A j \in Nat : j + 1 < k => ~Takes(f, p, j)
  BY <1>10, <1>16, <1>19 DEF Near
<1>21. k = 0 =>
         \A j \in Nat : Takes(f, p, j) /\ (p * f.step) * j <= a =>
           (p * f.step) * j \in {a, f.minNotional}
  BY <1>1, <1>10, <1>16, <1>19
<1>22. ~Si!Ties(f, p, a) =>
         \/ Takes(f, p, k) /\ (p * f.step) * k <= a /\ (\A j \in Nat : (p * f.step) * j <= a => j <= k)
         \/ /\ Takes(f, p, k)
            /\ \A j \in Nat : j < k => ~Takes(f, p, j)
            /\ \A j \in Nat : (p * f.step) * j <= a => ~Takes(f, p, j)
         \/ /\ k = 0 /\ f.minQty = 0 /\ f.minNotional = 0
            /\ \A j \in Nat : (p * f.step) * j <= a => j = 0
  <2> SUFFICES ASSUME Exact(B, a, w, u, k) PROVE
         \/ Takes(f, p, k) /\ (p * f.step) * k <= a /\ (\A j \in Nat : (p * f.step) * j <= a => j <= k)
         \/ /\ Takes(f, p, k)
            /\ \A j \in Nat : j < k => ~Takes(f, p, j)
            /\ \A j \in Nat : (p * f.step) * j <= a => ~Takes(f, p, j)
         \/ /\ k = 0 /\ f.minQty = 0 /\ f.minNotional = 0
            /\ \A j \in Nat : (p * f.step) * j <= a => j = 0
    BY <1>16, <1>17
  <2> QED
    BY <1>1, <1>10, <1>18, <1>19 DEF Exact
<1> QED
  BY <1>19, <1>20, <1>21, <1>22, Zenon
\* In quantities: what is taken, within the amount, is a number of steps that it pays.
LEMMA TakenInSteps ==
  ASSUME NEW f \in Filter, NEW p \in Nat \ {0}, NEW r \in Nat, Si!Accepts(f, r, p)
  PROVE  \E j \in Nat : r = f.step * j /\ r * p = (p * f.step) * j /\ Takes(f, p, j)
<1>1. f.step \in Nat \ {0}
  BY DEF Filter
<1>2. PICK j \in Nat : r = f.step * j
  BY <1>1, InSteps DEF Si!Accepts
<1>3. r * p = (p * f.step) * j /\ (r > 0 <=> j > 0)
  BY <1>1, <1>2, Steps
<1>4. Takes(f, p, j)
  BY <1>2, <1>3 DEF Si!Accepts, Takes
<1> QED
  BY <1>2, <1>3, <1>4

LEMMA StepsAreTaken ==
  ASSUME NEW f \in Filter, NEW p \in Nat \ {0}, NEW k \in Nat, Takes(f, p, k), f.step * k <= f.maxQty
  PROVE  Si!Accepts(f, f.step * k, p)
<1>1. f.step \in Nat \ {0}
  BY DEF Filter
<1>2. (f.step * k) % f.step = 0 /\ (f.step * k > 0 <=> k > 0) /\ (f.step * k) * p = (p * f.step) * k
  BY <1>1, Steps
<1> QED
  BY <1>2 DEF Si!Accepts, Takes

LEMMA PlanIsBest ==
  ASSUME NEW f \in Filter, NEW p \in Nat \ {0}, NEW a \in Nat \ {0}, NEW z \in AnyNoise,
         NEW q \in Nat, q = Si!PlannedQty(f, p, a, z), q <= f.maxQty
  PROVE  /\ q # 0 => q % f.step = 0 /\ q >= f.minQty /\ Si!IsNearBest(q, f, p, a)
         /\ q = 0 => \A r \in Si!Within(f, p, a) : r * p \in {a, f.minNotional}
         /\ ~Si!Ties(f, p, a) =>
              \/ q # 0 /\ Si!IsBest(q, f, p, a)
              \/ q = 0 /\ Si!Within(f, p, a) = {} /\ f.minQty = 0 /\ f.minNotional = 0
<1>1. PICK s \in Nat \ {0}, b \in Nat \ {0} : s = f.step /\ b = p * s
  BY DEF Filter
<1>2. PICK k \in Nat :
        /\ q = s * k
        /\ k > 0 => /\ Takes(f, p, k)
                    /\ \A j \in Nat : Takes(f, p, j) /\ b * j <= a => j <= k + 1
                    /\ b * k <= a \/ \A j \in Nat : j + 1 < k => ~Takes(f, p, j)
        /\ k = 0 => \A j \in Nat : Takes(f, p, j) /\ b * j <= a => b * j \in {a, f.minNotional}
        /\ ~Si!Ties(f, p, a) =>
             \/ Takes(f, p, k) /\ b * k <= a /\ (\A j \in Nat : b * j <= a => j <= k)
             \/ /\ Takes(f, p, k)
                /\ \A j \in Nat : j < k => ~Takes(f, p, j)
                /\ \A j \in Nat : b * j <= a => ~Takes(f, p, j)
             \/ /\ k = 0 /\ f.minQty = 0 /\ f.minNotional = 0
                /\ \A j \in Nat : b * j <= a => j = 0
  <2>1. PICK k \in Nat :
          /\ Si!PlannedQty(f, p, a, z) = f.step * k
          /\ k > 0 => /\ Takes(f, p, k)
                      /\ \A j \in Nat : Takes(f, p, j) /\ (p * f.step) * j <= a => j <= k + 1
                      /\ (p * f.step) * k <= a \/ \A j \in Nat : j + 1 < k => ~Takes(f, p, j)
          /\ k = 0 => \A j \in Nat : Takes(f, p, j) /\ (p * f.step) * j <= a => (p * f.step) * j \in {a, f.minNotional}
          /\ ~Si!Ties(f, p, a) =>
               \/ Takes(f, p, k) /\ (p * f.step) * k <= a /\ (\A j \in Nat : (p * f.step) * j <= a => j <= k)
               \/ /\ Takes(f, p, k)
                  /\ \A j \in Nat : j < k => ~Takes(f, p, j)
                  /\ \A j \in Nat : (p * f.step) * j <= a => ~Takes(f, p, j)
               \/ /\ k = 0 /\ f.minQty = 0 /\ f.minNotional = 0
                  /\ \A j \in Nat : (p * f.step) * j <= a => j = 0
    BY PlanInSteps
  <2>2. p * f.step = b /\ q = s * k
    BY <1>1, <2>1
  <2> QED
    BY <2>1, <2>2
<1>3. q % s = 0 /\ q * p = b * k /\ (q > 0 <=> k > 0)
  <2>1. (s * k) % s = 0 /\ (s * k) * p = (p * s) * k /\ (s * k > 0 <=> k > 0)
    BY Steps
  <2> QED
    BY <1>1, <1>2, <2>1
<1>4. Takes(f, p, k) => Si!Accepts(f, q, p) /\ q >= f.minQty
  BY <1>1, <1>2, StepsAreTaken DEF Si!Accepts
<1>5. ASSUME NEW r \in Si!Within(f, p, a)
      PROVE  \E j \in Nat : r = s * j /\ r * p = b * j /\ b * j <= a /\ Takes(f, p, j)
  <2>1. r \in Nat /\ Si!Accepts(f, r, p) /\ r * p <= a
    BY DEF Si!Within
  <2>2. PICK j \in Nat : r = f.step * j /\ r * p = (p * f.step) * j /\ Takes(f, p, j)
    BY <2>1, TakenInSteps
  <2> QED
    BY <1>1, <2>1, <2>2
<1>6. q # 0 => q % f.step = 0 /\ q >= f.minQty /\ Si!IsNearBest(q, f, p, a)
  <2> SUFFICES ASSUME k > 0 PROVE q % f.step = 0 /\ q >= f.minQty /\ Si!IsNearBest(q, f, p, a)
    BY <1>3
  <2>1. Si!Accepts(f, q, p) /\ q >= f.minQty /\ q % f.step = 0
    BY <1>1, <1>2, <1>3, <1>4
  <2>2. ASSUME NEW r \in Si!Within(f, p, a) PROVE r <= q + s
    <3>1. PICK j \in Nat : r = s * j /\ b * j <= a /\ Takes(f, p, j)
      BY <1>5, <2>2
    <3>2. j <= k + 1
      BY <1>2, <3>1
    <3>3. s * j <= s * (k + 1) /\ s * (k + 1) = s * k + s
      BY <3>2, TimesOrder
    <3> QED
      BY <1>2, <3>1, <3>3
  <2>3. ASSUME q * p > a, NEW r \in 1 .. q - s - 1, Si!Accepts(f, r, p) PROVE FALSE
    <3>1. r \in Nat /\ r + s < q
      BY <2>3
    <3>2. PICK j \in Nat : r = f.step * j /\ Takes(f, p, j)
      BY <2>3, <3>1, TakenInSteps
    <3>3. s * (j + 1) = s * j + s
      BY TimesOrder
    <3>4. ~(s * k <= s * (j + 1))
      BY <1>1, <1>2, <3>1, <3>2, <3>3
    <3>5. ~(k <= j + 1)
      BY <3>4, TimesOrder
    <3>6. ~(b * k <= a)
      BY <1>3, <2>3
    <3> QED
      BY <1>2, <3>2, <3>5, <3>6
  <2>4. q * p <= a \/ \A r \in 1 .. q - s - 1 : ~Si!Accepts(f, r, p)
    <3>1. q * p \in Int
      OBVIOUS
    <3> QED
      BY <2>3, <3>1
  <2> QED
    BY <1>1, <2>1, <2>2, <2>4 DEF Si!IsNearBest
<1>7. q = 0 => \A r \in Si!Within(f, p, a) : r * p \in {a, f.minNotional}
  BY <1>2, <1>3, <1>5
<1>8. CASE Takes(f, p, k) /\ b * k <= a /\ \A j \in Nat : b * j <= a => j <= k
  <2>1. \A r \in Si!Within(f, p, a) : r <= q
    <3> SUFFICES ASSUME NEW r \in Si!Within(f, p, a) PROVE r <= q
      OBVIOUS
    <3>1. PICK j \in Nat : r = s * j /\ b * j <= a
      BY <1>5
    <3>2. j <= k
      BY <1>8, <3>1
    <3> QED
      BY <1>2, <3>1, <3>2, TimesOrder
  <2>2. q \in Si!Within(f, p, a)
    <3>1. q > 0 /\ q * p <= a
      BY <1>3, <1>4, <1>8 DEF Si!Accepts
    <3>2. q <= q * p /\ q * p \in Int
      OBVIOUS
    <3>3. q \in 1 .. a
      BY <3>1, <3>2
    <3> QED
      BY <1>4, <1>8, <3>1, <3>3 DEF Si!Within
  <2>3. q # 0 /\ Si!IsBest(q, f, p, a)
    BY <1>4, <1>8, <2>1, <2>2 DEF Si!IsBest, Si!Accepts
  <2> QED
    BY <1>6, <1>7, <2>3
<1>9. CASE /\ Takes(f, p, k)
           /\ \A j \in Nat : j < k => ~Takes(f, p, j)
           /\ \A j \in Nat : b * j <= a => ~Takes(f, p, j)
  <2>1. Si!Within(f, p, a) = {}
    BY <1>5, <1>9
  <2>2. ASSUME NEW r \in 1 .. q - 1, Si!Accepts(f, r, p) PROVE FALSE
    <3>1. r \in Nat /\ r < q
      OBVIOUS
    <3>2. PICK j \in Nat : r = f.step * j /\ Takes(f, p, j)
      BY <2>2, <3>1, TakenInSteps
    <3>3. ~(s * k <= s * j)
      BY <1>1, <1>2, <3>1, <3>2
    <3>4. ~(k <= j)
      BY <3>3, TimesOrder
    <3> QED
      BY <1>9, <3>2, <3>4
  <2>3. q # 0 /\ Si!IsBest(q, f, p, a)
    BY <1>4, <1>9, <2>1, <2>2 DEF Si!IsBest, Si!Accepts
  <2> QED
    BY <1>6, <1>7, <2>3
<1>10. CASE /\ k = 0 /\ f.minQty = 0 /\ f.minNotional = 0
            /\ \A j \in Nat : b * j <= a => j = 0
  <2>1. Si!Within(f, p, a) = {}
    BY <1>5, <1>10 DEF Takes
  <2>2. q = 0
    BY <1>3, <1>10
  <2> QED
    BY <1>7, <1>10, <2>1, <2>2
<1> QED
  BY <1>2, <1>6, <1>7, <1>8, <1>9, <1>10

\* A quantity in steps that is not too small passes the rounding of orders as it is.
LEMMA EnforcedIsSame ==
  ASSUME NEW f \in Filter, NEW q \in Nat, q % f.step = 0, q >= f.minQty
  PROVE  Si!Enforced(f, q) = q
<1>1. PICK s \in Nat \ {0}, m \in Nat : s = f.step /\ m = f.minQty
  BY DEF Filter
<1>2. PICK k \in Nat : q = s * k
  BY <1>1, InSteps
<1>3. Si!Down(q, 1, s, 0) = s * ((2 * (s * k)) \div (2 * s))
  BY <1>2 DEF Si!Down
<1>4. PICK d \in Nat \ {0} : d = 2 * s /\ 2 * (s * k) = d * k
  <2>1. (2 * s) * k = 2 * (s * k)
    OBVIOUS
  <2> QED
    BY <2>1
<1>5. (d * k) \div d = k
  OBVIOUS
<1>6. Si!Down(q, 1, s, 0) = q
  BY <1>2, <1>3, <1>4, <1>5
<1> QED
  BY <1>1, <1>6 DEF Si!Enforced

\* A plan is remembered with the filters it was made by.
PlanInv ==
    /\ v1 \in Filters /\ v2 \in PriceRange
    /\ v4.by \in Filters
    /\ v4.amount # Si!NoAmount =>
         /\ v4.amount \in Amounts
         /\ \E z \in Si!Noise : v4.qty = Si!Plan(v4.by, v2, v4.amount, z)

LEMMA SizingAre ==
  /\ Filters \subseteq Filter /\ Amounts \subseteq Nat \ {0} /\ PriceRange \subseteq Nat \ {0}
  /\ Si!Noise \subseteq AnyNoise
<1>1. Si!ConstantsOK
  BY ConstantsAssumption
<1> QED
  BY <1>1 DEF Si!ConstantsOK, Si!NoAmount, Si!Noise, Filter, AnyNoise, Signs

LEMMA PlanStep == PlanInv /\ [Si!Next]_(Si!vars) => PlanInv'
<1> SUFFICES ASSUME PlanInv, [Si!Next]_(Si!vars) PROVE PlanInv'
  OBVIOUS
<1>1. CASE UNCHANGED Si!vars
  BY <1>1 DEF Si!vars, PlanInv
<1>2. CASE Si!Preflight
  BY <1>2 DEF Si!Preflight, PlanInv
<1>3. CASE Si!EnterPlanned
  BY <1>3 DEF Si!EnterPlanned, Si!Enter, PlanInv
<1>4. CASE Si!EnterAsked
  BY <1>4 DEF Si!EnterAsked, Si!Enter, PlanInv
<1>5. CASE Si!Close
  BY <1>5 DEF Si!Close, PlanInv
<1>6. CASE Si!FiltersChange
  BY <1>6 DEF Si!FiltersChange, PlanInv
<1> QED
  BY <1>1, <1>2, <1>3, <1>4, <1>5, <1>6 DEF Si!Next

LEMMA PlanHolds == PlanInv => Si!PlansAreBest
<1> SUFFICES ASSUME PlanInv, v4.amount # Si!NoAmount, v4.by.found, v4.by.trading, v4.qty <= v4.by.maxQty
             PROVE  LET ties == Si!Ties(v4.by, v2, v4.amount) IN
                    /\ v4.qty # 0 =>
                         /\ Si!Enforced(v4.by, v4.qty) = v4.qty
                         /\ IF ties THEN Si!IsNearBest(v4.qty, v4.by, v2, v4.amount)
                            ELSE Si!IsBest(v4.qty, v4.by, v2, v4.amount)
                    /\ v4.qty = 0 =>
                         IF ties THEN \A r \in Si!Within(v4.by, v2, v4.amount) :
                                        r * v2 \in {v4.amount, v4.by.minNotional}
                         ELSE Si!Within(v4.by, v2, v4.amount) = {} /\ v4.by.minQty = 0 /\ v4.by.minNotional = 0
  BY DEF Si!PlansAreBest
<1>1. PICK f \in Filter, p \in Nat \ {0}, a \in Nat \ {0} : f = v4.by /\ p = v2 /\ a = v4.amount
  BY SizingAre DEF PlanInv
<1>2. PICK q : q = v4.qty
  OBVIOUS
<1>3. PICK z \in AnyNoise : q = Si!PlannedQty(f, p, a, z)
  BY <1>1, <1>2, SizingAre DEF PlanInv, Si!Plan
<1>4. q \in Nat /\ q <= f.maxQty
  <2>1. PICK k \in Nat : q = f.step * k
    BY <1>3, PlanInSteps
  <2> QED
    BY <1>1, <1>2, <2>1 DEF Filter
<1>5. /\ q # 0 => q % f.step = 0 /\ q >= f.minQty /\ Si!IsNearBest(q, f, p, a)
      /\ q = 0 => \A r \in Si!Within(f, p, a) : r * p \in {a, f.minNotional}
      /\ ~Si!Ties(f, p, a) =>
           \/ q # 0 /\ Si!IsBest(q, f, p, a)
           \/ q = 0 /\ Si!Within(f, p, a) = {} /\ f.minQty = 0 /\ f.minNotional = 0
  BY <1>3, <1>4, PlanIsBest
<1>6. q # 0 => Si!Enforced(f, q) = q
  BY <1>4, <1>5, EnforcedIsSame
<1> QED
  BY <1>1, <1>2, <1>5, <1>6

\* A plan for an amount that LOT_SIZE's maximum allows is the largest quantity the exchange
\* takes within the amount, or else the least it takes at all, and passes the later rounding
\* unchanged; where floats can move a quotient across a step, it is within one of that
\* (PlansAreBest).
THEOREM BestIsPlanned == Spec => []PlansAreBest
<1> DEFINE Inv == topic = "sizing" => PlanInv
<1>1. Init => Inv
  BY SizingRuns DEF Si!Init, PlanInv
<1>2. Inv /\ [Next]_vars => Inv'
  BY SizingRuns, PlanStep
<1>3. Inv => PlansAreBest
  BY PlanHolds DEF PlansAreBest
<1> QED
  BY <1>1, <1>2, <1>3, PTL DEF Spec
-----------------------------------------------------------------------------
(* Analysis: v2 is the candidate, v3 how far it is, v4 the thresholds, v5  *)
(* the regime they are of, v6 the levels, v7 the confidence.               *)

LEMMA AnalysisRuns ==
  /\ Init /\ topic = "analysis" => An!Init
  /\ [Next]_vars /\ topic' = "analysis" => topic = "analysis" /\ [An!Next]_(An!vars)
BY DEF Init, Next, vars, An!vars

\* A snapshot that the filters let through.
Quiet(s) ==
  /\ s.atr \in Nat /\ s.atr >= An!Tenth /\ s.atr <= 80 * An!Tenth
  /\ s.swing \in Int /\ s.far \in Int /\ s.pool \in Int
  /\ s.day \in An!Day

Threshold == [rr: Nat, stop: Int, conf: Int]

\* The gate's thresholds, and where they are no looser than the base.
LEMMA ThresholdsAre ==
  ASSUME NEW gate, NEW r
  PROVE  LET t == An!Thresholds(gate, r)
         IN  /\ t \in Threshold /\ t.rr >= 1000
             /\ r # "LOW_VOLATILITY" => t.rr >= An!Base.rr /\ t.stop <= An!Base.stop /\ t.conf >= An!Base.conf
<1>1. An!Base \in Threshold /\ An!Base.rr >= 1000 /\ An!Hard \in Threshold /\ An!Hard.rr = 1000
  BY DEF An!Base, An!Hard, Threshold, An!Tenth
<1>2. An!OfRegime(r) \in Threshold
  BY <1>1 DEF An!OfRegime, An!Base, Threshold, An!Tenth
<1>3. ASSUME NEW s \in Threshold, NEW t \in Threshold
      PROVE  LET u == An!Tighter(s, t)
             IN  u \in Threshold /\ u.rr >= s.rr /\ u.rr >= t.rr /\ u.stop <= t.stop /\ u.conf >= t.conf
  BY <1>3 DEF An!Tighter, An!Most, An!Least, Threshold
<1>4. PICK t \in Threshold : t = An!Tighter(An!OfRegime(r), An!Hard) /\ t.rr >= 1000
  BY <1>1, <1>2, <1>3 DEF Threshold
<1>5. PICK u \in Threshold :
        /\ u = An!Tighter(t, An!Base) /\ u.rr >= t.rr
        /\ u.rr >= An!Base.rr /\ u.stop <= An!Base.stop /\ u.conf >= An!Base.conf
  BY <1>1, <1>3
<1>6. An!Thresholds(gate, r) = IF ~gate THEN An!Base ELSE IF r = "LOW_VOLATILITY" THEN t ELSE u
  BY <1>4, <1>5 DEF An!Thresholds
<1>7. CASE ~gate
  BY <1>1, <1>6, <1>7 DEF An!Base, An!Tenth
<1>8. CASE gate /\ r = "LOW_VOLATILITY"
  BY <1>4, <1>6, <1>8
<1>9. CASE gate /\ r # "LOW_VOLATILITY"
  <2>1. An!Thresholds(gate, r) = u
    BY <1>6, <1>9
  <2>2. u \in Threshold /\ u.rr >= 1000
    <3>1. u.rr \in Nat /\ t.rr \in Nat /\ u.rr >= t.rr /\ t.rr >= 1000
      BY <1>4, <1>5 DEF Threshold
    <3> QED
      BY <1>5, <3>1
  <2>3. u.rr >= An!Base.rr /\ u.stop <= An!Base.stop /\ u.conf >= An!Base.conf
    BY <1>5
  <2> QED
    BY ONLY <2>1, <2>2, <2>3
<1> QED
  BY <1>7, <1>8, <1>9

\* The balanced stop is refused or at least its minimum.
LEMMA BalancedIs ==
  ASSUME NEW s, Quiet(s), NEW max \in Int
  PROVE  An!BalancedStop(s, max) \in Int
         /\ (An!BalancedStop(s, max) = An!NoStop \/ An!BalancedStop(s, max) >= An!BalancedMin)
<1>1. PICK a \in Nat, w \in Int : a = s.atr /\ w = s.swing
  BY DEF Quiet
<1>2. (22 * a) \div 10 \in Int /\ a \div 4 \in Int
  OBVIOUS
<1>3. PICK x \in Int, y \in Int : x = (22 * a) \div 10 /\ y = w + a \div 4
  BY <1>2
<1> QED
  BY <1>1, <1>3 DEF An!BalancedStop, An!Most, An!NoStop, An!BalancedMin, An!Tenth

LEMMA DayIs ==
  ASSUME NEW s, Quiet(s), s.day # An!NoDay, NEW min \in Int, NEW max \in Int
  PROVE  An!DayStop(s, min, max) \in Int
         /\ (An!DayStop(s, min, max) = An!NoStop \/ An!DayStop(s, min, max) >= min)
<1>1. PICK a \in Nat, l \in Int : a = s.day.atr /\ l = s.day.level
  BY DEF Quiet, An!Day
<1>2. l + (15 * a) \div 100 \in Int
  OBVIOUS
<1>3. PICK d \in Int : d = l + (15 * a) \div 100
  BY <1>2
<1> QED
  BY <1>1, <1>3 DEF An!DayStop, An!Most, An!NoStop

\* Whichever engine speaks, nine tenths of the stop it gives are beyond the entry band.
LEMMA StopIsOutside ==
  ASSUME NEW s, Quiet(s), NEW mode, NEW gate, NEW r, NEW thr \in Threshold
  PROVE  LET stop == An!Stop(mode, gate, r, thr, s)
         IN  stop \in Int /\ (stop > 0 => 900 * stop > An!EntryPad(s))
<1>1. An!BalancedMax(gate, r) \in Int /\ thr.stop \in Int
  BY DEF An!BalancedMax, An!Tenth, Threshold
<1>2. PICK max \in Int : max = An!BalancedMax(gate, r)
  BY <1>1
<1>3. PICK a \in Nat : a = s.atr /\ a >= 1000 /\ a <= 80000
  BY DEF Quiet, An!Tenth
<1>4. PICK stop : stop = An!Stop(mode, gate, r, thr, s)
  OBVIOUS
<1>5. \/ stop = An!BalancedStop(s, max)
      \/ s.day # An!NoDay /\ stop = An!DayStop(s, An!BalancedMin, max)
      \/ s.day # An!NoDay /\ stop = An!DayStop(s, 20 * An!Tenth, thr.stop)
      \/ stop = An!LegacyStop(s)
  BY <1>2, <1>4 DEF An!Stop
<1>6. SUFFICES stop \in Int /\ (stop = -1 \/ stop >= 18000 \/ 900 * stop > 150 * a)
  BY <1>3, <1>4 DEF An!EntryPad
<1>7. CASE stop = An!LegacyStop(s)
  <2>1. PICK w \in Int : w = s.swing
    BY DEF Quiet
  <2>2. (18 * a) \div 10 \in Int /\ (18 * a) \div 10 >= a /\ a \div 5 \in Int
    BY <1>3
  <2>3. PICK x \in Int, y \in Int : x = (18 * a) \div 10 /\ y = w + a \div 5
    BY <2>2
  <2>4. stop \in Int /\ stop >= x
    BY <1>3, <1>7, <2>1, <2>3 DEF An!LegacyStop, An!Most
  <2> QED
    BY <1>3, <2>2, <2>3, <2>4
<1>8. An!BalancedMin = 18000 /\ 20 * An!Tenth = 20000 /\ An!NoStop = -1
  BY DEF An!BalancedMin, An!Tenth, An!NoStop
<1>9. CASE stop = An!BalancedStop(s, max)
  BY <1>8, <1>9, BalancedIs
<1>10. CASE s.day # An!NoDay /\ stop = An!DayStop(s, An!BalancedMin, max)
  BY <1>8, <1>10, DayIs
<1>11. CASE s.day # An!NoDay /\ stop = An!DayStop(s, 20 * An!Tenth, thr.stop)
  BY <1>1, <1>8, <1>11, DayIs
<1> QED
  BY <1>5, <1>7, <1>9, <1>10, <1>11

\* There are at most three targets, and so the nearest of them.
LEMMA CandidatesAre ==
  ASSUME NEW s, Quiet(s), NEW risk \in Nat
  PROVE  \E a, b, c \in Int : An!Candidates(s, risk) \subseteq {a, b, c}
<1>1. An!AtrMultiplier(s) \in Int
  <2>1. PICK p \in Int : p = s.atr \div An!Tenth
    BY DEF Quiet, An!Tenth
  <2> QED
    BY <2>1 DEF An!AtrMultiplier
<1>2. An!AtrMultiplier(s) * risk \in Int
  BY <1>1
<1>3. 1000 * s.far \in Int /\ 1000 * s.pool \in Int
  BY DEF Quiet
<1>4. An!Candidates(s, risk) \subseteq {An!AtrMultiplier(s) * risk, 1000 * s.far, 1000 * s.pool}
  BY DEF An!Candidates
<1> QED
  BY <1>2, <1>3, <1>4

LEMMA NearestIs ==
  ASSUME NEW a \in Int, NEW b \in Int, NEW c \in Int, NEW cs \in SUBSET {a, b, c}, cs # {}
  PROVE  An!Nearest(cs) \in cs /\ \A d \in cs : An!Nearest(cs) <= d
<1>1. \E e \in cs : \A d \in cs : e <= d
  <2>1. CASE a \in cs /\ (b \in cs => a <= b) /\ (c \in cs => a <= c)
    BY <2>1
  <2>2. CASE b \in cs /\ (a \in cs => b <= a) /\ (c \in cs => b <= c)
    BY <2>2
  <2>3. CASE c \in cs /\ (a \in cs => c <= a) /\ (b \in cs => c <= b)
    BY <2>3
  <2>4. a \in cs \/ b \in cs \/ c \in cs
    OBVIOUS
  <2> QED
    BY <2>1, <2>2, <2>3, <2>4
<1> QED
  BY <1>1 DEF An!Nearest

\* The levels that are built stand on a stop that was given and a target that pays.
LEMMA LevelsAre ==
  ASSUME NEW s, Quiet(s), NEW mode, NEW gate, NEW r, NEW thr \in Threshold, thr.rr >= 1000,
         An!BuildLevels(mode, gate, r, thr, s) # An!Refused
  PROVE  LET l == An!BuildLevels(mode, gate, r, thr, s)
         IN  /\ 1000 * l.stop > An!EntryPad(s) /\ l.tp1 > An!EntryPad(s)
             /\ l.tp1 < l.tp2 /\ l.tp2 < l.tp3
             /\ l.tp2 \in An!Paying(s, l.stop, thr)
             /\ \A c \in An!Paying(s, l.stop, thr) : l.tp2 <= c
<1>1. PICK l : l = An!BuildLevels(mode, gate, r, thr, s)
  OBVIOUS
<1>2. PICK stop \in Int : stop = An!Stop(mode, gate, r, thr, s) /\ (stop > 0 => 900 * stop > An!EntryPad(s))
  BY StopIsOutside
<1>3. PICK paying : paying = An!Paying(s, stop, thr)
  OBVIOUS
<1>4. PICK tp2 : tp2 = An!Nearest(paying)
  OBVIOUS
<1>5. /\ stop > 0 /\ paying # {}
      /\ l = [stop |-> stop, tp1 |-> An!Least(1200 * stop, tp2 - 100 * stop), tp2 |-> tp2,
              tp3 |-> An!Most(3500 * stop, tp2 + 500 * stop)]
  BY <1>1, <1>2, <1>3, <1>4 DEF An!BuildLevels
<1>6. tp2 \in paying /\ tp2 \in Int /\ \A c \in paying : tp2 <= c
  <2>1. PICK a \in Int, b \in Int, c \in Int : An!Candidates(s, stop) \subseteq {a, b, c}
    BY <1>2, <1>5, CandidatesAre
  <2>2. paying \in SUBSET {a, b, c}
    BY <1>3, <2>1 DEF An!Paying
  <2>3. An!Nearest(paying) \in paying /\ \A d \in paying : An!Nearest(paying) <= d
    BY <1>5, <2>2, NearestIs
  <2> QED
    BY <1>4, <2>2, <2>3
<1>7. tp2 >= 1000 * stop
  <2>1. PICK rr \in Nat : rr = thr.rr /\ rr >= 1000
    BY DEF Threshold
  <2>2. tp2 >= rr * stop
    BY <1>3, <1>6, <2>1 DEF An!Paying
  <2>3. rr * stop >= 1000 * stop /\ rr * stop \in Int
    BY <1>2, <1>5, <2>1
  <2> QED
    BY <1>2, <1>6, <2>2, <2>3
<1>8. PICK pad \in Int : pad = An!EntryPad(s)
  BY DEF Quiet, An!EntryPad
<1>9. PICK tp1 \in Int, tp3 \in Int : /\ tp1 = An!Least(1200 * stop, tp2 - 100 * stop)
                                     /\ tp3 = An!Most(3500 * stop, tp2 + 500 * stop)
  BY <1>2, <1>6 DEF An!Least, An!Most
<1>10. 1000 * stop > pad /\ tp1 > pad /\ tp1 < tp2 /\ tp2 < tp3
  BY <1>2, <1>5, <1>6, <1>7, <1>8, <1>9 DEF An!Least, An!Most
<1>11. l.stop = stop /\ l.tp1 = tp1 /\ l.tp2 = tp2 /\ l.tp3 = tp3
  BY <1>5, <1>9
<1> QED
  BY <1>1, <1>3, <1>6, <1>8, <1>10, <1>11

\* Nothing else refuses.
LEMMA LevelsAreBuilt ==
  ASSUME NEW s, NEW mode, NEW gate, NEW r, NEW thr, NEW stop \in Int, stop > 0,
         An!Stop(mode, gate, r, thr, s) = stop, An!Paying(s, stop, thr) # {}
  PROVE  An!BuildLevels(mode, gate, r, thr, s) # An!Refused
<1>1. PICK l : l = An!BuildLevels(mode, gate, r, thr, s)
  OBVIOUS
<1>2. PICK paying : paying = An!Paying(s, stop, thr)
  OBVIOUS
<1>3. PICK tp2 : tp2 = An!Nearest(paying)
  OBVIOUS
<1>4. l = [stop |-> stop, tp1 |-> An!Least(1200 * stop, tp2 - 100 * stop), tp2 |-> tp2,
           tp3 |-> An!Most(3500 * stop, tp2 + 500 * stop)]
  BY <1>1, <1>2, <1>3 DEF An!BuildLevels
<1>5. "stop" \in DOMAIN l /\ "stop" \notin DOMAIN An!Refused
  BY <1>4 DEF An!Refused
<1> QED
  BY <1>1, <1>5

\* The levels of a candidate on its way are those of its thresholds, which are of the
\* regime that judged it, and the market is one that the filters let through.
AnalysisInv ==
    /\ v2.snap \in Snapshots /\ v7 \in Int
    /\ v3 \in {"context", "emitted"} =>
         /\ Quiet(v2.snap)
         /\ v4 = An!Thresholds(v2.deployment.gate, v5)
         /\ v6 = An!BuildLevels(v2.deployment.mode, v2.deployment.gate, v5, v4, v2.snap)
         /\ v6 # An!Refused
    /\ v3 = "emitted" => v7 >= v4.conf

LEMMA SnapshotsAre == ASSUME NEW s \in Snapshots, s.atr <= 80 * An!Tenth PROVE Quiet(s)
<1>1. An!ConstantsOK
  BY ConstantsAssumption
<1> QED
  BY <1>1 DEF An!ConstantsOK, Quiet

\* Confidence stays a number.
LEMMA LayersAre == ASSUME NEW l \in Layers PROVE An!LayerConfidence(l) \in Int
<1>1. An!ConstantsOK
  BY ConstantsAssumption
<1>2. /\ l.trend \in Int /\ l.structure \in Int /\ l.setup \in Int
      /\ l.triggers \in Int /\ l.aligned \in Int
  BY <1>1 DEF An!ConstantsOK
<1> QED
  BY <1>2 DEF An!LayerConfidence, An!Least, An!EntryHits

LEMMA ShiftIs == ASSUME NEW m, NEW s PROVE An!FilterShift(m, s) \in Int
<1>1. PICK a \in Int, b \in Int, c \in Int, d \in Int :
        /\ a = IF m.adx >= 35 THEN 40 ELSE 0
        /\ b = IF m.adx < 20 THEN 60 ELSE 0
        /\ c = IF s.atr > 50 * An!Tenth THEN 40 ELSE 0
        /\ d = IF m.stretched THEN 80 ELSE 0
  OBVIOUS
<1> QED
  BY <1>1 DEF An!FilterShift

LEMMA ContextsAre ==
  ASSUME NEW x \in Contexts, NEW side, NEW r
  PROVE  An!Additive(x, side) \in Int /\ An!RegimeShift(r, side) \in Int
<1>1. An!ConstantsOK
  BY ConstantsAssumption
<1>2. x.liquidity \in Int
  BY <1>1 DEF An!ConstantsOK
<1>3. An!OpenInterest(x, side) \in Int
  BY DEF An!OpenInterest
<1>4. An!Funding(x, side) \in Int
  BY DEF An!Funding
<1>5. PICK raw \in Int : raw = An!OpenInterest(x, side) + An!Funding(x, side) + 5 * x.liquidity
  BY <1>2, <1>3, <1>4
<1>6. raw \div 2 \in Int
  OBVIOUS
<1>7. An!Additive(x, side) \in Int
  BY <1>5, <1>6 DEF An!Additive, An!Least
<1>8. An!RegimeShift(r, side) \in Int
  BY DEF An!RegimeShift
<1> QED
  BY <1>7, <1>8

LEMMA ClampIs == ASSUME NEW x \in Int PROVE An!Clamp(x) \in Int
BY DEF An!Clamp, An!Most, An!Least

LEMMA AnalysisInit == An!Init => AnalysisInv
BY DEF An!Init, AnalysisInv

LEMMA AnalysisStep == AnalysisInv /\ [An!Next]_(An!vars) => AnalysisInv'
<1> SUFFICES ASSUME AnalysisInv, [An!Next]_(An!vars) PROVE AnalysisInv'
  OBVIOUS
<1>1. CASE UNCHANGED An!vars
  BY <1>1 DEF An!vars, AnalysisInv, Quiet
<1>2. CASE An!RegimeMoves
  BY <1>2 DEF An!RegimeMoves, AnalysisInv, Quiet
<1>3. CASE An!Judge
  <2>1. v2' = v2 /\ v2.snap \in Snapshots /\ v5' = v1
    BY <1>3 DEF An!Judge, AnalysisInv
  <2>2. /\ v3' # "emitted"
        /\ v4' = An!Thresholds(v2.deployment.gate, v5')
        /\ v6' = An!BuildLevels(v2.deployment.mode, v2.deployment.gate, v5', v4', v2.snap)
    BY <1>3 DEF An!Judge
  <2>3. v3' = "context" => v2.snap.atr <= 80 * An!Tenth /\ v6' # An!Refused
    BY <1>3 DEF An!Judge, An!Tradable
  <2>4. v7' \in Int
    <3>1. PICK l \in Layers, m \in Markets : v7' = An!LayerConfidence(l) + An!FilterShift(m, v2.snap)
      BY <1>3 DEF An!Judge
    <3> QED
      BY <3>1, LayersAre, ShiftIs
  <2> QED
    BY <2>1, <2>2, <2>3, <2>4, SnapshotsAre DEF AnalysisInv, Quiet
<1>4. CASE An!Decide
  <2>1. v2' = v2 /\ v4' = v4 /\ v5' = v5 /\ v6' = v6 /\ v3 = "context" /\ v3' # "context"
    BY <1>4 DEF An!Decide
  <2>2. v3' = "emitted" => v7' >= v4.conf
    BY <1>4 DEF An!Decide
  <2>3. v7' \in Int
    <3>1. PICK x \in Contexts, shift \in Int, c \in Int :
            v7' = IF shift = 0 THEN c ELSE An!Clamp(c + shift)
      <4>1. PICK x \in Contexts :
              LET c == An!Clamp(v7 + An!Additive(x, v2.side))
                  shift == IF v2.deployment.bias THEN An!RegimeShift(v1, v2.side) ELSE 0
              IN  v7' = IF shift = 0 THEN c ELSE An!Clamp(c + shift)
        BY <1>4 DEF An!Decide
      <4>2. v7 + An!Additive(x, v2.side) \in Int
        BY ContextsAre DEF AnalysisInv
      <4> QED
        BY <4>1, <4>2, ContextsAre, ClampIs
    <3> QED
      BY <3>1, ClampIs
  <2> QED
    BY <2>1, <2>2, <2>3 DEF AnalysisInv, Quiet
<1> QED
  BY <1>1, <1>2, <1>3, <1>4 DEF An!Next

LEMMA AnalysisAlways == Spec => [](topic = "analysis" => AnalysisInv)
<1> DEFINE Inv == topic = "analysis" => AnalysisInv
<1>1. Init => Inv
  BY AnalysisRuns, AnalysisInit
<1>2. Inv /\ [Next]_vars => Inv'
  BY AnalysisRuns, AnalysisStep
<1> QED
  BY <1>1, <1>2, PTL DEF Spec

\* Whatever stop engine spoke, the emitted signal's stop and first target lie beyond the
\* band of its entry, its ladder rises, and it aims at the nearest target that pays.
THEOREM SoundLevels == Spec => []LevelsAreSound
<1>1. (topic = "analysis" => AnalysisInv) => LevelsAreSound
  <2> SUFFICES ASSUME topic = "analysis", AnalysisInv, v3 = "emitted"
               PROVE  An!LevelsAreSound
    BY DEF LevelsAreSound, An!LevelsAreSound, An!Emitted
  <2>1. v4 \in Threshold /\ v4.rr >= 1000
    BY ThresholdsAre DEF AnalysisInv
  <2> QED
    BY <2>1, LevelsAre DEF AnalysisInv, An!LevelsAreSound
<1> QED
  BY <1>1, AnalysisAlways, PTL

\* Outside a quiet market and the balanced engines, what the regime gate lets pass would
\* have passed without it.
THEOREM GateIsTighter == Spec => []GateOnlyTightens
<1>1. (topic = "analysis" => AnalysisInv) => GateOnlyTightens
  <2> SUFFICES ASSUME topic = "analysis", AnalysisInv, v3 = "emitted", v5 # "LOW_VOLATILITY",
                      v2.deployment.mode \notin {"BALANCED", "BALANCED_1D"}
               PROVE  An!WouldPass(v2.deployment.mode)
    BY DEF GateOnlyTightens, An!GateOnlyTightens, An!Emitted
  <2> DEFINE mode == v2.deployment.mode
             gate == v2.deployment.gate
             snap == v2.snap
  <2>1. /\ v4 \in Threshold /\ v4.rr >= An!Base.rr /\ v4.stop <= An!Base.stop /\ v4.conf >= An!Base.conf
    BY ThresholdsAre DEF AnalysisInv
  <2>2. An!Base \in Threshold
    BY DEF An!Base, Threshold, An!Tenth
  <2>3. Quiet(snap) /\ An!BuildLevels(mode, gate, v5, v4, snap) # An!Refused
    BY DEF AnalysisInv
  <2>4. PICK stop \in Int : stop = An!Stop(mode, gate, v5, v4, snap)
    BY <2>1, <2>3, StopIsOutside
  <2>5. stop > 0 /\ An!Paying(snap, stop, v4) # {}
    BY <2>3, <2>4 DEF An!BuildLevels
  <2>6. An!Stop(mode, FALSE, v5, An!Base, snap) = stop
    <3>1. CASE mode = "PREV_1D_SUPPORT" /\ snap.day # An!NoDay
      <4>1. /\ stop = An!DayStop(snap, 20 * An!Tenth, v4.stop)
            /\ An!Stop(mode, FALSE, v5, An!Base, snap) = An!DayStop(snap, 20 * An!Tenth, An!Base.stop)
        BY <2>4, <3>1 DEF An!Stop
      <4>2. PICK d \in Int : d = snap.day.level + (15 * snap.day.atr) \div 100
        <5>1. snap.day.level \in Int /\ snap.day.atr \in Nat
          BY <2>3, <3>1 DEF Quiet, An!Day
        <5> QED
          BY <5>1
      <4>3. PICK max \in Int, base \in Int : max = v4.stop /\ base = An!Base.stop /\ max <= base
        BY <2>1, <2>2 DEF Threshold
      <4>4. d > 0 /\ d <= max
        BY <2>5, <4>1, <4>2, <4>3 DEF An!DayStop, An!NoStop
      <4>5. ~(d <= 0 \/ d > max) /\ ~(d <= 0 \/ d > base)
        BY <4>3, <4>4
      <4> QED
        BY <4>1, <4>2, <4>3, <4>5 DEF An!DayStop
    <3>2. CASE ~(mode = "PREV_1D_SUPPORT" /\ snap.day # An!NoDay)
      BY <2>4, <3>2 DEF An!Stop
    <3> QED
      BY <3>1, <3>2
  <2>7. An!Paying(snap, stop, An!Base) # {}
    <3>1. PICK c : c \in An!Paying(snap, stop, v4)
      BY <2>5
    <3>2. PICK rr \in Nat, base \in Nat : rr = v4.rr /\ base = An!Base.rr /\ rr >= base
      BY <2>1, <2>2 DEF Threshold
    <3>3. rr * stop >= base * stop /\ rr * stop \in Int /\ base * stop \in Int
      BY <2>5, <3>2
    <3>4. c \in Int
      BY <2>3, <2>5, <3>1, CandidatesAre DEF An!Paying
    <3>5. c \in An!Candidates(snap, stop) /\ c >= rr * stop
      BY <3>1, <3>2 DEF An!Paying
    <3>6. c >= base * stop
      BY <3>3, <3>4, <3>5
    <3> QED
      BY <3>2, <3>5, <3>6 DEF An!Paying
  <2>8. An!BuildLevels(mode, FALSE, v5, An!Base, snap) # An!Refused
    BY <2>5, <2>6, <2>7, LevelsAreBuilt
  <2>9. v7 >= An!Base.conf
    <3>1. v7 \in Int /\ v4.conf \in Int /\ v7 >= v4.conf /\ An!Base.conf \in Int
      BY <2>1, <2>2 DEF AnalysisInv, Threshold
    <3> QED
      BY <2>1, <3>1
  <2> QED
    BY <2>8, <2>9 DEF An!WouldPass
<1> QED
  BY <1>1, AnalysisAlways, PTL
-----------------------------------------------------------------------------
(* Exposure: v1 is the book, v2 the result of the day.                     *)

LEMMA ExposureRuns ==
  /\ Init /\ topic = "exposure" => Ex!Init
  /\ [Next]_vars /\ topic' = "exposure" => topic = "exposure" /\ [Ex!Next]_(Ex!vars)
BY DEF Init, Next, vars, Ex!vars

ExposureInv == IsFiniteSet(v1) /\ v2 \in Int

LEMMA SameSizes == \A S : Ex!Cardinality(S) = Cardinality(S)
BY DEF Cardinality, Ex!Cardinality

LEMMA ExposureInit == Ex!Init => ExposureInv
BY FS_EmptySet DEF Ex!Init, ExposureInv

LEMMA ExposureStep == ExposureInv /\ [Ex!Next]_(Ex!vars) => ExposureInv'
<1> SUFFICES ASSUME ExposureInv, [Ex!Next]_(Ex!vars) PROVE ExposureInv'
  OBVIOUS
<1> USE DEF ExposureInv
<1>1. CASE UNCHANGED Ex!vars
  BY <1>1 DEF Ex!vars
<1>2. CASE Ex!Enter
  BY <1>2, FS_AddElement DEF Ex!Enter
<1>3. CASE Ex!Fill
  <2>1. PICK p, q : v1' = (v1 \ {p}) \cup {q} /\ UNCHANGED <<v2, v3>>
    BY <1>3 DEF Ex!Fill
  <2>2. IsFiniteSet(v1 \ {p})
    BY FS_RemoveElement
  <2> QED
    BY <2>1, <2>2, FS_AddElement
<1>4. CASE Ex!Cancel
  BY <1>4, FS_RemoveElement DEF Ex!Cancel
<1>5. CASE Ex!Close
  BY <1>5, FS_RemoveElement DEF Ex!Close
<1>6. CASE Ex!Tick
  BY <1>6 DEF Ex!Tick
<1> QED
  BY <1>1, <1>2, <1>3, <1>4, <1>5, <1>6 DEF Ex!Next

\* A set of naturals that has a bound has a greatest element.
LEMMA GreatestOf ==
  ASSUME NEW n \in Nat, NEW S \in SUBSET (0 .. n), S # {}
  PROVE  Ex!Max(S) \in S /\ \A y \in S : y <= Ex!Max(S)
<1> DEFINE T == {k \in Nat : \E x \in S : x = n - k}
           R == OpToRel(<, Nat)
<1>1. R = {p \in Nat \X Nat : p[1] < p[2]}
  BY DEF OpToRel
<1>2. IsWellFoundedOn(R, Nat)
  BY NatLessThanWellFounded
<1>3. PICK x0 \in S : TRUE
  OBVIOUS
<1>4. n - x0 \in T /\ T \subseteq Nat
  BY <1>3
<1> HIDE DEF R
<1>5. PICK k \in T : \A m \in T : ~(<<m, k>> \in R)
  BY <1>2, <1>4, WFMin
<1>6. PICK x \in S : x = n - k
  BY <1>5
<1>7. ASSUME NEW y \in S PROVE y <= x
  <2>1. n - y \in T /\ n - y \in Nat /\ k \in Nat
    BY <1>5
  <2>2. ~(n - y < k)
    BY <1>1, <1>5, <2>1
  <2> QED
    BY <1>6, <2>1, <2>2
<1>8. \E z \in S : \A y \in S : z >= y
  BY <1>7
<1>9. Ex!Max(S) \in S /\ \A y \in S : Ex!Max(S) >= y
  BY <1>8 DEF Ex!Max
<1> QED
  BY <1>9

\* A part of a finite set is no larger.
LEMMA SmallerPart ==
  ASSUME NEW B, IsFiniteSet(B), NEW A \in SUBSET B
  PROVE  /\ Ex!Cardinality(A) \in Nat /\ Ex!Cardinality(B) \in Nat
         /\ Ex!Cardinality(A) <= Ex!Cardinality(B)
BY SameSizes, FS_Subset, FS_CardinalityType

\* The open positions of a side in a group.
Grouped(side, bk, g) == {p \in Ex!At(bk, "OPEN") : p.side = side /\ p.symbol \in g}

LEMMA FullestGroup ==
  ASSUME NEW bk, IsFiniteSet(bk), NEW s, NEW side
  PROVE  LET c == Ex!Correlated(s, side, bk)
         IN  /\ c \in Nat
             /\ \A g \in Groups : s \in g => Ex!Cardinality(Grouped(side, bk, g)) <= c
             /\ c = 0 \/ \E g \in Groups : s \in g /\ c = Ex!Cardinality(Grouped(side, bk, g))
<1> DEFINE S == {0} \cup {Ex!Cardinality(Grouped(side, bk, g)) : g \in {h \in Groups : s \in h}}
           n == Ex!Cardinality(bk)
<1>1. n \in Nat /\ \A g : Ex!Cardinality(Grouped(side, bk, g)) \in 0 .. n
  <2>1. \A g : Grouped(side, bk, g) \in SUBSET bk
    BY DEF Grouped, Ex!At
  <2> QED
    BY <2>1, SmallerPart
<1>2. S \in SUBSET (0 .. n) /\ S # {}
  BY <1>1
<1>3. Ex!Correlated(s, side, bk) = Ex!Max(S)
  BY DEF Ex!Correlated, Grouped
<1> HIDE DEF n, S
<1>4. Ex!Max(S) \in S /\ \A y \in S : y <= Ex!Max(S)
  BY <1>1, <1>2, GreatestOf
<1>5. PICK m : m = Ex!Max(S)
  OBVIOUS
<1>6. m \in Nat /\ \A g \in Groups : s \in g => Ex!Cardinality(Grouped(side, bk, g)) <= m
  BY <1>1, <1>2, <1>4, <1>5 DEF S
<1>7. m = 0 \/ \E g \in Groups : s \in g /\ m = Ex!Cardinality(Grouped(side, bk, g))
  BY <1>4, <1>5 DEF S
<1> QED
  BY <1>3, <1>5, <1>6, <1>7

LEMMA LossIs ==
  ASSUME NEW p \in Int
  PROVE  Ex!DailyLoss(p) = IF p < 0 THEN -p ELSE 0
<1>1. \E x \in {0, -p} : \A y \in {0, -p} : x >= y
  OBVIOUS
<1>2. Ex!Max({0, -p}) \in {0, -p} /\ \A y \in {0, -p} : Ex!Max({0, -p}) >= y
  BY <1>1 DEF Ex!Max
<1> QED
  BY <1>2 DEF Ex!DailyLoss

LEMMA OpensWithLess ==
  ASSUME NEW bk, IsFiniteSet(bk), NEW part \in SUBSET bk, NEW s, NEW side,
         NEW percent \in Int, NEW better \in Int, percent <= better, Ex!CanOpen(s, side, bk, percent)
  PROVE  Ex!CanOpen(s, side, part, better)
<1>1. /\ MaxOpen \in Nat /\ MaxSame \in Nat /\ MaxCorr \in Nat /\ MaxCorr > 0 /\ LossLimit \in Nat
  <2>1. Ex!ConstantsOK
    BY ConstantsAssumption
  <2> QED
    BY <2>1 DEF Ex!ConstantsOK
<1>2. \A status : Ex!At(part, status) \subseteq Ex!At(bk, status)
  BY DEF Ex!At
<1>3. ~Ex!IsLocked(s, part) /\ ~Ex!HasPending(s, part)
  BY <1>2 DEF Ex!CanOpen, Ex!IsLocked, Ex!HasPending
<1>4. IsFiniteSet(part) /\ \A S \in SUBSET bk : IsFiniteSet(S)
  BY FS_Subset
<1>5. Ex!Cardinality(Ex!At(part, "OPEN")) < MaxOpen
  <2>1. /\ Ex!At(bk, "OPEN") \in SUBSET bk /\ Ex!At(part, "OPEN") \in SUBSET Ex!At(bk, "OPEN")
        /\ Ex!Cardinality(Ex!At(bk, "OPEN")) < MaxOpen
    BY <1>2 DEF Ex!At, Ex!CanOpen
  <2> QED
    BY <1>1, <1>4, <2>1, SmallerPart
<1>6. Ex!SameDirection(side, part) < MaxSame
  <2> DEFINE A == {p \in Ex!At(part, "OPEN") : p.side = side}
             B == {p \in Ex!At(bk, "OPEN") : p.side = side}
  <2>1. B \in SUBSET bk /\ A \in SUBSET B
    BY <1>2 DEF Ex!At
  <2>2. Ex!SameDirection(side, part) = Ex!Cardinality(A) /\ Ex!Cardinality(B) < MaxSame
    BY DEF Ex!SameDirection, Ex!CanOpen
  <2> HIDE DEF A, B
  <2> QED
    BY <1>1, <1>4, <2>1, <2>2, SmallerPart
<1>7. Ex!Correlated(s, side, part) < MaxCorr
  <2>1. \A g : Grouped(side, part, g) \in SUBSET Grouped(side, bk, g) /\ Grouped(side, bk, g) \in SUBSET bk
    BY <1>2 DEF Grouped, Ex!At
  <2>2. \A g : /\ Ex!Cardinality(Grouped(side, part, g)) \in Nat
               /\ Ex!Cardinality(Grouped(side, bk, g)) \in Nat
               /\ Ex!Cardinality(Grouped(side, part, g)) <= Ex!Cardinality(Grouped(side, bk, g))
    BY <1>4, <2>1, SmallerPart
  <2>3. PICK c \in Nat : c = Ex!Correlated(s, side, bk) /\ c < MaxCorr
    BY FullestGroup DEF Ex!CanOpen
  <2>4. \A g \in Groups : s \in g => Ex!Cardinality(Grouped(side, bk, g)) <= c
    BY <2>3, FullestGroup
  <2>5. \/ Ex!Correlated(s, side, part) = 0
        \/ \E g \in Groups : s \in g /\ Ex!Correlated(s, side, part) = Ex!Cardinality(Grouped(side, part, g))
    BY <1>4, FullestGroup
  <2> QED
    BY <1>1, <2>2, <2>3, <2>4, <2>5
<1>8. LossLimit > 0 => Ex!DailyLoss(better) < LossLimit
  <2>1. LossLimit > 0 => Ex!DailyLoss(percent) < LossLimit
    BY DEF Ex!CanOpen
  <2> QED
    BY <1>1, <2>1, LossIs
<1> QED
  BY <1>3, <1>5, <1>6, <1>7, <1>8 DEF Ex!CanOpen

\* What the portfolio filter refuses of a part of the book, or on a better day, it refuses
\* of all of it, whatever filled and closed in between (can_open_new_position).
THEOREM RefusalsAlwaysStand == Spec => []RefusalsStand
<1> DEFINE Inv == topic = "exposure" => ExposureInv
<1>1. Init => Inv
  BY ExposureRuns, ExposureInit
<1>2. Inv /\ [Next]_vars => Inv'
  BY ExposureRuns, ExposureStep
<1>3. Inv => RefusalsStand
  <2> SUFFICES ASSUME topic = "exposure", ExposureInv PROVE Ex!RefusalsStand
    BY DEF RefusalsStand
  <2>1. ASSUME NEW s \in Coins, NEW side \in Ex!Sides, NEW part \in SUBSET v1, NEW better \in v2 .. 1,
               Ex!CanOpen(s, side, v1, v2)
        PROVE  Ex!CanOpen(s, side, part, better)
    <3>1. PICK bk : bk = v1 /\ IsFiniteSet(bk)
      BY DEF ExposureInv
    <3>2. PICK pct \in Int : pct = v2
      BY DEF ExposureInv
    <3>3. better \in Int /\ pct <= better
      BY <3>2
    <3> QED
      BY <2>1, <3>1, <3>2, <3>3, OpensWithLess
  <2> QED
    BY <2>1 DEF Ex!RefusalsStand
<1> QED
  BY <1>1, <1>2, <1>3, PTL DEF Spec
=============================================================================
