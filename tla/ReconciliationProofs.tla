------------------------ MODULE ReconciliationProofs ------------------------
(* Proofs about Reconciliation, for any symbols, shapes and finite number of *)
(* concurrent sweeps, and about its two settings in MCReconciliation.        *)
EXTENDS MCReconciliation, FiniteSetTheorems, TLAPS

\* The sweeps that are about to commit an issue for a drift.
Committing(d) == {s \in Sweepers : pc[s] = "commit" /\ d \in added[s]}

\* What is recorded and what is about to be, together, is at most one issue per
\* sweep: BoundedDuplicates alone says nothing of the issues still in sessions.
DuplicatesInv == \A d \in Drifts : issues[d] + Cardinality(Committing(d)) <= Cardinality(Sweepers)

DInv == TypeOK /\ DuplicatesInv

-----------------------------------------------------------------------------
(* Type correctness.                                                        *)

\* A comparison names types of drift.
LEMMA CompareTypes == \A db, at, known, prot, tracked : Compare(db, at, known, prot, tracked) \subseteq Types
  BY DEF Compare, Types

\* The drifts a sweep detects, and those an observer would, are drifts.
LEMMA DetectedTypes ==
  /\ \A s : Detected(s) \subseteq Drifts
  /\ Drift \subseteq Drifts
<1>1. ASSUME NEW s PROVE Detected(s) \subseteq Drifts
  <2> DEFINE C(m) == Compare(rows[s][m], list[s][m], orders[s] # {}, m \in orders[s], FALSE)
  <2>1. \A m : C(m) \subseteq Types
    BY CompareTypes
  <2>2. Detected(s) = UNION {{<<m, t>> : t \in C(m)} : m \in Symbols}
    BY DEF Detected
  <2> HIDE DEF C
  <2> QED
    BY <2>1, <2>2 DEF Drifts
<1>2. \A m : Drifting(m) \subseteq Types
  BY CompareTypes DEF Drifting
<1>3. Drift \subseteq Drifts
  BY <1>2 DEF Drift, Drifts
<1> QED
  BY <1>1, <1>3

LEMMA DriftNextTypes == Drift' \subseteq Drifts
  BY CompareTypes DEF Drift, Drifting, Drifts, Compare, Types

\* The history variables stay in their types, whatever the alert named.
LEMMA HistoryTypes ==
  ASSUME TypeOK, NEW named, History(named)
  PROVE  told' \subseteq Drifts /\ real' \in [Sweepers -> SUBSET Drifts]
<1> DEFINE now == {d \in Drift' : d[1] \in Watched}
<1>1. now \subseteq Drifts
  BY DriftNextTypes
<1> HIDE DEF now
<1>2. told' = (told \cup named) \cap now
  BY DEF History, now
<1>3. real' = [s \in Sweepers |-> CASE pc'[s] = "idle" -> {}
                                    [] pc'[s] = "reading" \/ pc[s] = "reading" -> real[s] \cup now
                                    [] OTHER -> real[s]]
  BY DEF History, now
<1>4. \A s \in Sweepers : real[s] \in SUBSET Drifts
  BY DEF TypeOK
<1> QED
  BY <1>1, <1>2, <1>3, <1>4

\* A sweep that returns forgets what it read.
LEMMA ForgetTypes ==
  ASSUME TypeOK, NEW s \in Sweepers, NEW l, Forget(s, l)
  PROVE  /\ rows' \in [Sweepers -> [Symbols -> Shapes \cup {Flat}]]
         /\ list' \in [Sweepers -> [Symbols -> Shapes \cup {Flat}]]
         /\ orders' \in [Sweepers -> SUBSET Symbols]
         /\ found' \in [Sweepers -> SUBSET Drifts] /\ added' \in [Sweepers -> SUBSET Drifts]
<1>1. NoPositions \in [Symbols -> Shapes \cup {Flat}]
  BY DEF NoPositions
<1> QED
  BY <1>1 DEF Forget, TypeOK

LEMMA InitTypes == Init => TypeOK
<1> SUFFICES ASSUME Init PROVE TypeOK
  OBVIOUS
<1>1. NoPositions \in [Symbols -> Shapes \cup {Flat}]
  BY DEF NoPositions
<1> QED
  BY <1>1 DEF Init, TypeOK

\* The steps of a sweep keep the types.
LEMMA SweepTypesKept ==
  ASSUME TypeOK, NEW s \in Sweepers, SweepStep(s)
  PROVE  TypeOK'
<1>1. NoPositions \in [Symbols -> Shapes \cup {Flat}]
  BY DEF NoPositions
<1>2. CASE QueryRows(s)
  <2>1. told' \subseteq Drifts /\ real' \in [Sweepers -> SUBSET Drifts]
    BY <1>2, HistoryTypes DEF QueryRows
  <2> QED
    BY <1>2, <2>1 DEF QueryRows, Goto, TypeOK, account
<1>3. CASE ReadPositions(s)
  <2>1. told' \subseteq Drifts /\ real' \in [Sweepers -> SUBSET Drifts]
    BY <1>3, HistoryTypes DEF ReadPositions
  <2> QED
    BY <1>1, <1>3, <2>1 DEF ReadPositions, Answer, Goto, TypeOK, account
<1>4. CASE ReadOrders(s)
  <2>1. told' \subseteq Drifts /\ real' \in [Sweepers -> SUBSET Drifts]
    BY <1>4, HistoryTypes DEF ReadOrders
  <2> QED
    BY <1>4, <2>1 DEF ReadOrders, Goto, TypeOK, account
<1>5. CASE Record(s)
  <2>1. told' \subseteq Drifts /\ real' \in [Sweepers -> SUBSET Drifts]
    BY <1>5, HistoryTypes DEF Record
  <2>2. Detected(s) \in SUBSET Drifts /\ {d \in Detected(s) : ~Recorded(d)} \in SUBSET Drifts
    BY DetectedTypes
  <2> QED
    BY <1>5, <2>1, <2>2 DEF Record, Goto, TypeOK, account
<1>6. CASE Commit(s)
  <2>1. told' \subseteq Drifts /\ real' \in [Sweepers -> SUBSET Drifts]
    BY <1>6, HistoryTypes DEF Commit
  <2>2. PICK l \in {"alert", "idle"} : Goto(s, l) /\ Forget(s, l)
    BY <1>6 DEF Commit
  <2>3. issues' \in [Drifts -> Nat]
    BY <1>6 DEF Commit, TypeOK
  <2>4. UNCHANGED account
    BY <1>6 DEF Commit
  <2> QED
    BY <2>1, <2>2, <2>3, <2>4, ForgetTypes DEF Goto, TypeOK, account
<1>7. CASE Alert(s)
  <2>1. PICK named : History(named)
    BY <1>7 DEF Alert, SendAlert, LoseAlert, EndAlert
  <2>2. told' \subseteq Drifts /\ real' \in [Sweepers -> SUBSET Drifts]
    BY <2>1, HistoryTypes
  <2>3. Goto(s, "idle") /\ Forget(s, "idle") /\ UNCHANGED <<account, issues>>
    BY <1>7 DEF Alert, SendAlert, LoseAlert, EndAlert
  <2> QED
    BY <2>2, <2>3, ForgetTypes DEF Goto, TypeOK, account
<1> QED
  BY <1>2, <1>3, <1>4, <1>5, <1>6, <1>7 DEF SweepStep

\* So does everything else, which leaves the sweeps alone.
LEMMA TradingTypesKept ==
  ASSUME TypeOK, NEW m \in Symbols, Outside(m) \/ TradeExecuted(m) \/ TradeCommitted(m) \/ Import(m)
  PROVE  TypeOK' /\ UNCHANGED sweeps
<1>1. told' \subseteq Drifts /\ real' \in [Sweepers -> SUBSET Drifts]
  BY HistoryTypes DEF Outside, TradeExecuted, TradeCommitted, Import
<1>2. CASE Outside(m)
  BY <1>1, <1>2 DEF Outside, TypeOK, sweeps
<1>3. CASE TradeExecuted(m)
  BY <1>1, <1>3, SMTT(30) DEF TradeExecuted, TypeOK, sweeps
<1>4. CASE TradeCommitted(m)
  BY <1>1, <1>4 DEF TradeCommitted, TypeOK, sweeps
<1>5. CASE Import(m)
  BY <1>1, <1>5 DEF Import, TypeOK, sweeps
<1> QED
  BY <1>2, <1>3, <1>4, <1>5

LEMMA StepTypes == TypeOK /\ [Next]_vars => TypeOK'
<1> SUFFICES ASSUME TypeOK, [Next]_vars PROVE TypeOK'
  OBVIOUS
<1>1. CASE UNCHANGED vars
  BY <1>1 DEF vars, account, sweeps, TypeOK
<1> QED
  BY <1>1, SweepTypesKept, TradingTypesKept DEF Next

\* Type correctness of reconciliation, for any number of sweeps (TypeOK).
THEOREM ReconciliationTypeCorrect == Spec => []TypeOK
  BY InitTypes, StepTypes, PTL DEF Spec
-----------------------------------------------------------------------------
(* Duplicates.                                                              *)

\* A step of a sweep that neither records nor commits changes no commitment.
LEMMA OtherSweepSteps ==
  ASSUME TypeOK, NEW s \in Sweepers,
         QueryRows(s) \/ ReadPositions(s) \/ ReadOrders(s) \/ Alert(s), NEW d \in Drifts
  PROVE  Committing(d)' = Committing(d) /\ issues'[d] = issues[d]
<1>1. issues' = issues /\ pc[s] # "commit" /\ pc'[s] # "commit"
      /\ \A z \in Sweepers \ {s} : pc'[z] = pc[z] /\ added'[z] = added[z]
  BY DEF QueryRows, ReadPositions, ReadOrders, Alert, SendAlert, LoseAlert, EndAlert, Goto, Forget, TypeOK
<1> QED
  BY <1>1 DEF Committing

\* Recording adds a commitment only for a drift that has no issue at all.
LEMMA RecordStep ==
  ASSUME TypeOK, NEW s \in Sweepers, Record(s), NEW d \in Drifts
  PROVE  /\ issues'[d] = issues[d]
         /\ Committing(d)' = Committing(d) \/ issues[d] = 0
<1>1. /\ issues' = issues /\ pc[s] = "compare" /\ pc' = [pc EXCEPT ![s] = "commit"]
      /\ added' = [added EXCEPT ![s] = {e \in Detected(s) : ~Recorded(e)}]
  BY DEF Record, Goto
<1>2. CASE d \in added'[s]
  BY <1>1, <1>2 DEF Recorded, TypeOK
<1>3. CASE d \notin added'[s]
  BY <1>1, <1>3 DEF Committing, TypeOK
<1> QED
  BY <1>1, <1>2, <1>3

\* Committing turns a commitment into an issue.
LEMMA CommitStep ==
  ASSUME TypeOK, NEW s \in Sweepers, Commit(s), NEW d \in Drifts
  PROVE  \/ s \notin Committing(d) /\ Committing(d)' = Committing(d) /\ issues'[d] = issues[d]
         \/ /\ s \in Committing(d) /\ Committing(d)' = Committing(d) \ {s}
            /\ issues'[d] = issues[d] + 1
<1>1. /\ pc[s] = "commit" /\ pc'[s] # "commit"
      /\ \A z \in Sweepers \ {s} : pc'[z] = pc[z] /\ added'[z] = added[z]
      /\ issues' = [e \in Drifts |-> IF e \in added[s] THEN issues[e] + 1 ELSE issues[e]]
  BY DEF Commit, Goto, Forget, TypeOK
<1> QED
  BY <1>1 DEF Committing

LEMMA StepDInv == IsFiniteSet(Sweepers) /\ DInv /\ [Next]_vars => DInv'
<1> SUFFICES ASSUME IsFiniteSet(Sweepers), DInv, [Next]_vars PROVE DInv'
  OBVIOUS
<1>1. TypeOK /\ TypeOK'
  BY StepTypes DEF DInv
<1> SUFFICES ASSUME NEW d \in Drifts
             PROVE  issues'[d] + Cardinality(Committing(d)') <= Cardinality(Sweepers)
  BY <1>1 DEF DInv, DuplicatesInv
<1>2. /\ issues[d] + Cardinality(Committing(d)) <= Cardinality(Sweepers)
      /\ issues[d] \in Nat /\ Cardinality(Sweepers) \in Nat
  BY <1>1, FS_CardinalityType DEF DInv, DuplicatesInv, TypeOK
<1>3. /\ Committing(d) \subseteq Sweepers /\ IsFiniteSet(Committing(d))
      /\ Cardinality(Committing(d)) \in Nat
  BY FS_Subset, FS_CardinalityType DEF Committing
<1>4. Committing(d)' \subseteq Sweepers /\ Cardinality(Committing(d)') <= Cardinality(Sweepers)
  BY FS_Subset DEF Committing
<1>5. CASE UNCHANGED sweeps
  <2>1. Committing(d)' = Committing(d) /\ issues' = issues
    BY <1>5 DEF sweeps, Committing
  <2> QED
    BY <1>2, <2>1
<1>6. ASSUME NEW s \in Sweepers, SweepStep(s)
      PROVE  issues'[d] + Cardinality(Committing(d)') <= Cardinality(Sweepers)
  <2>1. CASE QueryRows(s) \/ ReadPositions(s) \/ ReadOrders(s) \/ Alert(s)
    <3>1. Committing(d)' = Committing(d) /\ issues'[d] = issues[d]
      BY <1>1, <2>1, OtherSweepSteps
    <3> QED
      BY <1>2, <3>1
  <2>2. CASE Record(s)
    <3>1. issues'[d] = issues[d] /\ (Committing(d)' = Committing(d) \/ issues[d] = 0)
      BY <1>1, <2>2, RecordStep
    <3>2. CASE Committing(d)' = Committing(d)
      BY <1>2, <3>1, <3>2
    <3>3. CASE issues[d] = 0
      <4>1. Cardinality(Committing(d)') \in Nat
        BY <1>4, FS_Subset, FS_CardinalityType
      <4> QED
        BY <1>2, <1>4, <3>1, <3>3, <4>1
    <3> QED
      BY <3>1, <3>2, <3>3
  <2>3. CASE Commit(s)
    <3>1. CASE s \notin Committing(d) /\ Committing(d)' = Committing(d) /\ issues'[d] = issues[d]
      BY <1>2, <3>1
    <3>2. CASE /\ s \in Committing(d) /\ Committing(d)' = Committing(d) \ {s}
               /\ issues'[d] = issues[d] + 1
      <4>1. Cardinality(Committing(d) \ {s}) = Cardinality(Committing(d)) - 1
        BY <1>3, <3>2, FS_RemoveElement
      <4> QED
        BY <1>2, <1>3, <3>2, <4>1
    <3> QED
      BY <1>1, <2>3, <3>1, <3>2, CommitStep
  <2> QED
    BY <1>6, <2>1, <2>2, <2>3 DEF SweepStep
<1> QED
  BY <1>1, <1>5, <1>6, TradingTypesKept DEF Next, vars

LEMMA InitDInv == IsFiniteSet(Sweepers) /\ Init => DInv
<1> SUFFICES ASSUME IsFiniteSet(Sweepers), Init PROVE DInv
  OBVIOUS
<1>1. \A d \in Drifts : Committing(d) = {} /\ issues[d] = 0
  BY DEF Init, Committing
<1>2. Cardinality({}) = 0 /\ Cardinality(Sweepers) \in Nat
  BY FS_EmptySet, FS_CardinalityType
<1> QED
  BY <1>1, <1>2, InitTypes DEF DInv, DuplicatesInv

\* Any number of sweeps of the loop and the API leave at most one unresolved issue
\* each for one drift, however they interleave (BoundedDuplicates): an issue that
\* is committed silences all later sweeps.
THEOREM DuplicatesBounded == IsFiniteSet(Runs) => (Spec => []BoundedDuplicates)
<1>1. ASSUME IsFiniteSet(Runs) PROVE IsFiniteSet(Sweepers)
  BY <1>1, FS_AddElement DEF Sweepers
<1>2. ASSUME IsFiniteSet(Sweepers), DInv PROVE BoundedDuplicates
  <2>1. \A d \in Drifts : Cardinality(Committing(d)) \in Nat
    BY <1>2, FS_Subset, FS_CardinalityType DEF Committing
  <2> QED
    BY <1>2, <2>1, FS_CardinalityType DEF DInv, DuplicatesInv, BoundedDuplicates, TypeOK
<1>3. CASE IsFiniteSet(Runs)
  <2>1. Init => DInv
    BY <1>1, <1>3, InitDInv
  <2>2. DInv /\ [Next]_vars => DInv'
    BY <1>1, <1>3, StepDInv
  <2>3. DInv => BoundedDuplicates
    BY <1>1, <1>2, <1>3
  <2> QED
    BY <2>1, <2>2, <2>3, PTL DEF Spec
<1> QED
  BY <1>3

\* The loop alone never records a drift twice (OneIssuePerDrift).
THEOREM LoopRecordsOnce == Runs = {} => (Spec => []OneIssuePerDrift)
<1> SUFFICES ASSUME Runs = {} PROVE Spec => []OneIssuePerDrift
  OBVIOUS
<1>1. IsFiniteSet(Runs) /\ Cardinality(Sweepers) = 1
  <2>1. IsFiniteSet(Runs) /\ Cardinality(Runs) = 0
    BY FS_EmptySet
  <2>2. Sweepers = {Loop}
    BY DEF Sweepers
  <2> QED
    BY <2>1, <2>2, FS_Singleton
<1>2. TypeOK /\ BoundedDuplicates => OneIssuePerDrift
  BY <1>1 DEF BoundedDuplicates, OneIssuePerDrift
<1>3. Spec => []BoundedDuplicates
  BY <1>1, DuplicatesBounded
<1> QED
  BY <1>2, <1>3, ReconciliationTypeCorrect, PTL

-----------------------------------------------------------------------------
(* False alarms.                                                            *)

\* The differences between the positions of s, as it read them.
Differing(s) == {d \in Watched \X Positional :
                   d[2] \in Compare(rows[s][d[1]], list[s][d[1]], FALSE, FALSE, FALSE)}
Seen == {d \in Drift : d[1] \in Watched}

\* Nobody imports or trades a watched symbol; a sweep holds its rows as they are, and
\* every difference it read was there while it read: those of the moment are collected
\* as long as it waits for the positions.
TruthInv ==
    /\ (imported \cup busy) \cap Watched = {}
    /\ \A s \in Sweepers :
          /\ pc[s] \in {"reading", "orders", "compare"} => \A m \in Watched : rows[s][m] = row[m]
          /\ pc[s] = "reading" => Seen \subseteq real[s]
          /\ pc[s] \in {"orders", "compare"} => Differing(s) \subseteq real[s]

FInv == TypeOK /\ TruthInv /\ NoFalseAlarm

\* What is known of the orders does not matter to the positions, and without an expected
\* protection only they raise an alarm.
LEMMA ComparePositions ==
  ASSUME NEW db, NEW at, NEW known, NEW prot, NEW tracked, NEW c
  PROVE  /\ c \in Positional =>
              (c \in Compare(db, at, known, prot, tracked) <=> c \in Compare(db, at, FALSE, FALSE, FALSE))
         /\ c \in Compare(db, at, known, prot, FALSE) /\ c \in Alarming => c \in Positional
         /\ Compare(db, db, FALSE, FALSE, FALSE) = {}
BY DEF Compare, Positional, Alarming, Types

\* The history collects what there is while a sweep reads, and forgets nothing until it
\* returns.
LEMMA HistoryCollects ==
  ASSUME TypeOK, NEW named, History(named), NEW s \in Sweepers, pc'[s] # "idle"
  PROVE  /\ real[s] \subseteq real'[s]
         /\ pc'[s] = "reading" \/ pc[s] = "reading" => Seen' \subseteq real'[s]
BY DEF History, Seen

\* A sweep that was not touched keeps what it read and what was true of it.
LEMMA Untouched ==
  ASSUME FInv, NEW named, History(named), \A m \in Watched : row'[m] = row[m], NEW z \in Sweepers,
         pc'[z] = pc[z], rows'[z] = rows[z], list'[z] = list[z], added'[z] = added[z]
  PROVE  /\ pc'[z] \in {"reading", "orders", "compare"} => \A m \in Watched : rows'[z][m] = row'[m]
         /\ pc'[z] = "reading" => Seen' \subseteq real'[z]
         /\ pc'[z] \in {"orders", "compare"} => Differing(z)' \subseteq real'[z]
         /\ pc'[z] = "commit" =>
              {d \in added'[z] : d[1] \in Watched /\ d[2] \in Alarming} \subseteq real'[z]
<1>1. Differing(z)' = Differing(z)
  BY DEF Differing
<1> QED
  BY <1>1, HistoryCollects DEF FInv, TruthInv, NoFalseAlarm

\* What s is told of a watched symbol is true, or shows no difference.
ToldTrue(s) == ReadPositions(s) => \A m \in Watched : list'[s][m] \in {ex[m], rows[s][m]}

LEMMA TruthBySweep ==
  ASSUME FInv, NEW s \in Sweepers, SweepStep(s), ToldTrue(s)
  PROVE  TruthInv' /\ NoFalseAlarm'
<1> USE DEF FInv
<1>1. PICK named : History(named)
  BY DEF SweepStep, QueryRows, ReadPositions, ReadOrders, Record, Commit, Alert, SendAlert, LoseAlert, EndAlert
<1>2. UNCHANGED account
  BY DEF SweepStep, QueryRows, ReadPositions, ReadOrders, Record, Commit, Alert, SendAlert, LoseAlert, EndAlert
<1>3. \A z \in Sweepers \ {s} : /\ pc'[z] = pc[z] /\ rows'[z] = rows[z] /\ list'[z] = list[z]
                                /\ added'[z] = added[z]
  BY DEF SweepStep, QueryRows, ReadPositions, Answer, ReadOrders, Record, Commit, Alert, SendAlert, LoseAlert, EndAlert, Goto, Forget, TypeOK
<1>4. /\ pc'[s] \in {"reading", "orders", "compare"} => \A m \in Watched : rows'[s][m] = row'[m]
      /\ pc'[s] = "reading" => Seen' \subseteq real'[s]
      /\ pc'[s] \in {"orders", "compare"} => Differing(s)' \subseteq real'[s]
      /\ pc'[s] = "commit" =>
           {d \in added'[s] : d[1] \in Watched /\ d[2] \in Alarming} \subseteq real'[s]
  <2>1. CASE QueryRows(s)
    <3>1. pc'[s] = "reading" /\ rows'[s] = [m \in Symbols |-> IF m \in imported THEN Flat ELSE row[m]]
      BY <2>1 DEF QueryRows, Goto, TypeOK
    <3>2. \A m \in Watched : rows'[s][m] = row'[m]
      BY <1>2, <3>1, WatchedAssumption DEF TruthInv, TypeOK, account
    <3> QED
      BY <1>1, <3>1, <3>2, HistoryCollects
  <2>2. CASE ReadPositions(s)
    <3>1. /\ pc[s] = "reading" /\ pc'[s] = "orders"
          /\ \A m \in Watched : rows'[s][m] = row'[m] /\ list'[s][m] \in {ex'[m], row'[m]}
      BY <1>2, <2>2 DEF ReadPositions, Goto, TypeOK, TruthInv, account, ToldTrue
    <3>2. Differing(s)' \subseteq Seen'
      <4> SUFFICES ASSUME NEW d \in Differing(s)' PROVE d \in Seen'
        OBVIOUS
      <4>0. d \in Watched \X Positional /\ d[2] \in Compare(rows'[s][d[1]], list'[s][d[1]], FALSE, FALSE, FALSE)
        BY DEF Differing
      <4>1. d[2] \in Compare(row'[d[1]], ex'[d[1]], FALSE, FALSE, FALSE)
        BY <3>1, <4>0, ComparePositions
      <4>2. PICK m \in Watched, t \in Positional : d = <<m, t>>
        BY <4>0
      <4>3. t \in Drifting(m)'
        BY <4>1, <4>2, ComparePositions DEF Drifting
      <4>4. <<m, t>> \in Drift'
        BY <4>3, WatchedAssumption DEF Drift
      <4> QED
        BY <4>2, <4>4 DEF Seen
    <3> QED
      BY <1>1, <3>1, <3>2, HistoryCollects
  <2>3. CASE ReadOrders(s)
    <3>1. pc[s] = "orders" /\ pc'[s] = "compare" /\ rows'[s] = rows[s] /\ list'[s] = list[s]
      BY <2>3 DEF ReadOrders, Goto, TypeOK
    <3>2. Differing(s)' = Differing(s)
      BY <3>1 DEF Differing
    <3> QED
      BY <1>1, <1>2, <3>1, <3>2, HistoryCollects DEF TruthInv, account
  <2>4. CASE Record(s)
    <3>1. /\ pc[s] = "compare" /\ pc'[s] = "commit"
          /\ added'[s] = {d \in Detected(s) : ~Recorded(d)}
      BY <2>4 DEF Record, Goto, TypeOK
    <3>2. ASSUME NEW d \in Detected(s), d[1] \in Watched, d[2] \in Alarming PROVE d \in Differing(s)
      <4>1. PICK m \in Symbols :
              \E t \in Compare(rows[s][m], list[s][m], orders[s] # {}, m \in orders[s], FALSE) :
                d = <<m, t>>
        BY DEF Detected
      <4>2. d = <<d[1], d[2]>> /\ d[1] = m
            /\ d[2] \in Compare(rows[s][m], list[s][m], orders[s] # {}, m \in orders[s], FALSE)
        <5>1. PICK t \in Compare(rows[s][m], list[s][m], orders[s] # {}, m \in orders[s], FALSE) : d = <<m, t>>
          BY <4>1
        <5>2. d[1] = m /\ d[2] = t
          BY <5>1
        <5> QED
          BY <5>1, <5>2
      <4>3. d[2] \in Positional
        BY <3>2, <4>2, ComparePositions
      <4>4. d[2] \in Compare(rows[s][m], list[s][m], FALSE, FALSE, FALSE)
        BY <4>2, <4>3, ComparePositions
      <4>5. d \in Watched \X Positional
        BY <3>2, <4>2, <4>3
      <4> QED
        BY <4>2, <4>4, <4>5 DEF Differing
    <3> QED
      BY <1>1, <3>1, <3>2, HistoryCollects DEF TruthInv
  <2>5. CASE Commit(s) \/ Alert(s)
    BY <2>5 DEF Commit, Alert, SendAlert, LoseAlert, EndAlert, Goto, TypeOK
  <2> QED
    BY <2>1, <2>2, <2>3, <2>4, <2>5 DEF SweepStep
<1>5. row' = row /\ (imported' \cup busy') \cap Watched = {}
  BY <1>2 DEF account, TruthInv
<1> QED
  BY <1>1, <1>3, <1>4, <1>5, Untouched DEF TruthInv, NoFalseAlarm

\* What moves positions leaves the sweeps and the rows of the watched symbols alone.
LEMMA TruthByTrading ==
  ASSUME FInv, NEW m \in Symbols,
         Outside(m) \/ (m \notin Watched /\ (TradeExecuted(m) \/ TradeCommitted(m) \/ Import(m)))
  PROVE  /\ TruthInv' /\ NoFalseAlarm'
         /\ \A k \in Watched : row'[k] = row[k]
<1>1. History({}) /\ UNCHANGED sweeps
  BY DEF Outside, TradeExecuted, TradeCommitted, Import
<1>2. ASSUME NEW k \in Watched PROVE row'[k] = row[k]
  <2>1. k \in Symbols /\ DOMAIN row = Symbols
    BY WatchedAssumption DEF FInv, TypeOK
  <2>2. CASE row' = row
    BY <2>2
  <2>3. CASE m \notin Watched /\ row' = [row EXCEPT ![m] = ex[m]]
    BY <2>1, <2>3
  <2> QED
    BY <2>2, <2>3 DEF Outside, TradeExecuted, TradeCommitted, Import
<1>3. (imported' \cup busy') \cap Watched = {}
  BY DEF Outside, TradeExecuted, TradeCommitted, Import, FInv, TruthInv
<1>4. \A s \in Sweepers : pc'[s] = pc[s] /\ rows'[s] = rows[s] /\ list'[s] = list[s] /\ added'[s] = added[s]
  BY <1>1 DEF sweeps
<1> QED
  BY <1>1, <1>2, <1>3, <1>4, Untouched DEF TruthInv, NoFalseAlarm

LEMMA TruthByStutter ==
  ASSUME FInv, UNCHANGED vars
  PROVE  FInv'
<1>1. Seen' = Seen /\ \A s \in Sweepers : Differing(s)' = Differing(s)
  BY DEF vars, account, sweeps, Differing, Seen, Drift, Drifting
<1>2. UNCHANGED <<row, imported, busy, pc, rows, added, real>>
  BY DEF vars, account, sweeps
<1>3. TruthInv'
  BY <1>1, <1>2 DEF FInv, TruthInv
<1>4. NoFalseAlarm'
  BY <1>2 DEF FInv, NoFalseAlarm
<1>5. TypeOK'
  BY StepTypes DEF FInv
<1> QED
  BY <1>3, <1>4, <1>5 DEF FInv

LEMMA InitFInv == Init => FInv
  BY InitTypes DEF Init, FInv, TruthInv, NoFalseAlarm

\* While positions move on the exchange only, and it can be read, what a sweep is about to
\* record as alarming was a difference while it read, for any number of sweeps
\* (NoFalseAlarm).
THEOREM AlarmsAreTrue ==
  Moves \cap {"trade", "import", "unreadable"} = {} => (Spec => []NoFalseAlarm)
<1> SUFFICES ASSUME Moves \cap {"trade", "import", "unreadable"} = {} PROVE Spec => []NoFalseAlarm
  OBVIOUS
<1>1. FInv /\ [Next]_vars => FInv'
  <2> SUFFICES ASSUME FInv, [Next]_vars PROVE FInv'
    OBVIOUS
  <2>1. TypeOK'
    BY StepTypes DEF FInv
  <2>2. ASSUME NEW s \in Sweepers, SweepStep(s) PROVE TruthInv' /\ NoFalseAlarm'
    <3>1. ToldTrue(s)
      BY WatchedAssumption DEF ToldTrue, ReadPositions, Answer, FInv, TypeOK
    <3> QED
      BY <2>2, <3>1, TruthBySweep
  <2>3. ASSUME NEW m \in Symbols, Outside(m) PROVE TruthInv' /\ NoFalseAlarm'
    BY <2>3, TruthByTrading
  <2>4. ASSUME NEW m \in Symbols, TradeExecuted(m) \/ Import(m) PROVE FALSE
    BY <2>4 DEF TradeExecuted, Import
  <2>5. ASSUME NEW m \in Symbols, TradeCommitted(m) PROVE TruthInv' /\ NoFalseAlarm'
    <3>1. m \notin Watched
      BY <2>5 DEF TradeCommitted, FInv, TruthInv
    <3> QED
      BY <2>5, <3>1, TruthByTrading
  <2> QED
    BY <2>1, <2>2, <2>3, <2>4, <2>5, TruthByStutter DEF Next, FInv
<1>2. FInv => NoFalseAlarm
  BY DEF FInv
<1> QED
  BY <1>1, <1>2, InitFInv, PTL DEF Spec

-----------------------------------------------------------------------------
(* The two settings of MCReconciliation.                                    *)

\* Every step of a setting is a step of the specification.
LEMMA SettingsAreSteps == [QuietNext \/ MixedNext]_mcvars => [Next]_vars
<1>1. Loop \in Sweepers
  BY DEF Sweepers
<1> QED
  BY <1>1 DEF QuietNext, QuietLoop, LoopStep, MixedNext, Next, Alert, SweepStep, mcvars

\* In the mixed setting the watched symbols have no rows.
SettingInv == setting = "mixed" => \A m \in Watched : row[m] = Flat

LEMMA SettingTruth ==
  ASSUME FInv, SettingInv, [QuietNext \/ MixedNext]_mcvars
  PROVE  FInv' /\ SettingInv'
<1>1. TypeOK'
  BY SettingsAreSteps, StepTypes DEF FInv
<1>2. ASSUME NEW s \in Sweepers, SweepStep(s), ToldTrue(s), setting' = setting
      PROVE  FInv' /\ SettingInv'
  <2>1. row' = row
    BY <1>2 DEF SweepStep, QueryRows, ReadPositions, ReadOrders, Record, Commit, Alert, SendAlert, LoseAlert, EndAlert, account
  <2> QED
    BY <1>1, <1>2, <2>1, TruthBySweep DEF FInv, SettingInv
<1>3. ASSUME NEW m \in Symbols, setting' = setting,
             Outside(m) \/ (m \notin Watched /\ (TradeExecuted(m) \/ TradeCommitted(m) \/ Import(m)))
      PROVE  FInv' /\ SettingInv'
  BY <1>1, <1>3, TruthByTrading DEF FInv, SettingInv
<1>4. CASE QuietLoop
  <2>1. Loop \in Sweepers /\ SweepStep(Loop) /\ setting' = setting
    BY <1>4 DEF QuietLoop, LoopStep, Alert, Sweepers, SweepStep
  <2>2. ToldTrue(Loop)
    <3>1. ASSUME ReadPositions(Loop) PROVE list'[Loop] = ex
      BY <1>4, <3>1 DEF QuietLoop, LoopStep, QueryRows, Record, Commit, ReadPositions, ReadOrders, Alert, SendAlert, LoseAlert, EndAlert
    <3> QED
      BY <3>1 DEF ToldTrue
  <2> QED
    BY <1>2, <2>1, <2>2
<1>5. ASSUME setting = "mixed", NEW s \in Sweepers, SweepStep(s), setting' = setting
      PROVE  FInv' /\ SettingInv'
  <2>1. ToldTrue(s)
    <3> SUFFICES ASSUME ReadPositions(s), NEW m \in Watched PROVE list'[s][m] \in {ex[m], rows[s][m]}
      BY DEF ToldTrue
    <3>1. rows[s][m] = Flat
      BY <1>5 DEF ReadPositions, FInv, TruthInv, SettingInv
    <3>2. list'[s][m] \in {ex[m], Flat}
      BY <1>5, WatchedAssumption DEF ReadPositions, Answer, NoPositions, FInv, TypeOK
    <3> QED
      BY <3>1, <3>2
  <2> QED
    BY <1>2, <1>5, <2>1
<1>6. CASE UNCHANGED mcvars
  BY <1>6, TruthByStutter DEF mcvars, vars, account, SettingInv
<1> QED
  BY <1>3, <1>4, <1>5, <1>6 DEF QuietNext, MixedNext

\* In either setting, what a sweep is about to record of a watched symbol as alarming was a
\* difference while it read: reads may fail and other symbols be traded and imported, as
\* long as the watched ones have no row then (NoFalseAlarm).
THEOREM WatchedAlarmsAreTrue == MCSpec => []NoFalseAlarm
<1>1. MCInit => FInv /\ SettingInv
  BY InitFInv DEF MCInit, SettingInv
<1>2. (FInv /\ SettingInv) /\ [QuietNext \/ MixedNext]_mcvars => (FInv /\ SettingInv)'
  BY SettingTruth
<1>3. FInv => NoFalseAlarm
  BY DEF FInv
<1> QED
  BY <1>1, <1>2, <1>3, PTL DEF MCSpec

\* In the quiet setting nobody but the loop sweeps, and what it is about to commit has no
\* issue yet.
AloneInv ==
    setting = "quiet" =>
      /\ \A s \in Runs : pc[s] = "idle"
      /\ \A d \in Drifts : issues[d] <= 1 /\ (Committing(d) # {} => issues[d] = 0)

LEMMA AloneStep ==
  ASSUME TypeOK, AloneInv, [QuietNext \/ MixedNext]_mcvars
  PROVE  AloneInv'
<1> SUFFICES ASSUME setting' = "quiet" PROVE AloneInv'
  BY DEF AloneInv
<1>1. setting = "quiet"
  BY DEF QuietNext, QuietLoop, MixedNext, mcvars
<1>2. Loop \in Sweepers /\ Loop \notin Runs /\ Sweepers = Runs \cup {Loop}
  BY LoopAssumption DEF Sweepers
<1>3. \A s \in Runs : pc[s] = "idle"
  BY <1>1 DEF AloneInv
<1>4. CASE UNCHANGED sweeps
  <2>1. UNCHANGED <<pc, issues, added>>
    BY <1>4 DEF sweeps
  <2>2. \A d : Committing(d)' = Committing(d)
    BY <2>1 DEF Committing
  <2> QED
    BY <1>1, <2>1, <2>2 DEF AloneInv
<1>5. CASE SweepStep(Loop)
  <2>1. \A s \in Runs : pc'[s] = "idle"
    BY <1>2, <1>3, <1>5 DEF SweepStep, QueryRows, ReadPositions, ReadOrders, Record, Commit, Alert, SendAlert, LoseAlert, EndAlert,
                            Goto, TypeOK
  <2>2. ASSUME NEW d \in Drifts PROVE issues'[d] <= 1 /\ (Committing(d)' # {} => issues'[d] = 0)
    <3>1. issues[d] <= 1 /\ (Committing(d) # {} => issues[d] = 0) /\ issues[d] \in Nat
      BY <1>1 DEF AloneInv, TypeOK
    <3>2. CASE QueryRows(Loop) \/ ReadPositions(Loop) \/ ReadOrders(Loop) \/ Alert(Loop)
      <4>1. Committing(d)' = Committing(d) /\ issues'[d] = issues[d]
        BY <1>2, <3>2, OtherSweepSteps
      <4> QED
        BY <3>1, <4>1
    <3>3. CASE Record(Loop)
      <4>1. issues'[d] = issues[d] /\ (Committing(d)' = Committing(d) \/ issues[d] = 0)
        BY <1>2, <3>3, RecordStep
      <4> QED
        BY <3>1, <4>1
    <3>4. CASE Commit(Loop)
      <4>1. CASE Loop \notin Committing(d) /\ Committing(d)' = Committing(d) /\ issues'[d] = issues[d]
        BY <3>1, <4>1
      <4>2. CASE /\ Loop \in Committing(d) /\ Committing(d)' = Committing(d) \ {Loop}
                 /\ issues'[d] = issues[d] + 1
        <5>1. Committing(d) \subseteq {Loop}
          BY <1>2, <1>3 DEF Committing
        <5> QED
          BY <3>1, <4>2, <5>1
      <4> QED
        BY <1>2, <3>4, <4>1, <4>2, CommitStep
    <3> QED
      BY <1>5, <3>2, <3>3, <3>4 DEF SweepStep
  <2> QED
    BY <2>1, <2>2 DEF AloneInv
<1>6. (\E m \in Symbols : Outside(m)) => UNCHANGED sweeps
  BY DEF Outside
<1> QED
  BY <1>1, <1>4, <1>5, <1>6 DEF QuietNext, QuietLoop, LoopStep, MixedNext, Alert, SweepStep, mcvars, vars

\* A loop that no API call joins records a drift once, however often it sweeps and whatever
\* is traded on the exchange meanwhile; the other sweepers exist, and stay idle
\* (OneIssueWhenAlone).
THEOREM AloneRecordsOnce == MCSpec => []OneIssueWhenAlone
<1>1. MCInit => TypeOK /\ AloneInv
  <2> SUFFICES ASSUME MCInit PROVE TypeOK /\ AloneInv
    OBVIOUS
  <2>1. \A d \in Drifts : issues[d] = 0
    BY DEF MCInit, Init
  <2>2. \A s \in Sweepers : pc[s] = "idle"
    BY DEF MCInit, Init
  <2>3. \A d : Committing(d) = {}
    BY <2>2 DEF Committing
  <2> QED
    BY <2>1, <2>2, <2>3, InitTypes DEF MCInit, AloneInv, Sweepers
<1>2. (TypeOK /\ AloneInv) /\ [QuietNext \/ MixedNext]_mcvars => (TypeOK /\ AloneInv)'
  BY AloneStep, SettingsAreSteps, StepTypes
<1>3. AloneInv => OneIssueWhenAlone
  BY DEF AloneInv, OneIssueWhenAlone, OneIssuePerDrift
<1> QED
  BY <1>1, <1>2, <1>3, PTL DEF MCSpec
=============================================================================
