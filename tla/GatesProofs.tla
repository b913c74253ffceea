------------------------------ MODULE GatesProofs ------------------------------
(* What the gates let past, for any users, requests, symbols, sizes and     *)
(* caps.                                                                    *)
EXTENDS Gates, FiniteSetTheorems, WellFoundedInduction, TLAPS

(***************************************************************************)
(* Sums, as numbers of units.                                              *)
(***************************************************************************)
\* A set of naturals has a least element.
LEMMA LeastOf ==
  ASSUME NEW T, T \subseteq Nat, T # {}
  PROVE  \E n \in T : \A m \in T : n <= m
<1> DEFINE R == OpToRel(<, Nat)
<1>1. R = {p \in Nat \X Nat : p[1] < p[2]}
  BY DEF OpToRel
<1>2. IsWellFoundedOn(R, Nat)
  BY NatLessThanWellFounded
<1> HIDE DEF R
<1>3. PICK n \in T : \A m \in T : ~(<<m, n>> \in R)
  BY <1>2, WFMin
<1>4. ASSUME NEW m \in T PROVE n <= m
  <2>1. m \in Nat /\ n \in Nat
    OBVIOUS
  <2>2. ~(m < n)
    BY <1>1, <1>3, <2>1
  <2> QED
    BY <2>1, <2>2
<1> QED
  BY <1>4

\* A finite set has a greatest one: that with the fewest elements above it.
LEMMA GreatestOf ==
  ASSUME NEW S, S \subseteq Nat, IsFiniteSet(S), S # {}
  PROVE  Max(S) \in S /\ \A y \in S : y <= Max(S)
<1> DEFINE Above(x) == {y \in S : y > x}
           Counts == {n \in Nat : \E x \in S : n = Cardinality(Above(x))}
<1>1. \A x \in S : IsFiniteSet(Above(x)) /\ Cardinality(Above(x)) \in Nat
  BY FS_Subset, FS_CardinalityType
<1>2. PICK n \in Counts : \A m \in Counts : n <= m
  <2>1. Counts # {} /\ Counts \subseteq Nat
    BY <1>1
  <2> QED
    BY <2>1, LeastOf
<1>3. PICK x \in S : n = Cardinality(Above(x))
  BY <1>2
<1>4. ASSUME NEW y \in S, ~(x >= y) PROVE FALSE
  <2>1. Above(y) \subseteq Above(x) /\ y \in Above(x) /\ y \notin Above(y)
    <3>1. x \in Nat /\ y \in Nat /\ y > x /\ ~(y > y)
      BY <1>4
    <3>2. ASSUME NEW q \in S, q > y PROVE q > x
      BY <3>1, <3>2
    <3> QED
      BY <3>1, <3>2
  <2>2. Cardinality(Above(y)) <= Cardinality(Above(x)) /\ Cardinality(Above(y)) # Cardinality(Above(x))
    BY <1>1, <2>1, FS_Subset
  <2>3. Cardinality(Above(y)) \in Counts
    BY <1>1
  <2> QED
    BY <1>1, <1>2, <1>3, <2>2, <2>3
<1>5. \A y \in S : x >= y
  BY <1>4
<1>6. Max(S) \in S /\ \A y \in S : Max(S) >= y
  BY <1>5 DEF Max
<1> QED
  BY <1>6

LEMMA UnitsFinite ==
  ASSUME NEW K, IsFiniteSet(K), NEW f, \A k \in K : f[k] \in Nat
  PROVE  IsFiniteSet(Units(f, K)) /\ Cardinality(Units(f, K)) \in Nat
<1> DEFINE Part(k) == {k} \X (1..f[k])
           Parts == {Part(k) : k \in K}
           g == [k \in K |-> Part(k)]
<1>1. g \in Surjection(K, Parts)
  BY DEF Surjection
<1>2. IsFiniteSet(Parts)
  BY <1>1, FS_Surjection
<1>3. ASSUME NEW k \in K PROVE IsFiniteSet(Part(k))
  <2>1. IsFiniteSet({k}) /\ IsFiniteSet(1..f[k])
    <3>1. f[k] \in Int /\ 1 \in Int
      OBVIOUS
    <3> QED
      BY <3>1, FS_Singleton, FS_Interval
  <2> QED
    BY <2>1, FS_Product
<1>4. \A T \in Parts : IsFiniteSet(T)
  BY <1>3
<1> HIDE DEF Parts
<1>5. IsFiniteSet(UNION Parts)
  BY <1>2, <1>4, FS_UNION
<1> QED
  BY <1>5, FS_CardinalityType DEF Units, Parts

\* One term can be taken out.
LEMMA UnitsTake ==
  ASSUME NEW K, IsFiniteSet(K), NEW f, \A k \in K : f[k] \in Nat, NEW x \in K
  PROVE  Cardinality(Units(f, K)) = Cardinality(Units(f, K \ {x})) + f[x]
<1> DEFINE A == Units(f, K \ {x})
           B == {x} \X (1..f[x])
<1>1. Units(f, K) = A \cup B
  BY DEF Units
<1>2. A \cap B = {}
  BY DEF Units
<1>3. IsFiniteSet(A) /\ Cardinality(A) \in Nat
  <2>1. IsFiniteSet(K \ {x}) /\ \A k \in K \ {x} : f[k] \in Nat
    BY FS_RemoveElement
  <2> QED
    BY <2>1, UnitsFinite
<1>4. IsFiniteSet(B) /\ Cardinality(B) = f[x]
  <2>1. IsFiniteSet({x}) /\ Cardinality({x}) = 1
    BY FS_Singleton
  <2>2. IsFiniteSet(1..f[x]) /\ Cardinality(1..f[x]) = f[x]
    BY FS_Interval
  <2> QED
    BY <2>1, <2>2, FS_Product
<1> HIDE DEF A, B
<1>5. Cardinality({}) = 0
  BY FS_EmptySet
<1>6. Cardinality(A \cup B) = Cardinality(A) + Cardinality(B) - Cardinality(A \cap B)
  BY <1>3, <1>4, FS_Union
<1>7. Cardinality(A \cup B) = Cardinality(A) + f[x]
  <2>1. f[x] \in Nat
    OBVIOUS
  <2>2. Cardinality(A) \in Nat /\ Cardinality(B) = f[x] /\ Cardinality(A \cap B) = 0
    BY <1>2, <1>3, <1>4, <1>5
  <2> QED
    BY <1>6, <2>1, <2>2
<1> QED
  BY <1>1, <1>7 DEF A

\* Equal terms make an equal sum, larger ones a larger sum.
LEMMA UnitsSame ==
  ASSUME NEW K, NEW f, NEW g, \A k \in K : f[k] = g[k]
  PROVE  Units(f, K) = Units(g, K)
BY DEF Units

LEMMA UnitsLess ==
  ASSUME NEW K, IsFiniteSet(K), NEW f, NEW g,
         \A k \in K : f[k] \in Nat /\ g[k] \in Nat /\ f[k] <= g[k]
  PROVE  Cardinality(Units(f, K)) <= Cardinality(Units(g, K))
<1>1. Units(f, K) \subseteq Units(g, K)
  <2>1. ASSUME NEW k \in K PROVE 1..f[k] \subseteq 1..g[k]
    OBVIOUS
  <2> QED
    BY <2>1 DEF Units
<1> QED
  BY <1>1, UnitsFinite, FS_Subset

\* Terms of at most m make a sum of at most m for each.
LEMMA UnitsBound ==
  ASSUME NEW K, IsFiniteSet(K), NEW m \in Nat, NEW f, \A k \in K : f[k] \in 0..m
  PROVE  Cardinality(Units(f, K)) <= Cardinality(K) * m
<1>1. Units(f, K) \subseteq K \X (1..m)
  <2>1. ASSUME NEW k \in K PROVE {k} \X (1..f[k]) \subseteq K \X (1..m)
    OBVIOUS
  <2> QED
    BY <2>1 DEF Units
<1>2. IsFiniteSet(1..m) /\ Cardinality(1..m) = m
  BY FS_Interval
<1>3. IsFiniteSet(K \X (1..m)) /\ Cardinality(K \X (1..m)) = Cardinality(K) * m
  BY <1>2, FS_Product
<1> QED
  BY <1>1, <1>3, FS_Subset

\* So do more of them.
LEMMA UnitsWithin ==
  ASSUME NEW L, IsFiniteSet(L), NEW K \in SUBSET L, NEW f, \A k \in L : f[k] \in Nat
  PROVE  Cardinality(Units(f, K)) <= Cardinality(Units(f, L))
<1>1. Units(f, K) \subseteq Units(f, L)
  BY DEF Units
<1> QED
  BY <1>1, UnitsFinite, FS_Subset

\* When one term grows by n, so does the sum.
LEMMA UnitsMore ==
  ASSUME NEW K, IsFiniteSet(K), NEW f, NEW g, NEW x \in K, NEW n \in Int,
         \A k \in K : f[k] \in Nat /\ g[k] \in Nat,
         \A k \in K \ {x} : f[k] = g[k], g[x] = f[x] + n
  PROVE  Cardinality(Units(g, K)) = Cardinality(Units(f, K)) + n
<1>1. Units(f, K \ {x}) = Units(g, K \ {x})
  BY UnitsSame
<1>2. IsFiniteSet(K \ {x})
  BY FS_RemoveElement
<1>3. Cardinality(Units(f, K \ {x})) \in Nat
  BY <1>2, UnitsFinite
<1>4. /\ Cardinality(Units(f, K)) = Cardinality(Units(f, K \ {x})) + f[x]
      /\ Cardinality(Units(g, K)) = Cardinality(Units(g, K \ {x})) + g[x]
  BY UnitsTake
<1> QED
  BY <1>1, <1>3, <1>4

-----------------------------------------------------------------------------
(* Types.                                                                   *)

LEMMA WiderSequences ==
  ASSUME NEW S, NEW T, S \subseteq T, NEW s \in Seq(S)
  PROVE  s \in Seq(T)
<1>1. s \in [1..Len(s) -> T] /\ Len(s) \in Nat
  OBVIOUS
<1> QED
  BY <1>1

LEMMA PaperStays ==
  ASSUME NEW t \in Nat, NEW v \in Nat, t <= v, NEW p \in PaperRows(t)
  PROVE  p \in PaperRows(v)
<1>1. 0..t \subseteq 0..v /\ 1..t \subseteq 1..v
  OBVIOUS
<1>2. \A x \in [at : 1..t, pnl : Results] : x \in [at : 1..v, pnl : Results]
  BY <1>1
<1>3. p.trades \in Seq([at : 1..v, pnl : Results])
  <2>1. p.trades \in Seq([at : 1..t, pnl : Results])
    BY DEF PaperRows
  <2> QED
    BY <1>2, <2>1, WiderSequences
<1> QED
  BY <1>1, <1>3 DEF PaperRows

LEMMA OpenedTyped ==
  ASSUME NEW t \in Nat, NEW p \in PaperRows(t)
  PROVE  [p EXCEPT !.open = @ + 1, !.last = t] \in PaperRows(t)
<1>1. p \in [open : Nat, last : 0..t, trades : Seq([at : 1..t, pnl : Results])]
  BY DEF PaperRows
<1>2. p.open + 1 \in Nat /\ t \in 0..t
  BY <1>1
<1> QED
  BY <1>1, <1>2 DEF PaperRows

LEMMA LockTyped ==
  ASSUME TypeOK, NEW u \in Users, NEW t \in Nat, NEW why \in {"none", "loss", "streak"}
  PROVE  Lock(u, t, why) \in Lockouts
<1>1. paper[u] \in PaperRows(now) /\ safe[u] \in Lockouts
  BY DEF TypeOK
<1>2. Len(paper[u].trades) \in Nat
  BY <1>1 DEF PaperRows
<1> QED
  BY <1>1, <1>2 DEF Lock, Lockouts

\* The steps of the accounts.
LEMMA DemoTyped ==
  ASSUME TypeOK, NEW u \in Users,
         \/ \E l \in Limits : UpdateConfig(u, l)
         \/ \E field \in {"enabled", "follow"}, on \in BOOLEAN : PutAuto(u, field, on)
         \/ OpenPaper(u) \/ \E pnl \in Results : ClosePaper(u, pnl)
         \/ MaybeOpen(u)
  PROVE  TypeOK'
<1>1. now \in Nat \ {0} /\ paper \in [Users -> PaperRows(now)] /\ fan \in FanOuts
  BY DEF TypeOK
<1>2. paper[u] \in PaperRows(now)
  BY <1>1
<1>3. ASSUME NEW l \in Limits, UpdateConfig(u, l) PROVE TypeOK'
  BY <1>3 DEF TypeOK, UpdateConfig, livevars
<1>4. ASSUME NEW field \in {"enabled", "follow"}, NEW on \in BOOLEAN, PutAuto(u, field, on)
      PROVE  TypeOK'
  BY <1>4 DEF TypeOK, PutAuto, livevars
<1>5. CASE OpenPaper(u)
  <2>1. paper' = [paper EXCEPT ![u].open = @ + 1, ![u].last = now]
    BY <1>5 DEF OpenPaper
  <2>2. [paper[u] EXCEPT !.open = @ + 1, !.last = now] \in PaperRows(now)
    BY <1>1, <1>2, OpenedTyped
  <2>3. paper' \in [Users -> PaperRows(now)]
    BY <1>1, <2>1, <2>2
  <2> QED
    BY <1>5, <2>3 DEF TypeOK, OpenPaper, livevars
<1>6. ASSUME NEW pnl \in Results, ClosePaper(u, pnl) PROVE TypeOK'
  <2>1. /\ paper' = [paper EXCEPT ![u].open = @ - 1,
                                  ![u].trades = Append(@, [at |-> now, pnl |-> pnl])]
        /\ paper[u].open > 0
    BY <1>6 DEF ClosePaper
  <2>2. paper[u].open - 1 \in Nat
    BY <1>2, <2>1 DEF PaperRows
  <2>3. Append(paper[u].trades, [at |-> now, pnl |-> pnl]) \in Seq([at : 1..now, pnl : Results])
    <3>1. [at |-> now, pnl |-> pnl] \in [at : 1..now, pnl : Results]
      BY <1>1
    <3>2. paper[u].trades \in Seq([at : 1..now, pnl : Results])
      BY <1>2 DEF PaperRows
    <3> QED
      BY <3>1, <3>2
  <2>4. [[paper[u] EXCEPT !.open = @ - 1] EXCEPT !.trades = Append(@, [at |-> now, pnl |-> pnl])]
          \in PaperRows(now)
    BY <1>2, <2>2, <2>3 DEF PaperRows
  <2>5. paper' \in [Users -> PaperRows(now)]
    BY <1>1, <2>1, <2>4
  <2> QED
    BY <1>6, <2>5 DEF TypeOK, ClosePaper, livevars
<1>7. CASE MaybeOpen(u)
  <2> DEFINE served == [fan EXCEPT !.todo = @ \ {u}]
  <2>1. fan.on /\ fan # NoFan /\ fan \in [on : {TRUE}, todo : SUBSET Users, opens : SUBSET Users,
                                          switched : SUBSET Users, locks : [Users -> Lockouts]]
    <3>1. NoFan.on = FALSE /\ fan.on
      BY <1>7 DEF NoFan, MaybeOpen
    <3> QED
      BY <1>1, <3>1 DEF FanOuts
  <2>2. served \in FanOuts
    BY <2>1 DEF FanOuts
  <2>3. [served EXCEPT !.opens = @ \cup {u}] \in FanOuts
    BY <2>1 DEF FanOuts
  <2>4. MidnightNext(now) \in Nat /\ now + Cooldown \in Nat
    BY <1>1, TimeAssumption DEF MidnightNext
  <2>5. ASSUME NEW t \in Nat, NEW why \in {"loss", "streak"}
        PROVE  [served EXCEPT !.locks[u] = Lock(u, t, why)] \in FanOuts
    <3>1. PICK lock \in Lockouts : lock = Lock(u, t, why)
      BY LockTyped
    <3>2. [served EXCEPT !.locks[u] = lock] \in FanOuts
      BY <2>1 DEF FanOuts
    <3> QED
      BY <3>1, <3>2
  <2>6. fan' \in FanOuts
    BY <1>7, <2>2, <2>3, <2>4, <2>5 DEF MaybeOpen
  <2> QED
    BY <1>7, <2>6 DEF TypeOK, MaybeOpen, livevars
<1> QED
  BY <1>3, <1>4, <1>5, <1>6, <1>7

LEMMA SignalTyped ==
  ASSUME TypeOK, OnNewSignal \/ CommitSignal \/ FailSignal
  PROVE  TypeOK'
<1>1. NoFan \in FanOuts
  BY DEF FanOuts
<1>2. CASE OnNewSignal
  <2>1. [u \in Users |-> Unlocked] \in [Users -> Lockouts]
    BY DEF Unlocked, Lockouts
  <2>2. fan' \in FanOuts
    BY <1>2, <2>1 DEF OnNewSignal, EligibleUsers, FanOuts
  <2> QED
    BY <1>2, <2>2 DEF TypeOK, OnNewSignal, livevars
<1>3. CASE CommitSignal
  <2>1. fan \in [on : {TRUE}, todo : SUBSET Users, opens : SUBSET Users,
                 switched : SUBSET Users, locks : [Users -> Lockouts]]
    <3>1. NoFan.on = FALSE /\ fan.on /\ fan \in FanOuts
      BY <1>3 DEF TypeOK, NoFan, CommitSignal
    <3> QED
      BY <3>1 DEF FanOuts
  <2>2. paper' \in [Users -> PaperRows(now)]
    <3>1. ASSUME NEW u \in Users PROVE [paper[u] EXCEPT !.open = @ + 1, !.last = now] \in PaperRows(now)
      BY OpenedTyped DEF TypeOK
    <3> QED
      BY <1>3, <3>1 DEF TypeOK, CommitSignal
  <2>3. safe' \in [Users -> Lockouts]
    <3>1. ASSUME NEW u \in Users PROVE [fan.locks[u] EXCEPT !.kill = safe[u].kill] \in Lockouts
      <4>1. fan.locks[u] \in Lockouts /\ safe[u] \in Lockouts
        BY <2>1 DEF TypeOK
      <4> QED
        BY <4>1 DEF Lockouts
    <3> QED
      BY <1>3, <3>1 DEF TypeOK, CommitSignal
  <2>4. auto' \in [Users -> [enabled : BOOLEAN, follow : BOOLEAN]]
    <3>1. ASSUME NEW u \in Users
          PROVE  [auto[u] EXCEPT !.enabled = @ \/ u \in fan.switched] \in [enabled : BOOLEAN, follow : BOOLEAN]
      <4>1. auto[u] \in [enabled : BOOLEAN, follow : BOOLEAN]
        BY DEF TypeOK
      <4>2. (auto[u].enabled \/ u \in fan.switched) \in BOOLEAN
        OBVIOUS
      <4> QED
        BY <4>1, <4>2
    <3> QED
      BY <1>3, <3>1 DEF CommitSignal
  <2> QED
    BY <1>1, <1>3, <2>2, <2>3, <2>4 DEF TypeOK, CommitSignal, livevars
<1>4. CASE FailSignal
  BY <1>1, <1>4 DEF TypeOK, FailSignal, livevars
<1> QED
  BY <1>2, <1>3, <1>4

\* The steps of the live side.
LEMMA LiveTyped ==
  ASSUME TypeOK, Live
  PROVE  TypeOK'
<1>1. /\ req \in [Req -> Requests] /\ rows \in [Kinds -> Nat] /\ deploy.users \subseteq Users
      /\ member \in [Users -> {"none", "PENDING", "APPROVED", "SUSPENDED"}]
  BY UsersAssumption DEF TypeOK
<1>2. Idle \in Requests
  BY DEF Requests
<1>3. ASSUME NEW r \in Req, NEW u \in Users, RequestAccess(r, u) PROVE TypeOK'
  <2>1. [at |-> "joining", user |-> u] \in Requests
    BY DEF Requests
  <2> QED
    BY <1>1, <1>3, <2>1 DEF TypeOK, RequestAccess, autovars
<1>4. ASSUME NEW r \in Req, NEW u \in Users, NEW s \in Symbols, NEW n \in Sizes, Start(r, u, s, n)
      PROVE  TypeOK'
  <2>1. ASSUME NEW p \in BOOLEAN, p => u = Pilot
        PROVE  [at |-> "asked", user |-> u, sym |-> s, seen |-> n, pilot |-> p] \in Requests
    BY <2>1 DEF Requests
  <2>2. req' \in [Req -> Requests]
    BY <1>1, <1>4, <2>1 DEF Start, PilotPreflight
  <2> QED
    BY <1>4, <2>2 DEF TypeOK, Start, autovars
<1>5. ASSUME NEW r \in Req, CommitAccess(r) PROVE TypeOK'
  <2>1. req[r].user \in Users
    BY <1>1, <1>5 DEF CommitAccess, Requests, Idle
  <2>2. req' \in [Req -> Requests]
    BY <1>1, <1>2, <1>5 DEF CommitAccess
  <2>3. member' \in [Users -> {"none", "PENDING", "APPROVED", "SUSPENDED"}]
    BY <1>1, <1>5 DEF CommitAccess
  <2> QED
    BY <1>5, <2>2, <2>3 DEF TypeOK, CommitAccess, autovars
<1>6. ASSUME NEW r \in Req, SafetyGate(r) \/ Enter(r) \/ FailRequest(r) PROVE TypeOK'
  <2>1. ASSUME NEW to \in {"clear", "sent"}, req[r].at \in {"asked", "clear"}
        PROVE  [req[r] EXCEPT !.at = to] \in Requests
    <3>1. req[r] \in [at : {"asked", "clear", "sent"}, user : Users, sym : Symbols, seen : Sizes,
                      pilot : BOOLEAN]
          /\ (req[r].pilot => req[r].user = Pilot)
      BY <1>1, <2>1 DEF Requests, Idle
    <3> QED
      BY <3>1 DEF Requests
  <2>2. req' \in [Req -> Requests]
    BY <1>1, <1>2, <1>6, <2>1 DEF SafetyGate, Enter, FailRequest
  <2> QED
    BY <1>6, <2>2 DEF TypeOK, SafetyGate, Enter, FailRequest, autovars
<1>7. ASSUME NEW r \in Req, CommitOpen(r) PROVE TypeOK'
  <2>1. req' \in [Req -> Requests]
    BY <1>1, <1>2, <1>7 DEF CommitOpen
  <2>2. rows' \in [Kinds -> Nat]
    <3>1. PICK k : rows' = [rows EXCEPT ![k] = @ + 1]
      BY <1>7 DEF CommitOpen
    <3>2. \A q \in Kinds : rows'[q] \in Nat
      BY <1>1, <3>1
    <3> QED
      BY <1>1, <3>1, <3>2
  <2> QED
    BY <1>7, <2>1, <2>2 DEF TypeOK, CommitOpen, autovars
<1>8. ASSUME NEW u \in Users, NEW s \in {"APPROVED", "SUSPENDED"}, SetStatus(u, s) PROVE TypeOK'
  BY <1>8 DEF TypeOK, SetStatus, autovars
<1>9. ASSUME NEW k \in Kinds, CloseLive(k) PROVE TypeOK'
  <2>1. rows' \in [Kinds -> Nat]
    BY <1>1, <1>9 DEF CloseLive
  <2> QED
    BY <1>9, <2>1 DEF TypeOK, CloseLive, autovars
<1> QED
  BY <1>1, <1>3, <1>4, <1>5, <1>6, <1>7, <1>8, <1>9 DEF Live

\* Every variable keeps its type, for any users, requests, deployments and limits.
THEOREM GatesTypeCorrect == Spec => []TypeOK
<1>1. Init => TypeOK
  <2> SUFFICES ASSUME Init PROVE TypeOK
    OBVIOUS
  <2>1. safe \in [Users -> Lockouts] /\ limits \in [Users -> Limits]
    BY LimitsAssumption DEF Init, Lockouts, Unlocked
  <2>2. paper \in [Users -> PaperRows(now)]
    BY DEF Init, PaperRows
  <2>3. rows \in [Kinds -> Nat] /\ req \in [Req -> Requests]
    BY DEF Init, Requests
  <2>4. fan \in FanOuts
    BY DEF Init, FanOuts
  <2>5. auto \in [Users -> [enabled : BOOLEAN, follow : BOOLEAN]]
    BY DEF Init
  <2>6. member \in [Users -> {"none", "PENDING", "APPROVED", "SUSPENDED"}]
    BY DEF Init
  <2>7. deploy \in Deploy /\ now \in Nat \ {0}
    BY DEF Init
  <2>8. kill \in BOOLEAN
    BY Zenon DEF Init
  <2> QED
    BY <2>1, <2>2, <2>3, <2>4, <2>5, <2>6, <2>7, <2>8 DEF TypeOK
<1>2. TypeOK /\ [Next]_vars => TypeOK'
  <2> SUFFICES ASSUME TypeOK, [Next]_vars PROVE TypeOK'
    OBVIOUS
  <2>1. CASE UNCHANGED vars
    BY <2>1 DEF TypeOK, vars
  <2>2. CASE Tick
    <3>1. now' = now + 1 /\ now \in Nat \ {0} /\ paper \in [Users -> PaperRows(now)] /\ paper' = paper
      BY <2>2 DEF TypeOK, Tick, autovars
    <3>2. paper' \in [Users -> PaperRows(now')]
      BY <3>1, PaperStays
    <3> QED
      BY <2>2, <3>1, <3>2 DEF TypeOK, Tick, autovars, livevars
  <2>3. ASSUME NEW on \in BOOLEAN, SetGlobalKill(on) PROVE TypeOK'
    BY <2>3 DEF TypeOK, SetGlobalKill, autovars, livevars
  <2>4. ASSUME NEW u \in Users, SetUserKill(u) \/ ResumeUser(u) PROVE TypeOK'
    <3>1. safe' \in [Users -> Lockouts]
      <4>1. safe \in [Users -> Lockouts] /\ Unlocked \in Lockouts
        BY DEF TypeOK, Lockouts, Unlocked
      <4>2. [safe[u] EXCEPT !.kill = TRUE] \in Lockouts
        BY <4>1 DEF Lockouts
      <4> QED
        BY <2>4, <4>1, <4>2 DEF SetUserKill, ResumeUser
    <3> QED
      BY <2>4, <3>1 DEF TypeOK, SetUserKill, ResumeUser, autovars, livevars
  <2>5. deploy.users \subseteq Users
    BY UsersAssumption DEF TypeOK
  <2> QED
    BY <2>1, <2>2, <2>3, <2>4, <2>5, DemoTyped, SignalTyped, LiveTyped DEF Next, Switches, Demo
<1> QED
  BY <1>1, <1>2, PTL DEF Spec

-----------------------------------------------------------------------------
(***************************************************************************)
(* The caps.  A measure z gives each kind of row what it counts for: what  *)
(* the gate has seen of its worth, or one.  A request counts for the row   *)
(* that would be worth what the gate has seen, which is the most that its  *)
(* row will count for.  What is booked in K and what is ahead of it, the   *)
(* requests at some places A past the gate, never exceed the cap by more   *)
(* than the other requests can add.                                        *)
(***************************************************************************)
Kind(r) == Row(r, req[r].seen)
At(r, K, A) == req[r].at \in A /\ Kind(r) \in K
Booked(z, K) == Cardinality(Units([k \in Kinds |-> z[k] * rows[k]], K))
Ahead(z, K, A) ==
    Cardinality(Units([r \in Req |-> IF At(r, K, A) THEN z[Kind(r)] ELSE 0], Req))
Load(z, K, A) == Booked(z, K) + Ahead(z, K, A)
Others == Cardinality(Req) - 1

Asked == {"asked", "clear", "sent"}
Sent == {"sent"}

\* What is in K, and counts for what, whatever the row is worth.
Even(z, K) ==
    \A k, l \in Kinds :
        l.user = k.user /\ l.sym = k.sym /\ l.pilot = k.pilot /\ l.seen = k.seen /\ l.size = l.seen
          => (k \in K <=> l \in K) /\ z[k] <= z[l]

LEMMA KindsFinite == IsFiniteSet(Kinds)
<1> DEFINE T == ((Users \X Symbols) \X (Sizes \X Sizes)) \X BOOLEAN
           f == [t \in T |-> [user |-> t[1][1][1], sym |-> t[1][1][2], size |-> t[1][2][1],
                              seen |-> t[1][2][2], pilot |-> t[2]]]
           R == [user : Users, sym : Symbols, size : Sizes, seen : Sizes, pilot : BOOLEAN]
<1>1. IsFiniteSet(Users) /\ IsFiniteSet(Symbols) /\ IsFiniteSet(Sizes)
  BY UsersAssumption, CapsAssumption
<1>2. IsFiniteSet(BOOLEAN)
  <2>1. BOOLEAN = {TRUE} \cup {FALSE}
    OBVIOUS
  <2>2. IsFiniteSet({TRUE})
    BY FS_Singleton
  <2>3. IsFiniteSet({TRUE} \cup {FALSE})
    BY <2>2, FS_AddElement
  <2> QED
    BY <2>1, <2>3
<1>3. IsFiniteSet(T)
  BY <1>1, <1>2, FS_Product
<1>4. f \in Surjection(T, R)
  <2>1. f \in [T -> R]
    OBVIOUS
  <2>2. ASSUME NEW k \in R PROVE \E t \in T : f[t] = k
    <3>1. <<<<<<k.user, k.sym>>, <<k.size, k.seen>>>>, k.pilot>> \in T
      OBVIOUS
    <3>2. f[<<<<<<k.user, k.sym>>, <<k.size, k.seen>>>>, k.pilot>>] = k
      BY <3>1
    <3> QED
      BY <3>1, <3>2
  <2> QED
    BY <2>1, <2>2 DEF Surjection
<1>5. IsFiniteSet(R)
  BY <1>3, <1>4, FS_Surjection
<1> QED
  BY <1>5, FS_Subset DEF Kinds

LEMMA OthersNat == Cardinality(Req) \in Nat /\ Others \in Nat
<1>1. Cardinality(Req) \in Nat /\ Cardinality(Req) # 0
  BY UsersAssumption, FS_CardinalityType, FS_EmptySet
<1> QED
  BY <1>1 DEF Others

\* What a measure gives: naturals.
LEMMA BookedTyped ==
  ASSUME NEW K \in SUBSET Kinds, NEW z \in [Kinds -> Nat], NEW v \in [Kinds -> Nat]
  PROVE  /\ IsFiniteSet(K) /\ \A k \in Kinds : z[k] * v[k] \in Nat
         /\ Cardinality(Units([k \in Kinds |-> z[k] * v[k]], K)) \in Nat
<1>1. IsFiniteSet(K)
  BY KindsFinite, FS_Subset
<1>2. \A k \in Kinds : z[k] * v[k] \in Nat
  <2>1. \A k \in Kinds : z[k] \in Nat /\ v[k] \in Nat
    OBVIOUS
  <2>2. \A a, b \in Nat : a * b \in Nat
    OBVIOUS
  <2> QED
    BY <2>1, <2>2
<1> DEFINE f == [k \in Kinds |-> z[k] * v[k]]
<1>3. \A k \in K : f[k] \in Nat
  BY <1>2
<1> HIDE DEF f
<1>4. Cardinality(Units(f, K)) \in Nat
  BY <1>1, <1>3, UnitsFinite
<1> QED
  BY <1>1, <1>2, <1>4 DEF f

LEMMA AheadTyped ==
  ASSUME NEW f, \A r \in Req : f[r] \in Nat
  PROVE  Cardinality(Units(f, Req)) \in Nat
BY UnitsFinite, UsersAssumption

LEMMA LoadTyped ==
  ASSUME TypeOK, NEW K \in SUBSET Kinds, NEW z \in [Kinds -> Nat], NEW A
  PROVE  IsFiniteSet(K) /\ Booked(z, K) \in Nat /\ Ahead(z, K, A) \in Nat
<1>1. rows \in [Kinds -> Nat]
  BY DEF TypeOK
<1> DEFINE f == [r \in Req |-> IF At(r, K, A) THEN z[Kind(r)] ELSE 0]
<1>2. \A r \in Req : f[r] \in Nat
  BY DEF At
<1> HIDE DEF f
<1>3. Cardinality(Units(f, Req)) \in Nat
  BY <1>2, AheadTyped
<1> QED
  BY <1>1, <1>3, BookedTyped DEF Booked, Ahead, f

LEMMA LoadTypedNext ==
  ASSUME TypeOK', NEW K \in SUBSET Kinds, NEW z \in [Kinds -> Nat], NEW A
  PROVE  Booked(z, K)' \in Nat /\ Ahead(z, K, A)' \in Nat
<1>1. rows' \in [Kinds -> Nat]
  BY DEF TypeOK
<1> DEFINE f == [r \in Req |-> IF At(r, K, A)' THEN z[Kind(r)'] ELSE 0]
<1>2. \A r \in Req : f[r] \in Nat
  BY DEF At
<1> HIDE DEF f
<1>3. Cardinality(Units(f, Req)) \in Nat
  BY <1>2, AheadTyped
<1> QED
  BY <1>1, <1>3, BookedTyped DEF Booked, Ahead, f

\* Requests that leave, or stay where they are, add nothing.
LEMMA AheadShrinks ==
  ASSUME TypeOK, TypeOK', NEW K \in SUBSET Kinds, NEW z \in [Kinds -> Nat], NEW A,
         \A r \in Req : At(r, K, A)' => At(r, K, A) /\ Kind(r)' = Kind(r)
  PROVE  Ahead(z, K, A)' <= Ahead(z, K, A)
<1> DEFINE f == [r \in Req |-> IF At(r, K, A) THEN z[Kind(r)] ELSE 0]
           g == [r \in Req |-> IF At(r, K, A)' THEN z[Kind(r)'] ELSE 0]
<1>1. \A r \in Req : f[r] \in Nat /\ g[r] \in Nat /\ g[r] <= f[r]
  BY DEF At
<1> HIDE DEF f, g
<1>2. Cardinality(Units(g, Req)) <= Cardinality(Units(f, Req))
  BY <1>1, UnitsLess, UsersAssumption
<1> QED
  BY <1>2 DEF Ahead, f, g

\* A request that is let past finds the others ahead of it at most.
LEMMA AheadBounded ==
  ASSUME NEW K \in SUBSET Kinds, NEW m \in Nat, NEW z \in [Kinds -> 0..m], NEW A, NEW r \in Req,
         At(r, K, A)'
  PROVE  Ahead(z, K, A)' <= z[Kind(r)'] + Others * m
<1> DEFINE g == [q \in Req |-> IF At(q, K, A)' THEN z[Kind(q)'] ELSE 0]
<1>1. /\ \A q \in Req : g[q] \in 0..m
      /\ g[r] = z[Kind(r)']
  BY DEF At
<1> HIDE DEF g
<1>2. IsFiniteSet(Req) /\ IsFiniteSet(Req \ {r}) /\ Cardinality(Req \ {r}) = Others
  BY UsersAssumption, FS_RemoveElement DEF Others
<1>3. \A q \in Req : g[q] \in Nat
  BY <1>1
<1>4. Cardinality(Units(g, Req)) = Cardinality(Units(g, Req \ {r})) + g[r]
  BY <1>2, <1>3, UnitsTake
<1>5. Cardinality(Units(g, Req \ {r})) <= Others * m
  BY <1>1, <1>2, UnitsBound
<1>6. Cardinality(Units(g, Req \ {r})) \in Nat
  BY <1>2, <1>3, UnitsFinite
<1>7. Others * m \in Nat
  <2>1. \A a, b \in Nat : a * b \in Nat
    OBVIOUS
  <2> QED
    BY <2>1, OthersNat
<1>8. Cardinality(Units(g, Req)) <= g[r] + Others * m
  BY <1>1, <1>4, <1>5, <1>6, <1>7
<1> QED
  BY <1>1, <1>8 DEF Ahead, g

\* A request that comes to be at A, with a kind of K.
Passes(r, K, A) == At(r, K, A)' /\ req[r].at \notin A /\ rows' = rows

LEMMA CommitKeeps ==
  ASSUME TypeOK, TypeOK', NEW K \in SUBSET Kinds, NEW z \in [Kinds -> Nat], NEW A, "sent" \in A,
         "idle" \notin A, Even(z, K), NEW r \in Req, CommitOpen(r)
  PROVE  Load(z, K, A)' <= Load(z, K, A)
<1>0. PICK n \in Sizes : rows' = [rows EXCEPT ![Row(r, n)] = @ + 1]
  BY DEF CommitOpen
<1> DEFINE k == Kind(r)
           j == Row(r, n)
           f == [q \in Req |-> IF At(q, K, A) THEN z[Kind(q)] ELSE 0]
           g == [q \in Req |-> IF At(q, K, A)' THEN z[Kind(q)'] ELSE 0]
           b == [q \in Kinds |-> z[q] * rows[q]]
           c == [q \in Kinds |-> z[q] * rows'[q]]
<1>1. /\ req[r].at = "sent" /\ req' = [req EXCEPT ![r] = Idle]
      /\ rows' = [rows EXCEPT ![j] = @ + 1]
  BY <1>0 DEF CommitOpen
<1>2. k \in Kinds /\ j \in Kinds /\ (k \in K <=> j \in K) /\ z[j] <= z[k]
  <2>1. req[r] \in [at : {"asked", "clear", "sent"}, user : Users, sym : Symbols, seen : Sizes,
                    pilot : BOOLEAN] /\ (req[r].pilot => req[r].user = Pilot)
    BY <1>1 DEF TypeOK, Requests, Idle
  <2>2. k \in Kinds /\ j \in Kinds
    BY <2>1 DEF Kind, Row, Kinds
  <2>3. /\ k.user = j.user /\ k.sym = j.sym /\ k.pilot = j.pilot
        /\ k.seen = j.seen /\ k.size = k.seen
    BY DEF Kind, Row
  <2> QED
    BY <2>2, <2>3 DEF Even
<1>3. ~At(r, K, A)' /\ \A q \in Req \ {r} : At(q, K, A)' = At(q, K, A) /\ Kind(q)' = Kind(q)
  <2>1. req'[r].at = "idle"
    BY <1>1 DEF TypeOK, Idle
  <2>2. \A q \in Req \ {r} : req'[q] = req[q]
    BY <1>1 DEF TypeOK
  <2> QED
    BY <2>1, <2>2 DEF At, Kind, Row
<1>4. (\A q \in Req : f[q] \in Nat) /\ (\A q \in Req : g[q] \in Nat)
  BY DEF At
<1>5. \A q \in Req \ {r} : f[q] = g[q]
  BY <1>3
<1>6. (\A q \in K : b[q] \in Nat) /\ (\A q \in K : c[q] \in Nat)
  <2>1. \A q \in Kinds : z[q] \in Nat /\ rows[q] \in Nat /\ rows'[q] \in Nat
    BY DEF TypeOK
  <2>2. \A x, y \in Nat : x * y \in Nat
    OBVIOUS
  <2> QED
    BY <2>1, <2>2
<1>7. \A q \in Kinds \ {j} : b[q] = c[q]
  BY <1>1 DEF TypeOK
<1>8. c[j] = b[j] + z[j]
  <2>1. rows'[j] = rows[j] + 1 /\ rows[j] \in Nat /\ z[j] \in Nat
    BY <1>1, <1>2 DEF TypeOK
  <2>2. \A x, y \in Nat : x * (y + 1) = x * y + x
    OBVIOUS
  <2> QED
    BY <1>2, <2>1, <2>2
<1>9. z[k] \in Nat /\ z[j] \in Nat /\ (k \in K => g[r] = f[r] - z[k]) /\ (k \notin K => g[r] = f[r])
  BY <1>1, <1>2, <1>3 DEF At
<1>10. IsFiniteSet(K) /\ IsFiniteSet(Req)
  BY LoadTyped, UsersAssumption
<1> HIDE DEF f, g, b, c, k, j
<1>11. CASE k \in K
  <2>1. Cardinality(Units(c, K)) = Cardinality(Units(b, K)) + z[j]
    <3>1. \A q \in K : b[q] \in Nat /\ c[q] \in Nat
      BY <1>6
    <3>2. \A q \in K \ {j} : b[q] = c[q]
      BY <1>7
    <3>3. z[j] \in Int /\ j \in K
      BY <1>2, <1>9, <1>11
    <3> QED
      BY <1>8, <1>10, <1>11, <3>1, <3>2, <3>3, UnitsMore
  <2>2. Cardinality(Units(f, Req)) = Cardinality(Units(g, Req)) + z[k]
    <3>1. f[r] = g[r] + z[k]
      BY <1>4, <1>9, <1>11
    <3> QED
      <4>1. (\A q \in Req : g[q] \in Nat /\ f[q] \in Nat) /\ z[k] \in Int
        BY <1>4, <1>9
      <4>2. \A q \in Req \ {r} : g[q] = f[q]
        BY <1>5
      <4> QED
        BY <1>10, <3>1, <4>1, <4>2, UnitsMore, ZenonT(30)
  <2>3. Cardinality(Units(b, K)) \in Nat /\ Cardinality(Units(g, Req)) \in Nat
    BY <1>4, <1>6, <1>10, UnitsFinite
  <2>4. Cardinality(Units(c, K)) + Cardinality(Units(g, Req)) <= Cardinality(Units(b, K)) + Cardinality(Units(f, Req))
    BY <1>2, <1>9, <2>1, <2>2, <2>3
  <2> QED
    BY <2>4 DEF Load, Booked, Ahead, f, g, b, c
<1>12. CASE k \notin K
  <2>1. Units(c, K) = Units(b, K)
    BY <1>2, <1>7, <1>12, UnitsSame
  <2>2. Units(f, Req) = Units(g, Req)
    BY <1>5, <1>9, <1>12, UnitsSame
  <2>3. Cardinality(Units(b, K)) \in Nat /\ Cardinality(Units(g, Req)) \in Nat
    BY <1>4, <1>6, <1>10, UnitsFinite
  <2>4. Cardinality(Units(c, K)) + Cardinality(Units(g, Req)) <= Cardinality(Units(b, K)) + Cardinality(Units(f, Req))
    BY <2>1, <2>2, <2>3
  <2> QED
    BY <2>4 DEF Load, Booked, Ahead, f, g, b, c
<1> QED
  BY <1>11, <1>12

LEMMA RowsShrink ==
  ASSUME TypeOK, TypeOK', NEW K \in SUBSET Kinds, NEW z \in [Kinds -> Nat],
         \A k \in K : rows'[k] <= rows[k]
  PROVE  Booked(z, K)' <= Booked(z, K)
<1> DEFINE b == [q \in Kinds |-> z[q] * rows[q]]
           c == [q \in Kinds |-> z[q] * rows'[q]]
<1>1. \A q \in K : b[q] \in Nat /\ c[q] \in Nat /\ c[q] <= b[q]
  <2>1. \A q \in K : z[q] \in Nat /\ rows[q] \in Nat /\ rows'[q] \in Nat
    BY DEF TypeOK
  <2>2. \A x, y, w \in Nat : x * y \in Nat /\ (w <= y => x * w <= x * y)
    OBVIOUS
  <2> QED
    BY <2>1, <2>2
<1>2. IsFiniteSet(K)
  BY LoadTyped
<1> HIDE DEF b, c
<1>3. Cardinality(Units(c, K)) <= Cardinality(Units(b, K))
  BY <1>1, <1>2, UnitsLess
<1> QED
  BY <1>3 DEF Booked, b, c

\* No step adds to what is booked and ahead but a request that passes.
LEMMA LoadStep ==
  ASSUME TypeOK, TypeOK', [Next]_vars, NEW K \in SUBSET Kinds, NEW m \in Nat,
         NEW z \in [Kinds -> 0..m], NEW A, "sent" \in A, A \subseteq Asked, Even(z, K)
  PROVE  \/ Load(z, K, A)' <= Load(z, K, A)
         \/ \E r \in Req : /\ Passes(r, K, A)
                          /\ Load(z, K, A)' <= Booked(z, K) + z[Kind(r)'] + Others * m
<1>1. z \in [Kinds -> Nat] /\ "idle" \notin A /\ "joining" \notin A
  BY DEF Asked
<1>2. /\ Booked(z, K) \in Nat /\ Ahead(z, K, A) \in Nat
      /\ Booked(z, K)' \in Nat /\ Ahead(z, K, A)' \in Nat
  <2>1. Booked(z, K) \in Nat /\ Ahead(z, K, A) \in Nat
    BY <1>1, LoadTyped
  <2>2. Booked(z, K)' \in Nat /\ Ahead(z, K, A)' \in Nat
    BY <1>1, LoadTypedNext
  <2> QED
    BY <2>1, <2>2
<1>3. ASSUME rows' = rows PROVE Booked(z, K)' = Booked(z, K)
  BY <1>3 DEF Booked
<1>4. ASSUME rows' = rows, \A r \in Req : At(r, K, A)' => At(r, K, A) /\ Kind(r)' = Kind(r)
      PROVE  Load(z, K, A)' <= Load(z, K, A)
  <2>1. Ahead(z, K, A)' <= Ahead(z, K, A)
    BY <1>1, <1>4, AheadShrinks
  <2> QED
    BY <1>2, <1>3, <1>4, <2>1 DEF Load
<1>5. ASSUME NEW r \in Req, Passes(r, K, A)
      PROVE  Load(z, K, A)' <= Booked(z, K) + z[Kind(r)'] + Others * m
  <2>1. Ahead(z, K, A)' <= z[Kind(r)'] + Others * m
    BY <1>5, AheadBounded DEF Passes
  <2>2. Booked(z, K)' = Booked(z, K)
    BY <1>3, <1>5 DEF Passes
  <2>3. z[Kind(r)'] \in Int /\ Others * m \in Int
    <3>1. Kind(r)' \in K
      BY <1>5 DEF Passes, At
    <3>2. \A x, y \in Nat : x * y \in Nat
      OBVIOUS
    <3> QED
      BY <1>1, <3>1, <3>2, OthersNat
  <2> QED
    BY <1>2, <2>1, <2>2, <2>3 DEF Load
<1>6. ASSUME NEW k \in Kinds, CloseLive(k) PROVE Load(z, K, A)' <= Load(z, K, A)
  <2>1. \A q \in K : rows'[q] <= rows[q]
    BY <1>6 DEF CloseLive, TypeOK
  <2>2. Booked(z, K)' <= Booked(z, K)
    BY <1>1, <2>1, RowsShrink
  <2>3. Ahead(z, K, A)' = Ahead(z, K, A)
    BY <1>6 DEF CloseLive, Ahead, At, Kind, Row
  <2> QED
    BY <1>2, <2>2, <2>3 DEF Load
<1>7. ASSUME NEW r \in Req, CommitOpen(r) PROVE Load(z, K, A)' <= Load(z, K, A)
  BY <1>1, <1>7, CommitKeeps
<1>8. ASSUME UNCHANGED <<rows, req>> PROVE Load(z, K, A)' <= Load(z, K, A)
  <2>1. \A r \in Req : At(r, K, A)' => At(r, K, A) /\ Kind(r)' = Kind(r)
    BY <1>8 DEF At, Kind, Row
  <2> QED
    BY <1>4, <1>8, <2>1
\* One request changes, and its row does not.
<1>9. ASSUME NEW r \in Req, rows' = rows, \A q \in Req \ {r} : req'[q] = req[q],
             At(r, K, A)' /\ req[r].at \in A => Kind(r)' = Kind(r)
      PROVE  \/ Load(z, K, A)' <= Load(z, K, A)
             \/ \E q \in Req : /\ Passes(q, K, A)
                              /\ Load(z, K, A)' <= Booked(z, K) + z[Kind(q)'] + Others * m
  <2>1. CASE At(r, K, A)' /\ req[r].at \notin A
    BY <1>5, <1>9, <2>1 DEF Passes
  <2>2. CASE ~(At(r, K, A)' /\ req[r].at \notin A)
    <3>1. \A q \in Req : At(q, K, A)' => At(q, K, A) /\ Kind(q)' = Kind(q)
      BY <1>9, <2>2 DEF At, Kind, Row
    <3> QED
      BY <1>4, <1>9, <3>1
  <2> QED
    BY <2>1, <2>2
<1>10. ASSUME NEW r \in Req,
              \/ \E u \in deploy.users : \/ RequestAccess(r, u)
                                        \/ \E s \in Symbols, n \in Sizes : Start(r, u, s, n)
              \/ CommitAccess(r) \/ SafetyGate(r) \/ Enter(r) \/ FailRequest(r)
       PROVE  /\ rows' = rows /\ \A q \in Req \ {r} : req'[q] = req[q]
              /\ At(r, K, A)' /\ req[r].at \in A => Kind(r)' = Kind(r)
  <2>1. req \in [Req -> Requests] /\ req[r] \in Requests
    BY DEF TypeOK
  <2>2. CASE \E u \in deploy.users : \/ RequestAccess(r, u)
                                    \/ \E s \in Symbols, n \in Sizes : Start(r, u, s, n)
    BY <1>1, <2>1, <2>2 DEF RequestAccess, Start, At, Idle
  <2>3. CASE CommitAccess(r) \/ FailRequest(r)
    BY <1>1, <2>1, <2>3 DEF CommitAccess, FailRequest, At, Idle
  <2>4. CASE SafetyGate(r) \/ Enter(r)
    <3>1. req[r] # Idle /\ req[r].at \in Asked
      BY <2>4 DEF SafetyGate, Enter, Idle, Asked
    <3>2. req'[r] = Idle \/ \E at \in Asked : req'[r] = [req[r] EXCEPT !.at = at]
      BY <2>1, <2>4 DEF SafetyGate, Enter, Asked
    <3>3. ASSUME NEW at \in Asked PROVE LET q == [req[r] EXCEPT !.at = at] IN
            q.user = req[r].user /\ q.sym = req[r].sym /\ q.seen = req[r].seen /\ q.pilot = req[r].pilot
      <4>1. req[r] \in [at : {"asked", "clear", "sent"}, user : Users, sym : Symbols, seen : Sizes,
                        pilot : BOOLEAN]
        BY <2>1, <3>1 DEF Requests, Asked
      <4> QED
        BY <4>1
    <3>4. Idle.at \notin A
      BY <1>1 DEF Idle
    <3>5. At(r, K, A)' => Kind(r)' = Kind(r)
      BY <3>2, <3>3, <3>4 DEF At, Kind, Row
    <3> QED
      BY <2>1, <2>4, <3>5 DEF SafetyGate, Enter
  <2> QED
    BY <1>10, <2>2, <2>3, <2>4
<1>11. CASE UNCHANGED vars
  BY <1>8, <1>11 DEF vars
<1>12. CASE Switches \/ Demo
  <2>1. UNCHANGED livevars
    BY <1>12 DEF Switches, Demo, Tick, SetGlobalKill, SetUserKill, ResumeUser, UpdateConfig, PutAuto,
         OpenPaper, ClosePaper, MaybeOpen, OnNewSignal, CommitSignal, FailSignal
  <2> QED
    BY <1>8, <2>1 DEF livevars
<1>13. CASE Live
  <2>1. ASSUME NEW u \in Users, NEW s \in {"APPROVED", "SUSPENDED"}, SetStatus(u, s)
        PROVE  UNCHANGED <<rows, req>>
    BY <2>1 DEF SetStatus
  <2>2. deploy.users \subseteq Users
    BY UsersAssumption DEF TypeOK
  <2> QED
    BY <1>6, <1>7, <1>8, <1>9, <1>10, <1>13, <2>1, <2>2 DEF Live
<1> QED
  BY <1>11, <1>12, <1>13 DEF Next

\* A bound is kept if what passes fits under the cap with what is booked.
LEMMA LoadKept ==
  ASSUME TypeOK, TypeOK', [Next]_vars, NEW K \in SUBSET Kinds, NEW m \in Nat,
         NEW z \in [Kinds -> 0..m], NEW A, "sent" \in A, A \subseteq Asked, NEW cap \in Nat, Even(z, K),
         \A r \in Req : Passes(r, K, A) => Booked(z, K) + z[Kind(r)'] <= cap,
         Load(z, K, A) <= cap + Others * m
  PROVE  Load(z, K, A)' <= cap + Others * m
<1>1. z \in [Kinds -> Nat]
  OBVIOUS
<1>2. Booked(z, K) \in Nat /\ Load(z, K, A) \in Nat /\ Load(z, K, A)' \in Nat
  <2>1. Booked(z, K) \in Nat /\ Ahead(z, K, A) \in Nat
    BY <1>1, LoadTyped
  <2>2. Booked(z, K)' \in Nat /\ Ahead(z, K, A)' \in Nat
    BY <1>1, LoadTypedNext
  <2> QED
    BY <2>1, <2>2 DEF Load
<1>3. Others * m \in Nat
  <2>1. \A x, y \in Nat : x * y \in Nat
    OBVIOUS
  <2> QED
    BY <2>1, OthersNat
<1>4. CASE Load(z, K, A)' <= Load(z, K, A)
  BY <1>2, <1>3, <1>4
<1>5. ASSUME NEW r \in Req, Passes(r, K, A),
             Load(z, K, A)' <= Booked(z, K) + z[Kind(r)'] + Others * m
      PROVE  Load(z, K, A)' <= cap + Others * m
  <2>1. Kind(r)' \in Kinds
    BY <1>5 DEF Passes, At
  <2>2. z[Kind(r)'] \in Nat
    BY <1>1, <2>1
  <2>3. Booked(z, K) + z[Kind(r)'] <= cap
    BY <1>5
  <2> QED
    BY <1>2, <1>3, <1>5, <2>2, <2>3
<1> QED
  BY <1>4, <1>5, LoadStep

SeenOf == [k \in Kinds |-> Lesser(k.size, k.seen)]
One == [k \in Kinds |-> 1]
Piloted(K) == {k \in K : k.pilot}
Most == Max(Sizes)

\* The bounds of CapsOvershoot, with the requests that are past a gate.
FullBeta ==
    "beta" \in deploy.on =>
        /\ Load(SeenOf, Kinds, Sent) <= Caps.global + Others * Most
        /\ \A u \in Users :
             /\ Load(SeenOf, Of(u), Sent) <= Caps.user + Others * Most
             /\ Load(One, Of(u), Sent) <= Caps.rows + Others * 1
             /\ \A s \in Symbols : Load(SeenOf, In(u, s), Sent) <= Caps.symbol + Others * Most
FullPilot ==
    \A u \in Users :
        /\ Load(One, Piloted(Of(u)), Asked) <= Caps.pilot + Others * 1
        /\ \A s \in Symbols : Load(One, Piloted(In(u, s)), Asked) <= 1 + Others * 1
Joining == {r \in Req : req[r].at = "joining"}
FullSeats == Cardinality(Members) + Cardinality(Joining) <= Caps.seats + Others

LEMMA MeasuresTyped ==
  /\ Most \in Nat /\ SeenOf \in [Kinds -> 0..Most] /\ One \in [Kinds -> 0..1]
  /\ SeenOf \in [Kinds -> Nat] /\ One \in [Kinds -> Nat]
  /\ Caps.global \in Nat /\ Caps.user \in Nat /\ Caps.symbol \in Nat /\ Caps.rows \in Nat
  /\ Caps.pilot \in Nat /\ Caps.seats \in Nat
<1>1. Most \in Sizes /\ \A n \in Sizes : n <= Most
  BY GreatestOf, CapsAssumption DEF Most
<1>2. Most \in Nat /\ \A n \in Sizes : n \in 0..Most
  BY <1>1, CapsAssumption
<1>3. \A k \in Kinds : Lesser(k.size, k.seen) \in Sizes
  BY DEF Kinds, Lesser
<1>4. SeenOf \in [Kinds -> 0..Most] /\ One \in [Kinds -> 0..1]
  BY <1>2, <1>3 DEF SeenOf, One
<1>5. SeenOf \in [Kinds -> Nat] /\ One \in [Kinds -> Nat]
  BY <1>4
<1> QED
  BY <1>2, <1>4, <1>5, CapsAssumption

LEMMA WorthNat == \A k \in Kinds : k.size \in Nat /\ k.seen \in Nat
<1>1. \A k \in Kinds : k.size \in Sizes /\ k.seen \in Sizes
  BY DEF Kinds
<1> QED
  BY <1>1, CapsAssumption

\* The sums of the code are loads without the requests.
LEMMA BookedIs ==
  ASSUME TypeOK, NEW K \in SUBSET Kinds
  PROVE  Seen(K) = Booked(SeenOf, K) /\ Count(K) = Booked(One, K) /\ Seen(K) <= Notional(K)
         /\ Notional(K) \in Nat
<1>1. [k \in Kinds |-> Lesser(k.size, k.seen) * rows[k]] = [k \in Kinds |-> SeenOf[k] * rows[k]]
  BY DEF SeenOf
<1>2. Units(rows, K) = Units([k \in Kinds |-> One[k] * rows[k]], K)
  <2> DEFINE f == [k \in Kinds |-> One[k] * rows[k]]
  <2>1. \A k \in K : rows[k] = f[k]
    BY DEF One, TypeOK
  <2> HIDE DEF f
  <2>2. Units(rows, K) = Units(f, K)
    BY <2>1, UnitsSame
  <2> QED
    BY <2>2 DEF f
<1>3. Seen(K) <= Notional(K) /\ Notional(K) \in Nat
  <2> DEFINE f == [k \in Kinds |-> Lesser(k.size, k.seen) * rows[k]]
             g == [k \in Kinds |-> k.size * rows[k]]
  <2>1. \A k \in K : f[k] \in Nat /\ g[k] \in Nat /\ f[k] <= g[k]
    <3>1. \A x, y, w \in Nat : x * w \in Nat /\ (x <= y => x * w <= y * w)
      OBVIOUS
    <3>2. \A a, b \in Nat : Lesser(a, b) \in Nat /\ Lesser(a, b) <= a
      BY DEF Lesser
    <3>3. \A k \in K : rows[k] \in Nat /\ k.size \in Nat /\ k.seen \in Nat
      BY WorthNat DEF TypeOK
    <3> QED
      BY <3>1, <3>2, <3>3
  <2>2. IsFiniteSet(K)
    BY KindsFinite, FS_Subset
  <2> HIDE DEF f, g
  <2>3. Cardinality(Units(f, K)) <= Cardinality(Units(g, K)) /\ Cardinality(Units(g, K)) \in Nat
    BY <2>1, <2>2, UnitsLess, UnitsFinite
  <2> QED
    BY <2>3 DEF Seen, Notional, f, g
<1> QED
  BY <1>1, <1>2, <1>3 DEF Seen, Count, Booked

LEMMA BookedWithin ==
  ASSUME TypeOK, NEW L \in SUBSET Kinds, NEW K \in SUBSET L, NEW z \in [Kinds -> Nat]
  PROVE  Booked(z, K) <= Booked(z, L)
<1> DEFINE f == [k \in Kinds |-> z[k] * rows[k]]
<1>1. IsFiniteSet(L) /\ \A k \in L : f[k] \in Nat
  BY BookedTyped DEF TypeOK
<1> HIDE DEF f
<1>2. Cardinality(Units(f, K)) <= Cardinality(Units(f, L))
  BY <1>1, UnitsWithin
<1> QED
  BY <1>2 DEF Booked, f

\* The gate counts what is booked in full.
LEMMA GateCounts ==
  ASSUME TypeOK, NEW K \in SUBSET Kinds, NEW n \in Nat, NEW cap \in Nat, Notional(K) + n <= cap
  PROVE  Booked(SeenOf, K) + n <= cap
<1>1. Booked(SeenOf, K) \in Nat
  BY LoadTyped, MeasuresTyped
<1>2. Booked(SeenOf, K) <= Notional(K) /\ Notional(K) \in Nat
  BY BookedIs
<1> QED
  BY <1>1, <1>2

\* Who comes to be sent has passed the gates; who comes to be asked with the pilot, the
\* preflight.
LEMMA SentPassed ==
  ASSUME TypeOK, [Next]_vars, NEW r \in Req, NEW K \in SUBSET Kinds, Passes(r, K, Sent)
  PROVE  /\ Kind(r)' = Kind(r)
         /\ "beta" \in deploy.on => BetaGate(req[r].user, req[r].sym, req[r].seen)
<1>1. req \in [Req -> Requests] /\ req[r] \in Requests
  BY DEF TypeOK
<1>2. req'[r].at = "sent" /\ req[r].at # "sent"
  BY DEF Passes, At, Sent
<1>3. req' # req
  BY <1>2
<1>4. ASSUME NEW q \in Req, req' = [req EXCEPT ![q] = Idle] PROVE FALSE
  BY <1>1, <1>2, <1>4 DEF Idle
<1>5. Enter(r)
  <2>1. CASE UNCHANGED vars \/ Switches \/ Demo
    BY <1>3, <2>1 DEF vars, livevars, Switches, Demo, Tick, SetGlobalKill, SetUserKill, ResumeUser,
         UpdateConfig, PutAuto, OpenPaper, ClosePaper, MaybeOpen, OnNewSignal, CommitSignal, FailSignal
  <2>2. CASE Live
    <3>1. ASSUME NEW q \in Req, NEW u \in deploy.users, RequestAccess(q, u) PROVE FALSE
      BY <1>1, <1>2, <3>1 DEF RequestAccess
    <3>2. ASSUME NEW q \in Req, NEW u \in deploy.users, NEW s \in Symbols, NEW n \in Sizes, Start(q, u, s, n)
          PROVE  FALSE
      BY <1>1, <1>2, <3>2 DEF Start
    <3>3. ASSUME NEW q \in Req, CommitAccess(q) \/ CommitOpen(q) \/ FailRequest(q) PROVE FALSE
      BY <1>4, <3>3 DEF CommitAccess, CommitOpen, FailRequest
    <3>4. ASSUME NEW q \in Req, SafetyGate(q) PROVE FALSE
      <4>1. req'[q] = Idle \/ req'[q] = [req[q] EXCEPT !.at = "clear"]
        BY <1>1, <3>4 DEF SafetyGate
      <4>2. req[q] # Idle
        BY <3>4 DEF SafetyGate, Idle
      <4>3. req'[q].at # "sent"
        BY <1>1, <4>1, <4>2 DEF Idle, Requests
      <4> QED
        BY <1>1, <1>2, <3>4, <4>3 DEF SafetyGate
    <3>5. ASSUME NEW u \in deploy.users, NEW s \in {"APPROVED", "SUSPENDED"}, SetStatus(u, s) PROVE FALSE
      BY <1>3, <3>5 DEF SetStatus
    <3>6. ASSUME NEW k \in Kinds, CloseLive(k) PROVE FALSE
      BY <1>3, <3>6 DEF CloseLive
    <3>7. ASSUME NEW q \in Req, q # r, Enter(q) PROVE FALSE
      BY <1>1, <1>2, <3>7 DEF Enter
    <3> QED
      BY <2>2, <3>1, <3>2, <3>3, <3>4, <3>5, <3>6, <3>7 DEF Live
  <2> QED
    BY <2>1, <2>2 DEF Next
<1>6. /\ req[r].at = "clear" /\ req'[r] = [req[r] EXCEPT !.at = "sent"]
      /\ "beta" \in deploy.on => BetaGate(req[r].user, req[r].sym, req[r].seen)
  BY <1>1, <1>2, <1>5 DEF Enter, Idle
<1>7. req[r] \in [at : {"asked", "clear", "sent"}, user : Users, sym : Symbols, seen : Sizes,
                  pilot : BOOLEAN]
  BY <1>1, <1>6 DEF Requests, Idle
<1> QED
  BY <1>6, <1>7 DEF Kind, Row

LEMMA AskedPassed ==
  ASSUME TypeOK, [Next]_vars, NEW r \in Req, NEW K \in SUBSET Kinds, Passes(r, K, Asked),
         req'[r].pilot
  PROVE  PilotPreflight(req'[r].user, req'[r].sym)
<1>1. req \in [Req -> Requests] /\ req[r] \in Requests
  BY DEF TypeOK
<1>2. req'[r].at \in Asked /\ req[r].at \notin Asked
  BY DEF Passes, At
<1>3. req' # req
  BY <1>2
<1>4. ASSUME NEW q \in Req, req' = [req EXCEPT ![q] = Idle] PROVE FALSE
  BY <1>1, <1>2, <1>4 DEF Idle, Asked
<1>5. PICK u \in deploy.users, s \in Symbols, n \in Sizes : Start(r, u, s, n)
  <2>1. CASE UNCHANGED vars \/ Switches \/ Demo
    BY <1>3, <2>1 DEF vars, livevars, Switches, Demo, Tick, SetGlobalKill, SetUserKill, ResumeUser,
         UpdateConfig, PutAuto, OpenPaper, ClosePaper, MaybeOpen, OnNewSignal, CommitSignal, FailSignal
  <2>2. CASE Live
    <3>1. ASSUME NEW q \in Req, NEW u \in deploy.users, RequestAccess(q, u) PROVE FALSE
      BY <1>1, <1>2, <3>1 DEF RequestAccess, Asked
    <3>2. ASSUME NEW q \in Req, NEW u \in deploy.users, NEW s \in Symbols, NEW n \in Sizes,
                 Start(q, u, s, n), q # r
          PROVE  FALSE
      BY <1>1, <1>2, <3>2 DEF Start
    <3>3. ASSUME NEW q \in Req, CommitAccess(q) \/ CommitOpen(q) \/ FailRequest(q) PROVE FALSE
      BY <1>4, <3>3 DEF CommitAccess, CommitOpen, FailRequest
    <3>4. ASSUME NEW q \in Req, SafetyGate(q) \/ Enter(q) PROVE FALSE
      <4>1. req[q].at \in Asked /\ \A p \in Req \ {q} : req'[p] = req[p]
        BY <1>1, <3>4 DEF SafetyGate, Enter, Asked
      <4> QED
        BY <1>2, <4>1
    <3>5. ASSUME NEW u \in deploy.users, NEW s \in {"APPROVED", "SUSPENDED"}, SetStatus(u, s) PROVE FALSE
      BY <1>3, <3>5 DEF SetStatus
    <3>6. ASSUME NEW k \in Kinds, CloseLive(k) PROVE FALSE
      BY <1>3, <3>6 DEF CloseLive
    <3> QED
      BY <2>2, <3>1, <3>2, <3>3, <3>4, <3>5, <3>6 DEF Live
  <2> QED
    BY <2>1, <2>2 DEF Next
<1> QED
  BY <1>1, <1>5 DEF Start

LEMMA SetsOfKinds ==
  ASSUME NEW u, NEW s
  PROVE  /\ Kinds \in SUBSET Kinds /\ Of(u) \in SUBSET Kinds /\ In(u, s) \in SUBSET Kinds
         /\ Piloted(Of(u)) \in SUBSET Of(u) /\ Piloted(In(u, s)) \in SUBSET In(u, s)
         /\ Piloted(Of(u)) \in SUBSET Kinds /\ Piloted(In(u, s)) \in SUBSET Kinds
BY DEF Of, In, Piloted

LEMMA EvenSets ==
  ASSUME NEW u, NEW s
  PROVE  /\ Even(SeenOf, Kinds) /\ Even(SeenOf, Of(u)) /\ Even(SeenOf, In(u, s)) /\ Even(One, Of(u))
         /\ Even(One, Piloted(Of(u))) /\ Even(One, Piloted(In(u, s)))
<1>1. \A k, l \in Kinds : l.seen = k.seen /\ l.size = l.seen => SeenOf[k] <= SeenOf[l]
  <2>1. \A a, b \in Nat : Lesser(a, b) <= b /\ Lesser(b, b) = b
    BY DEF Lesser
  <2> QED
    BY <2>1, WorthNat DEF SeenOf
<1>2. \A k, l \in Kinds : One[k] <= One[l]
  BY DEF One
<1> HIDE DEF SeenOf, One
<1>3. ASSUME NEW k \in Kinds
      PROVE  /\ k \in Of(u) <=> k.user = u
             /\ k \in In(u, s) <=> k.user = u /\ k.sym = s
             /\ k \in Piloted(Of(u)) <=> k.user = u /\ k.pilot
             /\ k \in Piloted(In(u, s)) <=> k.user = u /\ k.sym = s /\ k.pilot
  BY <1>3 DEF Of, In, Piloted
<1>4. ASSUME NEW k \in Kinds, NEW l \in Kinds, l.user = k.user, l.sym = k.sym, l.pilot = k.pilot,
             l.seen = k.seen, l.size = l.seen
      PROVE  /\ k \in Of(u) <=> l \in Of(u)
             /\ k \in In(u, s) <=> l \in In(u, s)
             /\ k \in Piloted(Of(u)) <=> l \in Piloted(Of(u))
             /\ k \in Piloted(In(u, s)) <=> l \in Piloted(In(u, s))
             /\ SeenOf[k] <= SeenOf[l] /\ One[k] <= One[l]
  <2>1. SeenOf[k] <= SeenOf[l] /\ One[k] <= One[l]
    BY <1>1, <1>2, <1>4
  <2> QED
    BY <1>3, <1>4, <2>1
<1> QED
  BY <1>4 DEF Even

LEMMA SeenAsked ==
  ASSUME NEW r \in Req, Kind(r)' = Kind(r), Kind(r) \in Kinds
  PROVE  /\ SeenOf[Kind(r)'] = req[r].seen /\ One[Kind(r)'] = 1
         /\ req[r].seen \in Nat
         /\ Kind(r) \in Of(req[r].user)
         /\ \A u : Kind(r) \in Of(u) => u = req[r].user
         /\ \A u, s : Kind(r) \in In(u, s) => u = req[r].user /\ s = req[r].sym
<1>1. Kind(r).seen = req[r].seen /\ Kind(r).size = req[r].seen
  BY DEF Kind, Row
<1> QED
  BY <1>1, WorthNat DEF SeenOf, One, Lesser, Kind, Row, Of, In

LEMMA BetaStep ==
  ASSUME TypeOK, TypeOK', [Next]_vars, FullBeta
  PROVE  FullBeta'
<1> SUFFICES ASSUME "beta" \in deploy'.on PROVE FullBeta'
  BY DEF FullBeta
<1>1. deploy' = deploy /\ "beta" \in deploy.on
  BY DEF Next, Switches, Demo, Live, Tick, SetGlobalKill, SetUserKill, ResumeUser,
     UpdateConfig, PutAuto, OpenPaper, ClosePaper, MaybeOpen, OnNewSignal, CommitSignal, FailSignal,
     RequestAccess, Start, CommitAccess, SafetyGate, Enter, CommitOpen, FailRequest, SetStatus,
     CloseLive, vars
<1>2. "sent" \in Sent /\ Sent \subseteq Asked
  BY DEF Sent, Asked
\* What the gate compared.
<1>3. ASSUME NEW r \in Req, NEW K \in SUBSET Kinds, Passes(r, K, Sent)
      PROVE  /\ Kind(r)' = Kind(r) /\ Kind(r) \in K /\ Kind(r) \in Kinds
             /\ BetaGate(req[r].user, req[r].sym, req[r].seen)
  BY <1>1, <1>3, SentPassed DEF Passes, At
<1>4. Load(SeenOf, Kinds, Sent)' <= Caps.global + Others * Most
  <2>1. ASSUME NEW r \in Req, Passes(r, Kinds, Sent)
        PROVE  Booked(SeenOf, Kinds) + SeenOf[Kind(r)'] <= Caps.global
    BY <1>3, <2>1, SeenAsked, GateCounts, MeasuresTyped, SetsOfKinds DEF BetaGate
  <2> QED
    BY <1>1, <1>2, <2>1, LoadKept, EvenSets, MeasuresTyped, SetsOfKinds DEF FullBeta
<1>5. ASSUME NEW u \in Users
      PROVE  /\ Load(SeenOf, Of(u), Sent)' <= Caps.user + Others * Most
             /\ Load(One, Of(u), Sent)' <= Caps.rows + Others * 1
             /\ \A s \in Symbols : Load(SeenOf, In(u, s), Sent)' <= Caps.symbol + Others * Most
  <2>1. ASSUME NEW r \in Req, Passes(r, Of(u), Sent)
        PROVE  /\ Booked(SeenOf, Of(u)) + SeenOf[Kind(r)'] <= Caps.user
               /\ Booked(One, Of(u)) + One[Kind(r)'] <= Caps.rows
    <3>1. /\ u = req[r].user /\ SeenOf[Kind(r)'] = req[r].seen /\ One[Kind(r)'] = 1
          /\ req[r].seen \in Nat
          /\ BetaGate(u, req[r].sym, req[r].seen)
      <4>1. /\ Kind(r)' = Kind(r) /\ Kind(r) \in Of(u) /\ Kind(r) \in Kinds
            /\ BetaGate(req[r].user, req[r].sym, req[r].seen)
        BY <1>3, <2>1, SetsOfKinds
      <4> QED
        BY <4>1, SeenAsked
    <3>2. Booked(SeenOf, Of(u)) + req[r].seen <= Caps.user
      BY <3>1, GateCounts, MeasuresTyped, SetsOfKinds DEF BetaGate
    <3>3. Booked(One, Of(u)) < Caps.rows /\ Booked(One, Of(u)) \in Nat
      BY <3>1, BookedIs, SetsOfKinds, LoadTyped, MeasuresTyped DEF BetaGate
    <3> QED
      BY <3>1, <3>2, <3>3, MeasuresTyped
  <2>2. Load(SeenOf, Of(u), Sent)' <= Caps.user + Others * Most
    BY <1>1, <1>2, <2>1, LoadKept, EvenSets, MeasuresTyped, SetsOfKinds DEF FullBeta
  <2>3. Load(One, Of(u), Sent)' <= Caps.rows + Others * 1
    BY <1>1, <1>2, <2>1, LoadKept, EvenSets, MeasuresTyped, SetsOfKinds DEF FullBeta
  <2>4. ASSUME NEW s \in Symbols PROVE Load(SeenOf, In(u, s), Sent)' <= Caps.symbol + Others * Most
    <3>1. ASSUME NEW r \in Req, Passes(r, In(u, s), Sent)
          PROVE  Booked(SeenOf, In(u, s)) + SeenOf[Kind(r)'] <= Caps.symbol
      <4>1. /\ u = req[r].user /\ s = req[r].sym /\ SeenOf[Kind(r)'] = req[r].seen
            /\ req[r].seen \in Nat
            /\ BetaGate(u, s, req[r].seen)
        <5>1. /\ Kind(r)' = Kind(r) /\ Kind(r) \in In(u, s) /\ Kind(r) \in Kinds
              /\ BetaGate(req[r].user, req[r].sym, req[r].seen)
          BY <1>3, <3>1, SetsOfKinds
        <5> QED
          BY <5>1, SeenAsked
      <4> QED
        BY <4>1, GateCounts, MeasuresTyped, SetsOfKinds DEF BetaGate
    <3> QED
      BY <1>1, <1>2, <3>1, LoadKept, EvenSets, MeasuresTyped, SetsOfKinds DEF FullBeta
  <2> QED
    BY <2>2, <2>3, <2>4
<1>6. \A u \in Users, s \in Symbols : /\ Of(u)' = Of(u) /\ In(u, s)' = In(u, s)
  BY DEF Of, In
<1> QED
  BY <1>4, <1>5, <1>6 DEF FullBeta, Of, In

LEMMA PilotStep ==
  ASSUME TypeOK, TypeOK', [Next]_vars, FullPilot
  PROVE  FullPilot'
<1>1. "sent" \in Asked /\ Asked \subseteq Asked
  BY DEF Asked
<1>2. ASSUME NEW u, NEW r \in Req, Passes(r, Piloted(Of(u)), Asked)
      PROVE  u = req'[r].user /\ One[Kind(r)'] = 1 /\ PilotPreflight(u, req'[r].sym)
  <2>1. Kind(r)' \in Kinds /\ u = req'[r].user /\ req'[r].pilot
    BY <1>2 DEF Passes, At, Piloted, Of, Kind, Row
  <2>2. PilotPreflight(req'[r].user, req'[r].sym)
    BY <1>2, <2>1, AskedPassed, SetsOfKinds
  <2> QED
    BY <2>1, <2>2 DEF One
<1>3. ASSUME NEW u \in Users
      PROVE  /\ Load(One, Piloted(Of(u)), Asked)' <= Caps.pilot + Others * 1
             /\ \A s \in Symbols : Load(One, Piloted(In(u, s)), Asked)' <= 1 + Others * 1
  <2>1. ASSUME NEW r \in Req, Passes(r, Piloted(Of(u)), Asked)
        PROVE  Booked(One, Piloted(Of(u))) + One[Kind(r)'] <= Caps.pilot
    <3>1. Booked(One, Piloted(Of(u))) <= Booked(One, Of(u))
      BY BookedWithin, SetsOfKinds, MeasuresTyped
    <3>2. Booked(One, Of(u)) < Caps.pilot /\ One[Kind(r)'] = 1
      BY <1>2, <2>1, BookedIs, SetsOfKinds DEF PilotPreflight
    <3>3. Booked(One, Of(u)) \in Nat /\ Booked(One, Piloted(Of(u))) \in Nat
      BY LoadTyped, SetsOfKinds, MeasuresTyped
    <3> QED
      BY <3>1, <3>2, <3>3, MeasuresTyped
  <2>2. Load(One, Piloted(Of(u)), Asked)' <= Caps.pilot + Others * 1
    BY <1>1, <2>1, LoadKept, EvenSets, MeasuresTyped, SetsOfKinds DEF FullPilot
  <2>3. ASSUME NEW s \in Symbols PROVE Load(One, Piloted(In(u, s)), Asked)' <= 1 + Others * 1
    <3>1. ASSUME NEW r \in Req, Passes(r, Piloted(In(u, s)), Asked)
          PROVE  Booked(One, Piloted(In(u, s))) + One[Kind(r)'] <= 1
      <4>1. Passes(r, Piloted(Of(u)), Asked) /\ s = req'[r].sym
        BY <3>1 DEF Passes, At, Piloted, In, Of, Kind, Row
      <4>2. Booked(One, In(u, s)) = 0 /\ One[Kind(r)'] = 1
        BY <1>2, <4>1, BookedIs, SetsOfKinds DEF PilotPreflight
      <4>3. Booked(One, Piloted(In(u, s))) <= Booked(One, In(u, s))
        BY BookedWithin, SetsOfKinds, MeasuresTyped
      <4>4. Booked(One, Piloted(In(u, s))) \in Nat
        BY LoadTyped, SetsOfKinds, MeasuresTyped
      <4> QED
        BY <4>2, <4>3, <4>4
    <3> QED
      BY <1>1, <3>1, LoadKept, EvenSets, MeasuresTyped, SetsOfKinds DEF FullPilot
  <2> QED
    BY <2>2, <2>3
<1> QED
  BY <1>3 DEF FullPilot, Piloted, Of, In

LEMMA SeatsStep ==
  ASSUME TypeOK, TypeOK', [Next]_vars, FullSeats
  PROVE  FullSeats'
<1>1. /\ IsFiniteSet(Members) /\ Cardinality(Members) \in Nat
      /\ IsFiniteSet(Joining) /\ Cardinality(Joining) \in Nat
      /\ IsFiniteSet(Joining') /\ Cardinality(Joining') \in Nat /\ Cardinality(Joining') <= Others + 1
  <2>1. Members \in SUBSET Users /\ Joining \in SUBSET Req /\ Joining' \in SUBSET Req
    BY DEF Members, Joining
  <2> QED
    BY <2>1, UsersAssumption, OthersNat, FS_Subset, FS_CardinalityType DEF Others
<1>2. Caps.seats \in Nat /\ Others \in Nat
  BY MeasuresTyped, OthersNat
<1>3. req \in [Req -> Requests] /\ member \in [Users -> {"none", "PENDING", "APPROVED", "SUSPENDED"}]
  BY DEF TypeOK
<1>4. ASSUME Members' = Members, Joining' \subseteq Joining PROVE FullSeats'
  <2>1. Cardinality(Joining') <= Cardinality(Joining)
    BY <1>1, <1>4, FS_Subset
  <2> QED
    BY <1>1, <1>2, <1>4, <2>1 DEF FullSeats
<1>5. CASE UNCHANGED vars \/ Switches \/ Demo
  <2>1. UNCHANGED <<member, req>>
    BY <1>5 DEF vars, livevars, Switches, Demo, Tick, SetGlobalKill, SetUserKill, ResumeUser,
         UpdateConfig, PutAuto, OpenPaper, ClosePaper, MaybeOpen, OnNewSignal, CommitSignal, FailSignal
  <2> QED
    BY <1>4, <2>1 DEF Members, Joining
<1>6. ASSUME NEW r \in Req, NEW u \in Users, RequestAccess(r, u) PROVE FullSeats'
  <2>1. Members' = Members /\ Cardinality(Members) < Caps.seats
    BY <1>6 DEF RequestAccess, Members
  <2> QED
    BY <1>1, <1>2, <2>1 DEF FullSeats
<1>7. ASSUME NEW r \in Req, CommitAccess(r) PROVE FullSeats'
  <2>1. r \in Joining /\ Joining' = Joining \ {r}
    BY <1>3, <1>7 DEF CommitAccess, Joining, Idle
  <2>2. Cardinality(Joining') = Cardinality(Joining) - 1
    BY <1>1, <2>1, FS_RemoveElement
  <2>3. CASE UNCHANGED member
    BY <1>4, <2>1, <2>3 DEF Members
  <2>4. CASE ~UNCHANGED member
    <3> DEFINE u == req[r].user
    <3>1. PICK t \in {"PENDING", "APPROVED"} : member' = [member EXCEPT ![u] = t]
      BY <1>7, <2>4 DEF CommitAccess
    <3> HIDE DEF u
    <3>2. Members' \subseteq Members \cup {u}
      BY <1>3, <3>1 DEF Members
    <3>3. IsFiniteSet(Members \cup {u}) /\ Cardinality(Members \cup {u}) <= Cardinality(Members) + 1
      <4>1. /\ IsFiniteSet(Members \cup {u})
            /\ Cardinality(Members \cup {u})
                 = IF u \in Members THEN Cardinality(Members) ELSE Cardinality(Members) + 1
        BY <1>1, FS_AddElement
      <4> QED
        BY <1>1, <4>1
    <3>4. Cardinality(Members') <= Cardinality(Members \cup {u}) /\ Cardinality(Members') \in Nat
      BY <3>2, <3>3, FS_Subset, FS_CardinalityType
    <3>5. Cardinality(Members \cup {u}) \in Nat
      BY <3>3, FS_CardinalityType
    <3> QED
      BY <1>1, <1>2, <2>2, <3>3, <3>4, <3>5 DEF FullSeats
  <2> QED
    BY <2>3, <2>4
<1>8. ASSUME NEW r \in Req, NEW u \in Users, NEW s \in Symbols, NEW n \in Sizes, Start(r, u, s, n)
      PROVE  FullSeats'
  BY <1>3, <1>4, <1>8 DEF Start, Members, Joining
<1>9. ASSUME NEW r \in Req, CommitOpen(r) \/ FailRequest(r) PROVE FullSeats'
  BY <1>3, <1>4, <1>9 DEF CommitOpen, FailRequest, Members, Joining, Idle
<1>10. ASSUME NEW r \in Req, SafetyGate(r) \/ Enter(r) PROVE FullSeats'
  <2>1. req[r] \in Requests /\ req[r].at \in {"asked", "clear"}
    BY <1>3, <1>10 DEF SafetyGate, Enter
  <2>2. req'[r].at # "joining"
    <3>1. req[r] \in [at : {"asked", "clear", "sent"}, user : Users, sym : Symbols, seen : Sizes,
                      pilot : BOOLEAN]
      BY <2>1 DEF Requests, Idle
    <3>2. req'[r] = Idle \/ \E at \in {"clear", "sent"} : req'[r] = [req[r] EXCEPT !.at = at]
      BY <1>3, <1>10 DEF SafetyGate, Enter
    <3> QED
      BY <3>1, <3>2 DEF Idle
  <2>3. member' = member /\ \A q \in Req \ {r} : req'[q] = req[q]
    BY <1>3, <1>10 DEF SafetyGate, Enter
  <2> QED
    BY <1>4, <2>2, <2>3 DEF Members, Joining
<1>11. ASSUME NEW u \in Users, NEW s \in {"APPROVED", "SUSPENDED"}, SetStatus(u, s) PROVE FullSeats'
  BY <1>3, <1>4, <1>11 DEF SetStatus, Members, Joining
<1>12. ASSUME NEW k \in Kinds, CloseLive(k) PROVE FullSeats'
  BY <1>4, <1>12 DEF CloseLive, Members, Joining
<1>13. deploy.users \subseteq Users
  BY UsersAssumption DEF TypeOK
<1> QED
  BY <1>5, <1>6, <1>7, <1>8, <1>9, <1>10, <1>11, <1>12, <1>13 DEF Next, Live

LEMMA CapsInit ==
  ASSUME Init
  PROVE  FullBeta /\ FullPilot /\ FullSeats
<1>1. ASSUME NEW K \in SUBSET Kinds, NEW z \in [Kinds -> Nat], NEW A \in {Sent, Asked}
      PROVE  Load(z, K, A) = 0
  <2> DEFINE f == [r \in Req |-> IF At(r, K, A) THEN z[Kind(r)] ELSE 0]
             b == [k \in Kinds |-> z[k] * rows[k]]
  <2>1. \A r \in Req : f[r] = 0
    BY DEF Init, At, Idle, Sent, Asked
  <2>2. \A k \in K : b[k] = 0
    <3>1. \A k \in K : rows[k] = 0 /\ z[k] \in Nat
      BY DEF Init
    <3> QED
      BY <3>1
  <2> HIDE DEF f, b
  <2>3. 1..0 = {}
    OBVIOUS
  <2>4. Units(f, Req) = {} /\ Units(b, K) = {}
    BY <2>1, <2>2, <2>3 DEF Units
  <2>5. Cardinality({}) = 0
    BY FS_EmptySet
  <2>6. Cardinality(Units(b, K)) + Cardinality(Units(f, Req)) = 0
    BY <2>4, <2>5
  <2> QED
    BY <2>6 DEF Load, Booked, Ahead, f, b
<1>2. Others * Most \in Nat /\ Others * 1 \in Nat
  <2>1. \A x, y \in Nat : x * y \in Nat
    OBVIOUS
  <2> QED
    BY <2>1, OthersNat, MeasuresTyped
<1>3. FullBeta
  BY <1>1, <1>2, MeasuresTyped, SetsOfKinds DEF FullBeta
<1>4. FullPilot
  BY <1>1, <1>2, MeasuresTyped, SetsOfKinds DEF FullPilot
<1>5. FullSeats
  <2>1. Members = {} /\ Joining = {}
    BY DEF Init, Members, Joining, Idle
  <2> QED
    BY <2>1, FS_EmptySet, OthersNat, MeasuresTyped DEF FullSeats
<1> QED
  BY <1>3, <1>4, <1>5

\* What is booked alone is less still.
LEMMA CapsHold ==
  ASSUME TypeOK, FullBeta, FullPilot, FullSeats
  PROVE  CapsOvershoot
<1>1. ASSUME NEW K \in SUBSET Kinds, NEW z \in [Kinds -> Nat], NEW A, NEW c \in Int, Load(z, K, A) <= c
      PROVE  Booked(z, K) <= c
  BY <1>1, LoadTyped DEF Load
<1>2. Others * Most \in Int /\ Others * 1 = Others /\ Others \in Int
  <2>1. \A x, y \in Nat : x * y \in Nat
    OBVIOUS
  <2> QED
    BY <2>1, OthersNat, MeasuresTyped
<1>3. /\ Caps.global + Others * Most \in Int /\ Caps.user + Others * Most \in Int
      /\ Caps.symbol + Others * Most \in Int /\ Caps.rows + Others * 1 \in Int
      /\ Caps.pilot + Others * 1 \in Int /\ 1 + Others * 1 \in Int
  BY <1>2, MeasuresTyped
<1>4. ASSUME "beta" \in deploy.on
      PROVE  /\ Seen(Kinds) <= Caps.global + Others * Most
             /\ \A u \in Users :
                  /\ Seen(Of(u)) <= Caps.user + Others * Most
                  /\ Count(Of(u)) <= Caps.rows + Others
                  /\ \A s \in Symbols : Seen(In(u, s)) <= Caps.symbol + Others * Most
  <2>1. Seen(Kinds) <= Caps.global + Others * Most
    <3>1. Load(SeenOf, Kinds, Sent) <= Caps.global + Others * Most
      BY <1>4 DEF FullBeta
    <3> QED
      BY <1>1, <1>3, <3>1, BookedIs, MeasuresTyped
  <2>2. ASSUME NEW u \in Users
        PROVE  /\ Seen(Of(u)) <= Caps.user + Others * Most
               /\ Count(Of(u)) <= Caps.rows + Others
    <3>1. /\ Load(SeenOf, Of(u), Sent) <= Caps.user + Others * Most
          /\ Load(One, Of(u), Sent) <= Caps.rows + Others * 1
      BY <1>4 DEF FullBeta
    <3>2. Of(u) \in SUBSET Kinds
      BY SetsOfKinds
    <3>3. Booked(SeenOf, Of(u)) <= Caps.user + Others * Most
      BY <1>1, <1>3, <3>1, <3>2, MeasuresTyped
    <3>4. Booked(One, Of(u)) <= Caps.rows + Others * 1
      BY <1>1, <1>3, <3>1, <3>2, MeasuresTyped
    <3> QED
      BY <1>2, <3>2, <3>3, <3>4, BookedIs
  <2>3. ASSUME NEW u \in Users, NEW s \in Symbols PROVE Seen(In(u, s)) <= Caps.symbol + Others * Most
    <3>1. Load(SeenOf, In(u, s), Sent) <= Caps.symbol + Others * Most
      BY <1>4 DEF FullBeta
    <3>2. In(u, s) \in SUBSET Kinds
      BY SetsOfKinds
    <3> QED
      BY <1>1, <1>3, <3>1, <3>2, BookedIs, MeasuresTyped
  <2> QED
    BY <2>1, <2>2, <2>3
<1>5. ASSUME NEW u \in Users
      PROVE  /\ Count(Piloted(Of(u))) <= Caps.pilot + Others
             /\ \A s \in Symbols : Count(Piloted(In(u, s))) <= 1 + Others
  <2>1. Load(One, Piloted(Of(u)), Asked) <= Caps.pilot + Others * 1
    BY DEF FullPilot
  <2>2. Piloted(Of(u)) \in SUBSET Kinds
    BY SetsOfKinds
  <2>3. ASSUME NEW s \in Symbols PROVE Count(Piloted(In(u, s))) <= 1 + Others
    <3>1. Load(One, Piloted(In(u, s)), Asked) <= 1 + Others * 1
      BY DEF FullPilot
    <3>2. Piloted(In(u, s)) \in SUBSET Kinds
      BY SetsOfKinds
    <3> QED
      BY <1>1, <1>2, <1>3, <3>1, <3>2, BookedIs, MeasuresTyped
  <2> QED
    BY <1>1, <1>2, <1>3, <2>1, <2>2, <2>3, BookedIs, MeasuresTyped
<1>6. Cardinality(Members) <= Caps.seats + Others
  <2>1. Members \in SUBSET Users /\ Joining \in SUBSET Req
    BY DEF Members, Joining
  <2>2. Cardinality(Members) \in Nat /\ Cardinality(Joining) \in Nat
    BY <2>1, UsersAssumption, FS_Subset, FS_CardinalityType
  <2> QED
    BY <2>2, OthersNat, MeasuresTyped DEF FullSeats
<1> QED
  BY <1>4, <1>5, <1>6 DEF CapsOvershoot, Others, Most, Piloted

\* The caps of the beta, of its seats and of the pilot sum committed rows.  As far as the rows
\* are worth no more than the gate has seen of them, the caps are exceeded at most by what the
\* other requests under way can add: for any caps, sizes, users and requests (CapsOvershoot).
THEOREM CapsBounded == Spec => []CapsOvershoot
<1> DEFINE Full == FullBeta /\ FullPilot /\ FullSeats
<1>1. Init => Full
  BY CapsInit
<1>2. TypeOK /\ TypeOK' /\ Full /\ [Next]_vars => Full'
  BY BetaStep, PilotStep, SeatsStep
<1>3. TypeOK /\ Full => CapsOvershoot
  BY CapsHold
<1> QED
  BY <1>1, <1>2, <1>3, GatesTypeCorrect, PTL DEF Spec

-----------------------------------------------------------------------------
(* A shut gate.                                                             *)

\* How a request moves: one at a time, and past a gate only when the gate lets it.
LEMMA RequestStep ==
  ASSUME TypeOK, [Next]_vars
  PROVE  \/ req' = req
         \/ \E r \in Req :
              /\ \A q \in Req \ {r} : req'[q] = req[q]
              /\ \/ req'[r].at \in {"idle", "joining", "asked"}
                 \/ /\ req'[r].at = "clear" /\ req[r].at = "asked"
                    /\ req'[r].user = req[r].user /\ ~Blocked(req[r].user)
                 \/ /\ req'[r].at = "sent" /\ req[r].at = "clear" /\ req'[r].user = req[r].user
                    /\ "beta" \in deploy.on => member[req[r].user] = "APPROVED"
<1> DEFINE Moves(r) ==
             /\ \A q \in Req \ {r} : req'[q] = req[q]
             /\ \/ req'[r].at \in {"idle", "joining", "asked"}
                \/ /\ req'[r].at = "clear" /\ req[r].at = "asked"
                   /\ req'[r].user = req[r].user /\ ~Blocked(req[r].user)
                \/ /\ req'[r].at = "sent" /\ req[r].at = "clear" /\ req'[r].user = req[r].user
                   /\ "beta" \in deploy.on => member[req[r].user] = "APPROVED"
<1>1. req \in [Req -> Requests]
  BY DEF TypeOK
<1>2. ASSUME UNCHANGED vars \/ Switches \/ Demo PROVE req' = req
  BY <1>2 DEF vars, livevars, Switches, Demo, Tick, SetGlobalKill, SetUserKill, ResumeUser,
     UpdateConfig, PutAuto, OpenPaper, ClosePaper, MaybeOpen, OnNewSignal, CommitSignal, FailSignal
<1>3. ASSUME NEW r \in Req, NEW u \in deploy.users, RequestAccess(r, u) PROVE Moves(r)
  BY <1>1, <1>3 DEF RequestAccess
<1>4. ASSUME NEW r \in Req, NEW u \in deploy.users, NEW s \in Symbols, NEW n \in Sizes, Start(r, u, s, n)
      PROVE  Moves(r)
  BY <1>1, <1>4 DEF Start
<1>5. ASSUME NEW r \in Req, CommitAccess(r) \/ CommitOpen(r) \/ FailRequest(r) PROVE Moves(r)
  <2>1. req' = [req EXCEPT ![r] = Idle]
    BY <1>5 DEF CommitAccess, CommitOpen, FailRequest
  <2> QED
    BY <1>1, <2>1 DEF Idle
<1>6. ASSUME NEW r \in Req, SafetyGate(r) \/ Enter(r) PROVE Moves(r)
  <2>1. req[r] \in [at : {"asked", "clear", "sent"}, user : Users, sym : Symbols, seen : Sizes,
                    pilot : BOOLEAN]
    BY <1>1, <1>6 DEF SafetyGate, Enter, Requests, Idle
  <2>2. \A q \in Req \ {r} : req'[q] = req[q]
    BY <1>1, <1>6 DEF SafetyGate, Enter
  <2>3. CASE req'[r] = Idle
    BY <2>2, <2>3 DEF Idle
  <2>4. CASE req'[r] # Idle
    <3>1. \/ /\ req[r].at = "asked" /\ ~Blocked(req[r].user)
             /\ req'[r] = [req[r] EXCEPT !.at = "clear"]
          \/ /\ req[r].at = "clear" /\ req'[r] = [req[r] EXCEPT !.at = "sent"]
             /\ "beta" \in deploy.on => BetaGate(req[r].user, req[r].sym, req[r].seen)
      BY <1>1, <1>6, <2>4 DEF SafetyGate, Enter
    <3> QED
      BY <2>1, <2>2, <3>1 DEF BetaGate
  <2> QED
    BY <2>3, <2>4
<1>7. ASSUME NEW u \in deploy.users, NEW s \in {"APPROVED", "SUSPENDED"}, SetStatus(u, s) PROVE req' = req
  BY <1>7 DEF SetStatus
<1>8. ASSUME NEW k \in Kinds, CloseLive(k) PROVE req' = req
  BY <1>8 DEF CloseLive
<1> HIDE DEF Moves
<1>9. req' = req \/ \E r \in Req : Moves(r)
  BY <1>2, <1>3, <1>4, <1>5, <1>6, <1>7, <1>8 DEF Next, Live
<1> QED
  BY <1>9 DEF Moves

LEMMA RowsOfUser ==
  ASSUME TypeOK, TypeOK', [Next]_vars, NEW u \in Users, PastAll(u) = {}
  PROVE  Count(Of(u))' <= Count(Of(u))
<1>1. \A k \in Of(u) : rows'[k] <= rows[k]
  <2>1. CASE UNCHANGED rows
    BY <2>1 DEF Of, TypeOK
  <2>2. ASSUME NEW k \in Kinds, CloseLive(k) PROVE \A q \in Of(u) : rows'[q] <= rows[q]
    BY <2>2 DEF CloseLive, TypeOK, Of
  <2>3. ASSUME NEW r \in Req, CommitOpen(r) PROVE \A q \in Of(u) : rows'[q] <= rows[q]
    <3>1. PICK n \in Sizes : rows' = [rows EXCEPT ![Row(r, n)] = @ + 1]
      BY <2>3 DEF CommitOpen
    <3>2. PICK k : k = Row(r, n)
      OBVIOUS
    <3>3. k.user # u
      BY <2>3, <3>2 DEF PastAll, CommitOpen, Row
    <3> QED
      BY <3>1, <3>2, <3>3 DEF Of, TypeOK
  <2>4. UNCHANGED rows \/ (\E k \in Kinds : CloseLive(k)) \/ (\E r \in Req : CommitOpen(r))
    BY DEF Next, Switches, Demo, Live, Tick, SetGlobalKill, SetUserKill, ResumeUser,
       UpdateConfig, PutAuto, OpenPaper, ClosePaper, MaybeOpen, OnNewSignal, CommitSignal, FailSignal,
       RequestAccess, Start, CommitAccess, SafetyGate, Enter, FailRequest, SetStatus, vars, livevars
  <2> QED
    BY <2>1, <2>2, <2>3, <2>4
<1>2. \A k \in Of(u) : rows[k] \in Nat /\ rows'[k] \in Nat
  BY DEF Of, TypeOK
<1>3. IsFiniteSet(Of(u))
  BY KindsFinite, FS_Subset DEF Of
<1>4. Cardinality(Units(rows', Of(u))) <= Cardinality(Units(rows, Of(u)))
  BY <1>1, <1>2, <1>3, UnitsLess
<1> QED
  BY <1>4 DEF Count, Of

\* While a kill switch or a lock stands, or a membership is not approved, nothing new gets past
\* the gate, and no row appears that was not past it before: for any interleaving.
THEOREM GatesStayShut == Spec => ShutMeansShut
<1>1. ASSUME TypeOK, TypeOK', [Next]_vars, NEW u \in Users
      PROVE  /\ Stopped(u) =>
                  /\ PastSafety(u)' \subseteq PastSafety(u)
                  /\ fan.on /\ fan'.on /\ u \in fan'.opens => u \in fan.opens
             /\ "beta" \in deploy.on /\ member[u] # "APPROVED" =>
                  /\ PastAll(u)' \subseteq PastAll(u)
                  /\ PastAll(u) = {} => Count(Of(u))' <= Count(Of(u))
  <2>1. ASSUME Stopped(u) PROVE PastSafety(u)' \subseteq PastSafety(u)
    <3>1. Blocked(u)
      BY <2>1 DEF Stopped, Blocked, Locked
    <3> QED
      BY <1>1, <3>1, RequestStep DEF PastSafety
  <2>2. ASSUME Stopped(u), fan.on, fan'.on, u \in fan'.opens PROVE u \in fan.opens
    <3>1. Blocked(u)
      BY <2>2 DEF Stopped, Blocked, Locked
    <3>2. CASE UNCHANGED fan
      BY <2>2, <3>2
    <3>3. ASSUME NEW v \in Users, MaybeOpen(v) PROVE u \in fan.opens
      <4>1. fan \in [on : {TRUE}, todo : SUBSET Users, opens : SUBSET Users,
                     switched : SUBSET Users, locks : [Users -> Lockouts]]
        <5>1. NoFan.on = FALSE
          BY DEF NoFan
        <5> QED
          BY <1>1, <2>2, <5>1 DEF TypeOK, FanOuts
      <4>2. fan'.opens = fan.opens \/ (~Blocked(v) /\ fan'.opens = fan.opens \cup {v})
        BY <3>3, <4>1 DEF MaybeOpen
      <4> QED
        BY <2>2, <3>1, <4>2
    <3>4. CASE fan' = NoFan
      BY <2>2, <3>4 DEF NoFan
    <3>5. UNCHANGED fan \/ fan' = NoFan \/ \E v \in Users : MaybeOpen(v)
      <4>1. deploy.users \subseteq Users
        BY <1>1, UsersAssumption DEF TypeOK
      <4> QED
        BY <1>1, <2>2, <4>1 DEF Next, Switches, Demo, Live, Tick, SetGlobalKill, SetUserKill, ResumeUser,
           UpdateConfig, PutAuto, OpenPaper, ClosePaper, OnNewSignal, CommitSignal, FailSignal,
           RequestAccess, Start, CommitAccess, SafetyGate, Enter, CommitOpen, FailRequest, SetStatus,
           CloseLive, vars, autovars
    <3> QED
      BY <3>2, <3>3, <3>4, <3>5
  <2>3. ASSUME "beta" \in deploy.on, member[u] # "APPROVED" PROVE PastAll(u)' \subseteq PastAll(u)
    BY <1>1, <2>3, RequestStep DEF PastAll
  <2> QED
    BY <1>1, <2>1, <2>2, <2>3, RowsOfUser
<1>2. TypeOK /\ TypeOK' /\ [Next]_vars =>
        [\A u \in Users :
           /\ Stopped(u) =>
                /\ PastSafety(u)' \subseteq PastSafety(u)
                /\ fan.on /\ fan'.on /\ u \in fan'.opens => u \in fan.opens
           /\ "beta" \in deploy.on /\ member[u] # "APPROVED" =>
                /\ PastAll(u)' \subseteq PastAll(u)
                /\ PastAll(u) = {} => Count(Of(u))' <= Count(Of(u))]_vars
  BY <1>1
<1> QED
  BY <1>2, GatesTypeCorrect, PTL DEF Spec, ShutMeansShut
=============================================================================
