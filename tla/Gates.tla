--------------------------------- MODULE Gates ---------------------------------
(***************************************************************************)
(* What stands between a user and a position: the safety layer             *)
(* (app/safety/), the live beta (app/execution/live_beta/), the pilot      *)
(* (app/execution/live_trading/pilot.py) and the opt-in of the auto engine.*)
(*                                                                         *)
(* A gate reads committed rows; what it lets pass is committed later, so   *)
(* several requests can be past a gate together.  Times are ticks from 1;  *)
(* the time 0 stands for NULL.                                             *)
(***************************************************************************)
EXTENDS Integers, FiniteSets, FiniteSetsExt, Sequences, SequencesExt, TLC

CONSTANTS
    Users, Req, Symbols,
    Deploy,     \* deployments: which of "live", "beta", "pilot" and "auto" are on, and
                \* which users are registered
    Pilot,      \* settings.live_pilot_user_id
    Sizes,      \* notionals a request may name, and that a row may be worth
    Caps,       \* [user, symbol, global |-> notional, rows, pilot, seats |-> count]
    Limits,     \* safety configurations: [daily, weekly |-> loss, streak, open |-> count]
    Default,    \* the one a new user has
    Day, Week, Cooldown, Spacing,   \* in ticks
    Results,    \* results of paper trades
    MaxNow, MaxTrades, MaxRows   \* bounds on the clock, the paper trades, the live rows

ASSUME UsersAssumption ==
    /\ IsFiniteSet(Users) /\ IsFiniteSet(Symbols) /\ IsFiniteSet(Req) /\ Req # {}
    /\ \A d \in Deploy : d.users \subseteq Users
ASSUME CapsAssumption ==
    /\ Sizes \subseteq Nat \ {0} /\ IsFiniteSet(Sizes) /\ Sizes # {}
    /\ Caps \in [user : Nat, symbol : Nat, global : Nat, rows : Nat, pilot : Nat, seats : Nat]
ASSUME LimitsAssumption == Default \in Limits
ASSUME TimeAssumption ==
    /\ Day \in Nat \ {0} /\ Week \in Nat \ {0}
    /\ Cooldown \in Nat /\ Spacing \in Nat /\ Results \subseteq Int

VARIABLES
    deploy,   \* the settings, read when the program starts
    now,
    kill,     \* the system setting trading_global_kill
    safe,     \* safety_states, with a ghost: how many trades the last lock had seen
    limits,   \* safety_configs
    auto,     \* auto_trade_configs.enabled and paper_accounts.auto_follow
    paper,    \* a paper account: its open positions, the last opening, its trades
    member,   \* live_beta_members.status
    rows,     \* live_positions: how many are OPEN of each kind
    req,      \* live open requests
    fan       \* on_new_signal

vars == <<deploy, now, kill, safe, limits, auto, paper, member, rows, req, fan>>
autovars == <<limits, auto, paper, fan>>
livevars == <<member, rows, req>>

-----------------------------------------------------------------------------
\* A live row: what it is worth, its quantity at the price of the fill; and, as a ghost,
\* what the beta gate has seen of it.
Kinds == {k \in [user : Users, sym : Symbols, size : Sizes, seen : Sizes, pilot : BOOLEAN] :
            k.pilot => k.user = Pilot}
Unlocked == [kill |-> FALSE, until |-> 0, why |-> "none", upto |-> 0]
Idle == [at |-> "idle"]
NoFan == [on |-> FALSE]

Init ==
    /\ deploy \in Deploy
    /\ now = 1 /\ kill = FALSE
    /\ safe = [u \in Users |-> Unlocked]
    /\ limits = [u \in Users |-> Default]
    /\ auto = [u \in Users |-> [enabled |-> FALSE, follow |-> FALSE]]
    /\ paper = [u \in Users |-> [open |-> 0, last |-> 0, trades |-> <<>>]]
    /\ member = [u \in Users |-> "none"]
    /\ rows = [k \in Kinds |-> 0]
    /\ req = [r \in Req |-> Idle] /\ fan = NoFan

Tick == now < MaxNow /\ now' = now + 1
        /\ UNCHANGED <<deploy, kill, safe>> /\ UNCHANGED autovars /\ UNCHANGED livevars

-----------------------------------------------------------------------------
(* The safety layer.                                                       *)

Locked(u) == safe[u].until > now
\* Mutation: the emergency stop of everyone is forgotten.
BlockedAlone(u) == safe[u].kill \/ Locked(u)
\* trading_blocked.
Blocked(u) == kill \/ safe[u].kill \/ Locked(u)

MidnightNext(t) == (t \div Day + 1) * Day

\* set_global_kill.
SetGlobalKill(on) ==
    /\ kill # on /\ kill' = on
    /\ UNCHANGED <<deploy, now, safe>> /\ UNCHANGED autovars /\ UNCHANGED livevars

SetUserKill(u) ==
    /\ ~safe[u].kill /\ safe' = [safe EXCEPT ![u].kill = TRUE]
    /\ UNCHANGED <<deploy, now, kill>> /\ UNCHANGED autovars /\ UNCHANGED livevars

ResumeUser(u) ==
    /\ Blocked(u)
    /\ safe' = [safe EXCEPT ![u] = Unlocked]
    /\ UNCHANGED <<deploy, now, kill>> /\ UNCHANGED autovars /\ UNCHANGED livevars

UpdateConfig(u, l) ==
    /\ "auto" \in deploy.on /\ l # limits[u] /\ limits' = [limits EXCEPT ![u] = l]
    /\ UNCHANGED <<deploy, now, kill, safe, auto, paper, fan>> /\ UNCHANGED livevars

\* A limit of 0 is off.
LossExceeds(loss, limit) == limit > 0 /\ loss <= -limit
RealizedSince(u, t) ==
    FoldSeq(LAMBDA x, sum : IF x.at >= t THEN sum + x.pnl ELSE sum, 0, paper[u].trades)
\* The trades are kept in the order they closed.
ConsecutiveLosses(u) ==
    LET n == Len(paper[u].trades)
        won == {k \in 1..n : paper[u].trades[k].pnl >= 0}
    IN n - Max(won \cup {0})

\* The lock that check asks for.  It is asked for only when none is in force, so extending
\* one and replacing one are the same.
LossLimitHit(u) ==
    \/ LossExceeds(RealizedSince(u, (now \div Day) * Day), limits[u].daily)
    \/ LossExceeds(RealizedSince(u, now - Week), limits[u].weekly)
StreakHit(u) == limits[u].streak > 0 /\ ConsecutiveLosses(u) >= limits[u].streak
Lock(u, until, why) ==
    [kill |-> safe[u].kill, until |-> until, why |-> why, upto |-> Len(paper[u].trades)]

\* The rules of check that refuse without a lock.
Crowded(u) ==
    \/ Spacing > 0 /\ paper[u].last > 0 /\ now - paper[u].last < Spacing
    \/ paper[u].open >= limits[u].open

-----------------------------------------------------------------------------
(* Paper accounts and the auto engine.                                     *)

\* The update of a row that a fan-out has written waits for its commit.
PutAuto(u, field, on) ==
    /\ "auto" \in deploy.on /\ (fan.on => u \notin fan.switched)
    /\ auto[u][field] # on /\ auto' = [auto EXCEPT ![u][field] = on]
    /\ UNCHANGED <<deploy, now, kill, safe, limits, paper, fan>> /\ UNCHANGED livevars

\* Positions opened by hand pass no gate.
OpenPaper(u) ==
    /\ "auto" \in deploy.on
    /\ Len(paper[u].trades) + paper[u].open < MaxTrades
    /\ paper' = [paper EXCEPT ![u].open = @ + 1, ![u].last = now]
    /\ UNCHANGED <<deploy, now, kill, safe, limits, auto, fan>> /\ UNCHANGED livevars

\* Mutation: a position that is closed already is closed again.
CloseTwice(u, pnl) ==
    /\ Len(paper[u].trades) < MaxTrades
    /\ paper' = [paper EXCEPT ![u].open = @ - 1,
                              ![u].trades = Append(@, [at |-> now, pnl |-> pnl])]
    /\ UNCHANGED <<deploy, now, kill, safe, limits, auto, fan>> /\ UNCHANGED livevars

ClosePaper(u, pnl) ==
    /\ paper[u].open > 0
    /\ paper' = [paper EXCEPT ![u].open = @ - 1,
                              ![u].trades = Append(@, [at |-> now, pnl |-> pnl])]
    /\ UNCHANGED <<deploy, now, kill, safe, limits, auto, fan>> /\ UNCHANGED livevars

\* _eligible_users: who follows is switched on, whatever its configuration says.
EligibleUsers == {u \in Users : auto[u].enabled \/ auto[u].follow}

OnNewSignal ==
    /\ "auto" \in deploy.on /\ ~fan.on /\ EligibleUsers # {}
    /\ fan' = [on |-> TRUE, todo |-> EligibleUsers, opens |-> {}, locks |-> [u \in Users |-> Unlocked],
               switched |-> {u \in EligibleUsers : ~auto[u].enabled}]
    /\ UNCHANGED <<deploy, now, kill, safe, limits, auto, paper>> /\ UNCHANGED livevars

\* _maybe_open of one user, with check before everything else.
MaybeOpen(u) ==
    /\ fan.on /\ u \in fan.todo
    /\ LET served == [fan EXCEPT !.todo = @ \ {u}]
           locked(until, why) == [served EXCEPT !.locks[u] = Lock(u, until, why)]
       IN \/ Blocked(u) /\ fan' = served
          \/ /\ ~Blocked(u) /\ LossLimitHit(u)
             /\ fan' = locked(MidnightNext(now), "loss")
          \/ /\ ~Blocked(u) /\ ~LossLimitHit(u) /\ StreakHit(u)
             /\ fan' = locked(now + Cooldown, "streak")
          \/ /\ ~Blocked(u) /\ ~LossLimitHit(u) /\ ~StreakHit(u)
             /\ \/ fan' = served   \* crowded, or evaluate or the margin refuses
                \/ /\ ~Crowded(u) /\ Len(paper[u].trades) + paper[u].open < MaxTrades
                   /\ fan' = [served EXCEPT !.opens = @ \cup {u}]
    /\ UNCHANGED <<deploy, now, kill, safe, limits, auto, paper>> /\ UNCHANGED livevars

\* The session commits: positions, locks and the switches of those who follow.
CommitSignal ==
    /\ fan.on /\ fan.todo = {} /\ fan' = NoFan
    /\ paper' = [u \in Users |-> IF u \in fan.opens
                   THEN [paper[u] EXCEPT !.open = @ + 1, !.last = now] ELSE paper[u]]
    /\ safe' = [u \in Users |-> IF fan.locks[u] # Unlocked
                  THEN [fan.locks[u] EXCEPT !.kill = safe[u].kill] ELSE safe[u]]
    /\ auto' = [u \in Users |-> [auto[u] EXCEPT !.enabled = @ \/ u \in fan.switched]]
    /\ UNCHANGED <<deploy, now, kill, limits>> /\ UNCHANGED livevars

\* An error for one user: positions, locks and switches of all are rolled back.
FailSignal ==
    /\ fan.on /\ fan' = NoFan
    /\ UNCHANGED <<deploy, now, kill, safe, limits, auto, paper>> /\ UNCHANGED livevars

-----------------------------------------------------------------------------
(* The live beta.                                                          *)

Members == {u \in Users : member[u] # "none"}

\* request_access: an enrolled user only renews the agreement.  The seats are counted
\* before the row is inserted.
RequestAccess(r, u) ==
    /\ "beta" \in deploy.on /\ req[r] = Idle /\ member[u] = "none"
    /\ Cardinality(Members) < Caps.seats
    /\ req' = [req EXCEPT ![r] = [at |-> "joining", user |-> u]]
    /\ UNCHANGED <<deploy, now, kill, safe, member, rows>> /\ UNCHANGED autovars

\* user_id is unique: the second of two inserts fails.
CommitAccess(r) ==
    /\ req[r].at = "joining" /\ req' = [req EXCEPT ![r] = Idle]
    /\ LET u == req[r].user IN
       \/ /\ member[u] = "none"
          /\ \E s \in {"PENDING", "APPROVED"} : member' = [member EXCEPT ![u] = s]
       \/ member[u] # "none" /\ UNCHANGED member
    /\ UNCHANGED <<deploy, now, kill, safe, rows>> /\ UNCHANGED autovars

\* approve, reject and suspend take a member from any status; who is rejected is barred
\* as who is suspended is.
SetStatus(u, s) ==
    /\ "beta" \in deploy.on /\ member[u] \notin {"none", s}
    /\ member' = [member EXCEPT ![u] = s]
    /\ UNCHANGED <<deploy, now, kill, safe, rows, req>> /\ UNCHANGED autovars

\* The OPEN rows of a user, and those in a symbol.
Of(u) == {k \in Kinds : k.user = u}
In(u, s) == {k \in Of(u) : k.sym = s}
\* A sum is the number of the units that its terms stand for.
Units(f, K) == UNION {{k} \X (1..f[k]) : k \in K}
Count(K) == Cardinality(Units(rows, K))
Notional(K) == Cardinality(Units([k \in Kinds |-> k.size * rows[k]], K))

\* Mutation: the notional asked for is not counted.
CapsBefore(u, s, n) ==
    /\ member[u] = "APPROVED"
    /\ Count(Of(u)) < Caps.rows
    /\ Notional(Of(u)) <= Caps.user
    /\ Notional(In(u, s)) <= Caps.symbol
    /\ Notional(Kinds) <= Caps.global
\* beta_gate.
BetaGate(u, s, n) ==
    /\ member[u] = "APPROVED"
    /\ Count(Of(u)) < Caps.rows
    /\ Notional(Of(u)) + n <= Caps.user
    /\ Notional(In(u, s)) + n <= Caps.symbol
    /\ Notional(Kinds) + n <= Caps.global

\* pilot_preflight.
PilotPreflight(u, s) ==
    /\ u = Pilot /\ ~Blocked(u)
    /\ Count(Of(u)) < Caps.pilot /\ Count(In(u, s)) = 0

-----------------------------------------------------------------------------
(* A live open request: the preflight of a pilot order, the safety gate,   *)
(* the beta gate, the order, the commit.                                   *)

Start(r, u, s, n) ==
    /\ req[r] = Idle /\ Count(Kinds) < MaxRows
    /\ \/ /\ "pilot" \in deploy.on /\ PilotPreflight(u, s)
          /\ req' = [req EXCEPT ![r] =
                       [at |-> "asked", user |-> u, sym |-> s, seen |-> n, pilot |-> TRUE]]
       \/ /\ "live" \in deploy.on
          /\ req' = [req EXCEPT ![r] =
                       [at |-> "asked", user |-> u, sym |-> s, seen |-> n, pilot |-> FALSE]]
    /\ UNCHANGED <<deploy, now, kill, safe, member, rows>> /\ UNCHANGED autovars

SafetyGate(r) ==
    /\ req[r].at = "asked"
    /\ req' = [req EXCEPT ![r] = IF Blocked(req[r].user) THEN Idle ELSE [@ EXCEPT !.at = "clear"]]
    /\ UNCHANGED <<deploy, now, kill, safe, member, rows>> /\ UNCHANGED autovars

\* The gate is asked about the notional that the request names, if it names one, or about
\* its quantity at the price it names or at the mark.  The order, which is sent next, is for
\* the quantity, if there is one.
Enter(r) ==
    /\ req[r].at = "clear"
    /\ req' = [req EXCEPT ![r] =
         IF "beta" \in deploy.on /\ ~BetaGate(@.user, @.sym, @.seen) THEN Idle
         ELSE [@ EXCEPT !.at = "sent"]]
    /\ UNCHANGED <<deploy, now, kill, safe, member, rows>> /\ UNCHANGED autovars

Row(r, n) == [user |-> req[r].user, sym |-> req[r].sym, size |-> n, seen |-> req[r].seen,
              pilot |-> req[r].pilot]

\* The row has the quantity of the order and the price of the fill, so that it may be worth
\* anything, whatever the gate has seen.
CommitOpen(r) ==
    /\ req[r].at = "sent" /\ req' = [req EXCEPT ![r] = Idle]
    /\ \E n \in Sizes : rows' = [rows EXCEPT ![Row(r, n)] = @ + 1]
    /\ UNCHANGED <<deploy, now, kill, safe, member>> /\ UNCHANGED autovars

\* The order is refused, the session fails, or a request for access does.
FailRequest(r) ==
    /\ req[r].at \in {"sent", "joining"} /\ req' = [req EXCEPT ![r] = Idle]
    /\ UNCHANGED <<deploy, now, kill, safe, member, rows>> /\ UNCHANGED autovars

CloseLive(k) ==
    /\ rows[k] > 0 /\ rows' = [rows EXCEPT ![k] = @ - 1]
    /\ UNCHANGED <<deploy, now, kill, safe, member, req>> /\ UNCHANGED autovars

-----------------------------------------------------------------------------
Switches ==
    \/ Tick
    \/ \E on \in BOOLEAN : SetGlobalKill(on)
    \/ \E u \in deploy.users : SetUserKill(u) \/ ResumeUser(u)
Demo ==
    \/ \E u \in deploy.users :
        \/ \E l \in Limits : UpdateConfig(u, l)
        \/ \E field \in {"enabled", "follow"}, on \in BOOLEAN : PutAuto(u, field, on)
        \/ OpenPaper(u) \/ \E pnl \in Results : ClosePaper(u, pnl)
        \/ MaybeOpen(u)
    \/ OnNewSignal \/ CommitSignal \/ FailSignal
Live ==
    \/ \E r \in Req, u \in deploy.users :
        \/ RequestAccess(r, u)
        \/ \E s \in Symbols, n \in Sizes : Start(r, u, s, n)
    \/ \E r \in Req :
        \/ CommitAccess(r) \/ SafetyGate(r) \/ Enter(r) \/ CommitOpen(r) \/ FailRequest(r)
    \/ \E u \in deploy.users, s \in {"APPROVED", "SUSPENDED"} : SetStatus(u, s)
    \/ \E k \in Kinds : CloseLive(k)
Next == Switches \/ Demo \/ Live
Spec == Init /\ [][Next]_vars

-----------------------------------------------------------------------------
(* Properties.                                                             *)

Lockouts == [kill : BOOLEAN, until : Nat, why : {"none", "loss", "streak"}, upto : Nat]
PaperRows(t) == [open : Nat, last : 0..t, trades : Seq([at : 1..t, pnl : Results])]
Requests ==
    {Idle} \cup [at : {"joining"}, user : Users]
           \cup {q \in [at : {"asked", "clear", "sent"}, user : Users, sym : Symbols,
                        seen : Sizes, pilot : BOOLEAN] : q.pilot => q.user = Pilot}
FanOuts ==
    {NoFan} \cup [on : {TRUE}, todo : SUBSET Users, opens : SUBSET Users, switched : SUBSET Users,
                  locks : [Users -> Lockouts]]

\* The rows and requests have the form the code gives them.
TypeOK ==
    /\ deploy \in Deploy /\ now \in Nat \ {0} /\ kill \in BOOLEAN
    /\ safe \in [Users -> Lockouts] /\ limits \in [Users -> Limits]
    /\ auto \in [Users -> [enabled : BOOLEAN, follow : BOOLEAN]]
    /\ paper \in [Users -> PaperRows(now)]
    /\ member \in [Users -> {"none", "PENDING", "APPROVED", "SUSPENDED"}]
    /\ rows \in [Kinds -> Nat] /\ req \in [Req -> Requests] /\ fan \in FanOuts

\* A kill switch or a lock stands for u.
Stopped(u) == kill \/ safe[u].kill \/ safe[u].until > now
\* Requests of u that are past the safety gate, and past every gate.
PastSafety(u) == {r \in Req : req[r].at \in {"clear", "sent"} /\ req[r].user = u}
PastAll(u) == {r \in Req : req[r].at = "sent" /\ req[r].user = u}

\* While a kill switch or a lock stands, no request and no fan-out gets a position past
\* the gate, and what opens was past it before; the same of a member who is not approved
\* (safety/service.py:279 and :215, live_beta/service.py:197).
ShutMeansShut ==
    [][\A u \in Users :
        /\ Stopped(u) =>
             /\ PastSafety(u)' \subseteq PastSafety(u)
             /\ fan.on /\ fan'.on /\ u \in fan'.opens => u \in fan.opens
        /\ "beta" \in deploy.on /\ member[u] # "APPROVED" =>
             /\ PastAll(u)' \subseteq PastAll(u)
             /\ PastAll(u) = {} => Count(Of(u))' <= Count(Of(u))
      ]_vars

\* Of what rows are worth, as much as the gate has seen.
Lesser(a, b) == IF a < b THEN a ELSE b
Seen(K) == Cardinality(Units([k \in Kinds |-> Lesser(k.size, k.seen) * rows[k]], K))

\* The caps of the beta, of the pilot and of its seats sum committed rows.  As far as the
\* rows are worth no more than the gate has seen of them, the caps are exceeded at most by
\* what the other requests under way at one time can add, whatever the sequence of
\* requests, closes and suspensions (live_beta/service.py:85, 209-219, pilot.py:177-186).
CapsOvershoot ==
    LET others == Cardinality(Req) - 1
        more == others * Max(Sizes)
        piloted(K) == Count({k \in K : k.pilot})
    IN /\ "beta" \in deploy.on =>
            /\ Seen(Kinds) <= Caps.global + more
            /\ \A u \in Users :
                 /\ Seen(Of(u)) <= Caps.user + more
                 /\ Count(Of(u)) <= Caps.rows + others
                 /\ \A s \in Symbols : Seen(In(u, s)) <= Caps.symbol + more
       /\ Cardinality(Members) <= Caps.seats + others
       /\ \A u \in Users :
            /\ piloted(Of(u)) <= Caps.pilot + others
            /\ \A s \in Symbols : piloted(In(u, s)) <= 1 + others

\* The beta enforces "the per-user / per-symbol / global exposure envelope"
\* (live_trading/service.py:216), up to what the other requests under way can add.
ExposureIsCapped ==
    "beta" \in deploy.on =>
        Notional(Kinds) <= Caps.global + (Cardinality(Req) - 1) * Max(Sizes)

\* A lock for a losing streak expires: the streak that it was set for does not set it
\* again (the lock is to last "until the lockout expires or the user resumes",
\* docs/reports/sprint/SPRINT20E_SAFETY_LAYER_REPORT.md:38).
StreakLocksOnce ==
    [][\A u \in Users :
        safe[u].why = "streak" /\ safe'[u].why = "streak" /\ safe'[u].until # safe[u].until
            => safe'[u].upto > safe[u].upto]_vars

=============================================================================
