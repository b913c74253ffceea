--------------------------------- MODULE Paper ---------------------------------
(***************************************************************************)
(* Paper accounts (app/paper_engine/) and the auto engine that trades on   *)
(* them (app/auto_engine/).                                                *)
(*                                                                         *)
(* Every request, every new signal and every tracker event is one session: *)
(* it reads committed rows whenever it asks for them, keeps what it loaded *)
(* first, and writes the columns it changed when it commits.  A balance is *)
(* therefore written as the loaded one plus a result.  Sessions of one     *)
(* account overlap freely.                                                 *)
(*                                                                         *)
(* Positions are long (short ones mirror them) and of one unit; prices are *)
(* ranks: Stop0 < Entry < TP1 < TP2 < TP3.                                 *)
(***************************************************************************)
EXTENDS Integers, FiniteSets, Functions

CONSTANTS
    Users, Pos, Sigs,
    Req,       \* requests that can be served at the same time
    NoSig,     \* the signal of a position opened by hand
    Initial,   \* PaperAccount.initial_balance
    Margins,   \* margins a request may ask for
    Sizes,     \* margins the sizing by risk may come to
    Distances, \* AutoTradeConfig.trailing_distance_pct, in ranks
    Moves,     \* how far the price of a close by hand is from the entry
    MaxOpen    \* AutoTradeConfig.max_positions

ASSUME MoneyAssumption ==
    /\ Initial \in Nat /\ MaxOpen \in Nat /\ Moves \subseteq Int
    /\ Margins \cup Sizes \subseteq Nat \ {0} /\ Distances \subseteq Nat
ASSUME NoSigAssumption == NoSig \notin Sigs
ASSUME PosAssumption == IsFiniteSet(Pos)

VARIABLES
    acc,     \* paper_accounts, with a ghost: how often each result is in the balance
    pos,     \* paper_account_positions; "new" rows are not committed yet
    trades,  \* paper_trades
    opened,  \* auto_trade_executions with action OPEN
    req,     \* the requests
    fan,     \* on_new_signal
    ev,      \* on_signal_event
    mixed    \* ghost: users of whom two sessions were under way at once

vars == <<acc, pos, trades, opened, req, fan, ev, mixed>>

-----------------------------------------------------------------------------
Stop0 == 1
Entry == 2
Target(e) == CASE e = "TP1" -> 3 [] e = "TP2" -> 4 [] e = "TP3" -> 5

Free == [st |-> "free"]
NewPosition(u, m, s) ==
    [st |-> "new", own |-> u, margin |-> m, sig |-> s, stop |-> Stop0, prot |-> "none",
     even |-> FALSE]   \* even: a BREAK_EVEN execution was logged

\* The row when it is over; its stop and protection are not read again.
Ended(q, st) == [q EXCEPT !.st = st, !.stop = Stop0, !.prot = "none"]

Idle == [op |-> "idle"]
NoFan == [on |-> FALSE]
NoEvent == [on |-> FALSE]
NoneYet == [p \in Pos |-> 0]

OpenOf(u) == {p \in Pos : pos[p].st = "OPEN" /\ pos[p].own = u}
TradesOf(u) == {t \in trades : pos[t.p].own = u}
\* _used_margin.
UsedMargin(u) == SumFunction([p \in OpenOf(u) |-> pos[p].margin])

Init ==
    /\ acc = [u \in Users |-> [bal |-> Initial, in |-> NoneYet]]
    /\ pos = [p \in Pos |-> Free] /\ trades = {}
    /\ opened = {}
    /\ req = [r \in Req |-> Idle] /\ fan = NoFan /\ ev = NoEvent
    /\ mixed = {}

\* A session of user u is under way.
Busy(u) ==
    \/ \E r \in Req : req[r] # Idle /\ req[r].user = u
    \/ fan.on /\ u \in fan.met
    \/ ev.on /\ \E p \in DOMAIN ev.rows : pos[p].own = u

\* Settlement at a price that moved by d: a position loses its margin at most.
Settled(m, d) == IF d <= -m THEN -m ELSE d
\* Mutation: the reason of the trade as the status of the row.
ReasonAsStatus(m, d) == IF d <= -m THEN "LIQUIDATION" ELSE "CLOSED"
\* The status a settlement leaves.
Outcome(m, d) == IF d <= -m THEN "LIQUIDATED" ELSE "CLOSED"

\* The account row after a session that loaded a adds the result of p: a column whose
\* value did not change is not written.
Credited(now, a, p, pnl) ==
    IF pnl = 0 THEN now
    ELSE [bal |-> a.bal + pnl, in |-> [a.in EXCEPT ![p] = @ + 1]]

-----------------------------------------------------------------------------
(* Requests.                                                               *)

\* get_or_create_account, the first query of every request.
Load(r, u, op) ==
    /\ req[r] = Idle
    /\ req' = [req EXCEPT ![r] = [op |-> op, user |-> u, acc |-> acc[u]]]
    /\ mixed' = IF Busy(u) THEN mixed \cup {u} ELSE mixed
    /\ UNCHANGED <<acc, pos, trades, opened, fan, ev>>

\* Mutation: margin that is in use counts as available.
BalanceCovers(u, bal, m) == m <= bal

\* The margin asked for is available.
Covered(u, bal, m) == m <= bal - UsedMargin(u)

\* open_position: the margin check, and the insert that the commit makes visible.
Open(r, m) ==
    /\ req[r].op = "open"
    /\ \/ \E p \in Pos :
            /\ pos[p] = Free /\ Covered(req[r].user, req[r].acc.bal, m)
            /\ pos' = [pos EXCEPT ![p] = NewPosition(req[r].user, m, NoSig)]
            /\ req' = [req EXCEPT ![r] = [op |-> "opened", user |-> @.user, p |-> p]]
       \/ /\ ~Covered(req[r].user, req[r].acc.bal, m)
          /\ req' = [req EXCEPT ![r] = Idle] /\ UNCHANGED pos
    /\ UNCHANGED <<acc, trades, opened, fan, ev, mixed>>

\* The price is awaited between the insert and the commit.
CommitOpen(r) ==
    /\ req[r].op = "opened"
    /\ pos' = [pos EXCEPT ![req[r].p].st = "OPEN"]
    /\ req' = [req EXCEPT ![r] = Idle]
    /\ UNCHANGED <<acc, trades, opened, fan, ev, mixed>>

\* Mutation: the status is looked at when the row is written, not when it is read.
AnyStatus(p) == pos[p].st \notin {"free", "new", "gone"}

\* The position can be closed: PaperError 409 otherwise.
Closable(p) == pos[p].st = "OPEN"

\* close_position up to the await of the mark: 404 or 409, or go on.
FindPosition(r, p) ==
    /\ req[r].op = "close"
    /\ req' = [req EXCEPT ![r] =
                 IF Closable(p) /\ pos[p].own = @.user
                 THEN [op |-> "closing", user |-> @.user, acc |-> @.acc, p |-> p] ELSE Idle]
    /\ UNCHANGED <<acc, pos, trades, opened, fan, ev, mixed>>

\* Settle at the mark and commit; the update of a deleted row fails.  "MANUAL" stands for
\* whatever reason the caller names; one that names "SL" would pass for the stop of the engine.
CommitClose(r, d) ==
    LET q == req[r] IN
    /\ q.op = "closing"
    /\ req' = [req EXCEPT ![r] = Idle]
    /\ IF pos[q.p].st = "gone" THEN UNCHANGED <<acc, pos, trades>>
       ELSE LET m == pos[q.p].margin IN
            /\ acc' = [acc EXCEPT ![q.user] = Credited(@, q.acc, q.p, Settled(m, d))]
            /\ pos' = [pos EXCEPT ![q.p] = Ended(@, Outcome(m, d))]
            /\ trades' = trades \cup {[p |-> q.p, pnl |-> Settled(m, d), why |-> "MANUAL"]}
    /\ UNCHANGED <<opened, fan, ev, mixed>>

\* The rows the reset deletes.
RowsOf(u) == {p \in Pos : pos[p].st \in {"OPEN", "CLOSED", "LIQUIDATED"} /\ pos[p].own = u}

\* reset_account: trades and positions are deleted and the balance is set back, unless
\* it was the initial one when it was loaded.
CommitReset(r) ==
    LET q == req[r] IN
    /\ q.op = "reset"
    /\ pos' = [p \in Pos |-> IF p \in RowsOf(q.user) THEN Ended(pos[p], "gone") ELSE pos[p]]
    /\ trades' = trades \ TradesOf(q.user)
    /\ acc' = IF q.acc.bal = Initial THEN acc
              ELSE [acc EXCEPT ![q.user] = [bal |-> Initial, in |-> NoneYet]]
    /\ req' = [req EXCEPT ![r] = Idle]
    /\ UNCHANGED <<opened, fan, ev, mixed>>

-----------------------------------------------------------------------------
(* The auto engine: a new signal, for all users in one session.            *)

\* _eligible_users: those who are switched on, or follow.
NewSignal(s, U) ==
    /\ ~fan.on
    /\ fan' = [on |-> TRUE, sig |-> s, todo |-> U, met |-> {}, new |-> {}]
    /\ UNCHANGED <<acc, pos, trades, opened, req, ev, mixed>>

\* Mutation: nobody is asked whether the signal was traded before.
NeverExecuted(u, s) == FALSE

\* already_executed.
Executed(u, s) == <<u, s>> \in opened

\* evaluate, on the account's summary; coins and confidence only skip.
Allowed(u) == Cardinality(OpenOf(u)) < MaxOpen /\ acc[u].bal > UsedMargin(u)

\* copy_signal: the size follows the risk, up to half of the balance as margin.
Sized(u, m) == 2 * m <= acc[u].bal

\* _maybe_open for one user: traded before, skipped by the safety layer, the risk
\* check or the margin check, or opened.
Serve(u) ==
    /\ fan.on /\ u \in fan.todo
    /\ \/ \E p \in Pos, m \in Sizes :
            /\ ~Executed(u, fan.sig) /\ pos[p] = Free
            /\ Allowed(u) /\ Sized(u, m) /\ Covered(u, acc[u].bal, m)
            /\ pos' = [pos EXCEPT ![p] = NewPosition(u, m, fan.sig)]
            /\ fan' = [fan EXCEPT !.todo = @ \ {u}, !.met = @ \cup {u}, !.new = @ \cup {p}]
       \/ fan' = [fan EXCEPT !.todo = @ \ {u}, !.met = @ \cup {u}] /\ UNCHANGED pos
    /\ mixed' = IF Busy(u) THEN mixed \cup {u} ELSE mixed
    /\ UNCHANGED <<acc, trades, opened, req, ev>>

\* All users are served: positions and records are committed together.
CommitSignal ==
    /\ fan.on /\ fan.todo = {}
    /\ pos' = [p \in Pos |-> IF p \in fan.new THEN [pos[p] EXCEPT !.st = "OPEN"] ELSE pos[p]]
    /\ opened' = opened \cup {<<pos[p].own, fan.sig>> : p \in fan.new}
    /\ fan' = NoFan
    /\ UNCHANGED <<acc, trades, req, ev, mixed>>

\* An exception for one user undoes the session of all.
FailSignal ==
    /\ fan.on
    /\ pos' = [p \in Pos |-> IF p \in fan.new THEN Free ELSE pos[p]]
    /\ fan' = NoFan
    /\ UNCHANGED <<acc, trades, opened, req, ev, mixed>>

-----------------------------------------------------------------------------
(* The auto engine: an event of the tracker.                               *)

\* The open positions of the signal are loaded; the session does not load them again.
SignalEvent(s, e) ==
    LET F == {p \in Pos : pos[p].st = "OPEN" /\ pos[p].sig = s} IN
    /\ ~ev.on /\ F # {}
    /\ ev' = [on |-> TRUE, e |-> e, rows |-> [p \in F |-> pos[p]], todo |-> F, done |-> {}]
    /\ mixed' = mixed \cup {u \in Users : Busy(u) /\ \E p \in F : pos[p].own = u}
    /\ UNCHANGED <<acc, pos, trades, opened, req, fan>>

\* Mutation: the wider of the two stops.
Loosen(cur, cand) == IF cur < cand THEN cur ELSE cand

\* tighten_stop.
Tighten(cur, cand) == IF cur > cand THEN cur ELSE cand

\* _manage_position after TP1 or TP2: the break-even stop when it is the trigger and
\* nothing protects the position yet, then the trailing stop, d behind the target.
Protected(q, atTrigger, trail, d) ==
    LET e == atTrigger /\ q.prot = "none"
        a == IF e THEN [q EXCEPT !.stop = Entry, !.prot = "BREAK_EVEN", !.even = TRUE] ELSE q
    IN IF trail
       THEN [a EXCEPT !.stop = Tighten(@, Target(ev.e) - d), !.prot = "TRAILING"] ELSE a

\* The exit of a terminal event.
ExitPrice(q) == IF ev.e = "TP3" THEN Target("TP3") ELSE q.stop

\* One position: its account is loaded here, after the position; the settings are
\* those of the user at this time.  A row that is gone ends the session (404).
Manage(p) ==
    /\ ev.on /\ p \in ev.todo /\ pos[p].st # "gone"
    /\ IF ev.e \in {"TP1", "TP2"}
       THEN \E atTrigger, trail \in BOOLEAN, d \in Distances :
              ev' = [ev EXCEPT !.todo = @ \ {p},
                               !.done = @ \cup {[p |-> p, row |-> Protected(ev.rows[p], atTrigger, trail, d)]}]
       ELSE ev' = [ev EXCEPT !.todo = @ \ {p},
                             !.done = @ \cup {[p |-> p, acc |-> acc[pos[p].own], d |-> ExitPrice(ev.rows[p]) - Entry]}]
    /\ UNCHANGED <<acc, pos, trades, opened, req, fan, mixed>>

\* Another session deleted one of the rows.
Lost == \E p \in DOMAIN ev.rows : pos[p].st = "gone"

\* Commit the stops, or the closes; status and stop are columns of their own.
CommitEvent ==
    /\ ev.on /\ ev.todo = {} /\ ~Lost
    /\ ev' = NoEvent
    /\ IF ev.e \in {"TP1", "TP2"}
       THEN /\ pos' = [p \in Pos |-> IF p \in DOMAIN ev.rows
                         /\ pos[p].st = "OPEN"
                         THEN (CHOOSE x \in ev.done : x.p = p).row ELSE pos[p]]
            /\ UNCHANGED <<acc, trades>>
       ELSE LET R(p) == CHOOSE x \in ev.done : x.p = p IN
            /\ pos' = [p \in Pos |-> IF p \in DOMAIN ev.rows
                         THEN Ended(pos[p], Outcome(pos[p].margin, R(p).d)) ELSE pos[p]]
            /\ trades' = trades \cup
                 {[p |-> p, pnl |-> Settled(pos[p].margin, R(p).d), why |-> ev.e] :
                    p \in DOMAIN ev.rows}
            /\ acc' = [u \in Users |->
                 IF \E p \in DOMAIN ev.rows : pos[p].own = u
                 THEN LET p == CHOOSE p \in DOMAIN ev.rows : pos[p].own = u
                      IN Credited(acc[u], R(p).acc, p, Settled(pos[p].margin, R(p).d))
                 ELSE acc[u]]
    /\ UNCHANGED <<opened, req, fan, mixed>>

\* An exception, a missing row included, undoes the session of all.
FailEvent ==
    /\ ev.on /\ ev' = NoEvent
    /\ UNCHANGED <<acc, pos, trades, opened, req, fan, mixed>>

-----------------------------------------------------------------------------
Request ==
    \E r \in Req :
        \/ \E u \in Users, op \in {"open", "close", "reset"} : Load(r, u, op)
        \/ \E m \in Margins : Open(r, m)
        \/ CommitOpen(r)
        \/ \E p \in Pos : pos[p].st \notin {"free", "new"} /\ FindPosition(r, p)
        \/ \E d \in Moves : CommitClose(r, d)
        \/ CommitReset(r)

Engine ==
    \/ \E s \in Sigs, U \in SUBSET Users : NewSignal(s, U)
    \/ \E u \in Users : Serve(u)
    \/ CommitSignal \/ FailSignal
    \/ \E s \in Sigs, e \in {"TP1", "TP2", "TP3", "SL"} : SignalEvent(s, e)
    \/ \E p \in Pos : Manage(p)
    \/ CommitEvent \/ FailEvent

Next == Request \/ Engine

Spec == Init /\ [][Next]_vars

-----------------------------------------------------------------------------
(* Properties.                                                             *)

Rows == [st : {"new", "OPEN", "CLOSED", "LIQUIDATED", "gone"}, own : Users, margin : Margins \cup Sizes,
         sig : Sigs \cup {NoSig}, stop : Int, prot : {"none", "BREAK_EVEN", "TRAILING"},
         even : BOOLEAN]
Accounts == [bal : Int, in : [Pos -> Nat]]
Trades == [p : Pos, pnl : Int, why : {"MANUAL", "TP3", "SL"}]
Requests ==
    {Idle}
    \cup [op : {"open", "close", "reset"}, user : Users, acc : Accounts]
    \cup [op : {"opened"}, user : Users, p : Pos]
    \cup [op : {"closing"}, user : Users, acc : Accounts, p : Pos]

\* Every variable stays in its set of values.
TypeOK ==
    /\ acc \in [Users -> Accounts]
    /\ \A p \in Pos : pos[p] = Free \/ pos[p] \in Rows
    /\ trades \subseteq Trades
    /\ mixed \subseteq Users /\ opened \subseteq Users \X Sigs
    /\ \A r \in Req :
          /\ req[r].op = "idle" => req[r] = Idle
          /\ req[r] # Idle => req[r].user \in Users
          /\ req[r].op \in {"open", "close", "reset", "closing"} => req[r].acc \in Accounts
          /\ req[r].op \in {"opened", "closing"} => pos[req[r].p] \in Rows
    /\ fan.on => fan.new \subseteq Pos /\ fan.todo \cup fan.met \subseteq Users
    /\ ev.on => ev.todo \subseteq DOMAIN ev.rows /\ DOMAIN ev.rows \subseteq Pos

\* As long as the sessions of a user come one after the other, the balance is the
\* initial one plus what its trades have won, and it covers the margins in use.
BooksBalance ==
    \A u \in Users \ mixed :
        /\ acc[u].bal = Initial + SumFunction([t \in TradesOf(u) |-> t.pnl])
        /\ UsedMargin(u) <= acc[u].bal

\* A result of a position that was opened by hand is in the balance once at most,
\* however its closes and resets interleave: the account is loaded before the
\* position is found open.
NoDoubleCredit ==
    \A u \in Users, p \in Pos :
        pos[p] # Free /\ pos[p].sig = NoSig => acc[u].in[p] <= 1

\* The engine opens one position for a user and a signal, also when the signal is
\* announced again after a failure, or after the account was reset.
OncePerSignal ==
    \A p, q \in Pos :
        p # q /\ {pos[p], pos[q]} \subseteq Rows /\ pos[p].sig # NoSig =>
            <<pos[p].own, pos[p].sig>> # <<pos[q].own, pos[q].sig>>

\* A stop of the engine that follows a break-even never loses: no later target, setting or
\* session moves the stop back behind the entry.
BreakEvenHolds == \A t \in trades : t.why = "SL" /\ pos[t.p].even => t.pnl >= 0

-----------------------------------------------------------------------------
(* What the code's comments and messages say, and the code denies.         *)

\* No result is in the balance twice, whoever closes.
CreditedOnce == \A u \in Users, p \in Pos : acc[u].in[p] <= 1
=============================================================================
