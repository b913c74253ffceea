----------------------------- MODULE PaperProofs -----------------------------
(* Proofs about paper accounts and the auto engine, for any users, positions, *)
(* signals, requests and amounts.                                             *)
EXTENDS Paper, FiniteSetTheorems, WellFoundedInduction, TLAPS

(* The invariant.                                                            *)

\* A row that is not committed yet, a row that is.
Born(p)  == pos[p] \in Rows /\ pos[p].st = "new"
Stored(p) == pos[p] \in Rows /\ pos[p].st # "new"

Fans == [on : {TRUE}, sig : Sigs, todo : SUBSET Users, met : SUBSET Users, new : SUBSET Pos]

Typed ==
    /\ acc \in [Users -> Accounts]
    /\ pos \in [Pos -> {Free} \cup Rows]
    /\ trades \subseteq Trades /\ mixed \subseteq Users /\ opened \subseteq Users \X Sigs
    /\ req \in [Req -> Requests]
    /\ fan \in {NoFan} \cup Fans

\* An open request waits with a row of its own, a close with a committed row.
HandInv ==
    \A r \in Req :
        /\ req[r].op = "opened" =>
             /\ Born(req[r].p) /\ pos[req[r].p].sig = NoSig
             /\ \A z \in Req \ {r} : req[z].op = "opened" => req[z].p # req[r].p
        /\ req[r].op = "closing" => Stored(req[r].p) /\ pos[req[r].p].own = req[r].user

\* The rows of a signal that is being served: one per user at most, for users who
\* were not given one before.
FanInv ==
    fan.on => \A p \in fan.new :
        /\ Born(p) /\ pos[p].sig = fan.sig
        /\ pos[p].own \notin fan.todo /\ <<pos[p].own, fan.sig>> \notin opened

\* What a tracker event loaded and decided: rows that were open then, of a signal,
\* which stay their owners'.
Results == [p : Pos, acc : Accounts, d : Int]
Stops   == [p : Pos, row : Rows]
Events  == [on : {TRUE}, e : {"TP1", "TP2", "TP3", "SL"}, rows : UNION {[F -> Rows] : F \in SUBSET Pos},
            todo : SUBSET Pos, done : SUBSET (Stops \cup Results)]
EvInv ==
    ev # NoEvent =>
        /\ ev \in Events
        /\ ev.todo \subseteq DOMAIN ev.rows /\ DOMAIN ev.rows \subseteq Pos
        /\ \A p \in DOMAIN ev.rows :
             /\ Stored(p) /\ pos[p].sig \in Sigs
             /\ ev.rows[p] \in Rows /\ ev.rows[p].st = "OPEN"
             /\ ev.rows[p].own = pos[p].own /\ ev.rows[p].sig = pos[p].sig
             /\ p \in ev.todo \/ \E x \in ev.done : x.p = p
        /\ \A x \in ev.done :
             /\ x.p \in DOMAIN ev.rows
             /\ IF ev.e \in {"TP1", "TP2"}
                THEN /\ x \in Stops /\ x.row.st = "OPEN"
                     /\ x.row.own = pos[x.p].own /\ x.row.sig = pos[x.p].sig
                ELSE x \in Results

\* A committed row of a signal has its execution record, an uncommitted one belongs
\* to the signal that is being served.
RecordInv ==
    \A p \in Pos : pos[p] \in Rows /\ pos[p].sig # NoSig =>
        IF pos[p].st = "new" THEN fan.on /\ p \in fan.new
        ELSE <<pos[p].own, pos[p].sig>> \in opened

PInv == Typed /\ HandInv /\ FanInv /\ EvInv /\ RecordInv /\ OncePerSignal

\* An account that was read, now or before: no result of a position that is not over
\* is in it, and none of one opened by hand twice.
Fresh(p)  == pos[p] = Free \/ pos[p].st \in {"new", "OPEN"}
ByHand(p) == pos[p] # Free /\ pos[p].sig = NoSig
Fair(a) == \A p \in Pos : (Fresh(p) => a.in[p] = 0) /\ (ByHand(p) => a.in[p] <= 1)

CreditInv ==
    /\ \A u \in Users : Fair(acc[u])
    /\ \A r \in Req :
         /\ req[r].op \in {"open", "close", "reset", "closing"} => Fair(req[r].acc)
         /\ req[r].op = "closing" => req[r].acc.in[req[r].p] = 0
    /\ ev.on /\ ev.e \in {"TP3", "SL"} => \A x \in ev.done : Fair(x.acc)

-----------------------------------------------------------------------------
LEMMA InitPInv == Init => PInv
  BY NoSigAssumption, MoneyAssumption DEF Init, PInv, Typed, HandInv, FanInv, EvInv, RecordInv, OncePerSignal, Rows,
     Free, NoFan, NoEvent, NoneYet, Accounts, Requests, Idle

-----------------------------------------------------------------------------
(* Rows.                                                                    *)

LEMMA FreeRow ==
  /\ Free \notin Rows
  /\ Typed => \A p \in Pos : pos[p] = Free \/ (pos[p] \in Rows /\ pos[p] # Free)
  /\ Free.st = "free" /\ \A q \in Rows : q.st \in {"new", "OPEN", "CLOSED", "LIQUIDATED", "gone"}
  BY DEF Free, Rows, Typed

\* A new row, a row that is over, a row whose stop was moved.
LEMMA NewRows ==
  ASSUME NEW u \in Users, NEW m \in Margins \cup Sizes, NEW s \in Sigs \cup {NoSig}
  PROVE  /\ NewPosition(u, m, s) \in Rows /\ NewPosition(u, m, s).st = "new"
         /\ NewPosition(u, m, s).own = u /\ NewPosition(u, m, s).sig = s
         /\ NewPosition(u, m, s).margin = m
  BY DEF NewPosition, Rows, Stop0

LEMMA EndedRows ==
  ASSUME NEW q \in Rows, NEW st \in {"CLOSED", "LIQUIDATED", "gone"}
  PROVE  /\ Ended(q, st) \in Rows /\ Ended(q, st).st = st
         /\ Ended(q, st).own = q.own /\ Ended(q, st).sig = q.sig /\ Ended(q, st).margin = q.margin
<1> DEFINE x == [q EXCEPT !.st = st]
           y == [x EXCEPT !.stop = Stop0]
           z == [y EXCEPT !.prot = "none"]
<1>1. x \in Rows /\ x.st = st /\ x.own = q.own /\ x.sig = q.sig /\ x.margin = q.margin
  BY DEF Rows
<1>2. Ended(q, st) = z
  BY DEF Ended
<1> HIDE DEF x
<1>3. y \in Rows /\ y.st = st /\ y.own = q.own /\ y.sig = q.sig /\ y.margin = q.margin
  BY <1>1 DEF Rows, Stop0
<1> HIDE DEF y
<1>4. z \in Rows /\ z.st = st /\ z.own = q.own /\ z.sig = q.sig /\ z.margin = q.margin
  BY <1>3 DEF Rows
<1> QED
  BY <1>2, <1>4

LEMMA ProtectedRows ==
  ASSUME NEW q \in Rows, q.st = "OPEN", NEW b \in BOOLEAN, NEW t \in BOOLEAN, NEW d \in Distances,
         ev.e \in {"TP1", "TP2"}
  PROVE  /\ Protected(q, b, t, d) \in Rows /\ Protected(q, b, t, d).st = "OPEN"
         /\ Protected(q, b, t, d).own = q.own /\ Protected(q, b, t, d).sig = q.sig
         /\ Protected(q, b, t, d).margin = q.margin
<1> DEFINE x == [q EXCEPT !.stop = Entry]
           y == [x EXCEPT !.prot = "BREAK_EVEN"]
           z == [y EXCEPT !.even = TRUE]
           a == IF b /\ q.prot = "none" THEN z ELSE q
           n == Tighten(a.stop, Target(ev.e) - d)
           v == [a EXCEPT !.stop = n]
           w == [v EXCEPT !.prot = "TRAILING"]
<1>1. x \in Rows /\ x.st = "OPEN" /\ x.own = q.own /\ x.sig = q.sig /\ x.margin = q.margin
  BY DEF Rows, Entry
<1>2. Protected(q, b, t, d) = IF t THEN w ELSE a
  BY DEF Protected
<1> HIDE DEF x
<1>3. y \in Rows /\ y.st = "OPEN" /\ y.own = q.own /\ y.sig = q.sig /\ y.margin = q.margin
  BY <1>1 DEF Rows
<1> HIDE DEF y
<1>4. z \in Rows /\ z.st = "OPEN" /\ z.own = q.own /\ z.sig = q.sig /\ z.margin = q.margin
  BY <1>3 DEF Rows
<1> HIDE DEF z
<1>5. a \in Rows /\ a.st = "OPEN" /\ a.own = q.own /\ a.sig = q.sig /\ a.margin = q.margin
  BY <1>4
<1> HIDE DEF a
<1>6. n \in Int
  <2>1. Target(ev.e) \in Int /\ d \in Int
    BY MoneyAssumption DEF Target
  <2>2. a.stop \in Int
    BY <1>5 DEF Rows
  <2> QED
    BY <2>1, <2>2 DEF Tighten
<1> HIDE DEF n
<1>7. v \in Rows /\ v.st = "OPEN" /\ v.own = q.own /\ v.sig = q.sig /\ v.margin = q.margin
  BY <1>5, <1>6 DEF Rows
<1> HIDE DEF v
<1>8. w \in Rows /\ w.st = "OPEN" /\ w.own = q.own /\ w.sig = q.sig /\ w.margin = q.margin
  BY <1>7 DEF Rows
<1> QED
  BY <1>2, <1>5, <1>8

\* A settlement loses the margin at most, and ends the position.
LEMMA Settlements ==
  ASSUME NEW m \in Nat, NEW d \in Int
  PROVE  Settled(m, d) \in Int /\ Outcome(m, d) \in {"CLOSED", "LIQUIDATED"}
  BY DEF Settled, Outcome

LEMMA MarginNat == \A q \in Rows : q.margin \in Nat
  BY MoneyAssumption DEF Rows

\* A credit leaves an account.
LEMMA CreditedTyped ==
  ASSUME NEW now \in Accounts, NEW a \in Accounts, NEW p \in Pos, NEW pnl \in Int
  PROVE  /\ Credited(now, a, p, pnl) \in Accounts
         /\ \/ Credited(now, a, p, pnl) = now
            \/ /\ Credited(now, a, p, pnl).in[p] = a.in[p] + 1
               /\ \A q \in Pos \ {p} : Credited(now, a, p, pnl).in[q] = a.in[q]
<1>1. CASE pnl = 0
  BY <1>1 DEF Credited
<1>2. CASE pnl # 0
  <2>1. Credited(now, a, p, pnl) = [bal |-> a.bal + pnl, in |-> [a.in EXCEPT ![p] = @ + 1]]
    BY <1>2 DEF Credited
  <2>2. a.bal + pnl \in Int /\ a.in \in [Pos -> Nat]
    BY DEF Accounts
  <2>3. [a.in EXCEPT ![p] = @ + 1] \in [Pos -> Nat]
    BY <2>2
  <2> QED
    BY <2>1, <2>2, <2>3 DEF Accounts
<1> QED
  BY <1>1, <1>2

-----------------------------------------------------------------------------
(* The steps.                                                               *)

\* A signal that is being served.
LEMMA FanTyped == Typed /\ fan.on => fan \in Fans /\ fan.new \subseteq Pos /\ fan.todo \subseteq Users
<1>1. Typed /\ fan.on => fan \in Fans
  BY DEF Typed, NoFan
<1> QED
  BY <1>1 DEF Fans

\* Committed rows that change but stay committed, and their owner's.
LEMMA Aging ==
  ASSUME PInv, fan' = fan, opened' = opened, ev' = ev \/ ev' = NoEvent,
         \A p \in Pos : \/ pos'[p] = pos[p]
                        \/ /\ Stored(p) /\ Stored(p)'
                           /\ pos'[p].own = pos[p].own /\ pos'[p].sig = pos[p].sig,
         \A r \in Req : \/ req'[r] = req[r]
                        \/ req'[r].op \notin {"opened", "closing"}
                        \/ /\ req'[r].op = "closing" /\ req'[r].p \in Pos
                           /\ Stored(req'[r].p) /\ pos[req'[r].p].own = req'[r].user
  PROVE  HandInv' /\ FanInv' /\ EvInv' /\ RecordInv' /\ OncePerSignal'
<1> USE DEF PInv, Born, Stored
<1>1. FanInv'
  <2> SUFFICES ASSUME fan.on, NEW p \in fan.new
               PROVE  /\ pos'[p] \in Rows /\ pos'[p].st = "new" /\ pos'[p].sig = fan.sig
                      /\ pos'[p].own \notin fan.todo /\ <<pos'[p].own, fan.sig>> \notin opened
    BY DEF FanInv
  <2>1. p \in Pos
    BY FanTyped
  <2>2. pos'[p] = pos[p]
    BY <2>1 DEF FanInv
  <2> QED
    BY <2>2 DEF FanInv
<1>2. RecordInv'
  BY FreeRow DEF RecordInv
<1>3. EvInv'
  <2>1. CASE ev' = NoEvent
    BY <2>1 DEF EvInv
  <2>2. CASE ev' = ev
    BY <2>2 DEF EvInv
  <2> QED
    BY <2>1, <2>2
<1>4. HandInv'
  <2>1. \A r \in Req : req[r].op \in {"opened", "closing"} => req[r].p \in Pos
    BY DEF Typed, Requests, Idle
  <2> QED
    BY <2>1 DEF HandInv
<1>5. OncePerSignal'
  <2>1. ASSUME NEW p \in Pos, pos'[p] \in Rows
        PROVE  pos[p] \in Rows /\ pos'[p].own = pos[p].own /\ pos'[p].sig = pos[p].sig
    BY <2>1
  <2> QED
    BY <2>1 DEF OncePerSignal
<1> QED
  BY <1>1, <1>2, <1>3, <1>4, <1>5

\* Requests that load, look for a position, or are refused.
LEMMA RequestReads ==
  ASSUME PInv, NEW r \in Req,
         \/ \E u \in Users, op \in {"open", "close", "reset"} : Load(r, u, op)
         \/ \E p \in Pos : pos[p].st \notin {"free", "new"} /\ FindPosition(r, p)
         \/ \E m \in Margins : Open(r, m) /\ pos' = pos
  PROVE  PInv'
<1>1. UNCHANGED <<pos, trades, opened, fan, ev, acc>>
  BY DEF Load, FindPosition, Open
<1> USE DEF PInv, Typed
<1>2. CASE \E u \in Users, op \in {"open", "close", "reset"} : Load(r, u, op)
  <2>1. PICK u \in Users, op \in {"open", "close", "reset"} : Load(r, u, op)
    BY <1>2
  <2>2. req' = [req EXCEPT ![r] = [op |-> op, user |-> u, acc |-> acc[u]]] /\ mixed' \subseteq Users
    BY <2>1 DEF Load
  <2>3. [op |-> op, user |-> u, acc |-> acc[u]] \in Requests
    BY DEF Requests
  <2>4. Typed'
    BY <1>1, <2>2, <2>3
  <2> QED
    BY <1>1, <2>2, <2>4, Aging
<1>3. CASE \E p \in Pos : pos[p].st \notin {"free", "new"} /\ FindPosition(r, p)
  <2>1. PICK p \in Pos : pos[p].st \notin {"free", "new"} /\ FindPosition(r, p)
    BY <1>3
  <2>2. Stored(p)
    BY <2>1, FreeRow DEF Stored
  <2>3. req[r] \in [op : {"open", "close", "reset"}, user : Users, acc : Accounts]
    BY <2>1 DEF FindPosition, Requests, Idle
  <2>4. \/ /\ pos[p].own = req[r].user
           /\ req' = [req EXCEPT ![r] = [op |-> "closing", user |-> req[r].user, acc |-> req[r].acc, p |-> p]]
        \/ req' = [req EXCEPT ![r] = Idle]
    BY <2>1 DEF FindPosition
  <2>5. Idle \in Requests /\ [op |-> "closing", user |-> req[r].user, acc |-> req[r].acc, p |-> p] \in Requests
    BY <2>3 DEF Requests
  <2>6. Typed'
    BY <1>1, <2>1, <2>4, <2>5 DEF FindPosition
  <2> QED
    BY <1>1, <2>2, <2>4, <2>6, Aging DEF Idle
<1>4. CASE \E m \in Margins : Open(r, m) /\ pos' = pos
  <2>1. req' = [req EXCEPT ![r] = Idle] \/ \E p \in Pos : req'[r] = [op |-> "opened", user |-> req[r].user, p |-> p] /\ pos[p] = Free /\ pos'[p] # Free
    <3>1. PICK m \in Margins : Open(r, m) /\ pos' = pos
      BY <1>4
    <3>2. CASE ~Covered(req[r].user, req[r].acc.bal, m)
      BY <3>1, <3>2 DEF Open
    <3>3. ASSUME NEW p \in Pos, pos[p] = Free, pos' = [pos EXCEPT ![p] = NewPosition(req[r].user, m, NoSig)]
          PROVE  FALSE
      <4>1. pos'[p].st = "new" /\ pos[p].st = "free"
        BY <3>3 DEF NewPosition, Free
      <4> QED
        BY <3>1, <4>1
    <3> QED
      BY <3>1, <3>2, <3>3 DEF Open
  <2>2. req' = [req EXCEPT ![r] = Idle] /\ mixed' = mixed
    BY <1>4, <2>1 DEF Open
  <2>3. Idle \in Requests
    BY DEF Requests
  <2>4. Typed'
    BY <1>1, <2>2, <2>3
  <2> QED
    BY <1>1, <2>2, <2>4, Aging DEF Idle
<1> QED
  BY <1>2, <1>3, <1>4

\* An open request inserts a row of its own and commits it later.
LEMMA OpenStep ==
  ASSUME PInv, NEW r \in Req, NEW m \in Margins, Open(r, m), pos' # pos
  PROVE  PInv'
<1>1. PICK p \in Pos :
        /\ pos[p] = Free
        /\ pos' = [pos EXCEPT ![p] = NewPosition(req[r].user, m, NoSig)]
        /\ req' = [req EXCEPT ![r] = [op |-> "opened", user |-> req[r].user, p |-> p]]
  BY DEF Open
<1>2. UNCHANGED <<acc, trades, opened, fan, ev, mixed>> /\ req[r].op = "open"
  BY DEF Open
<1>3. req[r].user \in Users
  BY <1>2 DEF PInv, Typed, Requests, Idle
<1> DEFINE q == NewPosition(req[r].user, m, NoSig)
<1>4. q \in Rows /\ q.st = "new" /\ q.own = req[r].user /\ q.sig = NoSig
  BY <1>3, NewRows
<1> HIDE DEF q
<1>5. \A k \in Pos : pos'[k] = IF k = p THEN q ELSE pos[k]
  BY <1>1 DEF PInv, Typed, q
<1>6. Typed'
  <2>1. pos' \in [Pos -> {Free} \cup Rows]
    BY <1>1, <1>4 DEF PInv, Typed, q
  <2>2. req' \in [Req -> Requests]
    BY <1>1, <1>3 DEF PInv, Typed, Requests
  <2> QED
    BY <1>2, <2>1, <2>2 DEF PInv, Typed
<1>7. ASSUME NEW k \in Pos, pos[k] \in Rows PROVE pos'[k] = pos[k] /\ k # p
  BY <1>1, <1>5, <1>7, FreeRow
<1>8. HandInv'
  <2>1. \A z \in Req : req[z].op \in {"opened", "closing"} => req[z].p \in Pos
    BY DEF PInv, Typed, Requests, Idle
  <2>2. \A z \in Req \ {r} : req'[z] = req[z]
    BY <1>1 DEF PInv, Typed
  <2>3. req'[r].op = "opened" /\ req'[r].p = p
    BY <1>1 DEF PInv, Typed
  <2> QED
    BY <1>4, <1>5, <1>7, <2>1, <2>2, <2>3 DEF PInv, HandInv, Born, Stored
<1>9. FanInv' /\ EvInv'
  <2>1. FanInv'
    BY <1>2, <1>7, FanTyped DEF PInv, FanInv, Born
  <2>2. EvInv'
    BY <1>2, <1>7 DEF PInv, EvInv, Stored
  <2> QED
    BY <2>1, <2>2
<1>10. RecordInv'
  BY <1>2, <1>4, <1>5, <1>7 DEF PInv, RecordInv
<1>11. OncePerSignal'
  BY <1>4, <1>5, FreeRow DEF PInv, OncePerSignal, Typed
<1> QED
  BY <1>6, <1>8, <1>9, <1>10, <1>11 DEF PInv

LEMMA CommitOpenStep ==
  ASSUME PInv, NEW r \in Req, CommitOpen(r)
  PROVE  PInv'
<1> DEFINE p == req[r].p
           q == [pos[p] EXCEPT !.st = "OPEN"]
<1>1. /\ req[r].op = "opened" /\ pos' = [pos EXCEPT ![p] = q] /\ req' = [req EXCEPT ![r] = Idle]
      /\ UNCHANGED <<acc, trades, opened, fan, ev, mixed>>
  BY DEF CommitOpen
<1>2. p \in Pos /\ Born(p) /\ pos[p].sig = NoSig
  BY <1>1 DEF PInv, Typed, Requests, Idle, HandInv
<1>3. q \in Rows /\ q.st = "OPEN" /\ q.own = pos[p].own /\ q.sig = NoSig
  BY <1>2 DEF Born, Rows
<1> HIDE DEF q, p
<1>4. \A k \in Pos : pos'[k] = IF k = p THEN q ELSE pos[k]
  BY <1>1, <1>2 DEF PInv, Typed
<1>5. Typed'
  BY <1>1, <1>2, <1>3 DEF PInv, Typed, Requests
<1>6. HandInv'
  <2>1. \A z \in Req : req[z].op \in {"opened", "closing"} => req[z].p \in Pos
    BY DEF PInv, Typed, Requests, Idle
  <2>2. \A z \in Req : req'[z] = IF z = r THEN Idle ELSE req[z]
    BY <1>1 DEF PInv, Typed
  <2>3. \A z \in Req \ {r} : req[z].op = "opened" => req[z].p # p
    BY <1>1 DEF PInv, HandInv, p
  <2> QED
    BY <1>2, <1>3, <1>4, <2>1, <2>2, <2>3 DEF PInv, HandInv, Born, Stored, Idle
<1>7. FanInv'
  <2>1. fan.on => p \notin fan.new
    BY <1>2, NoSigAssumption, FanTyped DEF PInv, FanInv, Fans
  <2> QED
    BY <1>1, <1>4, <2>1, FanTyped DEF PInv, FanInv, Born
<1>8. EvInv'
  BY <1>1, <1>2, <1>4 DEF PInv, EvInv, Born, Stored
<1>9. RecordInv'
  BY <1>1, <1>3, <1>4 DEF PInv, RecordInv
<1>10. OncePerSignal'
  BY <1>3, <1>4, FreeRow DEF PInv, OncePerSignal, Typed
<1> QED
  BY <1>5, <1>6, <1>7, <1>8, <1>9, <1>10 DEF PInv

\* A close settles, a reset deletes.
LEMMA CommitCloseStep ==
  ASSUME PInv, NEW r \in Req, NEW d \in Moves, CommitClose(r, d)
  PROVE  PInv'
<1> DEFINE p == req[r].p
           m == pos[p].margin
<1>1. /\ req[r].op = "closing" /\ req' = [req EXCEPT ![r] = Idle]
      /\ UNCHANGED <<opened, fan, ev, mixed>>
  BY DEF CommitClose
<1>2. p \in Pos /\ Stored(p) /\ req[r].user \in Users /\ req[r].acc \in Accounts
  BY <1>1 DEF PInv, Typed, Requests, Idle, HandInv
<1>3. req' \in [Req -> Requests] /\ \A z \in Req : req'[z] = req[z] \/ req'[z].op \notin {"opened", "closing"}
  BY <1>1 DEF PInv, Typed, Requests, Idle
<1>4. CASE pos[p].st = "gone"
  <2>1. UNCHANGED <<acc, pos, trades>>
    BY <1>4 DEF CommitClose
  <2> QED
    BY <1>1, <1>3, <2>1, Aging DEF PInv, Typed
<1>5. CASE pos[p].st # "gone"
  <2>1. /\ acc' = [acc EXCEPT ![req[r].user] = Credited(@, req[r].acc, p, Settled(m, d))]
        /\ pos' = [pos EXCEPT ![p] = Ended(@, Outcome(m, d))]
        /\ trades' = trades \cup {[p |-> p, pnl |-> Settled(m, d), why |-> "MANUAL"]}
    BY <1>5 DEF CommitClose
  <2>2. m \in Nat /\ d \in Int
    BY <1>2, MarginNat, MoneyAssumption DEF Stored
  <2>3. Settled(m, d) \in Int /\ Outcome(m, d) \in {"CLOSED", "LIQUIDATED"}
    BY <2>2, Settlements
  <2>4. /\ Ended(pos[p], Outcome(m, d)) \in Rows /\ Ended(pos[p], Outcome(m, d)).st \in {"CLOSED", "LIQUIDATED"}
        /\ Ended(pos[p], Outcome(m, d)).own = pos[p].own /\ Ended(pos[p], Outcome(m, d)).sig = pos[p].sig
    BY <1>2, <2>3, EndedRows DEF Stored
  <2>5. \A k \in Pos : pos'[k] = IF k = p THEN Ended(pos[p], Outcome(m, d)) ELSE pos[k]
    BY <1>2, <2>1 DEF PInv, Typed
  <2>6. Credited(acc[req[r].user], req[r].acc, p, Settled(m, d)) \in Accounts
    BY <1>2, <2>3, CreditedTyped DEF PInv, Typed
  <2>7. [p |-> p, pnl |-> Settled(m, d), why |-> "MANUAL"] \in Trades
    BY <1>2, <2>3 DEF Trades
  <2> HIDE DEF p, m
  <2>8. Typed'
    <3>1. acc' \in [Users -> Accounts]
      BY <2>1, <2>6 DEF PInv, Typed
    <3>2. pos' \in [Pos -> {Free} \cup Rows]
      BY <2>1, <2>4 DEF PInv, Typed
    <3>3. trades' \subseteq Trades
      BY <2>1, <2>7 DEF PInv, Typed
    <3> QED
      BY <1>1, <1>3, <3>1, <3>2, <3>3 DEF PInv, Typed
  <2> QED
    BY <1>1, <1>2, <1>3, <2>4, <2>5, <2>8, Aging DEF PInv, Stored
<1> QED
  BY <1>4, <1>5

LEMMA CommitResetStep ==
  ASSUME PInv, NEW r \in Req, CommitReset(r)
  PROVE  PInv'
<1>1. /\ req[r].op = "reset" /\ req' = [req EXCEPT ![r] = Idle]
      /\ pos' = [p \in Pos |-> IF p \in RowsOf(req[r].user) THEN Ended(pos[p], "gone") ELSE pos[p]]
      /\ trades' \subseteq trades
      /\ acc' = acc \/ acc' = [acc EXCEPT ![req[r].user] = [bal |-> Initial, in |-> NoneYet]]
      /\ UNCHANGED <<opened, fan, ev, mixed>>
  BY DEF CommitReset
<1>2. req' \in [Req -> Requests] /\ \A z \in Req : req'[z] = req[z] \/ req'[z].op \notin {"opened", "closing"}
  BY <1>1 DEF PInv, Typed, Requests, Idle
<1>3. ASSUME NEW p \in RowsOf(req[r].user) PROVE Stored(p)
  BY <1>3, FreeRow DEF RowsOf, PInv, Stored
<1>4. ASSUME NEW p \in RowsOf(req[r].user)
      PROVE  /\ Ended(pos[p], "gone") \in Rows /\ Ended(pos[p], "gone").st = "gone"
             /\ Ended(pos[p], "gone").own = pos[p].own /\ Ended(pos[p], "gone").sig = pos[p].sig
  BY <1>3, <1>4, EndedRows DEF Stored
<1>5. [bal |-> Initial, in |-> NoneYet] \in Accounts
  BY MoneyAssumption DEF Accounts, NoneYet
<1>6. Typed'
  BY <1>1, <1>2, <1>4, <1>5 DEF PInv, Typed
<1>7. \A p \in Pos : \/ pos'[p] = pos[p]
                     \/ /\ Stored(p) /\ Stored(p)'
                        /\ pos'[p].own = pos[p].own /\ pos'[p].sig = pos[p].sig
  BY <1>1, <1>3, <1>4 DEF Stored
<1> QED
  BY <1>1, <1>2, <1>6, <1>7, Aging DEF PInv

\* The engine takes up a new signal.
LEMMA NewSignalStep ==
  ASSUME PInv, NEW s \in Sigs, NEW U \in SUBSET Users, NewSignal(s, U)
  PROVE  PInv'
<1>1. /\ ~fan.on /\ fan' = [on |-> TRUE, sig |-> s, todo |-> U, met |-> {}, new |-> {}]
      /\ UNCHANGED <<acc, pos, trades, opened, req, ev, mixed>>
  BY DEF NewSignal
<1>2. fan' \in Fans
  BY <1>1 DEF Fans
<1>3. Typed' /\ HandInv' /\ EvInv' /\ OncePerSignal'
  BY <1>1, <1>2 DEF PInv, Typed, HandInv, EvInv, OncePerSignal, Born, Stored
<1>4. FanInv'
  BY <1>1 DEF FanInv
<1>5. RecordInv'
  BY <1>1 DEF PInv, RecordInv
<1> QED
  BY <1>3, <1>4, <1>5 DEF PInv

\* A user is served at most once per signal, and only if none of his rows is of it.
LEMMA ServeStep ==
  ASSUME PInv, NEW u \in Users, Serve(u)
  PROVE  PInv'
<1>1. /\ fan.on /\ u \in fan.todo /\ fan \in Fans /\ mixed' \subseteq Users
      /\ UNCHANGED <<acc, trades, opened, req, ev>>
  BY FanTyped DEF Serve, PInv, Typed
<1>2. CASE fan' = [fan EXCEPT !.todo = @ \ {u}, !.met = @ \cup {u}] /\ pos' = pos
  <2>1. fan' \in Fans /\ fan'.on /\ fan'.sig = fan.sig /\ fan'.new = fan.new /\ fan'.todo \subseteq fan.todo
    BY <1>1, <1>2 DEF Fans
  <2>2. Typed' /\ HandInv' /\ EvInv' /\ OncePerSignal'
    BY <1>1, <1>2, <2>1 DEF PInv, Typed, HandInv, EvInv, OncePerSignal, Born, Stored
  <2>3. FanInv' /\ RecordInv'
    BY <1>1, <1>2, <2>1 DEF PInv, FanInv, RecordInv, Born
  <2> QED
    BY <2>2, <2>3 DEF PInv
<1>3. ASSUME NEW p \in Pos, NEW m \in Sizes,
             ~Executed(u, fan.sig), pos[p] = Free, pos' = [pos EXCEPT ![p] = NewPosition(u, m, fan.sig)],
             fan' = [fan EXCEPT !.todo = @ \ {u}, !.met = @ \cup {u}, !.new = @ \cup {p}]
      PROVE  PInv'
  <2> DEFINE q == NewPosition(u, m, fan.sig)
  <2>0. fan.sig \in Sigs
    BY <1>1 DEF Fans
  <2>1. q \in Rows /\ q.st = "new" /\ q.own = u /\ q.sig = fan.sig
    BY <2>0, NewRows
  <2> HIDE DEF q
  <2>2. \A k \in Pos : pos'[k] = IF k = p THEN q ELSE pos[k]
    BY <1>3 DEF PInv, Typed, q
  <2>3. /\ fan' \in Fans /\ fan'.on /\ fan'.sig = fan.sig /\ fan'.new = fan.new \cup {p}
        /\ fan'.todo = fan.todo \ {u}
    BY <1>1, <1>3 DEF Fans
  <2>4. ASSUME NEW k \in Pos, pos[k] \in Rows PROVE pos'[k] = pos[k] /\ k # p
    BY <1>3, <2>2, <2>4, FreeRow
  <2>5. Typed'
    <3>1. pos' \in [Pos -> {Free} \cup Rows]
      BY <1>3, <2>1 DEF PInv, Typed, q
    <3> QED
      BY <1>1, <2>3, <3>1 DEF PInv, Typed
  <2>6. HandInv'
    <3>1. \A z \in Req : req[z].op \in {"opened", "closing"} => req[z].p \in Pos
      BY DEF PInv, Typed, Requests, Idle
    <3> QED
      BY <1>1, <2>4, <3>1 DEF PInv, HandInv, Born, Stored
  <2>7. EvInv'
    BY <1>1, <2>4 DEF PInv, EvInv, Stored
  <2>8. <<u, fan.sig>> \notin opened
    BY <1>3 DEF Executed
  <2>9. FanInv'
    <3> SUFFICES ASSUME NEW k \in fan'.new
                 PROVE  /\ pos'[k] \in Rows /\ pos'[k].st = "new" /\ pos'[k].sig = fan'.sig
                        /\ pos'[k].own \notin fan'.todo /\ <<pos'[k].own, fan'.sig>> \notin opened'
      BY DEF FanInv, Born
    <3>1. CASE k = p
      BY <1>1, <2>1, <2>2, <2>3, <2>8, <3>1
    <3>2. CASE k # p
      <4>1. k \in fan.new /\ k \in Pos
        BY <1>1, <2>3, <3>2 DEF Fans
      <4>2. pos'[k] = pos[k]
        BY <2>2, <3>2, <4>1
      <4> QED
        BY <1>1, <2>3, <4>1, <4>2 DEF PInv, FanInv, Born
    <3> QED
      BY <3>1, <3>2
  <2>10. RecordInv'
    BY <1>1, <2>1, <2>2, <2>3 DEF PInv, RecordInv
  <2>11. \A k \in Pos \ {p} : pos[k] \in Rows => <<pos[k].own, pos[k].sig>> # <<u, fan.sig>>
    <3> SUFFICES ASSUME NEW k \in Pos, pos[k] \in Rows, pos[k].own = u, pos[k].sig = fan.sig PROVE FALSE
      OBVIOUS
    <3>1. pos[k].sig # NoSig
      BY <2>0, NoSigAssumption
    <3>2. CASE pos[k].st = "new"
      BY <1>1, <3>1, <3>2 DEF PInv, RecordInv, FanInv
    <3>3. CASE pos[k].st # "new"
      BY <2>8, <3>1, <3>3 DEF PInv, RecordInv
    <3> QED
      BY <3>2, <3>3
  <2>12. OncePerSignal'
    <3> SUFFICES ASSUME NEW k \in Pos, NEW z \in Pos, k # z, pos'[k] \in Rows, pos'[z] \in Rows,
                        pos'[k].sig # NoSig, <<pos'[k].own, pos'[k].sig>> = <<pos'[z].own, pos'[z].sig>>
                 PROVE  FALSE
      BY DEF OncePerSignal
    <3>1. CASE k = p
      BY <2>1, <2>2, <2>11, <3>1
    <3>2. CASE z = p
      BY <2>1, <2>2, <2>11, <3>2
    <3>3. CASE k # p /\ z # p
      BY <2>2, <3>3 DEF PInv, OncePerSignal
    <3> QED
      BY <3>1, <3>2, <3>3
  <2> QED
    BY <2>5, <2>6, <2>7, <2>9, <2>10, <2>12 DEF PInv
<1> QED
  BY <1>2, <1>3 DEF Serve

\* The session of a signal commits its rows with their execution records.
LEMMA CommitSignalStep ==
  ASSUME PInv, CommitSignal
  PROVE  PInv'
<1>1. /\ fan.on /\ fan' = NoFan
      /\ pos' = [p \in Pos |-> IF p \in fan.new THEN [pos[p] EXCEPT !.st = "OPEN"] ELSE pos[p]]
      /\ opened' = opened \cup {<<pos[p].own, fan.sig>> : p \in fan.new}
      /\ UNCHANGED <<acc, trades, req, ev, mixed>>
  BY DEF CommitSignal
<1>2. fan \in Fans /\ fan.new \subseteq Pos /\ fan.sig \in Sigs
  BY <1>1, FanTyped DEF PInv, Fans
<1>3. ASSUME NEW p \in fan.new
      PROVE  /\ pos[p] \in Rows /\ pos[p].st = "new" /\ pos[p].sig = fan.sig
             /\ [pos[p] EXCEPT !.st = "OPEN"] \in Rows
             /\ [pos[p] EXCEPT !.st = "OPEN"].st = "OPEN"
             /\ [pos[p] EXCEPT !.st = "OPEN"].own = pos[p].own
             /\ [pos[p] EXCEPT !.st = "OPEN"].sig = pos[p].sig
  <2>1. pos[p] \in Rows /\ pos[p].st = "new" /\ pos[p].sig = fan.sig
    BY <1>1, <1>3 DEF PInv, FanInv, Born
  <2> QED
    BY <2>1 DEF Rows
<1>4. Typed'
  <2>1. pos' \in [Pos -> {Free} \cup Rows]
    BY <1>1, <1>3 DEF PInv, Typed
  <2>2. opened' \subseteq Users \X Sigs
    <3>1. \A p \in fan.new : pos[p].own \in Users
      BY <1>3 DEF Rows
    <3> QED
      BY <1>1, <1>2, <3>1 DEF PInv, Typed
  <2> QED
    BY <1>1, <2>1, <2>2 DEF PInv, Typed
<1>5. ASSUME NEW k \in Pos
      PROVE  /\ pos'[k] \in Rows <=> pos[k] \in Rows
             /\ pos[k] \in Rows => pos'[k].own = pos[k].own /\ pos'[k].sig = pos[k].sig
             /\ k \notin fan.new => pos'[k] = pos[k]
             /\ k \in fan.new => pos'[k].st = "OPEN"
  BY <1>1, <1>3
<1>6. HandInv'
  <2>1. \A z \in Req : req[z].op \in {"opened", "closing"} => req[z].p \in Pos
    BY DEF PInv, Typed, Requests, Idle
  <2>2. \A z \in Req : req[z].op = "opened" => req[z].p \notin fan.new
    BY <1>2, <1>3, NoSigAssumption DEF PInv, HandInv
  <2>3. \A z \in Req : req[z].op = "closing" => req[z].p \notin fan.new
    BY <1>3 DEF PInv, HandInv, Stored
  <2> QED
    BY <1>1, <1>5, <2>1, <2>2, <2>3 DEF PInv, HandInv, Born, Stored
<1>7. FanInv'
  BY <1>1 DEF FanInv, NoFan
<1>8. EvInv'
  <2>1. \A p \in DOMAIN ev.rows : ev # NoEvent => p \notin fan.new
    BY <1>3 DEF PInv, EvInv, Stored
  <2> QED
    BY <1>1, <1>5, <2>1 DEF PInv, EvInv, Stored
<1>9. RecordInv'
  <2> SUFFICES ASSUME NEW k \in Pos, pos'[k] \in Rows, pos'[k].sig # NoSig
               PROVE  pos'[k].st # "new" /\ <<pos'[k].own, pos'[k].sig>> \in opened'
    BY DEF RecordInv
  <2>1. CASE k \in fan.new
    BY <1>1, <1>3, <1>5, <2>1
  <2>2. CASE k \notin fan.new
    BY <1>1, <1>5, <2>2 DEF PInv, RecordInv
  <2> QED
    BY <2>1, <2>2
<1>10. OncePerSignal'
  BY <1>5 DEF PInv, OncePerSignal
<1> QED
  BY <1>4, <1>6, <1>7, <1>8, <1>9, <1>10 DEF PInv

\* ... or is undone.
LEMMA FailSignalStep ==
  ASSUME PInv, FailSignal
  PROVE  PInv'
<1>1. /\ fan.on /\ fan' = NoFan
      /\ pos' = [p \in Pos |-> IF p \in fan.new THEN Free ELSE pos[p]]
      /\ UNCHANGED <<acc, trades, opened, req, ev, mixed>>
  BY DEF FailSignal
<1>2. fan \in Fans /\ fan.new \subseteq Pos /\ fan.sig \in Sigs
  BY <1>1, FanTyped DEF PInv, Fans
<1>3. \A p \in fan.new : pos[p] \in Rows /\ pos[p].st = "new" /\ pos[p].sig = fan.sig
  BY <1>1 DEF PInv, FanInv, Born
<1>4. Typed'
  BY <1>1 DEF PInv, Typed
<1>5. \A k \in Pos : pos'[k] = IF k \in fan.new THEN Free ELSE pos[k]
  BY <1>1
<1>6. HandInv'
  <2>1. \A z \in Req : req[z].op \in {"opened", "closing"} => req[z].p \in Pos
    BY DEF PInv, Typed, Requests, Idle
  <2>2. \A z \in Req : req[z].op \in {"opened", "closing"} => req[z].p \notin fan.new
    BY <1>2, <1>3, NoSigAssumption DEF PInv, HandInv, Stored
  <2> QED
    BY <1>1, <1>5, <2>1, <2>2 DEF PInv, HandInv, Born, Stored
<1>7. FanInv'
  BY <1>1 DEF FanInv, NoFan
<1>8. EvInv'
  <2>1. \A p \in DOMAIN ev.rows : ev # NoEvent => p \notin fan.new
    BY <1>3 DEF PInv, EvInv, Stored
  <2> QED
    BY <1>1, <1>5, <2>1 DEF PInv, EvInv, Stored
<1>9. RecordInv'
  BY <1>1, <1>5, FreeRow DEF PInv, RecordInv
<1>10. OncePerSignal'
  BY <1>5, FreeRow DEF PInv, OncePerSignal
<1> QED
  BY <1>4, <1>6, <1>7, <1>8, <1>9, <1>10 DEF PInv

\* A tracker event loads the open rows of its signal.
LEMMA SignalEventStep ==
  ASSUME PInv, NEW s \in Sigs, NEW e \in {"TP1", "TP2", "TP3", "SL"}, SignalEvent(s, e)
  PROVE  PInv'
<1> DEFINE F == {p \in Pos : pos[p].st = "OPEN" /\ pos[p].sig = s}
<1>1. /\ ev' = [on |-> TRUE, e |-> e, rows |-> [p \in F |-> pos[p]], todo |-> F, done |-> {}]
      /\ mixed' \subseteq mixed \cup Users
      /\ UNCHANGED <<acc, pos, trades, opened, req, fan>>
  BY DEF SignalEvent
<1>2. \A p \in F : p \in Pos /\ pos[p] \in Rows /\ pos[p].st = "OPEN" /\ pos[p].sig = s
  BY FreeRow DEF PInv
<1>3. Typed' /\ HandInv' /\ FanInv' /\ RecordInv' /\ OncePerSignal'
  BY <1>1 DEF PInv, Typed, HandInv, FanInv, RecordInv, OncePerSignal, Born, Stored
<1>4. EvInv'
  <2>1. [p \in F |-> pos[p]] \in [F -> Rows] /\ F \in SUBSET Pos
    BY <1>2
  <2> HIDE DEF F
  <2>2. ev' \in Events
    BY <1>1, <2>1 DEF Events
  <2>3. /\ ev'.todo = F /\ DOMAIN ev'.rows = F /\ ev'.done = {}
        /\ \A p \in F : ev'.rows[p] = pos[p]
    BY <1>1
  <2> QED
    BY <1>1, <1>2, <2>1, <2>2, <2>3 DEF EvInv, Stored
<1> QED
  BY <1>3, <1>4 DEF PInv

\* An event at work.
LEMMA EventOn == ASSUME PInv, ev.on PROVE ev # NoEvent /\ ev \in Events
  BY DEF PInv, EvInv, NoEvent

\* What is decided for one of its rows.
LEMMA ManageStep ==
  ASSUME PInv, NEW p \in Pos, Manage(p)
  PROVE  PInv'
<1>1. ev.on /\ p \in ev.todo /\ UNCHANGED <<acc, pos, trades, opened, req, fan, mixed>>
  BY DEF Manage
<1>2. ev # NoEvent /\ ev \in Events
  BY <1>1, EventOn
<1>3. /\ p \in DOMAIN ev.rows /\ Stored(p) /\ pos[p].sig \in Sigs /\ ev.rows[p] \in Rows
      /\ ev.rows[p].st = "OPEN" /\ ev.rows[p].own = pos[p].own /\ ev.rows[p].sig = pos[p].sig
  BY <1>1, <1>2 DEF PInv, EvInv
<1>4. PICK x : /\ ev' = [ev EXCEPT !.todo = @ \ {p}, !.done = @ \cup {x}]
               /\ x.p = p
               /\ IF ev.e \in {"TP1", "TP2"}
                  THEN x \in Stops /\ x.row.st = "OPEN" /\ x.row.own = pos[p].own /\ x.row.sig = pos[p].sig
                  ELSE x \in Results
  <2>1. CASE ev.e \in {"TP1", "TP2"}
    <3>1. PICK b \in BOOLEAN, t \in BOOLEAN, d \in Distances :
            ev' = [ev EXCEPT !.todo = @ \ {p},
                             !.done = @ \cup {[p |-> p, row |-> Protected(ev.rows[p], b, t, d)]}]
      BY <2>1 DEF Manage
    <3>2. /\ Protected(ev.rows[p], b, t, d) \in Rows /\ Protected(ev.rows[p], b, t, d).st = "OPEN"
          /\ Protected(ev.rows[p], b, t, d).own = pos[p].own
          /\ Protected(ev.rows[p], b, t, d).sig = pos[p].sig
      BY <1>3, <2>1, ProtectedRows
    <3> DEFINE x == [p |-> p, row |-> Protected(ev.rows[p], b, t, d)]
    <3>3. x \in Stops /\ x.p = p /\ x.row = Protected(ev.rows[p], b, t, d)
      BY <3>2 DEF Stops
    <3> HIDE DEF x
    <3>4. ev' = [ev EXCEPT !.todo = @ \ {p}, !.done = @ \cup {x}]
      BY <3>1 DEF x
    <3> QED
      BY <2>1, <3>2, <3>3, <3>4
  <2>2. CASE ev.e \notin {"TP1", "TP2"}
    <3> DEFINE x == [p |-> p, acc |-> acc[pos[p].own], d |-> ExitPrice(ev.rows[p]) - Entry]
    <3>1. ev' = [ev EXCEPT !.todo = @ \ {p}, !.done = @ \cup {x}]
      BY <2>2 DEF Manage
    <3>2. acc[pos[p].own] \in Accounts
      BY <1>3 DEF PInv, Typed, Stored, Rows
    <3>3. ExitPrice(ev.rows[p]) - Entry \in Int
      BY <1>3 DEF ExitPrice, Target, Entry, Rows
    <3>4. x \in Results /\ x.p = p
      BY <3>2, <3>3 DEF Results
    <3> HIDE DEF x
    <3> QED
      BY <2>2, <3>1, <3>4
  <2> QED
    BY <2>1, <2>2
<1>5. x \in Stops \cup Results
  BY <1>4
<1>6. /\ ev'.on /\ ev'.e = ev.e /\ ev'.rows = ev.rows /\ ev'.todo = ev.todo \ {p}
      /\ ev'.done = ev.done \cup {x} /\ ev' \in Events
  BY <1>2, <1>4, <1>5 DEF Events
<1>7. EvInv'
  <2>1. ASSUME NEW k \in DOMAIN ev.rows
        PROVE  /\ Stored(k)' /\ pos'[k].sig \in Sigs
               /\ ev'.rows[k] \in Rows /\ ev'.rows[k].st = "OPEN"
               /\ ev'.rows[k].own = pos'[k].own /\ ev'.rows[k].sig = pos'[k].sig
               /\ k \in ev'.todo \/ \E y \in ev'.done : y.p = k
    <3>1. CASE k = p
      BY <1>1, <1>2, <1>3, <1>4, <1>6, <3>1 DEF Stored
    <3>2. CASE k # p
      BY <1>1, <1>2, <1>6, <3>2 DEF PInv, EvInv, Stored
    <3> QED
      BY <3>1, <3>2
  <2>2. ASSUME NEW y \in ev'.done
        PROVE  /\ y.p \in DOMAIN ev.rows
               /\ IF ev.e \in {"TP1", "TP2"}
                  THEN /\ y \in Stops /\ y.row.st = "OPEN"
                       /\ y.row.own = pos[y.p].own /\ y.row.sig = pos[y.p].sig
                  ELSE y \in Results
    <3>1. CASE y = x
      BY <1>3, <1>4, <3>1
    <3>2. CASE y \in ev.done
      BY <1>2, <3>2 DEF PInv, EvInv
    <3> QED
      BY <1>6, <3>1, <3>2
  <2>3. ev'.todo \subseteq DOMAIN ev'.rows /\ DOMAIN ev'.rows \subseteq Pos
    BY <1>2, <1>6 DEF PInv, EvInv
  <2> QED
    BY <1>1, <1>6, <2>1, <2>2, <2>3 DEF EvInv
<1>8. Typed' /\ HandInv' /\ FanInv' /\ RecordInv' /\ OncePerSignal'
  BY <1>1 DEF PInv, Typed, HandInv, FanInv, RecordInv, OncePerSignal, Born, Stored
<1> QED
  BY <1>7, <1>8 DEF PInv

\* What was decided for a row, once everything is.
LEMMA Decided ==
  ASSUME PInv, CommitEvent, NEW p \in DOMAIN ev.rows, NEW x, x = (CHOOSE y \in ev.done : y.p = p)
  PROVE  /\ x \in ev.done /\ x.p = p
         /\ IF ev.e \in {"TP1", "TP2"}
            THEN x \in Stops /\ x.row.st = "OPEN" /\ x.row.own = pos[p].own /\ x.row.sig = pos[p].sig
            ELSE x \in Results
<1>1. ev.on /\ ev.todo = {}
  BY DEF CommitEvent
<1>2. ev # NoEvent
  BY <1>1, EventOn
<1>3. \E y \in ev.done : y.p = p
  BY <1>1, <1>2 DEF PInv, EvInv
<1>4. x \in ev.done /\ x.p = p
  BY <1>3
<1> QED
  BY <1>2, <1>4 DEF PInv, EvInv

\* The result a terminal event books for a row.
ResultOf(p) == CHOOSE y \in ev.done : y.p = p
Booking(p)  == Settled(pos[p].margin, ResultOf(p).d)

LEMMA BookingTyped ==
  ASSUME PInv, CommitEvent, ev.e \notin {"TP1", "TP2"}, NEW p \in DOMAIN ev.rows
  PROVE  /\ p \in Pos /\ Stored(p) /\ pos[p].sig \in Sigs /\ Booking(p) \in Int
         /\ ResultOf(p) \in ev.done /\ ResultOf(p).acc \in Accounts
         /\ Outcome(pos[p].margin, ResultOf(p).d) \in {"CLOSED", "LIQUIDATED"}
<1>1. p \in Pos /\ Stored(p) /\ pos[p].sig \in Sigs
  BY EventOn DEF PInv, EvInv, CommitEvent
<1>2. ResultOf(p) \in ev.done /\ ResultOf(p) \in Results
  BY Decided DEF ResultOf
<1>3. pos[p].margin \in Nat
  BY <1>1, MarginNat DEF Stored
<1>4. ResultOf(p).d \in Int /\ ResultOf(p).acc \in Accounts
  BY <1>2 DEF Results
<1> QED
  BY <1>1, <1>2, <1>3, <1>4, Settlements DEF Booking

\* What a terminal event does to the accounts: each is left, or credited with one of
\* the event's rows over the account that was loaded for it.
LEMMA EventAccounts ==
  ASSUME PInv, CommitEvent, ev.e \notin {"TP1", "TP2"}, NEW u \in Users
  PROVE  \/ acc'[u] = acc[u]
         \/ \E p \in DOMAIN ev.rows : acc'[u] = Credited(acc[u], ResultOf(p).acc, p, Booking(p))
<1>1. acc' = [w \in Users |->
                 IF \E p \in DOMAIN ev.rows : pos[p].own = w
                 THEN LET p == CHOOSE p \in DOMAIN ev.rows : pos[p].own = w
                      IN Credited(acc[w], ResultOf(p).acc, p, Booking(p))
                 ELSE acc[w]]
  BY DEF CommitEvent, ResultOf, Booking
<1>2. CASE \E p \in DOMAIN ev.rows : pos[p].own = u
  <2> DEFINE k == CHOOSE p \in DOMAIN ev.rows : pos[p].own = u
  <2>1. k \in DOMAIN ev.rows
    BY <1>2
  <2>2. acc'[u] = Credited(acc[u], ResultOf(k).acc, k, Booking(k))
    BY <1>1, <1>2
  <2> HIDE DEF k
  <2> QED
    BY <2>1, <2>2
<1>3. CASE ~ \E p \in DOMAIN ev.rows : pos[p].own = u
  BY <1>1, <1>3
<1> QED
  BY <1>2, <1>3

\* An event commits its stops or its closes; its rows stay their owners'.
LEMMA CommitEventStep ==
  ASSUME PInv, CommitEvent
  PROVE  PInv'
<1>1. ev.on /\ ev # NoEvent /\ ev \in Events /\ ev' = NoEvent /\ UNCHANGED <<opened, req, fan, mixed>>
  BY EventOn DEF CommitEvent
<1>2. \A p \in DOMAIN ev.rows : p \in Pos /\ Stored(p)
  BY <1>1 DEF PInv, EvInv
<1>3. CASE ev.e \in {"TP1", "TP2"}
  <2>1. /\ pos' = [p \in Pos |-> IF p \in DOMAIN ev.rows /\ pos[p].st = "OPEN" THEN ResultOf(p).row ELSE pos[p]]
        /\ UNCHANGED <<acc, trades>>
    BY <1>3 DEF CommitEvent, ResultOf
  <2>2. ASSUME NEW p \in DOMAIN ev.rows
        PROVE  /\ ResultOf(p).row \in Rows /\ ResultOf(p).row.st = "OPEN"
               /\ ResultOf(p).row.own = pos[p].own /\ ResultOf(p).row.sig = pos[p].sig
    <3>1. /\ ResultOf(p) \in Stops /\ ResultOf(p).row.st = "OPEN"
          /\ ResultOf(p).row.own = pos[p].own /\ ResultOf(p).row.sig = pos[p].sig
      BY <1>3, Decided DEF ResultOf
    <3> QED
      BY <3>1 DEF Stops
  <2>3. Typed'
    BY <1>1, <2>1, <2>2 DEF PInv, Typed
  <2>4. \A p \in Pos : \/ pos'[p] = pos[p]
                       \/ /\ Stored(p) /\ Stored(p)'
                          /\ pos'[p].own = pos[p].own /\ pos'[p].sig = pos[p].sig
    BY <1>2, <2>1, <2>2 DEF Stored
  <2> QED
    BY <1>1, <2>3, <2>4, Aging DEF PInv
<1>4. CASE ev.e \notin {"TP1", "TP2"}
  <2>1. /\ pos' = [p \in Pos |-> IF p \in DOMAIN ev.rows
                      THEN Ended(pos[p], Outcome(pos[p].margin, ResultOf(p).d)) ELSE pos[p]]
        /\ trades' = trades \cup {[p |-> p, pnl |-> Booking(p), why |-> ev.e] : p \in DOMAIN ev.rows}
    BY <1>4 DEF CommitEvent, ResultOf, Booking
  <2>2. ASSUME NEW p \in DOMAIN ev.rows
        PROVE  LET q == Ended(pos[p], Outcome(pos[p].margin, ResultOf(p).d))
               IN  /\ q \in Rows /\ q.st \in {"CLOSED", "LIQUIDATED"}
                   /\ q.own = pos[p].own /\ q.sig = pos[p].sig
    BY <1>4, BookingTyped, EndedRows DEF Stored
  <2>3. Typed'
    <3>1. pos' \in [Pos -> {Free} \cup Rows]
      BY <2>1, <2>2 DEF PInv, Typed
    <3>2. trades' \subseteq Trades
      <4>1. ev.e \in {"TP3", "SL"}
        BY <1>1, <1>4 DEF Events
      <4>2. \A p \in DOMAIN ev.rows : p \in Pos /\ Booking(p) \in Int
        BY <1>4, BookingTyped
      <4> QED
        BY <2>1, <4>1, <4>2 DEF PInv, Typed, Trades
    <3>3. acc' \in [Users -> Accounts]
      <4>1. acc' = [u \in Users |-> acc'[u]]
        <5>1. acc' = [u \in Users |->
                 IF \E p \in DOMAIN ev.rows : pos[p].own = u
                 THEN LET p == CHOOSE p \in DOMAIN ev.rows : pos[p].own = u
                      IN Credited(acc[u], ResultOf(p).acc, p, Booking(p))
                 ELSE acc[u]]
          BY <1>4 DEF CommitEvent, ResultOf, Booking
        <5> QED
          BY <5>1
      <4>2. ASSUME NEW u \in Users PROVE acc'[u] \in Accounts
        <5>0. acc[u] \in Accounts
          BY DEF PInv, Typed
        <5>1. ASSUME NEW p \in DOMAIN ev.rows
              PROVE  Credited(acc[u], ResultOf(p).acc, p, Booking(p)) \in Accounts
          <6>1. p \in Pos /\ Booking(p) \in Int /\ ResultOf(p).acc \in Accounts
            BY <1>4, BookingTyped
          <6> QED
            BY <5>0, <6>1, CreditedTyped
        <5> QED
          BY <1>4, <5>0, <5>1, EventAccounts
      <4> QED
        BY <4>1, <4>2
    <3> QED
      BY <1>1, <3>1, <3>2, <3>3 DEF PInv, Typed
  <2>4. \A p \in Pos : \/ pos'[p] = pos[p]
                       \/ /\ Stored(p) /\ Stored(p)'
                          /\ pos'[p].own = pos[p].own /\ pos'[p].sig = pos[p].sig
    BY <1>2, <2>1, <2>2 DEF Stored
  <2> QED
    BY <1>1, <2>3, <2>4, Aging DEF PInv
<1> QED
  BY <1>3, <1>4

LEMMA FailEventStep ==
  ASSUME PInv, FailEvent
  PROVE  PInv'
<1>1. ev' = NoEvent /\ UNCHANGED <<acc, pos, trades, opened, req, fan, mixed>>
  BY DEF FailEvent
<1> QED
  BY <1>1, Aging DEF PInv, Typed

LEMMA NextPInv == PInv /\ [Next]_vars => PInv'
<1> SUFFICES ASSUME PInv, [Next]_vars PROVE PInv'
  OBVIOUS
<1>1. CASE UNCHANGED vars
  BY <1>1, Aging DEF vars, PInv, Typed
<1>2. ASSUME NEW r \in Req,
             \/ \E u \in Users, op \in {"open", "close", "reset"} : Load(r, u, op)
             \/ \E m \in Margins : Open(r, m)
             \/ CommitOpen(r)
             \/ \E p \in Pos : pos[p].st \notin {"free", "new"} /\ FindPosition(r, p)
             \/ \E d \in Moves : CommitClose(r, d)
             \/ CommitReset(r)
      PROVE  PInv'
  BY <1>2, RequestReads, OpenStep, CommitOpenStep, CommitCloseStep, CommitResetStep
<1>3. CASE Engine
  BY <1>3, NewSignalStep, ServeStep, CommitSignalStep, FailSignalStep, SignalEventStep, ManageStep,
     CommitEventStep, FailEventStep DEF Engine
<1> QED
  BY <1>1, <1>2, <1>3 DEF Next, Request

LEMMA PaperInvariant == Spec => []PInv
  BY InitPInv, NextPInv, PTL DEF Spec

\* Type correctness of paper accounts and the auto engine (TypeOK).
THEOREM PaperTypeCorrect == Spec => []TypeOK
<1>1. PInv => TypeOK
  <2> SUFFICES ASSUME PInv PROVE TypeOK
    OBVIOUS
  <2>1. \A r \in Req :
          /\ req[r].op = "idle" => req[r] = Idle
          /\ req[r] # Idle => req[r].user \in Users
          /\ req[r].op \in {"open", "close", "reset", "closing"} => req[r].acc \in Accounts
          /\ req[r].op \in {"opened", "closing"} => pos[req[r].p] \in Rows
    BY DEF PInv, Typed, Requests, Idle, HandInv, Born, Stored
  <2>2. fan.on => fan.new \subseteq Pos /\ fan.todo \cup fan.met \subseteq Users
    BY FanTyped DEF PInv, Fans
  <2>3. ev.on => ev.todo \subseteq DOMAIN ev.rows /\ DOMAIN ev.rows \subseteq Pos
    BY EventOn DEF PInv, EvInv
  <2> QED
    BY <2>1, <2>2, <2>3 DEF TypeOK, PInv, Typed
<1> QED
  BY <1>1, PaperInvariant, PTL

\* However often a signal is announced, fails half-way or meets a reset, no user has
\* two positions of it (OncePerSignal).
THEOREM OnePositionPerSignal == Spec => []OncePerSignal
<1>1. PInv => OncePerSignal
  BY DEF PInv
<1> QED
  BY <1>1, PaperInvariant, PTL

-----------------------------------------------------------------------------
(* Credits.                                                                 *)

\* A position that is not over was not over before; one by hand was one, or new.
Ages ==
    \A p \in Pos : /\ Fresh(p)' => Fresh(p)
                   /\ ByHand(p)' => ByHand(p) \/ Fresh(p)

\* An account that is fair after the step.
FairNext(a) == \A p \in Pos : (Fresh(p)' => a.in[p] = 0) /\ (ByHand(p)' => a.in[p] <= 1)

LEMMA FairAges ==
  ASSUME Ages, NEW a, Fair(a)
  PROVE  FairNext(a)
  BY DEF Ages, Fair, FairNext

\* Sessions only age rows.
LEMMA AgesStep ==
  ASSUME PInv, PInv', [Next]_vars
  PROVE  Ages
<1>1. CASE pos' = pos
  BY <1>1 DEF Ages, Fresh, ByHand
<1>2. ASSUME NEW r \in Req, NEW m \in Margins, Open(r, m) PROVE Ages
  <2>1. \A k \in Pos : pos'[k] = pos[k] \/ pos[k] = Free
    BY <1>2 DEF Open, PInv, Typed
  <2> QED
    BY <2>1 DEF Ages, Fresh, ByHand
<1>3. ASSUME NEW r \in Req, CommitOpen(r) PROVE Ages
  <2>1. req[r].p \in Pos /\ Born(req[r].p)
    BY <1>3 DEF CommitOpen, PInv, Typed, Requests, Idle, HandInv
  <2>2. \A k \in Pos : pos'[k] = pos[k] \/ pos[k].st = "new"
    BY <1>3, <2>1 DEF CommitOpen, PInv, Typed, Born
  <2> QED
    BY <2>2 DEF Ages, Fresh, ByHand
<1>4. ASSUME NEW r \in Req, NEW d \in Moves, CommitClose(r, d) PROVE Ages
  <2>1. req[r].p \in Pos /\ Stored(req[r].p)
    BY <1>4 DEF CommitClose, PInv, Typed, Requests, Idle, HandInv
  <2> DEFINE p == req[r].p
             q == Ended(pos[p], Outcome(pos[p].margin, d))
  <2>2. pos' = pos \/ pos' = [pos EXCEPT ![p] = q]
    BY <1>4 DEF CommitClose
  <2>3. q.st \in {"CLOSED", "LIQUIDATED"} /\ q.sig = pos[p].sig /\ q \in Rows
    <3>1. Outcome(pos[p].margin, d) \in {"CLOSED", "LIQUIDATED"}
      BY DEF Outcome
    <3> QED
      BY <2>1, <3>1, EndedRows DEF Stored
  <2> HIDE DEF p, q
  <2>4. \A k \in Pos : pos'[k] = pos[k] \/ (k = p /\ pos'[k] = q)
    BY <2>2 DEF PInv, Typed
  <2> QED
    BY <2>1, <2>3, <2>4, FreeRow DEF Ages, Fresh, ByHand, Stored, p
<1>5. ASSUME NEW r \in Req, CommitReset(r) PROVE Ages
  <2>1. pos' = [p \in Pos |-> IF p \in RowsOf(req[r].user) THEN Ended(pos[p], "gone") ELSE pos[p]]
    BY <1>5 DEF CommitReset
  <2>2. ASSUME NEW p \in RowsOf(req[r].user)
        PROVE  pos[p] # Free /\ Ended(pos[p], "gone") \in Rows /\ Ended(pos[p], "gone").st = "gone"
               /\ Ended(pos[p], "gone").sig = pos[p].sig
    <3>1. pos[p] \in Rows
      BY <2>2, FreeRow DEF RowsOf, PInv
    <3> QED
      BY <3>1, FreeRow, EndedRows
  <2> QED
    BY <2>1, <2>2, FreeRow DEF Ages, Fresh, ByHand
<1>6. ASSUME NEW u \in Users, Serve(u) PROVE Ages
  <2>1. \A k \in Pos : pos'[k] = pos[k] \/ pos[k] = Free
    BY <1>6 DEF Serve, PInv, Typed
  <2> QED
    BY <2>1 DEF Ages, Fresh, ByHand
<1>7. CASE CommitSignal \/ FailSignal
  <2>1. \A k \in fan.new : pos[k].st = "new"
    BY <1>7 DEF CommitSignal, FailSignal, PInv, FanInv, Born
  <2>2. \A k \in Pos : pos'[k] = pos[k] \/ pos[k].st = "new"
    BY <1>7, <2>1 DEF CommitSignal, FailSignal
  <2> QED
    BY <2>2 DEF Ages, Fresh, ByHand
<1>8. CASE CommitEvent
  <2>1. \A p \in DOMAIN ev.rows : p \in Pos /\ Stored(p) /\ pos[p].sig \in Sigs
    BY <1>8, EventOn DEF CommitEvent, PInv, EvInv
  <2>2. CASE ev.e \in {"TP1", "TP2"}
    <3>1. pos' = [p \in Pos |-> IF p \in DOMAIN ev.rows /\ pos[p].st = "OPEN" THEN ResultOf(p).row ELSE pos[p]]
      BY <1>8, <2>2 DEF CommitEvent, ResultOf
    <3>2. \A p \in DOMAIN ev.rows : ResultOf(p).row.sig = pos[p].sig
      BY <1>8, <2>2, Decided DEF ResultOf
    <3> QED
      BY <2>1, <3>1, <3>2, NoSigAssumption DEF Ages, Fresh, ByHand
  <2>3. CASE ev.e \notin {"TP1", "TP2"}
    <3>1. pos' = [p \in Pos |-> IF p \in DOMAIN ev.rows
                      THEN Ended(pos[p], Outcome(pos[p].margin, ResultOf(p).d)) ELSE pos[p]]
      BY <1>8, <2>3 DEF CommitEvent, ResultOf
    <3>2. ASSUME NEW p \in DOMAIN ev.rows
          PROVE  LET q == Ended(pos[p], Outcome(pos[p].margin, ResultOf(p).d))
                 IN  q \in Rows /\ q.st \in {"CLOSED", "LIQUIDATED"} /\ q.sig = pos[p].sig
      BY <1>8, <2>3, BookingTyped, EndedRows DEF Stored
    <3> QED
      BY <2>1, <3>1, <3>2, FreeRow, NoSigAssumption DEF Ages, Fresh, ByHand
  <2> QED
    BY <2>2, <2>3
<1>9. CASE Engine
  <2>1. CASE \/ \E s \in Sigs, U \in SUBSET Users : NewSignal(s, U)
             \/ \E s \in Sigs, e \in {"TP1", "TP2", "TP3", "SL"} : SignalEvent(s, e)
             \/ \E p \in Pos : Manage(p)
             \/ FailEvent
    BY <1>1, <2>1 DEF NewSignal, SignalEvent, Manage, FailEvent
  <2> QED
    BY <1>6, <1>7, <1>8, <1>9, <2>1 DEF Engine
<1>10. CASE Request
  <2>1. ASSUME NEW r \in Req,
               \/ \E u \in Users, op \in {"open", "close", "reset"} : Load(r, u, op)
               \/ \E p \in Pos : FindPosition(r, p)
        PROVE  pos' = pos
    BY <2>1 DEF Load, FindPosition
  <2> QED
    BY <1>1, <1>2, <1>3, <1>4, <1>5, <1>10, <2>1 DEF Request
<1> QED
  BY <1>1, <1>9, <1>10 DEF Next, vars

\* The account a credit leaves is fair when the loaded one was, the position had not
\* been credited in it or is a signal's, and is over now.
LEMMA CreditFair ==
  ASSUME Ages, NEW now \in Accounts, NEW a \in Accounts, Fair(now), Fair(a),
         NEW p \in Pos, NEW pnl \in Int, ~Fresh(p)', ByHand(p)' => a.in[p] = 0
  PROVE  FairNext(Credited(now, a, p, pnl))
<1> DEFINE c == Credited(now, a, p, pnl)
<1>1. \/ c = now
      \/ c.in[p] = a.in[p] + 1 /\ \A q \in Pos \ {p} : c.in[q] = a.in[q]
  BY CreditedTyped
<1> HIDE DEF c
<1>2. FairNext(now) /\ FairNext(a)
  BY FairAges
<1>3. CASE c = now
  BY <1>2, <1>3 DEF c
<1>4. CASE c.in[p] = a.in[p] + 1 /\ \A q \in Pos \ {p} : c.in[q] = a.in[q]
  <2>1. FairNext(c)
    <3> SUFFICES ASSUME NEW q \in Pos
                 PROVE  (Fresh(q)' => c.in[q] = 0) /\ (ByHand(q)' => c.in[q] <= 1)
      BY DEF FairNext
    <3>1. CASE q = p
      BY <1>4, <3>1
    <3>2. CASE q # p
      BY <1>2, <1>4, <3>2 DEF FairNext
    <3> QED
      BY <3>1, <3>2
  <2> QED
    BY <2>1 DEF c
<1> QED
  BY <1>1, <1>3, <1>4

\* What is to be shown of a step: the accounts it writes, loads or keeps are fair.
Loaded == {"open", "close", "reset", "closing"}
LEMMA CreditStep ==
  ASSUME CreditInv, Ages,
         \A u \in Users : acc'[u] = acc[u] \/ FairNext(acc'[u]),
         \A r \in Req : \/ req'[r] = req[r] \/ req'[r].op \notin Loaded
                        \/ /\ FairNext(req'[r].acc)
                           /\ req'[r].op = "closing" => req'[r].acc.in[req'[r].p] = 0,
         \/ ~ev'.on \/ ev' = ev
         \/ ev'.e \in {"TP3", "SL"} =>
              \A x \in ev'.done : FairNext(x.acc) \/ (ev.on /\ ev.e \in {"TP3", "SL"} /\ x \in ev.done)
  PROVE  CreditInv'
<1>1. ASSUME NEW u \in Users PROVE FairNext(acc'[u])
  BY FairAges DEF CreditInv
<1>2. ASSUME NEW r \in Req, req'[r].op \in Loaded
      PROVE  FairNext(req'[r].acc) /\ (req'[r].op = "closing" => req'[r].acc.in[req'[r].p] = 0)
  <2>1. CASE req'[r] = req[r]
    <3>1. Fair(req[r].acc) /\ (req[r].op = "closing" => req[r].acc.in[req[r].p] = 0)
      BY <1>2, <2>1 DEF CreditInv, Loaded
    <3> QED
      BY <2>1, <3>1, FairAges
  <2>2. CASE req'[r] # req[r]
    BY <1>2, <2>2
  <2> QED
    BY <2>1, <2>2
<1>3. ASSUME ev'.on, ev'.e \in {"TP3", "SL"}, NEW x \in ev'.done PROVE FairNext(x.acc)
  <2>1. CASE ev.on /\ ev.e \in {"TP3", "SL"} /\ x \in ev.done
    BY <2>1, FairAges DEF CreditInv
  <2> QED
    BY <1>3, <2>1
<1> QED
  BY <1>1, <1>2, <1>3 DEF CreditInv, Fair, FairNext, Loaded

LEMMA CreditRequests ==
  ASSUME PInv, PInv', CreditInv, Ages, Request
  PROVE  CreditInv'
<1> USE DEF Loaded, Idle
<1>1. PICK r \in Req :
        \/ \E u \in Users, op \in {"open", "close", "reset"} : Load(r, u, op)
        \/ \E m \in Margins : Open(r, m)
        \/ CommitOpen(r)
        \/ \E p \in Pos : FindPosition(r, p)
        \/ \E d \in Moves : CommitClose(r, d)
        \/ CommitReset(r)
  BY DEF Request
<1>2. req \in [Req -> Requests] /\ ev' = ev
  BY <1>1 DEF PInv, Typed, Load, Open, CommitOpen, FindPosition, CommitClose, CommitReset
<1>3. ASSUME NEW u \in Users, NEW op \in {"open", "close", "reset"}, Load(r, u, op) PROVE CreditInv'
  <2>1. acc' = acc /\ req' = [req EXCEPT ![r] = [op |-> op, user |-> u, acc |-> acc[u]]]
    BY <1>3 DEF Load
  <2>2. FairNext(acc[u])
    BY FairAges DEF CreditInv
  <2>3. \A z \in Req : req'[z] = req[z] \/ (req'[z].acc = acc[u] /\ req'[z].op # "closing")
    BY <1>2, <2>1
  <2> QED
    BY <1>2, <2>1, <2>2, <2>3, CreditStep
<1>4. CASE (\E m \in Margins : Open(r, m)) \/ CommitOpen(r)
  <2>1. acc' = acc /\ \A z \in Req : req'[z] = req[z] \/ req'[z].op \notin Loaded
    BY <1>2, <1>4 DEF Open, CommitOpen
  <2> QED
    BY <1>2, <2>1, CreditStep
<1>5. ASSUME NEW p \in Pos, FindPosition(r, p) PROVE CreditInv'
  <2>1. acc' = acc /\ req[r].op = "close"
    BY <1>5 DEF FindPosition
  <2>2. \/ req' = [req EXCEPT ![r] = Idle]
        \/ /\ pos[p].st = "OPEN"
           /\ req' = [req EXCEPT ![r] = [op |-> "closing", user |-> req[r].user, acc |-> req[r].acc, p |-> p]]
    BY <1>5 DEF FindPosition, Closable
  <2>3. Fair(req[r].acc) /\ FairNext(req[r].acc)
    BY <2>1, FairAges DEF CreditInv
  <2>4. pos[p].st = "OPEN" => req[r].acc.in[p] = 0
    BY <2>3 DEF Fair, Fresh
  <2>5. \A z \in Req : \/ req'[z] = req[z] \/ req'[z].op \notin Loaded
                       \/ /\ FairNext(req'[z].acc)
                          /\ req'[z].op = "closing" => req'[z].acc.in[req'[z].p] = 0
    BY <1>2, <2>2, <2>3, <2>4
  <2> QED
    BY <1>2, <2>1, <2>5, CreditStep
<1>6. ASSUME NEW d \in Moves, CommitClose(r, d) PROVE CreditInv'
  <2>1. req[r].op = "closing" /\ req' = [req EXCEPT ![r] = Idle]
    BY <1>6 DEF CommitClose
  <2>2. \A z \in Req : req'[z] = req[z] \/ req'[z].op \notin Loaded
    BY <1>2, <2>1
  <2>3. req[r].p \in Pos
    BY <2>1 DEF PInv, Typed, Requests
  <2>4. PICK p \in Pos : p = req[r].p
    BY <2>3
  <2>5. CASE pos[p].st = "gone"
    <3>1. acc' = acc
      BY <1>6, <2>4, <2>5 DEF CommitClose
    <3> QED
      BY <1>2, <2>2, <3>1, CreditStep
  <2>6. CASE pos[p].st # "gone"
    <3> DEFINE m == pos[p].margin
    <3>1. /\ acc' = [acc EXCEPT ![req[r].user] = Credited(acc[req[r].user], req[r].acc, p, Settled(m, d))]
          /\ pos' = [pos EXCEPT ![p] = Ended(@, Outcome(m, d))]
      BY <1>6, <2>4, <2>6 DEF CommitClose
    <3>2. Stored(p) /\ req[r].user \in Users /\ req[r].acc \in Accounts
      BY <2>1, <2>4 DEF PInv, Typed, Requests, HandInv
    <3>3. m \in Nat /\ d \in Int
      BY <3>2, MarginNat, MoneyAssumption DEF Stored
    <3> HIDE DEF m
    <3>4. Settled(m, d) \in Int /\ Outcome(m, d) \in {"CLOSED", "LIQUIDATED"}
      BY <3>3, Settlements
    <3>5. ~Fresh(p)'
      <4>1. Ended(pos[p], Outcome(m, d)) \in Rows /\ Ended(pos[p], Outcome(m, d)).st \in {"CLOSED", "LIQUIDATED"}
        BY <3>2, <3>4, EndedRows DEF Stored
      <4>2. pos'[p] = Ended(pos[p], Outcome(m, d))
        BY <3>1 DEF PInv, Typed
      <4> QED
        BY <4>1, <4>2, FreeRow DEF Fresh
    <3>6. Fair(req[r].acc) /\ req[r].acc.in[p] = 0 /\ Fair(acc[req[r].user])
      BY <2>1, <2>4, <3>2 DEF CreditInv
    <3>7. acc[req[r].user] \in Accounts
      BY <3>2 DEF PInv, Typed
    <3>8. ByHand(p)' => req[r].acc.in[p] = 0
      BY <3>6
    <3>9. FairNext(Credited(acc[req[r].user], req[r].acc, p, Settled(m, d)))
      BY <3>2, <3>4, <3>5, <3>6, <3>7, <3>8, CreditFair
    <3>10. \A u \in Users : acc'[u] = acc[u] \/ FairNext(acc'[u])
      BY <3>1, <3>2, <3>9 DEF PInv, Typed
    <3> QED
      BY <1>2, <2>2, <3>10, CreditStep
  <2> QED
    BY <2>5, <2>6
<1>7. CASE CommitReset(r)
  <2>1. \/ acc' = acc
        \/ acc' = [acc EXCEPT ![req[r].user] = [bal |-> Initial, in |-> NoneYet]]
    BY <1>7 DEF CommitReset
  <2>2. req' = [req EXCEPT ![r] = Idle]
    BY <1>7 DEF CommitReset
  <2>3. FairNext([bal |-> Initial, in |-> NoneYet])
    BY DEF FairNext, NoneYet
  <2>4. \A u \in Users : acc'[u] = acc[u] \/ FairNext(acc'[u])
    BY <2>1, <2>3 DEF PInv, Typed
  <2>5. \A z \in Req : req'[z] = req[z] \/ req'[z].op \notin Loaded
    BY <1>2, <2>2
  <2> QED
    BY <1>2, <2>4, <2>5, CreditStep
<1> QED
  BY <1>1, <1>3, <1>4, <1>5, <1>6, <1>7

LEMMA CreditEngine ==
  ASSUME PInv, PInv', CreditInv, Ages, Engine
  PROVE  CreditInv'
<1>1. req' = req
  BY DEF Engine, NewSignal, Serve, CommitSignal, FailSignal, SignalEvent, Manage, CommitEvent, FailEvent
<1>2. CASE \/ \E s \in Sigs, U \in SUBSET Users : NewSignal(s, U)
           \/ \E u \in Users : Serve(u)
           \/ CommitSignal \/ FailSignal \/ FailEvent
  <2>1. acc' = acc
    BY <1>2 DEF NewSignal, Serve, CommitSignal, FailSignal, FailEvent
  <2>2. CASE FailEvent
    <3>1. ~ev'.on
      BY <2>2 DEF FailEvent, NoEvent
    <3> QED
      BY <1>1, <2>1, <3>1, CreditStep
  <2>3. CASE ~FailEvent
    <3>1. ev' = ev
      BY <1>2, <2>3 DEF NewSignal, Serve, CommitSignal, FailSignal
    <3> QED
      BY <1>1, <2>1, <3>1, CreditStep
  <2> QED
    BY <2>2, <2>3
<1>3. ASSUME NEW s \in Sigs, NEW e \in {"TP1", "TP2", "TP3", "SL"}, SignalEvent(s, e) PROVE CreditInv'
  <2>1. acc' = acc /\ ev'.done = {}
    BY <1>3 DEF SignalEvent
  <2> QED
    BY <1>1, <2>1, CreditStep
<1>4. ASSUME NEW p \in Pos, Manage(p) PROVE CreditInv'
  <2>1. acc' = acc /\ ev.on /\ ev \in Events /\ p \in ev.todo
    BY <1>4, EventOn DEF Manage
  <2>2. CASE ev.e \in {"TP1", "TP2"}
    <3>1. ev'.e = ev.e
      BY <1>4, <2>1, <2>2 DEF Manage, Events
    <3> QED
      BY <1>1, <2>1, <2>2, <3>1, CreditStep
  <2>3. CASE ev.e \notin {"TP1", "TP2"}
    <3> DEFINE x == [p |-> p, acc |-> acc[pos[p].own], d |-> ExitPrice(ev.rows[p]) - Entry]
    <3>1. ev' = [ev EXCEPT !.todo = @ \ {p}, !.done = @ \cup {x}]
      BY <1>4, <2>3 DEF Manage
    <3>2. x.acc = acc[pos[p].own]
      OBVIOUS
    <3> HIDE DEF x
    <3>3. ev'.done = ev.done \cup {x}
      BY <2>1, <3>1 DEF Events
    <3>4. pos[p].own \in Users
      BY <2>1, EventOn DEF PInv, EvInv, Stored, Rows
    <3>5. FairNext(x.acc)
      BY <3>2, <3>4, FairAges DEF CreditInv
    <3>6. ev.e \in {"TP3", "SL"}
      BY <2>1, <2>3 DEF Events
    <3> QED
      BY <1>1, <2>1, <3>3, <3>5, <3>6, CreditStep
  <2> QED
    BY <2>2, <2>3
<1>5. CASE CommitEvent
  <2>1. ~ev'.on
    BY <1>5 DEF CommitEvent, NoEvent
  <2>2. CASE ev.e \in {"TP1", "TP2"}
    <3>1. acc' = acc
      BY <1>5, <2>2 DEF CommitEvent
    <3> QED
      BY <1>1, <2>1, <3>1, CreditStep
  <2>3. CASE ev.e \notin {"TP1", "TP2"}
    <3>1. pos' = [p \in Pos |-> IF p \in DOMAIN ev.rows
                      THEN Ended(pos[p], Outcome(pos[p].margin, ResultOf(p).d)) ELSE pos[p]]
      BY <1>5, <2>3 DEF CommitEvent, ResultOf
    <3>2. ASSUME NEW p \in DOMAIN ev.rows PROVE ~Fresh(p)' /\ ~ByHand(p)'
      <4>1. p \in Pos /\ Stored(p) /\ pos[p].sig \in Sigs
            /\ Outcome(pos[p].margin, ResultOf(p).d) \in {"CLOSED", "LIQUIDATED"}
        BY <1>5, <2>3, <3>2, BookingTyped
      <4>2. LET q == Ended(pos[p], Outcome(pos[p].margin, ResultOf(p).d))
            IN  q \in Rows /\ q.st \in {"CLOSED", "LIQUIDATED"} /\ q.sig = pos[p].sig
        BY <4>1, EndedRows DEF Stored
      <4> QED
        BY <3>1, <3>2, <4>1, <4>2, FreeRow, NoSigAssumption DEF Fresh, ByHand
    <3>3. ASSUME NEW u \in Users, NEW p \in DOMAIN ev.rows
          PROVE  FairNext(Credited(acc[u], ResultOf(p).acc, p, Booking(p)))
      <4>1. /\ p \in Pos /\ Booking(p) \in Int
            /\ ResultOf(p) \in ev.done /\ ResultOf(p).acc \in Accounts
        BY <1>5, <2>3, <3>3, BookingTyped
      <4>2. Fair(ResultOf(p).acc)
        <5>1. ev.on /\ ev.e \in {"TP3", "SL"}
          BY <1>5, <2>3, EventOn DEF CommitEvent, Events
        <5> QED
          BY <4>1, <5>1 DEF CreditInv
      <4>3. acc[u] \in Accounts /\ Fair(acc[u])
        BY DEF PInv, Typed, CreditInv
      <4> QED
        BY <3>2, <3>3, <4>1, <4>2, <4>3, CreditFair
    <3>4. \A u \in Users : acc'[u] = acc[u] \/ FairNext(acc'[u])
      BY <1>5, <2>3, <3>3, EventAccounts
    <3> QED
      BY <1>1, <2>1, <3>4, CreditStep
  <2> QED
    BY <2>2, <2>3
<1> QED
  BY <1>2, <1>3, <1>4, <1>5 DEF Engine

\* However the closes of a position by hand and resets interleave, its result is in
\* the balance once at most: a session loads the account before it finds the position
\* open, so every result it could count twice is missing from what it loaded
\* (NoDoubleCredit).
THEOREM CreditedOnceByHand == Spec => []NoDoubleCredit
<1>1. Init => CreditInv
  BY DEF Init, CreditInv, Fair, NoneYet, Idle, NoEvent
<1>2. PInv /\ PInv' /\ CreditInv /\ [Next]_vars => CreditInv'
  <2> SUFFICES ASSUME PInv, PInv', CreditInv, [Next]_vars PROVE CreditInv'
    OBVIOUS
  <2>1. Ages
    BY AgesStep
  <2>2. CASE UNCHANGED vars
    BY <2>1, <2>2, CreditStep DEF vars
  <2> QED
    BY <2>1, <2>2, CreditRequests, CreditEngine DEF Next
<1>3. CreditInv => NoDoubleCredit
  BY DEF CreditInv, Fair, ByHand, NoDoubleCredit
<1> QED
  BY <1>1, <1>2, <1>3, PaperInvariant, PTL DEF Spec

-----------------------------------------------------------------------------
(* Sums over finite sets, by induction over their subsets: a least number   *)
(* with a counterexample.                                                   *)

\* A set of numbers has a least one.
LEMMA LeastOf ==
  ASSUME NEW T, T \subseteq Nat, T # {}
  PROVE  \E n \in T : \A m \in T : n <= m
<1> DEFINE R == OpToRel(<, Nat)
<1>1. R = {p \in Nat \X Nat : p[1] < p[2]}
  BY DEF OpToRel
<1>2. IsWellFoundedOn(R, Nat)
  BY NatLessThanWellFounded
<1> HIDE DEF R
<1>3. PICK n \in T : \A m \in T : ~(<<m, n>> \in R)
  BY <1>2, WFMin
<1>4. ASSUME NEW m \in T PROVE n <= m
  <2>1. m \in Nat /\ n \in Nat
    OBVIOUS
  <2>2. ~(m < n)
    BY <1>1, <1>3, <2>1
  <2> QED
    BY <2>1, <2>2
<1> QED
  BY <1>4

Picked(s) == CHOOSE x \in s : TRUE
Rest(s) == s \ {Picked(s)}
Part(f, it, s) == IF s = {} THEN 0 ELSE f[Picked(s)] + it[Rest(s)]

Solves(f, it, S) == it = [s \in SUBSET S |-> Part(f, it, s)]

LEMMA Unfold ==
  ASSUME NEW f, NEW S
  PROVE  SumFunctionOnSet(f, S) = (CHOOSE it : Solves(f, it, S))[S]
BY DEF SumFunctionOnSet, FoldFunctionOnSet, MapThenFoldSet, Solves, Part, Picked, Rest

LEMMA RestSmaller ==
  ASSUME NEW s, s # {}, IsFiniteSet(s)
  PROVE  /\ Picked(s) \in s /\ Rest(s) \subseteq s /\ Picked(s) \notin Rest(s) /\ s = Rest(s) \cup {Picked(s)}
         /\ IsFiniteSet(Rest(s)) /\ Cardinality(Rest(s)) = Cardinality(s) - 1
         /\ Cardinality(s) \in Nat \ {0}
<1>1. Picked(s) \in s
  BY DEF Picked
<1>2. IsFiniteSet(Rest(s)) /\ Cardinality(Rest(s)) = Cardinality(s) - 1
  BY <1>1, FS_RemoveElement DEF Rest
<1>3. Cardinality(s) \in Nat /\ Cardinality(s) # 0
  BY FS_CardinalityType, FS_EmptySet
<1> QED
  BY <1>1, <1>2, <1>3 DEF Rest

\* Induction over the subsets of a finite set, with a set of the good ones.
LEMMA BySubsets ==
  ASSUME NEW S, IsFiniteSet(S), NEW G,
         \A s \in SUBSET S : (\A t \in SUBSET s : t # s => t \in G) => s \in G
  PROVE  S \in G
<1> SUFFICES ASSUME S \notin G PROVE FALSE
  OBVIOUS
<1> DEFINE Bad == {n \in Nat : \E s \in SUBSET S : s \notin G /\ Cardinality(s) = n}
<1>1. \A s \in SUBSET S : IsFiniteSet(s) /\ Cardinality(s) \in Nat
  BY FS_Subset, FS_CardinalityType
<1>2. Bad # {}
  BY <1>1
<1>3. PICK n \in Bad : \A m \in Bad : n <= m
  BY <1>2, LeastOf
<1>4. PICK s \in SUBSET S : s \notin G /\ Cardinality(s) = n
  BY <1>3
<1>5. PICK t \in SUBSET s : t # s /\ t \notin G
  BY <1>4
<1>6. Cardinality(t) \in Nat /\ Cardinality(t) <= n /\ Cardinality(t) # n
  BY <1>1, <1>4, <1>5, FS_Subset
<1>7. Cardinality(t) \in Bad
  BY <1>5, <1>6
<1> QED
  BY <1>3, <1>6, <1>7

\* The recursion of the sum has a solution.
LEMMA SumExists ==
  ASSUME NEW f, NEW S, IsFiniteSet(S)
  PROVE  \E it : Solves(f, it, S)
<1> DEFINE Small(n) == {s \in SUBSET S : Cardinality(s) <= n}
           Good(n) == \E it : it = [s \in Small(n) |-> Part(f, it, s)]
           Bad == {n \in Nat : ~Good(n)}
<1>0. \A s \in SUBSET S : IsFiniteSet(s) /\ Cardinality(s) \in Nat /\ Cardinality(s) <= Cardinality(S)
  BY FS_Subset, FS_CardinalityType
<1>1. Good(0)
  <2>1. \A s \in Small(0) : s = {}
    BY <1>0, FS_EmptySet
  <2> DEFINE it == [s \in Small(0) |-> 0]
  <2>2. it = [s \in Small(0) |-> Part(f, it, s)]
    BY <2>1 DEF Part
  <2> QED
    BY <2>2
<1>2. ASSUME NEW n \in Nat, Good(n) PROVE Good(n + 1)
  <2>1. PICK it : it = [s \in Small(n) |-> Part(f, it, s)]
    BY <1>2
  <2> DEFINE new == [s \in Small(n + 1) |-> Part(f, it, s)]
  <2>2. ASSUME NEW s \in Small(n + 1), s # {} PROVE Rest(s) \in Small(n)
    BY <1>0, <2>2, RestSmaller
  <2>3. ASSUME NEW s \in Small(n) PROVE s \in Small(n + 1) /\ new[s] = it[s]
    <3>1. s \in Small(n + 1)
      BY <1>0
    <3> QED
      BY <2>1, <3>1
  <2>4. ASSUME NEW s \in Small(n + 1) PROVE Part(f, it, s) = Part(f, new, s)
    BY <2>2, <2>3 DEF Part
  <2>5. new = [s \in Small(n + 1) |-> Part(f, new, s)]
    BY <2>4
  <2> QED
    BY <2>5
<1>3. Bad = {}
  <2> SUFFICES ASSUME Bad # {} PROVE FALSE
    OBVIOUS
  <2>1. PICK n \in Bad : \A m \in Bad : n <= m
    BY LeastOf
  <2> HIDE DEF Good
  <2>2. n \in Nat /\ n # 0 /\ ~Good(n)
    BY <1>1, <2>1
  <2>3. PICK p \in Nat : p + 1 = n
    BY <2>2
  <2>4. p \notin Bad
    BY <2>1, <2>3
  <2>5. Good(p + 1)
    BY <1>2, <2>4
  <2> QED
    BY <2>2, <2>3, <2>5
<1>4. Cardinality(S) \in Nat /\ Small(Cardinality(S)) = SUBSET S
  BY <1>0, FS_CardinalityType
<1>5. Good(Cardinality(S))
  BY <1>3, <1>4
<1> QED
  BY <1>4, <1>5 DEF Solves

\* Two solutions agree wherever both are defined.
LEMMA SumUnique ==
  ASSUME NEW f, NEW S, IsFiniteSet(S), NEW R \in SUBSET S, NEW u, NEW v,
         Solves(f, u, S), Solves(f, v, R)
  PROVE  u[R] = v[R]
<1> DEFINE G == {s \in SUBSET R : u[s] = v[s]}
<1>1. ASSUME NEW s \in SUBSET R, \A t \in SUBSET s : t # s => t \in G PROVE s \in G
  <2>1. u[s] = Part(f, u, s) /\ v[s] = Part(f, v, s)
    BY DEF Solves
  <2>2. ASSUME s # {} PROVE u[Rest(s)] = v[Rest(s)]
    <3>1. Rest(s) \in SUBSET s /\ Rest(s) # s
      BY <2>2 DEF Rest, Picked
    <3> QED
      BY <1>1, <3>1
  <2>3. Part(f, u, s) = Part(f, v, s)
    BY <2>2 DEF Part
  <2> QED
    BY <2>1, <2>3
<1>2. IsFiniteSet(R)
  BY FS_Subset
<1> HIDE DEF G
<1>3. R \in G
  BY <1>1, <1>2, BySubsets
<1> QED
  BY <1>3 DEF G

\* A sum is that of one element and of the rest.
LEMMA SumPart ==
  ASSUME NEW f, NEW S, IsFiniteSet(S)
  PROVE  /\ S = {} => SumFunctionOnSet(f, S) = 0
         /\ S # {} => SumFunctionOnSet(f, S) = f[Picked(S)] + SumFunctionOnSet(f, Rest(S))
<1>1. PICK u : u = CHOOSE it : Solves(f, it, S)
  OBVIOUS
<1>2. Solves(f, u, S) /\ SumFunctionOnSet(f, S) = u[S]
  BY <1>1, SumExists, Unfold
<1>3. u[S] = Part(f, u, S)
  BY <1>2 DEF Solves
<1>4. CASE S = {}
  BY <1>2, <1>3, <1>4 DEF Part
<1>5. CASE S # {}
  <2>1. PICK R : R = Rest(S)
    OBVIOUS
  <2>2. R \in SUBSET S /\ IsFiniteSet(R)
    BY <1>5, <2>1, RestSmaller
  <2>3. PICK v : v = CHOOSE it : Solves(f, it, R)
    OBVIOUS
  <2>4. Solves(f, v, R) /\ SumFunctionOnSet(f, R) = v[R]
    BY <2>2, <2>3, SumExists, Unfold
  <2>5. u[R] = v[R]
    BY <1>2, <2>2, <2>4, SumUnique
  <2> QED
    BY <1>2, <1>3, <1>5, <2>1, <2>4, <2>5 DEF Part
<1> QED
  BY <1>4, <1>5

LEMMA SumType ==
  ASSUME NEW S, IsFiniteSet(S), NEW f, \A x \in S : f[x] \in Int
  PROVE  SumFunctionOnSet(f, S) \in Int
<1> DEFINE G == {s \in SUBSET S : SumFunctionOnSet(f, s) \in Int}
<1>1. ASSUME NEW s \in SUBSET S, \A t \in SUBSET s : t # s => t \in G PROVE s \in G
  <2>1. IsFiniteSet(s)
    BY FS_Subset
  <2>2. CASE s = {}
    <3>1. SumFunctionOnSet(f, s) = 0
      BY <2>1, <2>2, SumPart
    <3> QED
      BY <3>1
  <2>3. CASE s # {}
    <3>1. Rest(s) \in SUBSET s /\ Rest(s) # s /\ Picked(s) \in S
      BY <2>1, <2>3, RestSmaller
    <3>2. SumFunctionOnSet(f, Rest(s)) \in Int
      BY <1>1, <3>1
    <3> QED
      BY <2>1, <2>3, <3>1, <3>2, SumPart
  <2> QED
    BY <2>2, <2>3
<1> HIDE DEF G
<1>2. S \in G
  BY <1>1, BySubsets
<1> QED
  BY <1>2 DEF G

\* The order does not matter: any element can be taken out first.
LEMMA SumTake ==
  ASSUME NEW S, IsFiniteSet(S), NEW f, \A x \in S : f[x] \in Int, NEW x \in S
  PROVE  SumFunctionOnSet(f, S) = f[x] + SumFunctionOnSet(f, S \ {x})
<1> DEFINE G == {s \in SUBSET S : \A y \in s : SumFunctionOnSet(f, s) = f[y] + SumFunctionOnSet(f, s \ {y})}
<1>1. ASSUME NEW s \in SUBSET S, \A t \in SUBSET s : t # s => t \in G PROVE s \in G
  <2> SUFFICES ASSUME NEW y \in s PROVE SumFunctionOnSet(f, s) = f[y] + SumFunctionOnSet(f, s \ {y})
    OBVIOUS
  <2>1. IsFiniteSet(s) /\ s # {}
    BY FS_Subset
  <2> DEFINE c == Picked(s)
             r == s \ {c}
             w == s \ {y}
             b == r \ {y}
  <2>2. c \in s /\ r = Rest(s)
    BY <2>1, RestSmaller DEF Rest
  <2>3. SumFunctionOnSet(f, s) = f[c] + SumFunctionOnSet(f, r)
    BY <2>1, <2>2, SumPart
  <2>4. CASE y = c
    BY <2>3, <2>4
  <2>5. CASE y # c
    <3>1. r \in SUBSET s /\ r # s /\ y \in r /\ w \in SUBSET s /\ w # s /\ c \in w /\ w \ {c} = b
      BY <2>2, <2>5
    <3>2. SumFunctionOnSet(f, r) = f[y] + SumFunctionOnSet(f, b)
      BY <1>1, <3>1
    <3>3. SumFunctionOnSet(f, w) = f[c] + SumFunctionOnSet(f, b)
      BY <1>1, <3>1
    <3>4. b \in SUBSET S /\ IsFiniteSet(b)
      BY <3>1, FS_Subset
    <3>5. SumFunctionOnSet(f, b) \in Int
      BY <3>4, SumType
    <3>6. f[c] \in Int /\ f[y] \in Int
      BY <2>2
    <3> HIDE DEF c, r, w, b
    <3>7. SumFunctionOnSet(f, s) = f[y] + SumFunctionOnSet(f, w)
      BY <2>3, <3>2, <3>3, <3>5, <3>6
    <3> QED
      BY <3>7 DEF w
  <2> QED
    BY <2>4, <2>5
<1> HIDE DEF G
<1>2. S \in G
  BY <1>1, BySubsets
<1> QED
  BY <1>2 DEF G

\* Larger terms make a larger sum, equal ones an equal sum.
LEMMA SumMonotone ==
  ASSUME NEW S, IsFiniteSet(S), NEW f, NEW g,
         \A x \in S : f[x] \in Int /\ g[x] \in Int /\ f[x] <= g[x]
  PROVE  SumFunctionOnSet(f, S) <= SumFunctionOnSet(g, S)
<1> DEFINE G == {s \in SUBSET S : SumFunctionOnSet(f, s) <= SumFunctionOnSet(g, s)}
<1>1. ASSUME NEW s \in SUBSET S, \A t \in SUBSET s : t # s => t \in G PROVE s \in G
  <2>1. IsFiniteSet(s)
    BY FS_Subset
  <2>2. CASE s = {}
    <3>1. SumFunctionOnSet(f, s) = 0 /\ SumFunctionOnSet(g, s) = 0
      BY <2>1, <2>2, SumPart
    <3> QED
      BY <3>1
  <2>3. CASE s # {}
    <3>1. Rest(s) \in SUBSET s /\ Rest(s) # s /\ Picked(s) \in S /\ IsFiniteSet(Rest(s))
      BY <2>1, <2>3, RestSmaller
    <3>2. SumFunctionOnSet(f, Rest(s)) <= SumFunctionOnSet(g, Rest(s))
      BY <1>1, <3>1
    <3>3. SumFunctionOnSet(f, Rest(s)) \in Int /\ SumFunctionOnSet(g, Rest(s)) \in Int
      BY <3>1, SumType
    <3>4. f[Picked(s)] \in Int /\ g[Picked(s)] \in Int /\ f[Picked(s)] <= g[Picked(s)]
      BY <3>1
    <3>5. /\ SumFunctionOnSet(f, s) = f[Picked(s)] + SumFunctionOnSet(f, Rest(s))
          /\ SumFunctionOnSet(g, s) = g[Picked(s)] + SumFunctionOnSet(g, Rest(s))
      BY <2>1, <2>3, SumPart
    <3> QED
      BY <3>2, <3>3, <3>4, <3>5
  <2> QED
    BY <2>2, <2>3
<1> HIDE DEF G
<1>2. S \in G
  BY <1>1, BySubsets
<1> QED
  BY <1>2 DEF G

\* Sums of functions: of an empty one, as an integer, with one term more.
LEMMA SumNothing ==
  ASSUME NEW f, DOMAIN f = {}
  PROVE  SumFunction(f) = 0
<1>1. IsFiniteSet({})
  BY FS_EmptySet
<1> QED
  BY <1>1, SumPart DEF SumFunction

LEMMA SumInt ==
  ASSUME NEW S, IsFiniteSet(S), NEW f \in [S -> Int]
  PROVE  SumFunction(f) \in Int
<1>1. \A x \in S : f[x] \in Int
  OBVIOUS
<1>2. SumFunctionOnSet(f, S) \in Int
  BY <1>1, SumType
<1> QED
  BY <1>2 DEF SumFunction

LEMMA SumPlus ==
  ASSUME NEW S, IsFiniteSet(S), NEW x, x \notin S, NEW f \in [S -> Int], NEW g \in [S \cup {x} -> Int],
         \A y \in S : g[y] = f[y]
  PROVE  SumFunction(g) = SumFunction(f) + g[x]
<1> DEFINE T == S \cup {x}
<1>1. IsFiniteSet(T) /\ T \ {x} = S /\ x \in T /\ \A y \in T : g[y] \in Int
  BY FS_AddElement
<1> HIDE DEF T
<1>2. SumFunctionOnSet(g, T) = g[x] + SumFunctionOnSet(g, S)
  BY <1>1, SumTake
<1>3. \A y \in S : f[y] \in Int /\ g[y] \in Int /\ f[y] <= g[y] /\ g[y] <= f[y]
  OBVIOUS
<1>4. SumFunctionOnSet(f, S) <= SumFunctionOnSet(g, S)
  BY <1>3, SumMonotone
<1>5. SumFunctionOnSet(g, S) <= SumFunctionOnSet(f, S)
  BY <1>3, SumMonotone
<1>6. SumFunctionOnSet(f, S) \in Int /\ SumFunctionOnSet(g, S) \in Int
  BY <1>3, SumType
<1>7. SumFunction(g) = SumFunctionOnSet(g, T) /\ SumFunction(f) = SumFunctionOnSet(f, S)
  BY DEF SumFunction, T
<1>8. g[x] \in Int
  BY <1>1
<1> QED
  BY <1>2, <1>4, <1>5, <1>6, <1>7, <1>8

-----------------------------------------------------------------------------
(* Balances.                                                                *)

\* Whose the rows are: those of trades are committed, an open request's and a served
\* user's are their own, and an event's keep their margins.
OwnInv ==
    /\ \A t \in trades : Stored(t.p)
    /\ \A r \in Req : req[r].op = "opened" => pos[req[r].p].own = req[r].user
    /\ fan.on => \A p \in fan.new : pos[p].own \in fan.met
    /\ ev.on => /\ \A p, q \in DOMAIN ev.rows : pos[p].sig = pos[q].sig
                /\ \A p \in DOMAIN ev.rows : ev.rows[p].margin = pos[p].margin
                /\ ev.e \in {"TP1", "TP2"} => \A x \in ev.done : x.row.margin = pos[x.p].margin

\* A row that stays its owner's, its signal's and as large as it was.
Keeps(p) ==
    /\ pos[p] \in Rows /\ pos'[p] \in Rows
    /\ pos'[p].own = pos[p].own /\ pos'[p].sig = pos[p].sig /\ pos'[p].margin = pos[p].margin
    /\ pos[p].st # "new" => pos'[p].st # "new"

LEMMA RowsStep ==
  ASSUME PInv, OwnInv, [Next]_vars, NEW p \in Pos, pos[p] \in Rows
  PROVE  Keeps(p) \/ (pos[p].st = "new" /\ pos'[p] = Free)
<1>1. CASE pos' = pos
  BY <1>1 DEF Keeps
<1>2. ASSUME NEW r \in Req, NEW m \in Margins, Open(r, m) PROVE Keeps(p)
  <2>1. \A k \in Pos : pos'[k] = pos[k] \/ pos[k] = Free
    BY <1>2 DEF Open, PInv, Typed
  <2> QED
    BY <2>1, FreeRow DEF Keeps
<1>3. ASSUME NEW r \in Req, CommitOpen(r) PROVE Keeps(p)
  <2> DEFINE q == [pos[p] EXCEPT !.st = "OPEN"]
  <2>1. q \in Rows /\ q.own = pos[p].own /\ q.sig = pos[p].sig /\ q.margin = pos[p].margin /\ q.st = "OPEN"
    BY DEF Rows
  <2>2. pos'[p] = pos[p] \/ pos'[p] = q
    BY <1>3 DEF CommitOpen, PInv, Typed
  <2> HIDE DEF q
  <2> QED
    BY <2>1, <2>2 DEF Keeps
<1>4. ASSUME NEW r \in Req, NEW d \in Moves, CommitClose(r, d) PROVE Keeps(p)
  <2>1. PICK k : k = req[r].p
    OBVIOUS
  <2> DEFINE o == Outcome(pos[k].margin, d)
  <2>2. pos' = pos \/ pos' = [pos EXCEPT ![k] = Ended(@, o)]
    BY <1>4, <2>1 DEF CommitClose
  <2>3. o \in {"CLOSED", "LIQUIDATED"}
    BY DEF Outcome
  <2> HIDE DEF o
  <2>4. pos'[p] = pos[p] \/ pos'[p] = Ended(pos[p], o)
    BY <2>2 DEF PInv, Typed
  <2> QED
    BY <2>3, <2>4, EndedRows DEF Keeps
<1>5. ASSUME NEW r \in Req, CommitReset(r) PROVE Keeps(p)
  <2>1. pos'[p] = pos[p] \/ pos'[p] = Ended(pos[p], "gone")
    BY <1>5 DEF CommitReset
  <2> QED
    BY <2>1, EndedRows DEF Keeps
<1>6. ASSUME NEW u \in Users, Serve(u) PROVE Keeps(p)
  <2>1. \A k \in Pos : pos'[k] = pos[k] \/ pos[k] = Free
    BY <1>6 DEF Serve, PInv, Typed
  <2> QED
    BY <2>1, FreeRow DEF Keeps
<1>7. CASE CommitSignal
  <2> DEFINE q == [pos[p] EXCEPT !.st = "OPEN"]
  <2>1. q \in Rows /\ q.own = pos[p].own /\ q.sig = pos[p].sig /\ q.margin = pos[p].margin /\ q.st = "OPEN"
    BY DEF Rows
  <2>2. pos'[p] = pos[p] \/ pos'[p] = q
    BY <1>7 DEF CommitSignal
  <2> HIDE DEF q
  <2> QED
    BY <2>1, <2>2 DEF Keeps
<1>8. CASE FailSignal
  <2>1. p \in fan.new => pos[p].st = "new"
    BY <1>8 DEF FailSignal, PInv, FanInv, Born
  <2>2. pos'[p] = IF p \in fan.new THEN Free ELSE pos[p]
    BY <1>8 DEF FailSignal
  <2> QED
    BY <2>1, <2>2 DEF Keeps
<1>9. CASE CommitEvent
  <2>1. CASE ev.e \in {"TP1", "TP2"}
    <3>1. pos'[p] = IF p \in DOMAIN ev.rows /\ pos[p].st = "OPEN" THEN ResultOf(p).row ELSE pos[p]
      BY <1>9, <2>1 DEF CommitEvent, ResultOf
    <3>2. ASSUME p \in DOMAIN ev.rows
          PROVE  /\ ResultOf(p).row \in Rows /\ ResultOf(p).row.own = pos[p].own
                 /\ ResultOf(p).row.sig = pos[p].sig /\ ResultOf(p).row.margin = pos[p].margin
                 /\ ResultOf(p).row.st = "OPEN"
      <4>1. /\ ResultOf(p) \in ev.done /\ ResultOf(p).p = p /\ ResultOf(p) \in Stops
            /\ ResultOf(p).row.own = pos[p].own /\ ResultOf(p).row.sig = pos[p].sig
            /\ ResultOf(p).row.st = "OPEN"
        BY <1>9, <2>1, <3>2, Decided DEF ResultOf
      <4>2. ev.on
        BY <1>9 DEF CommitEvent
      <4>3. ResultOf(p).row.margin = pos[p].margin
        BY <2>1, <4>1, <4>2 DEF OwnInv
      <4> QED
        BY <4>1, <4>3 DEF Stops
    <3> QED
      BY <3>1, <3>2 DEF Keeps
  <2>2. CASE ev.e \notin {"TP1", "TP2"}
    <3> DEFINE o == Outcome(pos[p].margin, ResultOf(p).d)
    <3>1. pos'[p] = IF p \in DOMAIN ev.rows THEN Ended(pos[p], o) ELSE pos[p]
      BY <1>9, <2>2 DEF CommitEvent, ResultOf
    <3>2. o \in {"CLOSED", "LIQUIDATED"}
      BY DEF Outcome
    <3> HIDE DEF o
    <3> QED
      BY <3>1, <3>2, EndedRows DEF Keeps
  <2> QED
    BY <2>1, <2>2
<1>10. CASE Engine
  <2>1. CASE \/ \E s \in Sigs, U \in SUBSET Users : NewSignal(s, U)
             \/ \E s \in Sigs, e \in {"TP1", "TP2", "TP3", "SL"} : SignalEvent(s, e)
             \/ \E k \in Pos : Manage(k)
             \/ FailEvent
    BY <1>1, <2>1 DEF NewSignal, SignalEvent, Manage, FailEvent
  <2> QED
    BY <1>6, <1>7, <1>8, <1>9, <1>10, <2>1 DEF Engine
<1>11. CASE Request
  <2>1. ASSUME NEW r \in Req,
               \/ \E u \in Users, op \in {"open", "close", "reset"} : Load(r, u, op)
               \/ \E k \in Pos : FindPosition(r, k)
        PROVE  pos' = pos
    BY <2>1 DEF Load, FindPosition
  <2> QED
    BY <1>1, <1>2, <1>3, <1>4, <1>5, <1>11, <2>1 DEF Request
<1> QED
  BY <1>1, <1>10, <1>11 DEF Next, vars


\* What a step adds to the trades, the open requests and the rows of a signal.
LEMMA OwnStep ==
  ASSUME PInv, PInv', OwnInv, [Next]_vars,
         \A t \in trades' : t \in trades \/ (t.p \in Pos /\ Stored(t.p)),
         \A r \in Req : req'[r].op = "opened" =>
             \/ req'[r] = req[r]
             \/ pos'[req'[r].p].own = req'[r].user,
         fan'.on => /\ \A p \in fan'.new : (fan.on /\ p \in fan.new) \/ pos'[p].own \in fan'.met
                    /\ fan.on => fan.met \subseteq fan'.met,
         ev'.on =>
             /\ \/ ev.on /\ ev'.rows = ev.rows /\ ev'.e = ev.e
                \/ \E s \in Sigs : \A p \in DOMAIN ev'.rows : Stored(p) /\ pos[p].sig = s /\ ev'.rows[p] = pos[p]
             /\ ev'.e \in {"TP1", "TP2"} => \A x \in ev'.done :
                  (ev.on /\ ev'.e = ev.e /\ x \in ev.done) \/ x.row.margin = pos[x.p].margin
  PROVE  OwnInv'
<1>1. \A p \in Pos : Stored(p) => Keeps(p) /\ Stored(p)'
  BY RowsStep, FreeRow DEF Stored, Keeps
<1>2. \A p \in Pos : Born(p) /\ pos'[p] # Free => Keeps(p)
  BY RowsStep DEF Born
<1>3. ASSUME NEW t \in trades' PROVE Stored(t.p)'
  <2>1. t.p \in Pos
    BY DEF PInv, Typed, Trades
  <2> QED
    BY <1>1, <2>1 DEF OwnInv
<1>4. ASSUME NEW r \in Req, req'[r].op = "opened" PROVE pos'[req'[r].p].own = req'[r].user
  <2>1. CASE req'[r] = req[r]
    <3>1. req[r].p \in Pos /\ Born(req[r].p) /\ pos'[req[r].p] \in Rows
      BY <1>4, <2>1 DEF PInv, Typed, Requests, Idle, HandInv, Born
    <3>2. Keeps(req[r].p)
      BY <1>2, <3>1, FreeRow
    <3> QED
      BY <1>4, <2>1, <3>2 DEF OwnInv, Keeps
  <2> QED
    BY <1>4, <2>1
<1>5. ASSUME fan'.on, NEW p \in fan'.new PROVE pos'[p].own \in fan'.met
  <2>1. CASE fan.on /\ p \in fan.new
    <3>1. p \in Pos /\ Born(p)
      BY <2>1, FanTyped DEF PInv, FanInv
    <3>2. pos'[p] \in Rows
      BY <1>5 DEF PInv, FanInv, Born
    <3>3. Keeps(p)
      BY <1>2, <3>1, <3>2, FreeRow
    <3> QED
      BY <1>5, <2>1, <3>3 DEF OwnInv, Keeps
  <2> QED
    BY <1>5, <2>1
<1>6. ASSUME ev'.on
      PROVE  /\ \A p, q \in DOMAIN ev'.rows : pos'[p].sig = pos'[q].sig
             /\ \A p \in DOMAIN ev'.rows : ev'.rows[p].margin = pos'[p].margin
             /\ ev'.e \in {"TP1", "TP2"} => \A x \in ev'.done : x.row.margin = pos'[x.p].margin
  <2>1. ev' # NoEvent /\ DOMAIN ev'.rows \subseteq Pos /\ \A x \in ev'.done : x.p \in DOMAIN ev'.rows
    BY <1>6 DEF PInv, EvInv, NoEvent
  <2>2. \A p \in DOMAIN ev'.rows : Stored(p)
    BY <1>6, EventOn DEF PInv, EvInv
  <2>3. \A p \in DOMAIN ev'.rows : pos'[p].sig = pos[p].sig /\ pos'[p].margin = pos[p].margin
    BY <1>1, <2>1, <2>2 DEF Keeps
  <2>4. /\ \A p, q \in DOMAIN ev'.rows : pos[p].sig = pos[q].sig
        /\ \A p \in DOMAIN ev'.rows : ev'.rows[p].margin = pos[p].margin
    BY <1>6 DEF OwnInv
  <2>5. ev'.e \in {"TP1", "TP2"} => \A x \in ev'.done : x.row.margin = pos[x.p].margin
    BY <1>6 DEF OwnInv
  <2> QED
    BY <2>1, <2>3, <2>4, <2>5
<1> QED
  BY <1>3, <1>4, <1>5, <1>6 DEF OwnInv

LEMMA OwnRequests ==
  ASSUME PInv, PInv', OwnInv, Request
  PROVE  OwnInv'
<1>0. [Next]_vars
  BY DEF Next
<1> USE DEF Idle
<1>1. PICK r \in Req :
        \/ \E u \in Users, op \in {"open", "close", "reset"} : Load(r, u, op)
        \/ \E m \in Margins : Open(r, m)
        \/ CommitOpen(r)
        \/ \E p \in Pos : FindPosition(r, p)
        \/ \E d \in Moves : CommitClose(r, d)
        \/ CommitReset(r)
  BY DEF Request
<1>2. req \in [Req -> Requests] /\ ev' = ev /\ fan' = fan
  BY <1>1 DEF PInv, Typed, Load, Open, CommitOpen, FindPosition, CommitClose, CommitReset
<1>3. \A t \in trades' : t \in trades \/ (t.p \in Pos /\ Stored(t.p))
  <2>1. ASSUME NEW d \in Moves, CommitClose(r, d), NEW t \in trades', t \notin trades
        PROVE  t.p \in Pos /\ Stored(t.p)
    <3>1. req[r].op = "closing" /\ t.p = req[r].p
      BY <2>1 DEF CommitClose
    <3> QED
      BY <3>1 DEF PInv, Typed, Requests, HandInv
  <2>2. CASE CommitReset(r)
    BY <2>2 DEF CommitReset
  <2>3. CASE \/ \E u \in Users, op \in {"open", "close", "reset"} : Load(r, u, op)
             \/ \E m \in Margins : Open(r, m)
             \/ CommitOpen(r)
             \/ \E p \in Pos : FindPosition(r, p)
    BY <2>3 DEF Load, Open, CommitOpen, FindPosition
  <2> QED
    BY <1>1, <2>1, <2>2, <2>3
<1>4. \A z \in Req : req'[z].op = "opened" => req'[z] = req[z] \/ pos'[req'[z].p].own = req'[z].user
  <2>1. ASSUME NEW m \in Margins, Open(r, m)
        PROVE  \A z \in Req : req'[z].op = "opened" => req'[z] = req[z] \/ pos'[req'[z].p].own = req'[z].user
    <3>1. CASE req' = [req EXCEPT ![r] = Idle]
      BY <1>2, <3>1
    <3>2. ASSUME NEW p \in Pos, pos' = [pos EXCEPT ![p] = NewPosition(req[r].user, m, NoSig)],
                 req' = [req EXCEPT ![r] = [op |-> "opened", user |-> req[r].user, p |-> p]]
          PROVE  \A z \in Req : req'[z].op = "opened" => req'[z] = req[z] \/ pos'[req'[z].p].own = req'[z].user
      <4>1. pos'[p].own = req[r].user
        BY <3>2 DEF NewPosition, PInv, Typed
      <4> QED
        BY <1>2, <3>2, <4>1
    <3> QED
      BY <2>1, <3>1, <3>2 DEF Open
  <2>2. ASSUME \/ \E u \in Users, op \in {"open", "close", "reset"} : Load(r, u, op)
               \/ CommitOpen(r)
               \/ \E p \in Pos : FindPosition(r, p)
               \/ \E d \in Moves : CommitClose(r, d)
               \/ CommitReset(r)
        PROVE  \A z \in Req : req'[z] = req[z] \/ req'[z].op # "opened"
    BY <1>2, <2>2 DEF Load, CommitOpen, FindPosition, CommitClose, CommitReset
  <2> QED
    BY <1>1, <2>1, <2>2
<1> QED
  BY <1>0, <1>2, <1>3, <1>4, OwnStep

LEMMA OwnEngine ==
  ASSUME PInv, PInv', OwnInv, Engine
  PROVE  OwnInv'
<1>0. [Next]_vars
  BY DEF Next
<1>1. req' = req
  BY DEF Engine, NewSignal, Serve, CommitSignal, FailSignal, SignalEvent, Manage, CommitEvent, FailEvent
<1>2. CASE \/ \E s \in Sigs, U \in SUBSET Users : NewSignal(s, U)
           \/ CommitSignal \/ FailSignal
  <2>1. trades' = trades /\ ev' = ev /\ (fan'.on => ~fan.on /\ fan'.new = {})
    BY <1>2 DEF NewSignal, CommitSignal, FailSignal, NoFan
  <2> QED
    BY <1>0, <1>1, <2>1, OwnStep
<1>3. ASSUME NEW u \in Users, Serve(u) PROVE OwnInv'
  <2>1. fan.on /\ fan \in Fans /\ trades' = trades /\ ev' = ev
    BY <1>3, FanTyped DEF Serve, PInv
  <2>2. \/ fan' = [fan EXCEPT !.todo = @ \ {u}, !.met = @ \cup {u}]
        \/ \E p \in Pos, m \in Sizes :
             /\ pos' = [pos EXCEPT ![p] = NewPosition(u, m, fan.sig)]
             /\ fan' = [fan EXCEPT !.todo = @ \ {u}, !.met = @ \cup {u}, !.new = @ \cup {p}]
    BY <1>3 DEF Serve
  <2>3. CASE fan' = [fan EXCEPT !.todo = @ \ {u}, !.met = @ \cup {u}]
    <3>1. fan'.new = fan.new /\ fan.met \subseteq fan'.met
      BY <2>1, <2>3 DEF Fans
    <3> QED
      BY <1>0, <1>1, <2>1, <3>1, OwnStep
  <2>4. ASSUME NEW p \in Pos, NEW m \in Sizes, pos' = [pos EXCEPT ![p] = NewPosition(u, m, fan.sig)],
               fan' = [fan EXCEPT !.todo = @ \ {u}, !.met = @ \cup {u}, !.new = @ \cup {p}]
        PROVE  OwnInv'
    <3>1. fan'.new = fan.new \cup {p} /\ fan.met \subseteq fan'.met /\ u \in fan'.met
      BY <2>1, <2>4 DEF Fans
    <3>2. pos'[p].own = u
      BY <2>4 DEF NewPosition, PInv, Typed
    <3>3. \A k \in fan'.new : (fan.on /\ k \in fan.new) \/ pos'[k].own \in fan'.met
      BY <2>1, <3>1, <3>2
    <3> QED
      BY <1>0, <1>1, <2>1, <3>1, <3>3, OwnStep
  <2> QED
    BY <2>2, <2>3, <2>4
<1>4. ASSUME NEW s \in Sigs, NEW e \in {"TP1", "TP2", "TP3", "SL"}, SignalEvent(s, e) PROVE OwnInv'
  <2> DEFINE F == {p \in Pos : pos[p].st = "OPEN" /\ pos[p].sig = s}
  <2>1. /\ ev' = [on |-> TRUE, e |-> e, rows |-> [p \in F |-> pos[p]], todo |-> F, done |-> {}]
        /\ trades' = trades /\ fan' = fan
    BY <1>4 DEF SignalEvent
  <2>2. \A p \in F : Stored(p) /\ pos[p].sig = s
    BY FreeRow DEF PInv, Stored
  <2> HIDE DEF F
  <2>3. DOMAIN ev'.rows = F /\ ev'.done = {} /\ \A p \in F : ev'.rows[p] = pos[p]
    BY <2>1
  <2>4. \E x \in Sigs : \A p \in DOMAIN ev'.rows : Stored(p) /\ pos[p].sig = x /\ ev'.rows[p] = pos[p]
    BY <2>2, <2>3
  <2> QED
    BY <1>0, <1>1, <2>1, <2>3, <2>4, OwnStep
<1>5. ASSUME NEW p \in Pos, Manage(p) PROVE OwnInv'
  <2>1. ev.on /\ ev \in Events /\ trades' = trades /\ fan' = fan /\ p \in ev.todo
    BY <1>5, EventOn DEF Manage
  <2>2. CASE ev.e \in {"TP1", "TP2"}
    <3>1. PICK b \in BOOLEAN, t \in BOOLEAN, d \in Distances :
            ev' = [ev EXCEPT !.todo = @ \ {p},
                             !.done = @ \cup {[p |-> p, row |-> Protected(ev.rows[p], b, t, d)]}]
      BY <1>5, <2>2 DEF Manage
    <3>2. /\ p \in DOMAIN ev.rows /\ ev.rows[p] \in Rows /\ ev.rows[p].st = "OPEN"
          /\ ev.rows[p].margin = pos[p].margin
      BY <2>1, EventOn DEF PInv, EvInv, OwnInv
    <3> DEFINE x == [p |-> p, row |-> Protected(ev.rows[p], b, t, d)]
    <3>3. x.p = p /\ x.row.margin = pos[p].margin
      BY <2>2, <3>2, ProtectedRows
    <3> HIDE DEF x
    <3>4. ev' = [ev EXCEPT !.todo = @ \ {p}, !.done = @ \cup {x}]
      BY <3>1 DEF x
    <3>5. ev'.rows = ev.rows /\ ev'.e = ev.e /\ ev'.done = ev.done \cup {x}
      BY <2>1, <3>4 DEF Events
    <3>6. \A y \in ev'.done : (ev.on /\ ev'.e = ev.e /\ y \in ev.done) \/ y.row.margin = pos[y.p].margin
      BY <2>1, <3>3, <3>5
    <3> QED
      BY <1>0, <1>1, <2>1, <3>5, <3>6, OwnStep
  <2>3. CASE ev.e \notin {"TP1", "TP2"}
    <3>1. ev'.rows = ev.rows /\ ev'.e = ev.e
      BY <1>5, <2>1, <2>3 DEF Manage, Events
    <3> QED
      BY <1>0, <1>1, <2>1, <2>3, <3>1, OwnStep
  <2> QED
    BY <2>2, <2>3
<1>6. CASE CommitEvent \/ FailEvent
  <2>1. ~ev'.on /\ fan' = fan
    BY <1>6 DEF CommitEvent, FailEvent, NoEvent
  <2>2. \A t \in trades' : t \in trades \/ (t.p \in Pos /\ Stored(t.p))
    <3>1. CASE FailEvent
      BY <3>1 DEF FailEvent
    <3>2. CASE CommitEvent
      <4>1. \A p \in DOMAIN ev.rows : p \in Pos /\ Stored(p)
        BY <3>2, EventOn DEF CommitEvent, PInv, EvInv
      <4>2. \A t \in trades' : t \in trades \/ t.p \in DOMAIN ev.rows
        BY <3>2 DEF CommitEvent
      <4> QED
        BY <4>1, <4>2
    <3> QED
      BY <1>6, <3>1, <3>2
  <2> QED
    BY <1>0, <1>1, <2>1, <2>2, OwnStep
<1> QED
  BY <1>2, <1>3, <1>4, <1>5, <1>6 DEF Engine

LEMMA OwnInvariant == Spec => []OwnInv
<1>1. Init => OwnInv
  BY DEF Init, OwnInv, Idle, NoFan, NoEvent
<1>2. PInv /\ PInv' /\ OwnInv /\ [Next]_vars => OwnInv'
  <2> SUFFICES ASSUME PInv, PInv', OwnInv, [Next]_vars PROVE OwnInv'
    OBVIOUS
  <2>1. CASE UNCHANGED vars
    BY <2>1 DEF vars, OwnInv, Stored
  <2> QED
    BY <2>1, OwnRequests, OwnEngine DEF Next
<1> QED
  BY <1>1, <1>2, PaperInvariant, PTL DEF Spec

-----------------------------------------------------------------------------
\* The sessions of a user that are under way: requests, a signal, an event.
Hands(u)   == {r \in Req : req[r] # Idle /\ req[r].user = u}
Served(u)  == fan.on /\ u \in fan.met
Watched(u) == ev.on /\ \E p \in DOMAIN ev.rows : pos[p].own = u

\* One session at most.
Alone(u) ==
    /\ \A r, z \in Hands(u) : r = z
    /\ Hands(u) # {} => ~Served(u) /\ ~Watched(u)
    /\ Served(u) => ~Watched(u)

\* What it has read still holds: the account, the position it closes, the margin of the
\* row it opens.
ReadNow(u, r) ==
    /\ req[r].op \in Loaded => req[r].acc = acc[u]
    /\ req[r].op = "closing" => pos[req[r].p].st = "OPEN"
    /\ req[r].op = "opened" => UsedMargin(u) + pos[req[r].p].margin <= acc[u].bal
Current(u) ==
    /\ \A r \in Hands(u) : ReadNow(u, r)
    /\ fan.on => \A p \in fan.new : pos[p].own = u => UsedMargin(u) + pos[p].margin <= acc[u].bal
    /\ ev.on => \A p \in DOMAIN ev.rows : pos[p].own = u =>
         /\ pos[p].st = "OPEN"
         /\ ev.e \in {"TP3", "SL"} => \A x \in ev.done : x.p = p => x.acc = acc[u]

\* The books of a user: no position that is not over has a trade.
Won(u) == SumFunction([t \in TradesOf(u) |-> t.pnl])
Balanced(u) ==
    /\ IsFiniteSet(TradesOf(u))
    /\ \A t \in TradesOf(u) : pos[t.p].st \in {"CLOSED", "LIQUIDATED"}
    /\ acc[u].bal = Initial + Won(u) /\ UsedMargin(u) <= acc[u].bal
Books(u) == Alone(u) /\ Current(u) /\ Balanced(u)

-----------------------------------------------------------------------------
\* The margins in use: an integer, and how it changes with the open positions.
LEMMA OpenRows ==
  ASSUME Typed, NEW u
  PROVE  /\ OpenOf(u) \subseteq Pos /\ IsFiniteSet(OpenOf(u))
         /\ \A p \in OpenOf(u) : pos[p] \in Rows /\ pos[p].margin \in Int
<1>1. OpenOf(u) \in SUBSET Pos
  BY DEF OpenOf
<1>2. IsFiniteSet(OpenOf(u))
  BY <1>1, PosAssumption, FS_Subset
<1>3. \A p \in OpenOf(u) : pos[p] \in Rows
  BY FreeRow DEF OpenOf
<1> QED
  BY <1>1, <1>2, <1>3, MarginNat

LEMMA UsedInt == ASSUME Typed, NEW u PROVE UsedMargin(u) \in Int
<1>1. [p \in OpenOf(u) |-> pos[p].margin] \in [OpenOf(u) -> Int]
  BY OpenRows
<1> QED
  BY <1>1, OpenRows, SumInt DEF UsedMargin

LEMMA UsedSame ==
  ASSUME NEW u, OpenOf(u)' = OpenOf(u), \A p \in OpenOf(u) : pos'[p].margin = pos[p].margin
  PROVE  UsedMargin(u)' = UsedMargin(u)
<1>1. [p \in OpenOf(u)' |-> pos'[p].margin] = [p \in OpenOf(u) |-> pos[p].margin]
  OBVIOUS
<1> QED
  BY <1>1 DEF UsedMargin

LEMMA UsedMore ==
  ASSUME Typed, Typed', NEW u, NEW p, p \notin OpenOf(u), OpenOf(u)' = OpenOf(u) \cup {p},
         \A k \in OpenOf(u) : pos'[k].margin = pos[k].margin
  PROVE  UsedMargin(u)' = UsedMargin(u) + pos'[p].margin
<1> DEFINE S == OpenOf(u)
           f == [k \in S |-> pos[k].margin]
           g == [k \in S \cup {p} |-> pos'[k].margin]
<1>1. IsFiniteSet(S) /\ f \in [S -> Int]
  BY OpenRows
<1>2. \A k \in OpenOf(u)' : pos'[k].margin \in Int
  <2>1. \A q \in Rows : q.margin \in Int
    BY MarginNat
  <2>2. \A k \in OpenOf(u)' : pos'[k] \in {Free} \cup Rows /\ pos'[k].st = "OPEN"
    BY DEF OpenOf, Typed
  <2> QED
    BY <2>1, <2>2, FreeRow
<1>3. g \in [S \cup {p} -> Int]
  <2>1. \A k \in S \cup {p} : pos'[k].margin \in Int
    BY <1>2
  <2> QED
    BY <2>1
<1>4. p \notin S /\ \A k \in S : g[k] = f[k]
  OBVIOUS
<1>5. UsedMargin(u)' = SumFunction(g) /\ UsedMargin(u) = SumFunction(f) /\ g[p] = pos'[p].margin
  BY DEF UsedMargin
<1> HIDE DEF f, g, S
<1>6. SumFunction(g) = SumFunction(f) + g[p]
  <2>1. PICK a, b, T : a = f /\ b = g /\ T = S
    OBVIOUS
  <2>2. /\ IsFiniteSet(T) /\ p \notin T /\ a \in [T -> Int] /\ b \in [T \cup {p} -> Int]
        /\ \A k \in T : b[k] = a[k]
    BY <1>1, <1>3, <1>4, <2>1
  <2>3. SumFunction(b) = SumFunction(a) + b[p]
    BY <2>2, SumPlus
  <2> QED
    BY <2>1, <2>3
<1> QED
  BY <1>5, <1>6

LEMMA UsedLess ==
  ASSUME Typed, Typed', NEW u, NEW p, p \in OpenOf(u), OpenOf(u)' = OpenOf(u) \ {p},
         \A k \in OpenOf(u) \ {p} : pos'[k].margin = pos[k].margin
  PROVE  UsedMargin(u)' = UsedMargin(u) - pos[p].margin
<1> DEFINE S == OpenOf(u) \ {p}
           f == [k \in S |-> pos'[k].margin]
           g == [k \in S \cup {p} |-> pos[k].margin]
<1>1. IsFiniteSet(S) /\ S \cup {p} = OpenOf(u)
  BY OpenRows, FS_RemoveElement
<1>2. g \in [S \cup {p} -> Int] /\ f \in [S -> Int] /\ \A k \in S : g[k] = f[k]
  BY OpenRows
<1>3. UsedMargin(u)' = SumFunction(f)
  BY DEF UsedMargin
<1>4. UsedMargin(u) = SumFunction(g)
  BY <1>1 DEF UsedMargin
<1>5. p \notin S /\ g[p] = pos[p].margin
  OBVIOUS
<1> HIDE DEF f, g, S
<1>6. SumFunction(g) = SumFunction(f) + g[p]
  <2>1. PICK a, b, T : a = f /\ b = g /\ T = S
    OBVIOUS
  <2>2. /\ IsFiniteSet(T) /\ p \notin T /\ a \in [T -> Int] /\ b \in [T \cup {p} -> Int]
        /\ \A k \in T : b[k] = a[k]
    BY <1>1, <1>2, <1>5, <2>1
  <2>3. SumFunction(b) = SumFunction(a) + b[p]
    BY <2>2, SumPlus
  <2> QED
    BY <2>1, <2>3
<1>7. g[p] \in Int /\ SumFunction(f) \in Int
  BY <1>1, <1>2, SumInt
<1> QED
  BY <1>3, <1>4, <1>5, <1>6, <1>7

-----------------------------------------------------------------------------
(* Steps that leave a user's money alone.                                   *)
Has(u, p) == pos[p] \in Rows /\ pos[p].own = u
Steady(u, p) ==
    \/ pos'[p] = pos[p]
    \/ Keeps(p) /\ pos'[p].st = pos[p].st
    \/ ~Has(u, p) /\ ~Has(u, p)'
    \/ pos[p] = Free /\ Born(p)'
    \/ Born(p) /\ pos'[p] = Free

\* Committed rows of a user that is left alone.
LEMMA SteadyRows ==
  ASSUME PInv, PInv', NEW u, NEW p \in Pos, Steady(u, p)
  PROVE  /\ p \in OpenOf(u)' <=> p \in OpenOf(u)
         /\ Has(u, p) /\ pos'[p] \in Rows =>
              pos'[p].own = u /\ pos'[p].st = pos[p].st /\ pos'[p].margin = pos[p].margin
         /\ Has(u, p)' /\ pos[p] \in Rows =>
              pos[p].own = u /\ pos'[p].st = pos[p].st /\ pos'[p].margin = pos[p].margin
<1>1. (pos[p] = Free \/ pos[p] \in Rows) /\ (pos'[p] = Free \/ pos'[p] \in Rows)
  BY DEF PInv, Typed
<1>2. p \in OpenOf(u) <=> Has(u, p) /\ pos[p].st = "OPEN"
  BY <1>1, FreeRow DEF OpenOf, Has
<1>3. p \in OpenOf(u)' <=> Has(u, p)' /\ pos'[p].st = "OPEN"
  BY <1>1, FreeRow DEF OpenOf, Has
<1>4. CASE pos'[p] = pos[p]
  BY <1>2, <1>3, <1>4 DEF Has
<1>5. CASE Keeps(p) /\ pos'[p].st = pos[p].st
  BY <1>2, <1>3, <1>5 DEF Has, Keeps
<1>6. CASE ~Has(u, p) /\ ~Has(u, p)'
  BY <1>2, <1>3, <1>6
<1>7. CASE pos[p] = Free /\ Born(p)'
  BY <1>2, <1>3, <1>7, FreeRow DEF Has, Born
<1>8. CASE Born(p) /\ pos'[p] = Free
  BY <1>2, <1>3, <1>8, FreeRow DEF Has, Born
<1> QED
  BY <1>4, <1>5, <1>6, <1>7, <1>8 DEF Steady

LEMMA MoneyKept ==
  ASSUME PInv, PInv', OwnInv, OwnInv', NEW u \in Users, Balanced(u), acc'[u] = acc[u],
         \A p \in Pos : Steady(u, p), TradesOf(u)' = TradesOf(u)
  PROVE  UsedMargin(u)' = UsedMargin(u) /\ Balanced(u)'
<1>1. \A p \in OpenOf(u) : p \in OpenOf(u)'
  BY SteadyRows DEF OpenOf
<1>2. \A p \in OpenOf(u)' : p \in OpenOf(u)
  BY SteadyRows DEF OpenOf
<1>3. \A p \in OpenOf(u) : p \in Pos /\ Has(u, p)
  BY OpenRows DEF PInv, OpenOf, Has
<1>4. \A p \in OpenOf(u)' : pos'[p] \in Rows
  <2>1. \A p \in OpenOf(u)' : pos'[p] \in {Free} \cup Rows /\ pos'[p].st = "OPEN"
    BY DEF OpenOf, PInv, Typed
  <2> QED
    BY <2>1, FreeRow
<1>5. \A p \in OpenOf(u) : pos'[p].margin = pos[p].margin
  BY <1>1, <1>3, <1>4, SteadyRows
<1>6. UsedMargin(u)' = UsedMargin(u)
  <2>1. OpenOf(u)' = OpenOf(u)
    BY <1>1, <1>2
  <2> QED
    BY <1>5, <2>1, UsedSame
<1>7. ASSUME NEW t \in TradesOf(u) PROVE pos'[t.p].st \in {"CLOSED", "LIQUIDATED"}
  <2>1. t \in trades /\ t \in trades' /\ t.p \in Pos /\ pos[t.p].own = u
    BY DEF TradesOf, PInv, Typed, Trades
  <2>2. Has(u, t.p) /\ pos'[t.p] \in Rows
    BY <2>1 DEF OwnInv, Has, Stored
  <2>3. pos'[t.p].st = pos[t.p].st
    BY <2>1, <2>2, SteadyRows
  <2> QED
    BY <2>3 DEF Balanced
<1>8. Won(u)' = Won(u)
  BY DEF Won
<1> QED
  BY <1>6, <1>7, <1>8 DEF Balanced

\* Without a trade of its own more or less, a user keeps its trades.
LEMMA TradesSame ==
  ASSUME PInv, OwnInv, [Next]_vars, NEW u \in Users,
         \A t \in trades' : t \in trades \/ pos'[t.p].own # u,
         \A t \in trades : t \in trades' \/ pos[t.p].own # u
  PROVE  TradesOf(u)' = TradesOf(u)
<1>1. \A t \in trades : pos'[t.p].own = pos[t.p].own
  <2> SUFFICES ASSUME NEW t \in trades PROVE pos'[t.p].own = pos[t.p].own
    OBVIOUS
  <2>1. t.p \in Pos /\ Stored(t.p)
    BY DEF PInv, Typed, Trades, OwnInv
  <2>2. Keeps(t.p)
    BY <2>1, RowsStep, FreeRow DEF Stored, Keeps
  <2> QED
    BY <2>2 DEF Keeps
<1> QED
  BY <1>1 DEF TradesOf

\* An event's rows stay their owners'.
LEMMA WatchedKept ==
  ASSUME PInv, OwnInv, [Next]_vars, ev' = ev, ev.on, NEW p \in DOMAIN ev.rows
  PROVE  p \in Pos /\ Stored(p) /\ Keeps(p) /\ pos'[p].own = pos[p].own
<1>1. p \in Pos /\ Stored(p)
  BY EventOn DEF PInv, EvInv
<1>2. Keeps(p)
  BY <1>1, RowsStep, FreeRow DEF Stored, Keeps
<1> QED
  BY <1>1, <1>2 DEF Keeps

\* A step of sessions that are not the user's, or that end without a result.
LEMMA Elsewhere ==
  ASSUME PInv, PInv', OwnInv, OwnInv', [Next]_vars, NEW u \in Users, Books(u),
         acc'[u] = acc[u], TradesOf(u)' = TradesOf(u), \A p \in Pos : Steady(u, p),
         \A r \in Req : req'[r] = req[r] \/ req'[r] = Idle \/ req'[r].user # u,
         Served(u)' => Served(u),
         fan'.on => \A p \in fan'.new : (fan.on /\ p \in fan.new) \/ pos'[p].own # u,
         ev' = ev \/ ~Watched(u)'
  PROVE  Books(u)'
<1>2. UsedMargin(u)' = UsedMargin(u) /\ Balanced(u)'
  BY MoneyKept DEF Books
<1>3. \A r \in Hands(u)' : r \in Hands(u) /\ req'[r] = req[r]
  BY DEF Hands
<1>4. Watched(u)' => Watched(u) /\ ev' = ev
  <2> SUFFICES ASSUME Watched(u)' PROVE Watched(u)
    OBVIOUS
  <2>1. ev' = ev /\ ev.on
    BY DEF Watched
  <2> QED
    BY <2>1, WatchedKept DEF Watched
<1>5. Alone(u)'
  BY <1>3, <1>4 DEF Alone, Books
<1>6. ASSUME NEW r \in Hands(u)' PROVE ReadNow(u, r)'
  <2>1. r \in Hands(u) /\ req'[r] = req[r] /\ ReadNow(u, r) /\ r \in Req /\ req[r].user = u
    BY <1>3 DEF Books, Current, Hands
  <2>2. ASSUME req[r].op = "closing" PROVE pos'[req[r].p].st = "OPEN"
    <3>1. req[r].p \in Pos /\ Has(u, req[r].p) /\ Stored(req[r].p)
      BY <2>1, <2>2 DEF PInv, HandInv, Typed, Requests, Idle, Has, Stored
    <3>2. pos'[req[r].p] \in Rows
      BY <2>1, <2>2 DEF PInv, HandInv, Stored
    <3> QED
      BY <2>1, <2>2, <3>1, <3>2, SteadyRows DEF ReadNow
  <2>3. ASSUME req[r].op = "opened" PROVE pos'[req[r].p].margin = pos[req[r].p].margin
    <3>1. req[r].p \in Pos /\ Has(u, req[r].p)
      BY <2>1, <2>3 DEF PInv, HandInv, Typed, Requests, Idle, Has, Born, OwnInv
    <3>2. pos'[req[r].p] \in Rows
      BY <2>1, <2>3 DEF PInv, HandInv, Born
    <3> QED
      BY <3>1, <3>2, SteadyRows
  <2> QED
    BY <1>2, <2>1, <2>2, <2>3 DEF ReadNow
<1>7. ASSUME fan'.on, NEW p \in fan'.new, pos'[p].own = u
      PROVE  UsedMargin(u)' + pos'[p].margin <= acc'[u].bal
  <2>1. fan.on /\ p \in fan.new
    BY <1>7
  <2>2. p \in Pos /\ Born(p)
    BY <2>1, FanTyped DEF PInv, FanInv
  <2>3. Has(u, p)'
    BY <1>7 DEF PInv, FanInv, Born, Has
  <2>4. pos[p].own = u /\ pos'[p].margin = pos[p].margin
    BY <2>2, <2>3, SteadyRows DEF Born
  <2> QED
    BY <1>2, <2>1, <2>4 DEF Books, Current
<1>8. ASSUME ev'.on, NEW p \in DOMAIN ev'.rows, pos'[p].own = u
      PROVE  /\ pos'[p].st = "OPEN"
             /\ ev'.e \in {"TP3", "SL"} => \A x \in ev'.done : x.p = p => x.acc = acc'[u]
  <2>1. ev' = ev /\ ev.on
    BY <1>4, <1>8 DEF Watched
  <2>2. p \in Pos /\ Stored(p) /\ Keeps(p) /\ pos[p].own = u
    BY <1>8, <2>1, WatchedKept
  <2>3. pos'[p].st = pos[p].st
    BY <2>2, SteadyRows DEF Has, Stored, Keeps
  <2> QED
    BY <1>8, <2>1, <2>2, <2>3 DEF Books, Current
<1> QED
  BY <1>2, <1>5, <1>6, <1>7, <1>8 DEF Books, Current

\* A step of the only session of a user, when it is a request.
LEMMA OneRequest ==
  ASSUME PInv, PInv', OwnInv, OwnInv', [Next]_vars, NEW u \in Users, NEW r \in Req,
         \A z \in Req \ {r} : z \notin Hands(u), ~Served(u), ~Watched(u),
         \A z \in Req \ {r} : req'[z] = req[z], fan' = fan, ev' = ev,
         req'[r] = Idle \/ ReadNow(u, r)'
  PROVE  Alone(u)' /\ Current(u)'
<1>1. ~Served(u)'
  BY DEF Served
<1>2. ~Watched(u)'
  BY WatchedKept DEF Watched
<1>3. \A z \in Hands(u)' : z = r /\ req'[r] # Idle
  BY DEF Hands
<1>4. \A p \in fan'.new : fan'.on => pos'[p].own # u
  BY <1>1 DEF OwnInv, Served
<1>5. \A p \in DOMAIN ev'.rows : ev'.on => pos'[p].own # u
  BY <1>2 DEF Watched
<1>6. Alone(u)'
  BY <1>1, <1>2, <1>3 DEF Alone
<1>7. Current(u)'
  BY <1>3, <1>4, <1>5 DEF Current
<1> QED
  BY <1>6, <1>7

\* A request of the user is its only session.
LEMMA OnlyRequest ==
  ASSUME NEW u \in Users, Books(u), NEW r \in Hands(u)
  PROVE  (\A z \in Req \ {r} : z \notin Hands(u)) /\ ~Served(u) /\ ~Watched(u) /\ ReadNow(u, r)
  BY DEF Books, Alone, Current

-----------------------------------------------------------------------------
(* Steps that move money.                                                   *)

\* One trade more.
LEMMA WonInt == ASSUME PInv, NEW u, IsFiniteSet(TradesOf(u)) PROVE Won(u) \in Int
<1>1. \A t \in TradesOf(u) : t.pnl \in Int
  BY DEF TradesOf, PInv, Typed, Trades
<1>2. PICK S, f : S = TradesOf(u) /\ f = [t \in S |-> t.pnl]
  OBVIOUS
<1>3. IsFiniteSet(S) /\ f \in [S -> Int]
  BY <1>1, <1>2
<1>4. SumFunction(f) \in Int
  BY <1>3, SumInt
<1> QED
  BY <1>2, <1>4 DEF Won

LEMMA WonMore ==
  ASSUME PInv, NEW u, IsFiniteSet(TradesOf(u)), NEW x, x.pnl \in Int, x \notin TradesOf(u),
         TradesOf(u)' = TradesOf(u) \cup {x}
  PROVE  IsFiniteSet(TradesOf(u)') /\ Won(u)' = Won(u) + x.pnl
<1>1. \A t \in TradesOf(u) : t.pnl \in Int
  BY DEF TradesOf, PInv, Typed, Trades
<1>2. PICK S, f, g : S = TradesOf(u) /\ f = [t \in S |-> t.pnl] /\ g = [t \in S \cup {x} |-> t.pnl]
  OBVIOUS
<1>3. IsFiniteSet(S) /\ x \notin S /\ f \in [S -> Int]
  BY <1>1, <1>2
<1>4. g \in [S \cup {x} -> Int] /\ (\A t \in S : g[t] = f[t]) /\ g[x] = x.pnl
  BY <1>1, <1>2
<1>5. SumFunction(g) = SumFunction(f) + g[x]
  BY <1>3, <1>4, SumPlus
<1>6. IsFiniteSet(S \cup {x})
  BY <1>3, FS_AddElement
<1>7. Won(u) = SumFunction(f) /\ Won(u)' = SumFunction(g)
  BY <1>2 DEF Won
<1> QED
  BY <1>2, <1>4, <1>5, <1>6, <1>7

\* The open positions of a user of whom one row changed.
LEMMA OthersOpen ==
  ASSUME PInv, PInv', NEW u \in Users, NEW p \in Pos, \A k \in Pos \ {p} : Steady(u, k)
  PROVE  /\ OpenOf(u)' \ {p} = OpenOf(u) \ {p}
         /\ \A k \in OpenOf(u) \ {p} : pos'[k].margin = pos[k].margin
<1>1. \A k \in Pos \ {p} : k \in OpenOf(u)' <=> k \in OpenOf(u)
  BY SteadyRows
<1>2. OpenOf(u)' \subseteq Pos /\ OpenOf(u) \subseteq Pos
  BY DEF OpenOf
<1>3. OpenOf(u)' \ {p} = OpenOf(u) \ {p}
  BY <1>1, <1>2
<1>4. ASSUME NEW k \in OpenOf(u) \ {p} PROVE pos'[k].margin = pos[k].margin
  <2>1. k \in Pos /\ Has(u, k) /\ k \in OpenOf(u)'
    BY <1>3, OpenRows DEF PInv, OpenOf, Has
  <2>2. pos'[k] \in Rows
    <3>1. pos'[k] \in {Free} \cup Rows /\ pos'[k].st = "OPEN"
      BY <2>1 DEF PInv, Typed, OpenOf
    <3> QED
      BY <3>1, FreeRow
  <2> QED
    BY <2>1, <2>2, SteadyRows
<1> QED
  BY <1>3, <1>4

\* Old trades are of rows that the step leaves.
LEMMA OldTrades ==
  ASSUME PInv, PInv', OwnInv, OwnInv', NEW u \in Users, NEW p \in Pos, \A k \in Pos \ {p} : Steady(u, k),
         Balanced(u), NEW t \in TradesOf(u), t \in trades', t.p # p
  PROVE  pos'[t.p].st \in {"CLOSED", "LIQUIDATED"}
<1>1. t \in trades /\ t.p \in Pos /\ pos[t.p].own = u
  BY DEF TradesOf, PInv, Typed, Trades
<1>2. Has(u, t.p) /\ pos'[t.p] \in Rows
  BY <1>1 DEF OwnInv, Has, Stored
<1>3. pos'[t.p].st = pos[t.p].st
  BY <1>1, <1>2, SteadyRows
<1> QED
  BY <1>3 DEF Balanced

\* A row of the user that becomes open.
LEMMA Opening ==
  ASSUME PInv, PInv', OwnInv, OwnInv', NEW u \in Users, Balanced(u), acc'[u] = acc[u],
         TradesOf(u)' = TradesOf(u), NEW p \in Pos, \A k \in Pos \ {p} : Steady(u, k),
         Born(p), pos'[p] \in Rows, pos'[p].st = "OPEN", pos'[p].own = u,
         UsedMargin(u) + pos'[p].margin <= acc[u].bal
  PROVE  Balanced(u)'
<1>1. p \notin OpenOf(u) /\ p \in OpenOf(u)'
  BY DEF OpenOf, Born
<1>2. OpenOf(u)' = OpenOf(u) \cup {p}
  BY <1>1, OthersOpen
<1>3. UsedMargin(u)' = UsedMargin(u) + pos'[p].margin
  BY <1>1, <1>2, OthersOpen, UsedMore DEF PInv
<1>4. \A t \in TradesOf(u) : t \in trades' /\ t.p # p
  BY DEF TradesOf, OwnInv, Stored, Born
<1>5. \A t \in TradesOf(u) : pos'[t.p].st \in {"CLOSED", "LIQUIDATED"}
  BY <1>4, OldTrades
<1>6. Won(u)' = Won(u)
  BY DEF Won
<1> QED
  BY <1>3, <1>5, <1>6 DEF Balanced

\* An open position of the user that is settled.
LEMMA Settling ==
  ASSUME PInv, PInv', OwnInv, OwnInv', NEW u \in Users, Balanced(u), NEW d \in Int, NEW x,
         NEW p \in OpenOf(u), \A k \in Pos \ {p} : Steady(u, k),
         pos'[p].st \in {"CLOSED", "LIQUIDATED"},
         x.p = p, x.pnl = Settled(pos[p].margin, d), TradesOf(u)' = TradesOf(u) \cup {x},
         acc'[u] = Credited(acc[u], acc[u], p, Settled(pos[p].margin, d))
  PROVE  Balanced(u)'
<1> DEFINE m == pos[p].margin
           g == Settled(m, d)
<1>1. p \in Pos /\ m \in Nat
  BY OpenRows, MarginNat DEF PInv
<1>2. g \in Int /\ -m <= g
  BY <1>1, Settlements DEF Settled
<1>3. acc[u].bal \in Int
  BY DEF PInv, Typed, Accounts
<1>4. acc'[u].bal = acc[u].bal + g
  <2>1. CASE g = 0
    BY <1>3, <2>1 DEF Credited
  <2>2. CASE g # 0
    BY <2>2 DEF Credited
  <2> QED
    BY <2>1, <2>2
<1>5. OpenOf(u)' = OpenOf(u) \ {p}
  <2>1. p \notin OpenOf(u)'
    BY DEF OpenOf
  <2> QED
    BY <1>1, <2>1, OthersOpen
<1>6. UsedMargin(u)' = UsedMargin(u) - m
  BY <1>1, <1>5, OthersOpen, UsedLess DEF PInv
<1>7. x \notin TradesOf(u) /\ \A t \in TradesOf(u) : t.p # p /\ t \in trades'
  BY DEF Balanced, OpenOf, TradesOf
<1>8. IsFiniteSet(TradesOf(u)') /\ Won(u)' = Won(u) + g
  <2>1. x.pnl \in Int /\ x.pnl = g /\ IsFiniteSet(TradesOf(u))
    BY <1>2 DEF Balanced
  <2>2. IsFiniteSet(TradesOf(u)') /\ Won(u)' = Won(u) + x.pnl
    BY <1>7, <2>1, WonMore
  <2> QED
    BY <2>1, <2>2
<1>9. \A t \in TradesOf(u)' : pos'[t.p].st \in {"CLOSED", "LIQUIDATED"}
  BY <1>1, <1>7, OldTrades
<1>10. UsedMargin(u) \in Int /\ Won(u) \in Int /\ Initial \in Int
  BY UsedInt, WonInt, MoneyAssumption DEF PInv, Balanced
<1> HIDE DEF g, m
<1>11. UsedMargin(u)' <= acc'[u].bal
  BY <1>1, <1>2, <1>3, <1>4, <1>6, <1>10 DEF Balanced
<1>12. acc'[u].bal = Initial + Won(u)'
  BY <1>2, <1>3, <1>4, <1>8, <1>10 DEF Balanced
<1> QED
  BY <1>8, <1>9, <1>11, <1>12 DEF Balanced

-----------------------------------------------------------------------------
(* The steps.                                                               *)
LEMMA BooksLoad ==
  ASSUME PInv, PInv', OwnInv, OwnInv', [Next]_vars, NEW u \in Users, u \notin mixed', Books(u),
         NEW r \in Req, NEW v \in Users, NEW op \in {"open", "close", "reset"}, Load(r, v, op)
  PROVE  Books(u)'
<1>1. /\ req[r] = Idle /\ req' = [req EXCEPT ![r] = [op |-> op, user |-> v, acc |-> acc[v]]]
      /\ mixed' = IF Busy(v) THEN mixed \cup {v} ELSE mixed
      /\ UNCHANGED <<acc, pos, trades, opened, fan, ev>>
  BY DEF Load
<1>2. \A z \in Req \ {r} : req'[z] = req[z]
  BY <1>1
<1>3. req'[r].op = op /\ req'[r].user = v /\ req'[r].acc = acc[v]
  BY <1>1 DEF PInv, Typed
<1>4. TradesOf(u)' = TradesOf(u) /\ \A p \in Pos : Steady(u, p)
  BY <1>1, TradesSame DEF Steady
<1>5. CASE v # u
  <2>1. \A z \in Req : req'[z] = req[z] \/ req'[z].user # u
    BY <1>2, <1>3, <1>5
  <2>2. Served(u)' => Served(u)
    BY <1>1 DEF Served
  <2> QED
    BY <1>1, <1>4, <2>1, <2>2, Elsewhere
<1>6. CASE v = u
  <2>1. ~Busy(u)
    BY <1>1, <1>6
  <2>2. (\A z \in Req \ {r} : z \notin Hands(u)) /\ ~Served(u) /\ ~Watched(u)
    BY <2>1 DEF Busy, Hands, Served, Watched
  <2>3. ReadNow(u, r)'
    BY <1>1, <1>3, <1>6 DEF ReadNow
  <2>4. Alone(u)' /\ Current(u)'
    BY <1>1, <1>2, <2>2, <2>3, OneRequest
  <2>5. Balanced(u)'
    BY <1>1, <1>4, MoneyKept DEF Books
  <2> QED
    BY <2>4, <2>5 DEF Books
<1> QED
  BY <1>5, <1>6

LEMMA BooksOpen ==
  ASSUME PInv, PInv', OwnInv, OwnInv', [Next]_vars, NEW u \in Users, Books(u),
         NEW r \in Req, NEW m \in Margins, Open(r, m)
  PROVE  Books(u)'
<1>1. req[r].op = "open" /\ UNCHANGED <<acc, trades, opened, fan, ev, mixed>>
  BY DEF Open
<1>2. req[r].user \in Users /\ req[r].acc \in Accounts /\ req[r] # Idle
  BY <1>1 DEF PInv, Typed, Requests, Idle
<1>3. TradesOf(u)' = TradesOf(u) /\ (Served(u)' => Served(u))
  BY <1>1, TradesSame DEF Served
<1>4. CASE req' = [req EXCEPT ![r] = Idle] /\ pos' = pos
  <2>1. \A z \in Req : req'[z] = req[z] \/ req'[z] = Idle
    BY <1>4 DEF PInv, Typed
  <2>2. \A p \in Pos : Steady(u, p)
    BY <1>4 DEF Steady
  <2> QED
    BY <1>1, <1>3, <2>1, <2>2, Elsewhere
<1>5. ASSUME NEW p \in Pos, pos[p] = Free, Covered(req[r].user, req[r].acc.bal, m),
             pos' = [pos EXCEPT ![p] = NewPosition(req[r].user, m, NoSig)],
             req' = [req EXCEPT ![r] = [op |-> "opened", user |-> req[r].user, p |-> p]]
      PROVE  Books(u)'
  <2>1. /\ Born(p)' /\ pos'[p].own = req[r].user /\ pos'[p].margin = m
        /\ \A k \in Pos \ {p} : pos'[k] = pos[k]
    <3>1. pos'[p] = NewPosition(req[r].user, m, NoSig) /\ \A k \in Pos \ {p} : pos'[k] = pos[k]
      BY <1>5 DEF PInv, Typed
    <3> QED
      BY <1>2, <3>1, NewRows DEF Born
  <2>2. \A k \in Pos : Steady(u, k)
    BY <1>5, <2>1 DEF Steady
  <2>3. /\ req'[r].op = "opened" /\ req'[r].user = req[r].user /\ req'[r].p = p
        /\ \A z \in Req \ {r} : req'[z] = req[z]
    BY <1>5 DEF PInv, Typed
  <2>4. CASE req[r].user # u
    <3>1. \A z \in Req : req'[z] = req[z] \/ req'[z].user # u
      BY <2>3, <2>4
    <3> QED
      BY <1>1, <1>3, <2>2, <3>1, Elsewhere
  <2>5. CASE req[r].user = u
    <3>1. r \in Hands(u)
      BY <1>2, <2>5 DEF Hands
    <3>2. UsedMargin(u)' = UsedMargin(u) /\ Balanced(u)'
      BY <1>1, <1>3, <2>2, MoneyKept DEF Books
    <3>3. req[r].acc = acc[u]
      BY <1>1, <3>1, OnlyRequest DEF ReadNow, Loaded
    <3>4. UsedMargin(u) + m <= acc[u].bal
      <4>1. UsedMargin(u) \in Int /\ m \in Int /\ acc[u].bal \in Int
        BY UsedInt, MoneyAssumption DEF PInv, Typed, Accounts
      <4>2. m <= acc[u].bal - UsedMargin(u)
        BY <1>5, <2>5, <3>3 DEF Covered
      <4> QED
        BY <4>1, <4>2
    <3>5. ReadNow(u, r)'
      BY <1>1, <2>1, <2>3, <3>2, <3>4 DEF ReadNow, Loaded
    <3>6. Alone(u)' /\ Current(u)'
      BY <1>1, <2>3, <3>1, <3>5, OnlyRequest, OneRequest
    <3> QED
      BY <3>2, <3>6 DEF Books
  <2> QED
    BY <2>4, <2>5
<1> QED
  BY <1>4, <1>5 DEF Open

LEMMA BooksCommitOpen ==
  ASSUME PInv, PInv', OwnInv, OwnInv', [Next]_vars, NEW u \in Users, Books(u),
         NEW r \in Req, CommitOpen(r)
  PROVE  Books(u)'
<1>1. PICK p : p = req[r].p
  OBVIOUS
<1> DEFINE q == [pos[p] EXCEPT !.st = "OPEN"]
<1>2. /\ req[r].op = "opened" /\ pos' = [pos EXCEPT ![p] = q] /\ req' = [req EXCEPT ![r] = Idle]
      /\ UNCHANGED <<acc, trades, opened, fan, ev, mixed>>
  BY <1>1 DEF CommitOpen
<1>3. p \in Pos /\ Born(p) /\ pos[p].own = req[r].user /\ req[r] # Idle
  BY <1>1, <1>2 DEF PInv, Typed, Requests, Idle, HandInv, OwnInv
<1>4. q \in Rows /\ q.st = "OPEN" /\ q.own = req[r].user /\ q.margin = pos[p].margin
  BY <1>3 DEF Born, Rows
<1> HIDE DEF q
<1>5. pos'[p] = q /\ \A k \in Pos \ {p} : pos'[k] = pos[k]
  BY <1>2, <1>3 DEF PInv, Typed
<1>6. TradesOf(u)' = TradesOf(u) /\ (Served(u)' => Served(u))
  BY <1>2, TradesSame DEF Served
<1>7. req'[r] = Idle /\ \A z \in Req \ {r} : req'[z] = req[z]
  BY <1>2 DEF PInv, Typed
<1>8. CASE req[r].user # u
  <2>1. \A k \in Pos : Steady(u, k)
    BY <1>3, <1>4, <1>5, <1>8 DEF Steady, Has
  <2>2. \A z \in Req : req'[z] = req[z] \/ req'[z] = Idle
    BY <1>7
  <2> QED
    BY <1>2, <1>6, <2>1, <2>2, Elsewhere
<1>9. CASE req[r].user = u
  <2>1. r \in Hands(u)
    BY <1>3, <1>9 DEF Hands
  <2>2. UsedMargin(u) + pos'[p].margin <= acc[u].bal
    BY <1>1, <1>2, <1>4, <1>5, <2>1, OnlyRequest DEF ReadNow
  <2>3. \A k \in Pos \ {p} : Steady(u, k)
    BY <1>5 DEF Steady
  <2>4. Balanced(u)'
    BY <1>2, <1>3, <1>4, <1>5, <1>6, <1>9, <2>2, <2>3, Opening DEF Books
  <2>5. Alone(u)' /\ Current(u)'
    BY <1>2, <1>7, <2>1, OnlyRequest, OneRequest
  <2> QED
    BY <2>4, <2>5 DEF Books
<1> QED
  BY <1>8, <1>9

LEMMA BooksFind ==
  ASSUME PInv, PInv', OwnInv, OwnInv', [Next]_vars, NEW u \in Users, Books(u),
         NEW r \in Req, NEW p \in Pos, FindPosition(r, p)
  PROVE  Books(u)'
<1>1. req[r].op = "close" /\ UNCHANGED <<acc, pos, trades, opened, fan, ev, mixed>>
  BY DEF FindPosition
<1>2. req[r] # Idle
  BY <1>1 DEF Idle
<1>3. TradesOf(u)' = TradesOf(u) /\ (Served(u)' => Served(u)) /\ \A k \in Pos : Steady(u, k)
  BY <1>1, TradesSame DEF Served, Steady
<1>4. CASE req' = [req EXCEPT ![r] = Idle]
  <2>1. \A z \in Req : req'[z] = req[z] \/ req'[z] = Idle
    BY <1>4 DEF PInv, Typed
  <2> QED
    BY <1>1, <1>3, <2>1, Elsewhere
<1>5. CASE /\ pos[p].st = "OPEN"
           /\ req' = [req EXCEPT ![r] = [op |-> "closing", user |-> req[r].user, acc |-> req[r].acc, p |-> p]]
  <2>1. /\ req'[r].op = "closing" /\ req'[r].user = req[r].user /\ req'[r].acc = req[r].acc /\ req'[r].p = p
        /\ \A z \in Req \ {r} : req'[z] = req[z]
    BY <1>5 DEF PInv, Typed
  <2>2. CASE req[r].user # u
    <3>1. \A z \in Req : req'[z] = req[z] \/ req'[z].user # u
      BY <2>1, <2>2
    <3> QED
      BY <1>1, <1>3, <3>1, Elsewhere
  <2>3. CASE req[r].user = u
    <3>1. r \in Hands(u)
      BY <1>2, <2>3 DEF Hands
    <3>2. Balanced(u)'
      BY <1>1, <1>3, MoneyKept DEF Books
    <3>3. req[r].acc = acc[u]
      BY <1>1, <3>1, OnlyRequest DEF ReadNow, Loaded
    <3>4. ReadNow(u, r)'
      BY <1>1, <1>5, <2>1, <3>3 DEF ReadNow
    <3>5. Alone(u)' /\ Current(u)'
      BY <1>1, <2>1, <3>1, <3>4, OnlyRequest, OneRequest
    <3> QED
      BY <3>2, <3>5 DEF Books
  <2> QED
    BY <2>2, <2>3
<1> QED
  BY <1>4, <1>5 DEF FindPosition, Closable

LEMMA BooksClose ==
  ASSUME PInv, PInv', OwnInv, OwnInv', [Next]_vars, NEW u \in Users, Books(u),
         NEW r \in Req, NEW d \in Moves, CommitClose(r, d)
  PROVE  Books(u)'
<1>1. PICK p, v : p = req[r].p /\ v = req[r].user
  OBVIOUS
<1>2. /\ req[r].op = "closing" /\ req' = [req EXCEPT ![r] = Idle]
      /\ UNCHANGED <<opened, fan, ev, mixed>>
  BY DEF CommitClose
<1>3. /\ p \in Pos /\ Stored(p) /\ pos[p].own = v /\ v \in Users /\ req[r].acc \in Accounts
      /\ req[r] # Idle
  BY <1>1, <1>2 DEF PInv, Typed, Requests, Idle, HandInv
<1>4. req'[r] = Idle /\ (\A z \in Req \ {r} : req'[z] = req[z]) /\ (Served(u)' => Served(u))
  BY <1>2 DEF PInv, Typed, Served
<1>5. \A z \in Req : req'[z] = req[z] \/ req'[z] = Idle
  BY <1>4
<1>6. CASE pos[p].st = "gone"
  <2>1. UNCHANGED <<acc, pos, trades>>
    BY <1>1, <1>6 DEF CommitClose
  <2>2. TradesOf(u)' = TradesOf(u) /\ \A k \in Pos : Steady(u, k)
    BY <2>1, TradesSame DEF Steady
  <2> QED
    BY <1>2, <1>4, <1>5, <2>1, <2>2, Elsewhere
<1>7. CASE pos[p].st # "gone"
  <2> DEFINE m == pos[p].margin
             o == Outcome(m, d)
             t == [p |-> p, pnl |-> Settled(m, d), why |-> "MANUAL"]
  <2>1. /\ acc' = [acc EXCEPT ![v] = Credited(acc[v], req[r].acc, p, Settled(m, d))]
        /\ pos' = [pos EXCEPT ![p] = Ended(pos[p], o)]
        /\ trades' = trades \cup {t}
    BY <1>1, <1>7 DEF CommitClose
  <2>2. o \in {"CLOSED", "LIQUIDATED"} /\ d \in Int
    BY MoneyAssumption DEF Outcome
  <2>3. /\ pos'[p] \in Rows /\ pos'[p].st \in {"CLOSED", "LIQUIDATED"} /\ pos'[p].own = v
        /\ \A k \in Pos \ {p} : pos'[k] = pos[k]
    <3>1. pos'[p] = Ended(pos[p], o) /\ \A k \in Pos \ {p} : pos'[k] = pos[k]
      BY <1>3, <2>1 DEF PInv, Typed
    <3> HIDE DEF o
    <3> QED
      BY <1>3, <2>2, <3>1, EndedRows DEF Stored
  <2>4. t.p = p /\ t.pnl = Settled(m, d)
    OBVIOUS
  <2> HIDE DEF m, o, t
  <2>5. CASE v # u
    <3>1. TradesOf(u)' = TradesOf(u)
      BY <2>1, <2>3, <2>4, <2>5, TradesSame
    <3>2. \A k \in Pos : Steady(u, k)
      BY <1>3, <2>3, <2>5 DEF Steady, Has
    <3>3. acc'[u] = acc[u]
      BY <2>1, <2>5 DEF PInv, Typed
    <3> QED
      BY <1>2, <1>4, <1>5, <3>1, <3>2, <3>3, Elsewhere
  <2>6. CASE v = u
    <3>1. r \in Hands(u)
      BY <1>1, <1>3, <2>6 DEF Hands
    <3>2. req[r].acc = acc[u] /\ pos[p].st = "OPEN"
      BY <1>1, <1>2, <3>1, OnlyRequest DEF ReadNow, Loaded
    <3>3. p \in OpenOf(u)
      BY <1>3, <2>6, <3>2 DEF OpenOf
    <3>4. acc'[u] = Credited(acc[u], acc[u], p, Settled(m, d))
      BY <2>1, <2>6, <3>2 DEF PInv, Typed
    <3>5. \A k \in Pos \ {p} : Steady(u, k)
      BY <2>3 DEF Steady
    <3>6. TradesOf(u)' = TradesOf(u) \cup {t}
      <4>1. \A x \in trades : pos'[x.p].own = pos[x.p].own
        <5>1. \A x \in trades : x.p \in Pos
          BY DEF PInv, Typed, Trades
        <5> QED
          BY <1>3, <2>3, <5>1
      <4> QED
        BY <2>1, <2>3, <2>4, <2>6, <4>1 DEF TradesOf
    <3>7. Balanced(u)'
      BY <2>2, <2>3, <2>4, <3>3, <3>4, <3>5, <3>6, Settling DEF Books, m
    <3>8. Alone(u)' /\ Current(u)'
      BY <1>2, <1>4, <3>1, OnlyRequest, OneRequest
    <3> QED
      BY <3>7, <3>8 DEF Books
  <2> QED
    BY <2>5, <2>6
<1> QED
  BY <1>6, <1>7

LEMMA BooksReset ==
  ASSUME PInv, PInv', OwnInv, OwnInv', [Next]_vars, NEW u \in Users, Books(u),
         NEW r \in Req, CommitReset(r)
  PROVE  Books(u)'
<1>1. PICK v : v = req[r].user
  OBVIOUS
<1>2. /\ req[r].op = "reset" /\ req' = [req EXCEPT ![r] = Idle]
      /\ pos' = [p \in Pos |-> IF p \in RowsOf(v) THEN Ended(pos[p], "gone") ELSE pos[p]]
      /\ trades' = trades \ TradesOf(v)
      /\ acc' = IF req[r].acc.bal = Initial THEN acc
                ELSE [acc EXCEPT ![v] = [bal |-> Initial, in |-> NoneYet]]
      /\ UNCHANGED <<opened, fan, ev, mixed>>
  BY <1>1 DEF CommitReset
<1>3. v \in Users /\ req[r] # Idle
  BY <1>1, <1>2 DEF PInv, Typed, Requests, Idle
<1>4. req'[r] = Idle /\ (\A z \in Req \ {r} : req'[z] = req[z]) /\ (Served(u)' => Served(u))
  BY <1>2 DEF PInv, Typed, Served
<1>5. \A p \in RowsOf(v) : /\ p \in Pos /\ pos[p] \in Rows /\ pos[p].own = v
                           /\ pos'[p] \in Rows /\ pos'[p].st = "gone" /\ pos'[p].own = v
  <2> SUFFICES ASSUME NEW p \in RowsOf(v)
               PROVE  /\ p \in Pos /\ pos[p] \in Rows /\ pos[p].own = v
                      /\ pos'[p] \in Rows /\ pos'[p].st = "gone" /\ pos'[p].own = v
    OBVIOUS
  <2>1. p \in Pos /\ pos[p] \in Rows /\ pos[p].own = v
    BY FreeRow DEF RowsOf, PInv
  <2>2. pos'[p] = Ended(pos[p], "gone")
    BY <1>2, <2>1
  <2> QED
    BY <2>1, <2>2, EndedRows
<1>6. \A p \in Pos \ RowsOf(v) : pos'[p] = pos[p]
  BY <1>2
<1>7. CASE v # u
  <2>1. TradesOf(u)' = TradesOf(u)
    <3>1. \A t \in trades : t \in trades' \/ pos[t.p].own # u
      BY <1>2, <1>7 DEF TradesOf
    <3> QED
      BY <1>2, <3>1, TradesSame
  <2>2. \A k \in Pos : Steady(u, k)
    BY <1>5, <1>6, <1>7 DEF Steady, Has
  <2>3. acc'[u] = acc[u]
    BY <1>2, <1>7 DEF PInv, Typed
  <2>4. \A z \in Req : req'[z] = req[z] \/ req'[z] = Idle
    BY <1>4
  <2> QED
    BY <1>2, <1>4, <2>1, <2>2, <2>3, <2>4, Elsewhere
<1>8. CASE v = u
  <2>1. r \in Hands(u)
    BY <1>1, <1>3, <1>8 DEF Hands
  <2>2. req[r].acc = acc[u]
    BY <1>2, <2>1, OnlyRequest DEF ReadNow, Loaded
  <2>3. acc'[u].bal = Initial
    BY <1>2, <1>8, <2>2 DEF PInv, Typed
  <2>4. OpenOf(u)' = {}
    <3> SUFFICES ASSUME NEW p \in Pos, pos'[p].st = "OPEN", pos'[p].own = u PROVE FALSE
      BY DEF OpenOf
    <3>1. p \notin RowsOf(v)
      BY <1>5
    <3>2. pos[p].st = "OPEN" /\ pos[p].own = u
      BY <1>6, <3>1
    <3> QED
      BY <1>8, <3>1, <3>2 DEF RowsOf
  <2>5. TradesOf(u)' = {}
    <3> SUFFICES ASSUME NEW t \in trades', pos'[t.p].own = u PROVE FALSE
      BY DEF TradesOf
    <3>1. t \in trades /\ t.p \in Pos
      BY <1>2 DEF PInv, Typed, Trades
    <3>2. pos[t.p].own = u
      BY <1>5, <1>6, <1>8, <3>1
    <3> QED
      BY <1>2, <1>8, <3>1, <3>2 DEF TradesOf
  <2>6. UsedMargin(u)' = 0
    <3>1. PICK f : f = [p \in OpenOf(u)' |-> pos'[p].margin]
      OBVIOUS
    <3>2. DOMAIN f = {}
      BY <2>4, <3>1
    <3>3. SumFunction(f) = 0
      BY <3>2, SumNothing
    <3> QED
      BY <3>1, <3>3 DEF UsedMargin
  <2>7. Won(u)' = 0
    <3>1. PICK f : f = [t \in TradesOf(u)' |-> t.pnl]
      OBVIOUS
    <3>2. DOMAIN f = {}
      BY <2>5, <3>1
    <3>3. SumFunction(f) = 0
      BY <3>2, SumNothing
    <3> QED
      BY <3>1, <3>3 DEF Won
  <2>8. IsFiniteSet(TradesOf(u)')
    BY <2>5, FS_EmptySet
  <2>9. Balanced(u)'
    BY <2>3, <2>5, <2>6, <2>7, <2>8, MoneyAssumption DEF Balanced
  <2>10. Alone(u)' /\ Current(u)'
    BY <1>2, <1>4, <2>1, OnlyRequest, OneRequest
  <2> QED
    BY <2>9, <2>10 DEF Books
<1> QED
  BY <1>7, <1>8

LEMMA BooksRequests ==
  ASSUME PInv, PInv', OwnInv, OwnInv', NEW u \in Users, u \notin mixed', Books(u), Request
  PROVE  Books(u)'
<1>1. [Next]_vars
  BY DEF Next
<1> QED
  BY <1>1, BooksLoad, BooksOpen, BooksCommitOpen, BooksFind, BooksClose, BooksReset DEF Request

-----------------------------------------------------------------------------
LEMMA BooksSignals ==
  ASSUME PInv, PInv', OwnInv, OwnInv', [Next]_vars, NEW u \in Users, Books(u),
         \/ \E s \in Sigs, U \in SUBSET Users : NewSignal(s, U)
         \/ FailSignal \/ FailEvent
  PROVE  Books(u)'
<1>1. UNCHANGED <<acc, trades, opened, req, mixed>>
  BY DEF NewSignal, FailSignal, FailEvent
<1>2. TradesOf(u)' = TradesOf(u)
  BY <1>1, TradesSame
<1>3. CASE \E s \in Sigs, U \in SUBSET Users : NewSignal(s, U)
  <2>1. fan'.met = {} /\ fan'.new = {} /\ pos' = pos /\ ev' = ev
    BY <1>3 DEF NewSignal
  <2>2. ~Served(u)' /\ \A p \in Pos : Steady(u, p)
    BY <2>1 DEF Served, Steady
  <2> QED
    BY <1>1, <1>2, <2>1, <2>2, Elsewhere
<1>4. CASE FailSignal
  <2>1. fan.on /\ ~fan'.on /\ ev' = ev
        /\ pos' = [p \in Pos |-> IF p \in fan.new THEN Free ELSE pos[p]]
    BY <1>4 DEF FailSignal, NoFan
  <2>2. \A p \in fan.new : Born(p)
    BY <2>1 DEF PInv, FanInv
  <2>3. ~Served(u)' /\ \A p \in Pos : Steady(u, p)
    BY <2>1, <2>2 DEF Served, Steady
  <2> QED
    BY <1>1, <1>2, <2>1, <2>3, Elsewhere
<1>5. CASE FailEvent
  <2>1. ~ev'.on /\ pos' = pos /\ fan' = fan
    BY <1>5 DEF FailEvent, NoEvent
  <2>2. ~Watched(u)' /\ (Served(u)' => Served(u)) /\ \A p \in Pos : Steady(u, p)
    BY <2>1 DEF Watched, Served, Steady
  <2> QED
    BY <1>1, <1>2, <2>1, <2>2, Elsewhere
<1> QED
  BY <1>3, <1>4, <1>5

\* No session is left.
LEMMA NoSession ==
  ASSUME OwnInv', NEW u \in Users, Hands(u)' = {}, ~Served(u)', ~Watched(u)'
  PROVE  Alone(u)' /\ Current(u)'
<1>1. \A p \in fan'.new : fan'.on => pos'[p].own # u
  BY DEF OwnInv, Served
<1>2. \A p \in DOMAIN ev'.rows : ev'.on => pos'[p].own # u
  BY DEF Watched
<1> QED
  BY <1>1, <1>2 DEF Alone, Current

LEMMA BooksServe ==
  ASSUME PInv, PInv', OwnInv, OwnInv', [Next]_vars, NEW u \in Users, u \notin mixed', Books(u),
         NEW w \in Users, Serve(w)
  PROVE  Books(u)'
<1>1. /\ fan.on /\ fan \in Fans /\ fan'.on
      /\ mixed' = IF Busy(w) THEN mixed \cup {w} ELSE mixed
      /\ UNCHANGED <<acc, trades, opened, req, ev>>
  BY FanTyped DEF Serve, PInv, Fans
<1>2. TradesOf(u)' = TradesOf(u)
  BY <1>1, TradesSame
<1>3. fan'.met = fan.met \cup {w}
  BY <1>1 DEF Serve, Fans
<1>4. \/ fan'.new = fan.new /\ pos' = pos
      \/ \E p \in Pos, m \in Sizes :
           /\ fan'.new = fan.new \cup {p} /\ pos[p] = Free /\ Covered(w, acc[w].bal, m)
           /\ Born(p)' /\ pos'[p].own = w /\ pos'[p].margin = m /\ \A k \in Pos \ {p} : pos'[k] = pos[k]
  <2>1. CASE fan' = [fan EXCEPT !.todo = @ \ {w}, !.met = @ \cup {w}] /\ pos' = pos
    BY <1>1, <2>1 DEF Fans
  <2>2. ASSUME NEW p \in Pos, NEW m \in Sizes, pos[p] = Free, Covered(w, acc[w].bal, m),
               pos' = [pos EXCEPT ![p] = NewPosition(w, m, fan.sig)],
               fan' = [fan EXCEPT !.todo = @ \ {w}, !.met = @ \cup {w}, !.new = @ \cup {p}]
        PROVE  /\ fan'.new = fan.new \cup {p} /\ pos[p] = Free /\ Covered(w, acc[w].bal, m)
               /\ Born(p)' /\ pos'[p].own = w /\ pos'[p].margin = m /\ \A k \in Pos \ {p} : pos'[k] = pos[k]
    <3>1. pos'[p] = NewPosition(w, m, fan.sig) /\ \A k \in Pos \ {p} : pos'[k] = pos[k]
      BY <2>2 DEF PInv, Typed
    <3>2. fan.sig \in Sigs /\ fan'.new = fan.new \cup {p}
      BY <1>1, <2>2 DEF Fans
    <3> QED
      BY <2>2, <3>1, <3>2, NewRows DEF Born
  <2> QED
    BY <2>1, <2>2 DEF Serve
<1>5. \A p \in Pos : Steady(u, p)
  BY <1>4 DEF Steady
<1>6. CASE w # u
  <2>1. Served(u)' => Served(u)
    BY <1>1, <1>3, <1>6 DEF Served
  <2>2. \A p \in fan'.new : (fan.on /\ p \in fan.new) \/ pos'[p].own # u
    BY <1>1, <1>4, <1>6
  <2> QED
    BY <1>1, <1>2, <1>5, <2>1, <2>2, Elsewhere
<1>7. CASE w = u
  <2>1. ~Busy(u)
    BY <1>1, <1>7
  <2>2. Hands(u) = {} /\ ~Served(u) /\ ~Watched(u)
    BY <2>1 DEF Busy, Hands, Served, Watched
  <2>3. Hands(u)' = {}
    BY <1>1, <2>2 DEF Hands
  <2>4. ~Watched(u)'
    BY <1>1, <2>2, WatchedKept DEF Watched
  <2>5. UsedMargin(u)' = UsedMargin(u) /\ Balanced(u)'
    BY <1>1, <1>2, <1>5, MoneyKept DEF Books
  <2>6. ASSUME NEW p \in fan'.new, pos'[p].own = u
        PROVE  UsedMargin(u)' + pos'[p].margin <= acc'[u].bal
    <3>1. p \notin fan.new
      <4> SUFFICES ASSUME p \in fan.new PROVE FALSE
        OBVIOUS
      <4>1. p \in Pos /\ Born(p) /\ pos[p].own \in fan.met
        BY <1>1, FanTyped DEF PInv, FanInv, OwnInv
      <4>2. pos'[p] = pos[p]
        BY <1>4, <4>1, FreeRow DEF Born
      <4> QED
        BY <1>1, <2>2, <2>6, <4>1, <4>2 DEF Served
    <3>2. PICK m \in Sizes : Covered(u, acc[u].bal, m) /\ pos'[p].margin = m
      BY <1>4, <1>7, <3>1
    <3>3. UsedMargin(u) \in Int /\ m \in Int /\ acc[u].bal \in Int
      BY UsedInt, MoneyAssumption DEF PInv, Typed, Accounts
    <3> QED
      BY <1>1, <2>5, <3>2, <3>3 DEF Covered
  <2>7. \A p \in DOMAIN ev'.rows : ev'.on => pos'[p].own # u
    BY <2>4 DEF Watched
  <2>8. Alone(u)' /\ Current(u)'
    BY <2>3, <2>4, <2>6, <2>7 DEF Alone, Current
  <2> QED
    BY <2>5, <2>8 DEF Books
<1> QED
  BY <1>6, <1>7

LEMMA BooksCommitSignal ==
  ASSUME PInv, PInv', OwnInv, OwnInv', [Next]_vars, NEW u \in Users, Books(u), CommitSignal
  PROVE  Books(u)'
<1>1. /\ fan.on /\ ~fan'.on
      /\ pos' = [p \in Pos |-> IF p \in fan.new THEN [pos[p] EXCEPT !.st = "OPEN"] ELSE pos[p]]
      /\ UNCHANGED <<acc, trades, req, ev, mixed>>
  BY DEF CommitSignal, NoFan
<1>2. TradesOf(u)' = TradesOf(u) /\ ~Served(u)'
  BY <1>1, TradesSame DEF Served
<1>3. \A p \in fan.new :
        /\ p \in Pos /\ Born(p) /\ pos[p].sig = fan.sig /\ pos[p].sig # NoSig
        /\ pos'[p] \in Rows /\ pos'[p].st = "OPEN"
        /\ pos'[p].own = pos[p].own /\ pos'[p].margin = pos[p].margin
  <2> SUFFICES ASSUME NEW p \in fan.new
               PROVE  /\ p \in Pos /\ Born(p) /\ pos[p].sig = fan.sig /\ pos[p].sig # NoSig
                      /\ pos'[p] \in Rows /\ pos'[p].st = "OPEN"
                      /\ pos'[p].own = pos[p].own /\ pos'[p].margin = pos[p].margin
    OBVIOUS
  <2>1. p \in Pos /\ Born(p) /\ pos[p].sig = fan.sig /\ fan.sig \in Sigs
    BY <1>1, FanTyped DEF PInv, FanInv, Fans
  <2>2. pos'[p] = [pos[p] EXCEPT !.st = "OPEN"]
    BY <1>1, <2>1
  <2>3. /\ [pos[p] EXCEPT !.st = "OPEN"] \in Rows
        /\ [pos[p] EXCEPT !.st = "OPEN"].st = "OPEN"
        /\ [pos[p] EXCEPT !.st = "OPEN"].own = pos[p].own
        /\ [pos[p] EXCEPT !.st = "OPEN"].margin = pos[p].margin
    BY <2>1 DEF Born, Rows
  <2> QED
    BY <2>1, <2>2, <2>3, NoSigAssumption
<1>4. \A p \in Pos \ fan.new : pos'[p] = pos[p]
  BY <1>1
<1>5. CASE \A p \in fan.new : pos[p].own # u
  <2>1. \A p \in Pos : Steady(u, p)
    BY <1>3, <1>4, <1>5 DEF Steady, Has
  <2> QED
    BY <1>1, <1>2, <2>1, Elsewhere
<1>6. ASSUME NEW p \in fan.new, pos[p].own = u PROVE Books(u)'
  <2>1. Served(u)
    BY <1>1, <1>6 DEF OwnInv, Served
  <2>2. Hands(u) = {} /\ ~Watched(u)
    BY <2>1 DEF Books, Alone
  <2>3. ASSUME NEW k \in Pos \ {p} PROVE Steady(u, k)
    <3>1. CASE k \in fan.new
      <4>1. pos[k].own # u
        <5>1. pos[p] \in Rows /\ pos[k] \in Rows /\ pos[k].sig = pos[p].sig /\ pos[p].sig # NoSig
          BY <1>3, <1>6, <3>1 DEF Born
        <5> QED
          BY <1>3, <1>6, <2>3, <5>1 DEF PInv, OncePerSignal
      <4> QED
        BY <1>3, <3>1, <4>1 DEF Steady, Has
    <3> QED
      BY <1>4, <3>1 DEF Steady
  <2>4. UsedMargin(u) + pos'[p].margin <= acc[u].bal
    BY <1>1, <1>3, <1>6 DEF Books, Current
  <2>5. Balanced(u)'
    BY <1>1, <1>2, <1>3, <1>6, <2>3, <2>4, Opening DEF Books
  <2>6. Hands(u)' = {}
    BY <1>1, <2>2 DEF Hands
  <2>7. ~Watched(u)'
    BY <1>1, <2>2, WatchedKept DEF Watched
  <2> QED
    BY <1>2, <2>5, <2>6, <2>7, NoSession DEF Books
<1> QED
  BY <1>5, <1>6

LEMMA BooksEvent ==
  ASSUME PInv, PInv', OwnInv, OwnInv', [Next]_vars, NEW u \in Users, u \notin mixed', Books(u),
         NEW s \in Sigs, NEW e \in {"TP1", "TP2", "TP3", "SL"}, SignalEvent(s, e)
  PROVE  Books(u)'
<1> DEFINE F == {p \in Pos : pos[p].st = "OPEN" /\ pos[p].sig = s}
<1>1. /\ ~ev.on /\ ev' = [on |-> TRUE, e |-> e, rows |-> [p \in F |-> pos[p]], todo |-> F, done |-> {}]
      /\ mixed' = mixed \cup {w \in Users : Busy(w) /\ \E p \in F : pos[p].own = w}
      /\ UNCHANGED <<acc, pos, trades, opened, req, fan>>
  BY DEF SignalEvent
<1>2. \A p \in F : pos[p].st = "OPEN"
  OBVIOUS
<1> HIDE DEF F
<1>3. DOMAIN ev'.rows = F /\ ev'.done = {} /\ ev'.on
  BY <1>1
<1>4. TradesOf(u)' = TradesOf(u) /\ (Served(u)' <=> Served(u)) /\ \A p \in Pos : Steady(u, p)
  BY <1>1, TradesSame DEF Served, Steady
<1>5. Hands(u)' = Hands(u) /\ ~Watched(u)
  BY <1>1 DEF Hands, Watched
<1>6. CASE \A p \in F : pos[p].own # u
  <2>1. ~Watched(u)'
    BY <1>1, <1>3, <1>6 DEF Watched
  <2> QED
    BY <1>1, <1>4, <2>1, Elsewhere
<1>7. CASE \E p \in F : pos[p].own = u
  <2>1. ~Busy(u)
    BY <1>1, <1>7
  <2>2. Hands(u)' = {} /\ ~Served(u)'
    BY <1>4, <1>5, <2>1 DEF Busy, Hands, Served
  <2>3. \A p \in fan'.new : fan'.on => pos'[p].own # u
    BY <2>2 DEF OwnInv, Served
  <2>4. \A p \in DOMAIN ev'.rows : pos'[p].st = "OPEN"
    BY <1>1, <1>2, <1>3
  <2>5. Alone(u)' /\ Current(u)'
    BY <1>3, <2>2, <2>3, <2>4 DEF Alone, Current
  <2>6. Balanced(u)'
    BY <1>1, <1>4, MoneyKept DEF Books
  <2> QED
    BY <2>5, <2>6 DEF Books
<1> QED
  BY <1>6, <1>7

LEMMA BooksManage ==
  ASSUME PInv, PInv', OwnInv, OwnInv', [Next]_vars, NEW u \in Users, Books(u), NEW p \in Pos, Manage(p)
  PROVE  Books(u)'
<1>1. ev.on /\ ev \in Events /\ UNCHANGED <<acc, pos, trades, opened, req, fan, mixed>>
  BY EventOn DEF Manage
<1>2. PICK y : /\ ev' = [ev EXCEPT !.todo = @ \ {p}, !.done = @ \cup {y}] /\ y.p = p
               /\ ev.e \notin {"TP1", "TP2"} => y.acc = acc[pos[p].own]
  <2>1. CASE ev.e \in {"TP1", "TP2"}
    <3>1. PICK b \in BOOLEAN, t \in BOOLEAN, d \in Distances :
            ev' = [ev EXCEPT !.todo = @ \ {p},
                             !.done = @ \cup {[p |-> p, row |-> Protected(ev.rows[p], b, t, d)]}]
      BY <2>1 DEF Manage
    <3> DEFINE x == [p |-> p, row |-> Protected(ev.rows[p], b, t, d)]
    <3>2. x.p = p /\ ev' = [ev EXCEPT !.todo = @ \ {p}, !.done = @ \cup {x}]
      BY <3>1
    <3> HIDE DEF x
    <3> QED
      BY <2>1, <3>2
  <2>2. CASE ev.e \notin {"TP1", "TP2"}
    <3> DEFINE x == [p |-> p, acc |-> acc[pos[p].own], d |-> ExitPrice(ev.rows[p]) - Entry]
    <3>1. /\ ev' = [ev EXCEPT !.todo = @ \ {p}, !.done = @ \cup {x}]
          /\ x.p = p /\ x.acc = acc[pos[p].own]
      BY <2>2 DEF Manage
    <3> HIDE DEF x
    <3> QED
      BY <2>2, <3>1
  <2> QED
    BY <2>1, <2>2
<1>3. ev'.on /\ ev'.e = ev.e /\ ev'.rows = ev.rows /\ ev'.done = ev.done \cup {y}
  BY <1>1, <1>2 DEF Events
<1>4. TradesOf(u)' = TradesOf(u) /\ (Served(u)' <=> Served(u)) /\ \A k \in Pos : Steady(u, k)
  BY <1>1, TradesSame DEF Served, Steady
<1>5. Hands(u)' = Hands(u) /\ (Watched(u)' <=> Watched(u))
  BY <1>1, <1>3 DEF Hands, Watched
<1>6. CASE ~Watched(u)
  BY <1>1, <1>4, <1>5, <1>6, Elsewhere
<1>7. CASE Watched(u)
  <2>1. Hands(u)' = {} /\ ~Served(u)'
    BY <1>4, <1>5, <1>7 DEF Books, Alone
  <2>2. \A k \in fan'.new : fan'.on => pos'[k].own # u
    BY <2>1 DEF OwnInv, Served
  <2>3. ASSUME NEW k \in DOMAIN ev'.rows, pos'[k].own = u
        PROVE  /\ pos'[k].st = "OPEN"
               /\ ev'.e \in {"TP3", "SL"} => \A x \in ev'.done : x.p = k => x.acc = acc'[u]
    <3>1. pos[k].st = "OPEN" /\ pos[k].own = u
      BY <1>1, <1>3, <2>3 DEF Books, Current
    <3>2. ASSUME ev.e \in {"TP3", "SL"}, NEW x \in ev'.done, x.p = k PROVE x.acc = acc[u]
      <4>1. CASE x = y
        BY <1>2, <3>1, <3>2, <4>1
      <4>2. CASE x \in ev.done
        BY <1>1, <1>3, <2>3, <3>1, <3>2, <4>2 DEF Books, Current
      <4> QED
        BY <1>3, <4>1, <4>2
    <3> QED
      BY <1>1, <1>3, <3>1, <3>2
  <2>4. Alone(u)' /\ Current(u)'
    BY <2>1, <2>2, <2>3 DEF Alone, Current
  <2>5. Balanced(u)'
    BY <1>1, <1>4, MoneyKept DEF Books
  <2> QED
    BY <2>4, <2>5 DEF Books
<1> QED
  BY <1>6, <1>7

\* An event is committed: the rows of a user it does not concern stay.
LEMMA BooksCommitEvent ==
  ASSUME PInv, PInv', OwnInv, OwnInv', [Next]_vars, NEW u \in Users, Books(u), CommitEvent
  PROVE  Books(u)'
<1>1. /\ ev.on /\ ev # NoEvent /\ ev \in Events /\ ~ev'.on /\ ~Watched(u)'
      /\ UNCHANGED <<opened, req, fan, mixed>>
  BY EventOn DEF CommitEvent, NoEvent, Watched
<1>2. \A p \in DOMAIN ev.rows : p \in Pos /\ Stored(p) /\ pos[p].sig \in Sigs
  BY <1>1 DEF PInv, EvInv
<1>3. \A p \in DOMAIN ev.rows : Keeps(p)
  BY <1>2, RowsStep, FreeRow DEF Stored
<1>4. (Served(u)' <=> Served(u)) /\ Hands(u)' = Hands(u)
  BY <1>1 DEF Served, Hands
<1>5. CASE ev.e \in {"TP1", "TP2"}
  <2>1. /\ pos' = [p \in Pos |-> IF p \in DOMAIN ev.rows /\ pos[p].st = "OPEN" THEN ResultOf(p).row ELSE pos[p]]
        /\ UNCHANGED <<acc, trades>>
    BY <1>5 DEF CommitEvent, ResultOf
  <2>2. \A p \in DOMAIN ev.rows : ResultOf(p).row.st = "OPEN"
    BY <1>5, Decided DEF ResultOf
  <2>3. ASSUME NEW p \in Pos PROVE Steady(u, p)
    <3>1. CASE p \in DOMAIN ev.rows /\ pos[p].st = "OPEN"
      BY <1>3, <2>1, <2>2, <3>1 DEF Steady
    <3>2. CASE ~(p \in DOMAIN ev.rows /\ pos[p].st = "OPEN")
      BY <2>1, <3>2 DEF Steady
    <3> QED
      BY <3>1, <3>2
  <2>4. TradesOf(u)' = TradesOf(u)
    BY <2>1, TradesSame
  <2> QED
    BY <1>1, <1>4, <2>1, <2>3, <2>4, Elsewhere
<1>6. CASE ev.e \notin {"TP1", "TP2"}
  <2> DEFINE T(p) == [p |-> p, pnl |-> Booking(p), why |-> ev.e]
             O(p) == Outcome(pos[p].margin, ResultOf(p).d)
  <2>1. /\ pos' = [p \in Pos |-> IF p \in DOMAIN ev.rows THEN Ended(pos[p], O(p)) ELSE pos[p]]
        /\ trades' = trades \cup {T(p) : p \in DOMAIN ev.rows}
    BY <1>6 DEF CommitEvent, ResultOf, Booking
  <2>2. acc' = [w \in Users |->
                 IF \E p \in DOMAIN ev.rows : pos[p].own = w
                 THEN LET p == CHOOSE p \in DOMAIN ev.rows : pos[p].own = w
                      IN Credited(acc[w], ResultOf(p).acc, p, Booking(p))
                 ELSE acc[w]]
    BY <1>6 DEF CommitEvent, ResultOf, Booking
  <2>3. \A p \in Pos \ DOMAIN ev.rows : pos'[p] = pos[p]
    BY <2>1
  <2>4. \A p \in DOMAIN ev.rows : T(p).p = p /\ T(p).pnl = Booking(p)
    OBVIOUS
  <2>5. \A p \in DOMAIN ev.rows : O(p) \in {"CLOSED", "LIQUIDATED"}
    BY <1>6, BookingTyped
  <2> HIDE DEF T, O
  <2>6. \A p \in DOMAIN ev.rows : pos'[p].st \in {"CLOSED", "LIQUIDATED"}
    BY <1>2, <2>1, <2>5, EndedRows DEF Stored
  <2>7. CASE \A p \in DOMAIN ev.rows : pos[p].own # u
    <3>1. acc'[u] = acc[u]
      BY <2>2, <2>7
    <3>2. \A p \in Pos : Steady(u, p)
      BY <1>3, <2>3, <2>7 DEF Steady, Keeps, Has
    <3>3. \A t \in trades' : t \in trades \/ pos'[t.p].own # u
      BY <1>3, <2>1, <2>4, <2>7 DEF Keeps
    <3>4. TradesOf(u)' = TradesOf(u)
      BY <2>1, <3>3, TradesSame
    <3> QED
      BY <1>1, <1>4, <3>1, <3>2, <3>4, Elsewhere
  <2>8. ASSUME \E p \in DOMAIN ev.rows : pos[p].own = u PROVE Books(u)'
    <3> DEFINE k == CHOOSE p \in DOMAIN ev.rows : pos[p].own = u
    <3>1. /\ k \in DOMAIN ev.rows /\ pos[k].own = u
          /\ acc'[u] = Credited(acc[u], ResultOf(k).acc, k, Booking(k))
      BY <2>2, <2>8
    <3> HIDE DEF k
    <3>2. Watched(u)
      BY <1>1, <3>1 DEF Watched
    <3>3. Hands(u)' = {} /\ ~Served(u)'
      BY <1>4, <3>2 DEF Books, Alone
    <3>4. ResultOf(k) \in ev.done /\ ResultOf(k).p = k /\ ResultOf(k) \in Results
      BY <1>6, <3>1, Decided DEF ResultOf
    <3>5. ev.e \in {"TP3", "SL"}
      BY <1>1, <1>6 DEF Events
    <3>6. pos[k].st = "OPEN" /\ ResultOf(k).acc = acc[u]
      BY <1>1, <3>1, <3>4, <3>5 DEF Books, Current
    <3>7. k \in OpenOf(u) /\ k \in Pos
      BY <1>2, <3>1, <3>6 DEF OpenOf
    <3>8. \A p \in DOMAIN ev.rows \ {k} : pos[p].own # u
      <4> SUFFICES ASSUME NEW p \in DOMAIN ev.rows \ {k}, pos[p].own = u PROVE FALSE
        OBVIOUS
      <4>1. pos[p].sig = pos[k].sig /\ pos[p].sig # NoSig /\ {pos[p], pos[k]} \subseteq Rows
        BY <1>1, <1>2, <3>1, NoSigAssumption DEF OwnInv, Stored
      <4> QED
        BY <1>2, <3>1, <3>7, <4>1 DEF PInv, OncePerSignal
    <3>9. \A p \in Pos \ {k} : Steady(u, p)
      BY <1>3, <2>3, <3>8 DEF Steady, Keeps, Has
    <3>10. TradesOf(u)' = TradesOf(u) \cup {T(k)}
      <4>1. \A t \in trades : pos'[t.p].own = pos[t.p].own
        <5>1. \A t \in trades : t.p \in Pos
          BY DEF PInv, Typed, Trades
        <5> QED
          BY <1>3, <2>3, <5>1 DEF Keeps
      <4>2. \A p \in DOMAIN ev.rows : pos'[p].own = pos[p].own
        BY <1>3 DEF Keeps
      <4>3. \A p \in DOMAIN ev.rows : pos'[T(p).p].own = u <=> p = k
        BY <2>4, <3>1, <3>8, <4>2
      <4> QED
        BY <2>1, <3>1, <4>1, <4>3 DEF TradesOf
    <3>11. Balanced(u)'
      <4>1. PICK d, x : d = ResultOf(k).d /\ x = T(k)
        OBVIOUS
      <4>2. d \in Int
        BY <3>4, <4>1 DEF Results
      <4>3. x.p = k /\ x.pnl = Settled(pos[k].margin, d) /\ TradesOf(u)' = TradesOf(u) \cup {x}
        BY <2>4, <3>1, <3>10, <4>1 DEF Booking
      <4>4. acc'[u] = Credited(acc[u], acc[u], k, Settled(pos[k].margin, d))
        BY <3>1, <3>6, <4>1 DEF Booking
      <4>5. Balanced(u) /\ pos'[k].st \in {"CLOSED", "LIQUIDATED"}
        BY <2>6, <3>1 DEF Books
      <4> QED
        BY <3>7, <3>9, <4>2, <4>3, <4>4, <4>5, Settling
    <3>12. Alone(u)' /\ Current(u)'
      BY <1>1, <3>3, NoSession
    <3> QED
      BY <3>11, <3>12 DEF Books
  <2> QED
    BY <2>7, <2>8
<1> QED
  BY <1>5, <1>6

LEMMA BooksEngine ==
  ASSUME PInv, PInv', OwnInv, OwnInv', NEW u \in Users, u \notin mixed', Books(u), Engine
  PROVE  Books(u)'
<1>1. [Next]_vars
  BY DEF Next
<1> QED
  BY <1>1, BooksSignals, BooksServe, BooksCommitSignal, BooksEvent, BooksManage, BooksCommitEvent DEF Engine

\* Users of whom two sessions were never under way at once.
BooksInv == \A u \in Users \ mixed : Books(u)

LEMMA InitBooks == Init => BooksInv
<1> SUFFICES ASSUME Init, NEW u \in Users PROVE Books(u)
  BY DEF BooksInv
<1>1. /\ trades = {} /\ acc[u].bal = Initial /\ pos = [p \in Pos |-> Free]
      /\ req = [r \in Req |-> Idle] /\ ~fan.on /\ ~ev.on
  BY DEF Init, NoFan, NoEvent
<1>2. TradesOf(u) = {} /\ OpenOf(u) = {} /\ Hands(u) = {}
  BY <1>1, FreeRow DEF TradesOf, OpenOf, Hands, Free
<1>3. Won(u) = 0 /\ UsedMargin(u) = 0
  <2>1. PICK f, g : f = [t \in TradesOf(u) |-> t.pnl] /\ g = [p \in OpenOf(u) |-> pos[p].margin]
    OBVIOUS
  <2>2. DOMAIN f = {} /\ DOMAIN g = {} /\ f \in [{} -> Int] /\ g \in [{} -> Int]
    BY <1>2, <2>1
  <2>3. SumFunction(f) = 0 /\ SumFunction(g) = 0
    BY <2>2, SumNothing
  <2> QED
    BY <2>1, <2>3 DEF Won, UsedMargin
<1>4. IsFiniteSet(TradesOf(u))
  BY <1>2, FS_EmptySet
<1>5. Balanced(u)
  BY <1>1, <1>2, <1>3, <1>4, MoneyAssumption DEF Balanced
<1>6. Alone(u) /\ Current(u)
  BY <1>1, <1>2 DEF Alone, Current, Served, Watched
<1> QED
  BY <1>5, <1>6 DEF Books

LEMMA NextBooks == PInv /\ PInv' /\ OwnInv /\ OwnInv' /\ BooksInv /\ [Next]_vars => BooksInv'
<1> SUFFICES ASSUME PInv, PInv', OwnInv, OwnInv', BooksInv, [Next]_vars, NEW u \in Users, u \notin mixed'
             PROVE  Books(u)'
  BY DEF BooksInv
<1>1. mixed \subseteq mixed'
  <2>1. CASE Request
    BY <2>1 DEF Request, Load, Open, CommitOpen, FindPosition, CommitClose, CommitReset
  <2>2. CASE Engine
    BY <2>2 DEF Engine, NewSignal, Serve, CommitSignal, FailSignal, SignalEvent, Manage, CommitEvent, FailEvent
  <2>3. CASE UNCHANGED vars
    BY <2>3 DEF vars
  <2> QED
    BY <2>1, <2>2, <2>3 DEF Next
<1>2. Books(u)
  BY <1>1 DEF BooksInv
<1>3. CASE UNCHANGED vars
  <2>1. /\ acc' = acc /\ pos' = pos /\ trades' = trades /\ req' = req /\ fan' = fan /\ ev' = ev
    BY <1>3 DEF vars
  <2>2. TradesOf(u)' = TradesOf(u) /\ (Served(u)' => Served(u)) /\ \A p \in Pos : Steady(u, p)
    BY <2>1 DEF TradesOf, Served, Steady
  <2> QED
    BY <1>2, <2>1, <2>2, Elsewhere
<1> QED
  BY <1>2, <1>3, BooksRequests, BooksEngine DEF Next

\* As long as the sessions of a user come one after the other, its balance is the
\* initial one plus what its trades have won, and covers the margins in use: whatever
\* the requests, signals and events, their order, and what other users do.
THEOREM BooksAlwaysBalance == Spec => []BooksBalance
<1>1. BooksInv => BooksBalance
  BY DEF BooksInv, BooksBalance, Books, Balanced, Won
<1> QED
  BY <1>1, InitBooks, NextBooks, PaperInvariant, OwnInvariant, PTL DEF Spec

-----------------------------------------------------------------------------
(* Break-even stops.                                                        *)

\* A stop that was moved to the entry is there or above it.
Secured(q) == q.even => q.stop >= Entry

\* So it is in every open row, loaded row and decision; a position with a trade is over.
EvenInv ==
    /\ BreakEvenHolds
    /\ \A p \in Pos : Fresh(p) /\ pos[p] # Free => Secured(pos[p])
    /\ \A t \in trades : ~Fresh(t.p)
    /\ ev.on =>
         /\ \A p \in DOMAIN ev.rows : Secured(ev.rows[p]) /\ ev.rows[p].even = pos[p].even
         /\ \A x \in ev.done : IF ev.e \in {"TP1", "TP2"} THEN Secured(x.row)
                               ELSE ev.e = "SL" /\ pos[x.p].even => x.d >= 0

LEMMA EndedEven ==
  ASSUME NEW q \in Rows, NEW st \in {"CLOSED", "LIQUIDATED", "gone"}
  PROVE  Ended(q, st).even = q.even
<1> DEFINE x == [q EXCEPT !.st = st]
           y == [x EXCEPT !.stop = Stop0]
           z == [y EXCEPT !.prot = "none"]
<1>1. x \in Rows /\ x.even = q.even
  BY DEF Rows
<1>2. Ended(q, st) = z
  BY DEF Ended
<1> HIDE DEF x
<1>3. y \in Rows /\ y.even = q.even
  BY <1>1 DEF Rows, Stop0
<1> HIDE DEF y
<1> QED
  BY <1>2, <1>3 DEF Rows

\* Break-even moves the stop to the entry; trailing only tightens it.
LEMMA ProtectedEven ==
  ASSUME NEW q \in Rows, Secured(q), NEW b \in BOOLEAN, NEW t \in BOOLEAN, NEW d \in Distances,
         ev.e \in {"TP1", "TP2"}
  PROVE  Secured(Protected(q, b, t, d))
<1> DEFINE x == [q EXCEPT !.stop = Entry]
           y == [x EXCEPT !.prot = "BREAK_EVEN"]
           z == [y EXCEPT !.even = TRUE]
           a == IF b /\ q.prot = "none" THEN z ELSE q
           n == Tighten(a.stop, Target(ev.e) - d)
           v == [a EXCEPT !.stop = n]
           w == [v EXCEPT !.prot = "TRAILING"]
<1>1. x \in Rows /\ x.stop = Entry
  BY DEF Rows, Entry
<1>2. Protected(q, b, t, d) = IF t THEN w ELSE a
  BY DEF Protected
<1> HIDE DEF x
<1>3. y \in Rows /\ y.stop = Entry
  BY <1>1 DEF Rows
<1> HIDE DEF y
<1>4. z \in Rows /\ z.stop = Entry
  BY <1>3 DEF Rows
<1> HIDE DEF z
<1>5. a \in Rows /\ Secured(a)
  BY <1>4 DEF Secured, Entry
<1> HIDE DEF a
<1>6. n \in Int /\ n >= a.stop
  <2>1. Target(ev.e) \in Int /\ d \in Int
    BY MoneyAssumption DEF Target
  <2>2. a.stop \in Int
    BY <1>5 DEF Rows
  <2> QED
    BY <2>1, <2>2 DEF Tighten
<1> HIDE DEF n
<1>7. v \in Rows /\ v.stop = n /\ v.even = a.even
  BY <1>5, <1>6 DEF Rows
<1> HIDE DEF v
<1>8. w.stop = n /\ w.even = a.even
  BY <1>7 DEF Rows
<1>9. Secured(w)
  <2>1. a.stop \in Int
    BY <1>5 DEF Rows
  <2> QED
    BY <1>5, <1>6, <1>8, <2>1 DEF Secured, Entry
<1> QED
  BY <1>2, <1>5, <1>9

\* A step on one row: it is as it was, begins, is undone, keeps its break-even and, unless
\* it is over, its stop, or has its stop set when an event ends.
EvenStep(p) ==
    \/ pos'[p] = pos[p]
    \/ pos[p] = Free /\ ~pos'[p].even
    \/ Born(p) /\ pos'[p] = Free
    \/ pos[p] \in Rows /\ pos'[p].even = pos[p].even /\ (pos'[p].stop = pos[p].stop \/ ~Fresh(p)')
    \/ pos[p].st = "OPEN" /\ ~ev'.on /\ Secured(pos'[p])

\* What a step adds to trades and events.
LEMMA EvenKept ==
  ASSUME PInv, PInv', OwnInv, EvenInv, [Next]_vars, \A p \in Pos : EvenStep(p),
         \A t \in trades' : t \in trades \/ (~Fresh(t.p)' /\ (t.why = "SL" /\ pos'[t.p].even => t.pnl >= 0)),
         ev'.on =>
             /\ \/ ev.on /\ ev'.rows = ev.rows
                \/ \A p \in DOMAIN ev'.rows : Stored(p) /\ Fresh(p) /\ ev'.rows[p] = pos[p]
             /\ \A x \in ev'.done :
                  \/ ev.on /\ ev'.e = ev.e /\ x \in ev.done
                  \/ IF ev'.e \in {"TP1", "TP2"} THEN Secured(x.row)
                     ELSE ev'.e = "SL" /\ pos[x.p].even => x.d >= 0
  PROVE  EvenInv'
<1>1. Ages
  BY AgesStep
<1>2. \A p \in Pos : Fresh(p)' /\ pos'[p] # Free => Secured(pos'[p])
  <2> SUFFICES ASSUME NEW p \in Pos, Fresh(p)', pos'[p] # Free, pos'[p].even PROVE pos'[p].stop >= Entry
    BY DEF Secured
  <2>1. ASSUME pos[p] \in Rows, pos'[p].even = pos[p].even, pos'[p].stop = pos[p].stop
        PROVE  pos'[p].stop >= Entry
    <3>1. Fresh(p) /\ pos[p] # Free
      BY <1>1, <2>1, FreeRow DEF Ages
    <3>2. Secured(pos[p])
      BY <3>1 DEF EvenInv
    <3> QED
      BY <2>1, <3>2 DEF Secured
  <2>2. CASE pos'[p] = pos[p]
    <3>1. pos[p] \in Rows
      BY <2>2, FreeRow DEF PInv
    <3> QED
      BY <2>1, <2>2, <3>1
  <2>3. CASE pos[p].st = "OPEN" /\ ~ev'.on /\ Secured(pos'[p])
    BY <2>3 DEF Secured
  <2> QED
    BY <2>1, <2>2, <2>3 DEF EvenStep
<1>3. ASSUME NEW t \in trades' PROVE ~Fresh(t.p)' /\ (t.why = "SL" /\ pos'[t.p].even => t.pnl >= 0)
  <2>1. CASE t \in trades
    <3>1. t.p \in Pos /\ Stored(t.p) /\ ~Fresh(t.p)
      BY <2>1 DEF PInv, Typed, Trades, OwnInv, EvenInv
    <3>2. ~Fresh(t.p)'
      BY <1>1, <3>1 DEF Ages
    <3>3. pos'[t.p].even = pos[t.p].even
      BY <3>1, FreeRow DEF EvenStep, Stored, Born, Fresh
    <3> QED
      BY <2>1, <3>2, <3>3 DEF EvenInv, BreakEvenHolds
  <2> QED
    BY <2>1
<1>4. ASSUME ev'.on, NEW p \in DOMAIN ev'.rows
      PROVE  p \in Pos /\ Secured(ev'.rows[p]) /\ ev'.rows[p].even = pos'[p].even /\ pos'[p].even = pos[p].even
  <2>1. p \in Pos /\ Stored(p)
    <3>1. p \in Pos
      BY <1>4, EventOn DEF PInv, EvInv, NoEvent
    <3> QED
      BY <1>4, <3>1, EventOn DEF PInv, EvInv
  <2>2. pos'[p] # Free
    BY <1>4, FreeRow DEF PInv, EvInv, NoEvent, Stored
  <2>3. pos'[p].even = pos[p].even
    BY <1>4, <2>1, <2>2, FreeRow DEF EvenStep, Stored, Born
  <2>4. Secured(ev'.rows[p]) /\ ev'.rows[p].even = pos[p].even
    BY <1>4, <2>1, FreeRow DEF EvenInv, Stored
  <2> QED
    BY <2>1, <2>3, <2>4
<1>5. ASSUME ev'.on, NEW x \in ev'.done
      PROVE  IF ev'.e \in {"TP1", "TP2"} THEN Secured(x.row) ELSE ev'.e = "SL" /\ pos'[x.p].even => x.d >= 0
  <2>1. x.p \in DOMAIN ev'.rows
    BY <1>5 DEF PInv, EvInv, NoEvent
  <2>2. pos'[x.p].even = pos[x.p].even
    BY <1>4, <1>5, <2>1
  <2> QED
    BY <1>5, <2>2 DEF EvenInv
<1>6. BreakEvenHolds'
  BY <1>3 DEF BreakEvenHolds
<1> QED
  BY <1>2, <1>3, <1>4, <1>5, <1>6 DEF EvenInv

LEMMA EvenRequests ==
  ASSUME PInv, PInv', OwnInv, EvenInv, Request
  PROVE  EvenInv'
<1>0. [Next]_vars
  BY DEF Next
<1>1. PICK r \in Req :
        \/ \E u \in Users, op \in {"open", "close", "reset"} : Load(r, u, op)
        \/ \E m \in Margins : Open(r, m)
        \/ CommitOpen(r)
        \/ \E p \in Pos : FindPosition(r, p)
        \/ \E d \in Moves : CommitClose(r, d)
        \/ CommitReset(r)
  BY DEF Request
<1>2. ev' = ev
  BY <1>1 DEF Load, Open, CommitOpen, FindPosition, CommitClose, CommitReset
<1>3. ASSUME \/ \E u \in Users, op \in {"open", "close", "reset"} : Load(r, u, op)
             \/ \E p \in Pos : FindPosition(r, p)
      PROVE  EvenInv'
  <2>1. pos' = pos /\ trades' = trades
    BY <1>3 DEF Load, FindPosition
  <2> QED
    BY <1>0, <1>2, <2>1, EvenKept DEF EvenStep
<1>4. ASSUME NEW m \in Margins, Open(r, m) PROVE EvenInv'
  <2>1. \A k \in Pos : pos'[k] = pos[k] \/ (pos[k] = Free /\ ~pos'[k].even)
    BY <1>4 DEF Open, PInv, Typed, NewPosition
  <2>2. trades' = trades
    BY <1>4 DEF Open
  <2> QED
    BY <1>0, <1>2, <2>1, <2>2, EvenKept DEF EvenStep
<1>5. CASE CommitOpen(r)
  <2>1. PICK p : p = req[r].p
    OBVIOUS
  <2>2. p \in Pos /\ pos[p] \in Rows
    BY <1>5, <2>1 DEF CommitOpen, PInv, Typed, Requests, Idle, HandInv, Born
  <2> DEFINE q == [pos[p] EXCEPT !.st = "OPEN"]
  <2>3. q.even = pos[p].even /\ q.stop = pos[p].stop
    BY <2>2 DEF Rows
  <2>4. pos' = [pos EXCEPT ![p] = q] /\ trades' = trades
    BY <1>5, <2>1 DEF CommitOpen
  <2> HIDE DEF q
  <2>5. \A k \in Pos : pos'[k] = pos[k] \/ (pos[k] \in Rows /\ pos'[k].even = pos[k].even /\ pos'[k].stop = pos[k].stop)
    BY <2>2, <2>3, <2>4 DEF PInv, Typed
  <2> QED
    BY <1>0, <1>2, <2>4, <2>5, EvenKept DEF EvenStep
<1>6. ASSUME NEW d \in Moves, CommitClose(r, d) PROVE EvenInv'
  <2>1. PICK p : p = req[r].p
    OBVIOUS
  <2>2. p \in Pos /\ pos[p] \in Rows
    BY <1>6, <2>1 DEF CommitClose, PInv, Typed, Requests, Idle, HandInv, Stored
  <2>3. CASE pos[p].st = "gone"
    <3>1. pos' = pos /\ trades' = trades
      BY <1>6, <2>1, <2>3 DEF CommitClose
    <3> QED
      BY <1>0, <1>2, <3>1, EvenKept DEF EvenStep
  <2>4. CASE pos[p].st # "gone"
    <3> DEFINE o == Outcome(pos[p].margin, d)
               q == Ended(pos[p], o)
               x == [p |-> p, pnl |-> Settled(pos[p].margin, d), why |-> "MANUAL"]
    <3>1. pos' = [pos EXCEPT ![p] = q] /\ trades' = trades \cup {x}
      BY <1>6, <2>1, <2>4 DEF CommitClose
    <3>2. o \in {"CLOSED", "LIQUIDATED"}
      BY DEF Outcome
    <3>3. x.p = p /\ x.why = "MANUAL"
      OBVIOUS
    <3> HIDE DEF o, x
    <3>4. q \in Rows /\ q.st \in {"CLOSED", "LIQUIDATED"} /\ q.even = pos[p].even
      <4>1. q \in Rows /\ q.st \in {"CLOSED", "LIQUIDATED"}
        BY <2>2, <3>2, EndedRows
      <4>2. q.even = pos[p].even
        BY <2>2, <3>2, EndedEven
      <4> QED
        BY <4>1, <4>2
    <3> HIDE DEF q
    <3>5. pos'[p] = q /\ \A k \in Pos \ {p} : pos'[k] = pos[k]
      BY <2>2, <3>1 DEF PInv, Typed
    <3>6. ~Fresh(p)'
      BY <3>4, <3>5, FreeRow DEF Fresh
    <3>7. \A k \in Pos : EvenStep(k)
      BY <2>2, <3>4, <3>5, <3>6 DEF EvenStep
    <3>8. \A t \in trades' : t \in trades \/ (~Fresh(t.p)' /\ t.why = "MANUAL")
      BY <3>1, <3>3, <3>6
    <3> QED
      BY <1>0, <1>2, <3>7, <3>8, EvenKept
  <2> QED
    BY <2>3, <2>4
<1>7. CASE CommitReset(r)
  <2>1. /\ pos' = [p \in Pos |-> IF p \in RowsOf(req[r].user) THEN Ended(pos[p], "gone") ELSE pos[p]]
        /\ trades' \subseteq trades
    BY <1>7 DEF CommitReset
  <2>2. ASSUME NEW p \in RowsOf(req[r].user)
        PROVE  pos[p] \in Rows /\ Ended(pos[p], "gone").even = pos[p].even
               /\ Ended(pos[p], "gone") \in Rows /\ Ended(pos[p], "gone").st = "gone"
    <3>1. pos[p] \in Rows
      BY <2>2, FreeRow DEF RowsOf, PInv
    <3> QED
      BY <3>1, EndedRows, EndedEven
  <2>3. ASSUME NEW p \in Pos PROVE EvenStep(p)
    <3>1. CASE p \in RowsOf(req[r].user)
      <4>1. pos'[p] = Ended(pos[p], "gone")
        BY <2>1, <3>1
      <4>2. ~Fresh(p)'
        BY <2>2, <3>1, <4>1, FreeRow DEF Fresh
      <4> QED
        BY <2>2, <3>1, <4>1, <4>2 DEF EvenStep
    <3>2. CASE p \notin RowsOf(req[r].user)
      BY <2>1, <3>2 DEF EvenStep
    <3> QED
      BY <3>1, <3>2
  <2> QED
    BY <1>0, <1>2, <2>1, <2>3, EvenKept
<1> QED
  BY <1>1, <1>3, <1>4, <1>5, <1>6, <1>7

LEMMA EvenEvents ==
  ASSUME PInv, PInv', OwnInv, EvenInv, NEW p \in Pos, Manage(p)
  PROVE  EvenInv'
<1>0. [Next]_vars
  BY DEF Next, Engine
<1>1. ev.on /\ ev \in Events /\ p \in ev.todo /\ pos' = pos /\ trades' = trades
  BY EventOn DEF Manage
<1>2. /\ p \in DOMAIN ev.rows /\ ev.rows[p] \in Rows /\ Secured(ev.rows[p])
      /\ ev.rows[p].even = pos[p].even
  BY <1>1, EventOn DEF PInv, EvInv, EvenInv
<1>3. PICK x : /\ ev' = [ev EXCEPT !.todo = @ \ {p}, !.done = @ \cup {x}]
               /\ IF ev.e \in {"TP1", "TP2"} THEN Secured(x.row)
                  ELSE ev.e = "SL" /\ pos[x.p].even => x.d >= 0
  <2>1. CASE ev.e \in {"TP1", "TP2"}
    <3>1. PICK b \in BOOLEAN, t \in BOOLEAN, d \in Distances :
            ev' = [ev EXCEPT !.todo = @ \ {p},
                             !.done = @ \cup {[p |-> p, row |-> Protected(ev.rows[p], b, t, d)]}]
      BY <2>1 DEF Manage
    <3> DEFINE x == [p |-> p, row |-> Protected(ev.rows[p], b, t, d)]
    <3>2. Secured(Protected(ev.rows[p], b, t, d))
      BY <1>2, <2>1, ProtectedEven
    <3>3. x.row = Protected(ev.rows[p], b, t, d) /\ ev' = [ev EXCEPT !.todo = @ \ {p}, !.done = @ \cup {x}]
      BY <3>1
    <3> HIDE DEF x
    <3> QED
      BY <2>1, <3>2, <3>3
  <2>2. CASE ev.e \notin {"TP1", "TP2"}
    <3> DEFINE d == ExitPrice(ev.rows[p]) - Entry
               x == [p |-> p, acc |-> acc[pos[p].own], d |-> d]
    <3>1. ev' = [ev EXCEPT !.todo = @ \ {p}, !.done = @ \cup {x}] /\ x.p = p /\ x.d = d
      BY <2>2 DEF Manage
    <3>2. ev.e = "SL" /\ pos[p].even => d >= 0
      BY <1>2 DEF ExitPrice, Secured, Rows, Entry
    <3> HIDE DEF x, d
    <3> QED
      BY <2>2, <3>1, <3>2
  <2> QED
    BY <2>1, <2>2
<1>4. ev'.on /\ ev'.e = ev.e /\ ev'.rows = ev.rows /\ ev'.done = ev.done \cup {x}
  BY <1>1, <1>3 DEF Events
<1>5. \A k \in Pos : EvenStep(k)
  BY <1>1 DEF EvenStep
<1>6. \A y \in ev'.done :
         \/ ev.on /\ ev'.e = ev.e /\ y \in ev.done
         \/ IF ev'.e \in {"TP1", "TP2"} THEN Secured(y.row) ELSE ev'.e = "SL" /\ pos[y.p].even => y.d >= 0
  BY <1>1, <1>3, <1>4
<1> QED
  BY <1>0, <1>1, <1>4, <1>5, <1>6, EvenKept

LEMMA EvenCommits ==
  ASSUME PInv, PInv', OwnInv, EvenInv, CommitEvent
  PROVE  EvenInv'
<1>0. [Next]_vars
  BY DEF Next, Engine
<1>1. ev.on /\ ev \in Events /\ ~ev'.on
  BY EventOn DEF CommitEvent, NoEvent
<1>2. \A p \in DOMAIN ev.rows : p \in Pos /\ Stored(p)
  BY <1>1, EventOn DEF PInv, EvInv
<1>3. CASE ev.e \in {"TP1", "TP2"}
  <2>1. /\ pos' = [p \in Pos |-> IF p \in DOMAIN ev.rows /\ pos[p].st = "OPEN" THEN ResultOf(p).row ELSE pos[p]]
        /\ trades' = trades
    BY <1>3 DEF CommitEvent, ResultOf
  <2>2. \A p \in DOMAIN ev.rows : Secured(ResultOf(p).row)
    BY <1>1, <1>3, Decided DEF ResultOf, EvenInv
  <2>3. \A p \in Pos : EvenStep(p)
    BY <1>1, <2>1, <2>2 DEF EvenStep
  <2> QED
    BY <1>0, <1>1, <2>1, <2>3, EvenKept
<1>4. CASE ev.e \notin {"TP1", "TP2"}
  <2> DEFINE T(p) == [p |-> p, pnl |-> Booking(p), why |-> ev.e]
             Q(p) == Ended(pos[p], Outcome(pos[p].margin, ResultOf(p).d))
  <2>1. /\ pos' = [p \in Pos |-> IF p \in DOMAIN ev.rows THEN Q(p) ELSE pos[p]]
        /\ trades' = trades \cup {T(p) : p \in DOMAIN ev.rows}
    BY <1>4 DEF CommitEvent, ResultOf, Booking
  <2>2. \A p \in DOMAIN ev.rows : T(p).p = p /\ T(p).pnl = Booking(p) /\ T(p).why = ev.e
    OBVIOUS
  <2>3. \A p \in DOMAIN ev.rows : Q(p) \in Rows /\ Q(p).st \in {"CLOSED", "LIQUIDATED"} /\ Q(p).even = pos[p].even
    <3> SUFFICES ASSUME NEW p \in DOMAIN ev.rows
                 PROVE  Q(p) \in Rows /\ Q(p).st \in {"CLOSED", "LIQUIDATED"} /\ Q(p).even = pos[p].even
      OBVIOUS
    <3> DEFINE o == Outcome(pos[p].margin, ResultOf(p).d)
    <3>1. o \in {"CLOSED", "LIQUIDATED"} /\ pos[p] \in Rows
      BY <1>2, <1>4, BookingTyped DEF Stored
    <3>2. Q(p) = Ended(pos[p], o)
      OBVIOUS
    <3> HIDE DEF o, Q
    <3>3. Q(p) \in Rows /\ Q(p).st \in {"CLOSED", "LIQUIDATED"}
      BY <3>1, <3>2, EndedRows
    <3>4. Q(p).even = pos[p].even
      BY <3>1, <3>2, EndedEven
    <3> QED
      BY <3>3, <3>4
  <2> HIDE DEF T, Q
  <2>4. ASSUME NEW p \in DOMAIN ev.rows
        PROVE  ~Fresh(p)' /\ pos'[p].even = pos[p].even /\ p \in Pos /\ pos[p] \in Rows
    <3>1. pos'[p] = Q(p)
      BY <1>2, <2>1
    <3> QED
      BY <1>2, <2>3, <3>1, FreeRow DEF Fresh, Stored
  <2>5. \A p \in Pos : EvenStep(p)
    BY <2>1, <2>4 DEF EvenStep
  <2>6. ASSUME NEW p \in DOMAIN ev.rows, ev.e = "SL", pos[p].even PROVE Booking(p) >= 0
    <3>1. ResultOf(p) \in ev.done /\ ResultOf(p).p = p /\ ResultOf(p) \in Results
      BY <1>4, Decided DEF ResultOf
    <3>2. ResultOf(p).d >= 0 /\ ResultOf(p).d \in Int
      BY <1>1, <2>6, <3>1 DEF EvenInv, Results
    <3>3. pos[p].margin \in Nat \ {0}
      BY <2>4, MoneyAssumption DEF Rows
    <3> QED
      BY <3>2, <3>3 DEF Booking, Settled
  <2>7. \A t \in trades' : t \in trades \/ (~Fresh(t.p)' /\ (t.why = "SL" /\ pos'[t.p].even => t.pnl >= 0))
    <3> SUFFICES ASSUME NEW t \in trades', t \notin trades
                 PROVE  ~Fresh(t.p)' /\ (t.why = "SL" /\ pos'[t.p].even => t.pnl >= 0)
      OBVIOUS
    <3>1. PICK p \in DOMAIN ev.rows : t = T(p)
      BY <2>1
    <3>2. t.p = p /\ t.pnl = Booking(p) /\ t.why = ev.e
      BY <2>2, <3>1
    <3> QED
      BY <2>4, <2>6, <3>2
  <2> QED
    BY <1>0, <1>1, <2>5, <2>7, EvenKept
<1> QED
  BY <1>3, <1>4

LEMMA EvenEngine ==
  ASSUME PInv, PInv', OwnInv, EvenInv, Engine
  PROVE  EvenInv'
<1>0. [Next]_vars
  BY DEF Next
<1>1. CASE \/ \E s \in Sigs, U \in SUBSET Users : NewSignal(s, U)
           \/ FailEvent
  <2>1. pos' = pos /\ trades' = trades /\ (ev' = ev \/ ~ev'.on)
    BY <1>1 DEF NewSignal, FailEvent, NoEvent
  <2> QED
    BY <1>0, <2>1, EvenKept DEF EvenStep
<1>2. ASSUME NEW u \in Users, Serve(u) PROVE EvenInv'
  <2>0. \A m, s : ~NewPosition(u, m, s).even
    BY DEF NewPosition
  <2>1. \A k \in Pos : pos'[k] = pos[k] \/ (pos[k] = Free /\ ~pos'[k].even)
    <3>1. pos' = pos \/ \E k \in Pos, m \in Sizes : pos[k] = Free /\ pos' = [pos EXCEPT ![k] = NewPosition(u, m, fan.sig)]
      BY <1>2 DEF Serve
    <3> QED
      BY <2>0, <3>1 DEF PInv, Typed
  <2>2. trades' = trades /\ ev' = ev
    BY <1>2 DEF Serve
  <2> QED
    BY <1>0, <2>1, <2>2, EvenKept DEF EvenStep
<1>3. CASE CommitSignal \/ FailSignal
  <2>1. \A k \in fan.new : Born(k)
    BY <1>3 DEF CommitSignal, FailSignal, PInv, FanInv
  <2>2. \A q \in Rows : [q EXCEPT !.st = "OPEN"].even = q.even /\ [q EXCEPT !.st = "OPEN"].stop = q.stop
    BY DEF Rows
  <2>3. \A k \in Pos : EvenStep(k)
    BY <1>3, <2>1, <2>2 DEF CommitSignal, FailSignal, EvenStep, Born
  <2>4. trades' = trades /\ ev' = ev
    BY <1>3 DEF CommitSignal, FailSignal
  <2> QED
    BY <1>0, <2>3, <2>4, EvenKept
<1>4. ASSUME NEW s \in Sigs, NEW e \in {"TP1", "TP2", "TP3", "SL"}, SignalEvent(s, e) PROVE EvenInv'
  <2> DEFINE F == {p \in Pos : pos[p].st = "OPEN" /\ pos[p].sig = s}
  <2>1. /\ ev' = [on |-> TRUE, e |-> e, rows |-> [p \in F |-> pos[p]], todo |-> F, done |-> {}]
        /\ trades' = trades /\ pos' = pos
    BY <1>4 DEF SignalEvent
  <2>2. \A p \in F : Stored(p) /\ Fresh(p)
    BY FreeRow DEF PInv, Stored, Fresh
  <2> HIDE DEF F
  <2>3. \A p \in DOMAIN ev'.rows : Stored(p) /\ Fresh(p) /\ ev'.rows[p] = pos[p]
    BY <2>1, <2>2
  <2>4. ev'.done = {}
    BY <2>1
  <2> QED
    BY <1>0, <2>1, <2>3, <2>4, EvenKept DEF EvenStep
<1> QED
  BY <1>1, <1>2, <1>3, <1>4, EvenEvents, EvenCommits DEF Engine

\* A stop of the engine that follows a break-even never loses, for any number of targets,
\* settings that change between them, and sessions in between.
THEOREM BreakEvenNeverLoses == Spec => []BreakEvenHolds
<1>1. Init => EvenInv
  BY FreeRow DEF Init, EvenInv, BreakEvenHolds, NoEvent
<1>2. PInv /\ PInv' /\ OwnInv /\ EvenInv /\ [Next]_vars => EvenInv'
  <2> SUFFICES ASSUME PInv, PInv', OwnInv, EvenInv, [Next]_vars PROVE EvenInv'
    OBVIOUS
  <2>1. CASE UNCHANGED vars
    BY <2>1 DEF vars, EvenInv, BreakEvenHolds, Secured, Fresh
  <2> QED
    BY <2>1, EvenRequests, EvenEngine DEF Next
<1>3. EvenInv => BreakEvenHolds
  BY DEF EvenInv
<1> QED
  BY <1>1, <1>2, <1>3, PaperInvariant, OwnInvariant, PTL DEF Spec
=============================================================================
