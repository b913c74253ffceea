---------------------------- MODULE SignalsProofs ----------------------------
(* Proofs about Signals, for any ids, symbols, settings and faults.          *)
EXTENDS Signals, SequenceTheorems, TLAPS

\* What a row tells by itself: an unfilled entry has no outcome, and with protected
\* stops counted as wins the status is as good as the best target.
RowTruth(c) ==
    /\ FillRequired =>
         IF c.filled THEN c.status # "EXPIRED"
         ELSE c.status \in {"OPEN", "EXPIRED"} /\ c.best = 0 /\ ~c.stopped
    /\ ProtectedAsWin => c.best <= Rank(c.status)

RowsInv == \A i \in Ids : sig[i] # NoSig => RowTruth(sig[i])

\* The tracker is the only one to write a row after create_signal, so its copies
\* are the rows; those it has not dealt with are still open.
CopyInv ==
    /\ \A i \in Ids : polled[i] # NoSig =>
         polled[i] = sig[i] /\ (i # cur => polled[i].status \in {"OPEN", "TP1", "TP2"})
    /\ tpc \in {"idle", "poll"} => cur = NoSig

\* The signal being served is filled, its status is within what this poll reached,
\* and the target at the head of the queue is no step back.
WorkInv ==
    tpc \in {"apply", "paper", "auto"} =>
        /\ cur \in Ids /\ polled[cur] # NoSig /\ queue \in Queues
        /\ FillRequired => polled[cur].filled
        /\ Rank(polled[cur].status) <= reach /\ Rank(Head(queue)) <= reach
        /\ Head(queue) # "SL" => Rank(polled[cur].status) <= Rank(Head(queue))

\* An event is told after it was recorded.
ToldInv ==
    tpc \in {"paper", "auto"} =>
        /\ Rank(Head(queue)) <= polled[cur].best
        /\ Head(queue) = "SL" => polled[cur].stopped
        /\ Head(queue) \in Final => polled[cur].closed

\* Followers follow stored signals.
StoredInv ==
    /\ spc \in {"paper", "auto"} => saved \in Ids /\ sig[saved] # NoSig
    /\ \A i \in Ids : auto[i] # "none" => sig[i] # NoSig

SigInv ==
    TypeOK /\ RowsInv /\ CopyInv /\ WorkInv /\ ToldInv /\ StoredInv /\ FollowersNotAhead

-----------------------------------------------------------------------------
(* The pieces of a poll.                                                    *)

\* What a concatenation of two events is.
LEMMA Pair ==
  ASSUME NEW x, NEW y
  PROVE  <<x>> \o <<y>> = <<x, y>>
<1>1. /\ <<x>> \in Seq({x, y}) /\ <<y>> \in Seq({x, y}) /\ <<x, y>> \in Seq({x, y})
      /\ Len(<<x, y>>) = 2 /\ <<x, y>>[1] = x /\ <<x, y>>[2] = y
  OBVIOUS
<1>2. /\ <<x>> \o <<y>> \in Seq({x, y}) /\ Len(<<x>> \o <<y>>) = 2
      /\ (<<x>> \o <<y>>)[1] = x /\ (<<x>> \o <<y>>)[2] = y
  BY <1>1
<1>3. \A i \in 1 .. 2 : (<<x>> \o <<y>>)[i] = <<x, y>>[i]
  BY <1>1, <1>2
<1>4. \A S : \A s, t \in Seq(S) :
         Len(s) = Len(t) /\ (\A i \in 1 .. Len(s) : s[i] = t[i]) => s = t
  BY SeqEqual
<1>5. \A s, t \in Seq({x, y}) :
         Len(s) = 2 /\ Len(t) = 2 /\ (\A i \in 1 .. 2 : s[i] = t[i]) => s = t
  BY <1>4
<1> QED
  BY <1>1, <1>2, <1>3, <1>5, Zenon

\* The events of a poll, and the target it reached: no event is beyond it, and the
\* first target is no step back.
LEMMA EventsFit ==
  ASSUME NEW c \in Rows, NEW tp \in 0 .. 3, NEW low, EventsOf(c, tp, low) # <<>>
  PROVE  /\ EventsOf(c, tp, low) \in Queues
         /\ TopOf(c, tp) \in 0 .. 3
         /\ Rank(c.status) <= TopOf(c, tp)
         /\ Rank(Head(EventsOf(c, tp, low))) <= TopOf(c, tp)
         /\ Head(EventsOf(c, tp, low)) # "SL" => Rank(c.status) <= Rank(Head(EventsOf(c, tp, low)))
<1> DEFINE q == EventsOf(c, tp, low)
<1>1. c.status \in Statuses /\ Rank(c.status) \in 0 .. 3
  BY DEF Rows, Statuses, Rank
<1>2. TopOf(c, tp) \in 0 .. 3 /\ Rank(c.status) <= TopOf(c, tp) /\ tp <= TopOf(c, tp)
  BY <1>1 DEF TopOf, Larger
<1>3. CASE tp = 3
  <2>1. q = <<"TP3">>
    BY <1>3 DEF EventsOf
  <2>2. q \in Queues /\ Head(q) = "TP3"
    BY <2>1 DEF Queues, Events
  <2> QED
    BY <1>1, <1>2, <1>3, <2>2 DEF Rank
<1>4. CASE tp # 3 /\ tp > Rank(c.status)
  <2>1. /\ tp \in {1, 2} /\ Level(tp) \in {"TP1", "TP2"} /\ Rank(Level(tp)) = tp /\ Level(tp) # "SL"
    BY <1>1, <1>4 DEF Level, Rank
  <2>2. q = <<Level(tp)>> \/ q = <<Level(tp), "SL">>
    <3>1. q = <<Level(tp)>> \o (IF StopHit(c, low) THEN <<"SL">> ELSE <<>>)
      BY <1>4, Zenon DEF EventsOf
    <3>2. CASE StopHit(c, low)
      BY <3>1, <3>2, Pair, Zenon
    <3>3. CASE ~StopHit(c, low)
      <4>1. <<Level(tp)>> \o <<>> = <<Level(tp)>>
        OBVIOUS
      <4> QED
        BY <3>1, <3>3, <4>1, Zenon
    <3> QED
      BY <3>2, <3>3
  <2>3. q \in Queues /\ Head(q) = Level(tp)
    BY <2>1, <2>2 DEF Queues, Events
  <2> QED
    BY <1>1, <1>2, <1>4, <2>1, <2>3
<1>5. CASE tp # 3 /\ ~(tp > Rank(c.status))
  <2>1. q = <<"SL">>
    BY <1>5 DEF EventsOf
  <2>2. q \in Queues /\ Head(q) = "SL"
    BY <2>1 DEF Queues, Events
  <2> QED
    BY <1>1, <1>2, <2>2 DEF Rank
<1> QED
  BY <1>3, <1>4, <1>5

\* The head of a poll's events is one, and what follows it is a stop alone.
LEMMA QueueParts ==
  ASSUME NEW q \in Queues
  PROVE  /\ Head(q) \in Events
         /\ Tail(q) # <<>> => Tail(q) = <<"SL">> /\ Tail(q) \in Queues
<1>1. CASE q \in {<<e>> : e \in Events}
  <2>1. PICK e \in Events : q = <<e>>
    BY <1>1
  <2> QED
    BY <2>1
<1>2. CASE q \in {<<e, "SL">> : e \in {"TP1", "TP2"}}
  <2>1. PICK e \in {"TP1", "TP2"} : q = <<e, "SL">>
    BY <1>2
  <2> QED
    BY <2>1 DEF Queues, Events
<1> QED
  BY <1>1, <1>2 DEF Queues

\* Recording an event keeps the truth of the row, and never takes anything back.
LEMMA AfterGrows ==
  ASSUME NEW c \in Rows, NEW e \in Events, reach \in 0 .. 3, RowTruth(c),
         FillRequired => c.filled,
         Rank(c.status) <= reach, Rank(e) <= reach,
         e # "SL" => Rank(c.status) <= Rank(e),
         NEW d, d = After(c, e)
  PROVE  /\ d \in Rows /\ RowTruth(d) /\ d.status \in Events
         /\ d.best >= c.best /\ d.best >= Rank(e) /\ d.filled = c.filled
         /\ c.stopped \/ e = "SL" => d.stopped
         /\ c.closed \/ e \in Final => d.closed
         /\ Rank(d.status) <= reach
         /\ e # "SL" => d.status = e
         /\ ProtectedAsWin => Rank(d.status) >= Rank(c.status)
<1> DEFINE top == IF e = "TP3" THEN 3 ELSE reach
           s == Recorded(e, top)
           b == Larger(c.best, Rank(e))
<1>1. /\ c.status \in Statuses /\ c.best \in 0 .. 3 /\ Rank(c.status) \in 0 .. 3 /\ Rank(e) \in 0 .. 3
      /\ c.filled \in BOOLEAN /\ c.stopped \in BOOLEAN /\ c.closed \in BOOLEAN
  BY DEF Rows, Statuses, Rank
<1>2. /\ s \in Events /\ (e # "SL" => s = e) /\ Rank(s) <= reach /\ Rank(s) \in 0 .. 3
      /\ ProtectedAsWin => Rank(s) >= Rank(c.status) /\ Rank(s) >= Rank(e)
      /\ s # "EXPIRED" /\ s \in Statuses
  BY <1>1 DEF Recorded, Level, Rank, Events, Statuses
<1>3. b \in 0 .. 3 /\ b >= c.best /\ b >= Rank(e) /\ (b = c.best \/ b = Rank(e))
  BY <1>1 DEF Larger
<1> HIDE DEF s, b
<1>4. d = [c EXCEPT !.status = s, !.best = b,
                    !.stopped = c.stopped \/ e = "SL", !.closed = c.closed \/ e \in Final]
  BY Zenon DEF After, s, b, top
<1>5. d \in Rows
  BY <1>1, <1>2, <1>3, <1>4 DEF Rows
<1>6. /\ d.status = s /\ d.best = b /\ d.filled = c.filled
      /\ d.stopped = (c.stopped \/ e = "SL") /\ d.closed = (c.closed \/ e \in Final)
  BY <1>4 DEF Rows
<1>7. RowTruth(d)
  <2>1. FillRequired => d.filled /\ d.status # "EXPIRED"
    BY <1>2, <1>6
  <2>2. ProtectedAsWin => d.best <= Rank(d.status)
    <3>1. ProtectedAsWin => c.best <= Rank(c.status)
      BY DEF RowTruth
    <3> QED
      BY <1>1, <1>2, <1>3, <1>6, <3>1
  <2> QED
    BY <2>1, <2>2, Zenon DEF RowTruth
<1>8. (c.stopped \/ e = "SL" => d.stopped) /\ (c.closed \/ e \in Final => d.closed)
  BY <1>6, Zenon
<1> QED
  BY <1>1, <1>2, <1>3, <1>5, <1>6, <1>7, <1>8

-----------------------------------------------------------------------------
(* What a step does to a row.                                               *)

\* d is c at a later time.
Later(c, d) ==
    /\ d \in Rows /\ RowTruth(d)
    /\ d.best >= c.best /\ (c.stopped => d.stopped) /\ (c.closed => d.closed)
    /\ ProtectedAsWin => Rank(d.status) >= Rank(c.status)
    /\ c.status # "OPEN" => d.status # "OPEN"

\* Expiring an entry that was never filled.
LEMMA ExpireIsLater ==
  ASSUME NEW c \in Rows, RowTruth(c), FillRequired, ~c.filled,
         NEW d, d = [c EXCEPT !.status = "EXPIRED", !.closed = TRUE]
  PROVE  Later(c, d)
<1>1. c.status \in {"OPEN", "EXPIRED"} /\ c.best = 0 /\ ~c.stopped
  BY DEF RowTruth
<1>2. d \in Rows
  BY DEF Rows, Statuses
<1>3. /\ d.status = "EXPIRED" /\ d.closed = TRUE /\ d.filled = c.filled
      /\ d.best = c.best /\ d.stopped = c.stopped
  BY DEF Rows
<1>4. RowTruth(d)
  BY <1>1, <1>3 DEF RowTruth, Rank
<1> QED
  BY <1>1, <1>2, <1>3, <1>4 DEF Later, Rank

\* Noting the fill of a signal that is still open.
LEMMA FillIsLater ==
  ASSUME NEW c \in Rows, RowTruth(c), c.status # "EXPIRED",
         NEW d, d = [c EXCEPT !.filled = c.filled \/ FillRequired]
  PROVE  Later(c, d) /\ (FillRequired => d.filled) /\ d.status = c.status
<1>1. /\ c.filled \in BOOLEAN /\ c.stopped \in BOOLEAN /\ c.closed \in BOOLEAN
      /\ c.best \in 0 .. 3 /\ Rank(c.status) \in 0 .. 3
  BY DEF Rows, Rank
<1>2. FillRequired \in BOOLEAN
  BY SettingAssumption
<1>3. d \in Rows
  BY <1>1, <1>2 DEF Rows
<1>4. /\ d.status = c.status /\ d.closed = c.closed /\ d.best = c.best /\ d.stopped = c.stopped
      /\ d.filled = (c.filled \/ FillRequired)
  BY DEF Rows
<1>5. FillRequired => d.filled
  BY <1>4, Zenon
<1>6. ProtectedAsWin => d.best <= Rank(d.status)
  BY <1>4 DEF RowTruth
<1>7. RowTruth(d)
  BY <1>4, <1>5, <1>6, Zenon DEF RowTruth
<1>8. (c.stopped => d.stopped) /\ (c.closed => d.closed) /\ (c.status # "OPEN" => d.status # "OPEN")
  BY <1>4, Zenon
<1>9. d.best >= c.best /\ (ProtectedAsWin => Rank(d.status) >= Rank(c.status))
  BY <1>1, <1>4
<1> QED
  BY <1>3, <1>4, <1>5, <1>7, <1>8, <1>9, Zenon DEF Later

\* The signal being served, and what recording the next event makes of it.
LEMMA ServedRow ==
  ASSUME SigInv, tpc \in {"apply", "paper", "auto"}
  PROVE  /\ cur \in Ids /\ queue \in Queues /\ Head(queue) \in Events
         /\ polled[cur] = sig[cur] /\ sig[cur] \in Rows /\ sig[cur] # NoSig /\ RowTruth(sig[cur])
<1>1. cur \in Ids /\ queue \in Queues /\ polled[cur] # NoSig
  BY DEF SigInv, WorkInv
<1>2. polled[cur] = sig[cur]
  BY <1>1 DEF SigInv, CopyInv
<1> QED
  BY <1>1, <1>2, QueueParts DEF SigInv, RowsInv, TypeOK

\* The row that Apply writes.
LEMMA AppliedRow ==
  ASSUME SigInv, tpc = "apply",
         NEW d, d = After(polled[cur], Head(queue))
  PROVE  /\ Later(sig[cur], d) /\ d.status \in Events /\ d.best >= Rank(Head(queue))
         /\ Head(queue) = "SL" => d.stopped
         /\ Head(queue) \in Final => d.closed
         /\ d.filled = sig[cur].filled
         /\ Rank(d.status) <= reach /\ Rank(Head(queue)) <= reach
         /\ Head(queue) # "SL" => d.status = Head(queue)
<1>1. /\ cur \in Ids /\ Head(queue) \in Events /\ polled[cur] = sig[cur]
      /\ sig[cur] \in Rows /\ RowTruth(sig[cur])
  BY ServedRow
<1>2. /\ FillRequired => sig[cur].filled
      /\ Rank(sig[cur].status) <= reach /\ Rank(Head(queue)) <= reach
      /\ Head(queue) # "SL" => Rank(sig[cur].status) <= Rank(Head(queue))
  BY <1>1 DEF SigInv, WorkInv
<1>3. reach \in 0 .. 3
  BY DEF SigInv, TypeOK
<1>4. d = After(sig[cur], Head(queue))
  BY <1>1
<1> HIDE DEF RowTruth, Rank
<1>5. /\ d \in Rows /\ RowTruth(d) /\ d.status \in Events
      /\ d.best >= sig[cur].best /\ d.best >= Rank(Head(queue)) /\ d.filled = sig[cur].filled
      /\ sig[cur].stopped \/ Head(queue) = "SL" => d.stopped
      /\ sig[cur].closed \/ Head(queue) \in Final => d.closed
      /\ Rank(d.status) <= reach
      /\ Head(queue) # "SL" => d.status = Head(queue)
      /\ ProtectedAsWin => Rank(d.status) >= Rank(sig[cur].status)
  BY <1>1, <1>2, <1>3, <1>4, AfterGrows
<1>6. d.status # "OPEN"
  BY <1>5 DEF Events
<1> QED
  BY <1>2, <1>5, <1>6, Zenon DEF Later

\* A row stays, appears, or gets later.
LEMMA RowStep ==
  ASSUME SigInv, [Next]_vars, NEW i \in Ids
  PROVE  \/ sig'[i] = sig[i]
         \/ sig[i] = NoSig /\ sig'[i] \in Rows /\ RowTruth(sig'[i])
         \/ sig[i] # NoSig /\ Later(sig[i], sig'[i])
<1> USE DEF SigInv, TypeOK
<1>1. CASE sig' = sig
  BY <1>1
<1>2. CASE Save
  <2>1. ASSUME NEW j \in Ids \ Used, sig' = [sig EXCEPT ![j] = NewRow(cand)]
        PROVE  sig'[i] = sig[i] \/ (sig[i] = NoSig /\ sig'[i] \in Rows /\ RowTruth(sig'[i]))
    <3>1. NewRow(cand) \in Rows /\ RowTruth(NewRow(cand))
      BY DEF NewRow, Rows, Statuses, RowTruth, Rank
    <3> QED
      BY <2>1, <3>1 DEF Used
  <2> QED
    BY <1>2, <2>1 DEF Save
<1>3. ASSUME NEW k \in Ids, Wait(k)
      PROVE  sig'[i] = sig[i] \/ (sig[i] # NoSig /\ Later(sig[i], sig'[i]))
  <2>1. /\ polled[k] = sig[k] /\ sig[k] \in Rows /\ sig[k] # NoSig /\ RowTruth(sig[k])
        /\ FillRequired /\ ~sig[k].filled
    BY <1>3 DEF Wait, Unfilled, CopyInv, RowsInv
  <2>2. Later(sig[k], [sig[k] EXCEPT !.status = "EXPIRED", !.closed = TRUE])
    BY <2>1, ExpireIsLater
  <2> QED
    BY <1>3, <2>1, <2>2 DEF Wait
<1>4. ASSUME NEW k \in Ids, NEW tp, NEW low, NEW touched, Check(k, tp, low, touched)
      PROVE  sig'[i] = sig[i] \/ (sig[i] # NoSig /\ Later(sig[i], sig'[i]))
  <2>1. /\ polled[k] = sig[k] /\ sig[k] \in Rows /\ sig[k] # NoSig /\ RowTruth(sig[k])
        /\ sig[k].status # "EXPIRED"
    BY <1>4, NoSigAssumption DEF Check, CopyInv, RowsInv
  <2>2. Later(sig[k], [sig[k] EXCEPT !.filled = sig[k].filled \/ FillRequired])
    BY <2>1, FillIsLater
  <2>3. sig' = [sig EXCEPT ![k] = [sig[k] EXCEPT !.filled = sig[k].filled \/ FillRequired]]
    BY <1>4, <2>1, Zenon DEF Check
  <2> QED
    BY <2>1, <2>2, <2>3
<1>5. CASE Apply
  <2>1. tpc = "apply" /\ sig' = [sig EXCEPT ![cur] = After(polled[cur], Head(queue))]
    BY <1>5 DEF Apply, Update
  <2> QED
    BY <2>1, ServedRow, AppliedRow
<1>6. CASE TrackerStep
  BY <1>1, <1>3, <1>4, <1>5, <1>6 DEF TrackerStep, Poll, TellPaper, TellAuto, PollEnds, NoPrice, books
<1>7. CASE ScannerStep
  BY <1>1, <1>2, <1>7 DEF ScannerStep, Guard, OpenPaper, OpenAuto, books
<1> QED
  BY <1>1, <1>6, <1>7 DEF Next, Find, ByHand, Crash, vars, books

-----------------------------------------------------------------------------
(* Types.                                                                   *)

\* Every step keeps the variables in their sets.
LEMMA TypeStep ==
  ASSUME SigInv, [Next]_vars
  PROVE  TypeOK'
<1> USE DEF SigInv, TypeOK
<1>1. sig' \in [Ids -> Rows \cup {NoSig}]
  <2>1. ASSUME NEW i \in Ids PROVE sig'[i] \in Rows \cup {NoSig}
    BY <2>1, RowStep DEF Later
  <2>2. sig' = sig \/ \E i \in Ids : \E d : sig' = [sig EXCEPT ![i] = d]
    <3>1. CASE Apply
      BY <3>1, ServedRow DEF Apply, Update
    <3>2. ASSUME NEW k \in Ids, NoPrice(k) \/ Wait(k) PROVE sig' = sig \/ \E i \in Ids : \E d : sig' = [sig EXCEPT ![i] = d]
      BY <3>2 DEF NoPrice, Wait, books
    <3>3. ASSUME NEW k \in Ids, NEW tp, NEW low, NEW touched, Check(k, tp, low, touched)
          PROVE  \E i \in Ids : \E d : sig' = [sig EXCEPT ![i] = d]
      BY <3>3 DEF Check
    <3>4. CASE Save
      BY <3>4 DEF Save
    <3>5. CASE TrackerStep
      BY <3>1, <3>2, <3>3, <3>5 DEF TrackerStep, Poll, TellPaper, TellAuto, PollEnds, books
    <3>6. CASE ScannerStep
      BY <3>4, <3>6 DEF ScannerStep, Guard, OpenPaper, OpenAuto, books
    <3> QED
      BY <3>5, <3>6 DEF Next, Find, ByHand, Crash, vars, books
  <2> QED
    BY <2>1, <2>2
<1>2. CASE UNCHANGED vars
  BY <1>2 DEF vars, books, scanner, tracker
<1>3. CASE Crash \/ (\E m \in Symbols : Find(m)) \/ (\E i \in Ids : ByHand(i))
  BY <1>1, <1>3 DEF Crash, Find, ByHand, Rest, books, scanner, tracker
<1>4. CASE ScannerStep
  <2>1. CASE Guard
    BY <1>1, <2>1 DEF Guard, books, tracker
  <2>2. CASE Save
    BY <1>1, <2>2 DEF Save, tracker
  <2>3. CASE OpenPaper \/ OpenAuto
    BY <1>1, <2>3 DEF OpenPaper, OpenAuto, tracker, StoredInv
  <2> QED
    BY <1>4, <2>1, <2>2, <2>3 DEF ScannerStep
<1>5. CASE TrackerStep
  <2>1. CASE Poll
    BY <1>1, <2>1 DEF Poll, books, scanner
  <2>2. CASE Apply
    <3>1. /\ tpc = "apply" /\ tpc' = "paper" /\ cur \in Ids
          /\ polled' = [polled EXCEPT ![cur] = After(polled[cur], Head(queue))]
          /\ UNCHANGED <<paper, auto, scanner, cur, queue, reach>>
      BY <2>2, ServedRow DEF Apply
    <3>2. After(polled[cur], Head(queue)) \in Rows
      BY <3>1, AppliedRow DEF Later
    <3> QED
      BY <1>1, <3>1, <3>2 DEF scanner
  <2>3. CASE TellPaper
    BY <1>1, <2>3, ServedRow DEF TellPaper, scanner
  <2>4. CASE TellAuto
    <3>1. /\ tpc = "auto" /\ cur \in Ids /\ queue \in Queues
          /\ UNCHANGED <<sig, paper, spc, cand, saved>>
          /\ auto' = [auto EXCEPT ![cur] = "CLOSED"] \/ auto' = auto
      BY <2>4, ServedRow DEF TellAuto, scanner
    <3>2. \/ /\ tpc' = "poll" /\ polled' = [polled EXCEPT ![cur] = NoSig]
             /\ cur' = NoSig /\ queue' = <<>> /\ reach' = 0
          \/ /\ tpc' = "apply" /\ Tail(queue) # <<>> /\ queue' = Tail(queue)
             /\ UNCHANGED <<polled, cur, reach>>
      BY <2>4, Zenon DEF TellAuto
    <3>3. Tail(queue) # <<>> => Tail(queue) \in Queues
      BY <3>1, QueueParts
    <3>4. auto' \in [Ids -> {"none", "OPEN", "CLOSED"}]
      BY <3>1
    <3>5. /\ polled' \in [Ids -> Rows \cup {NoSig}] /\ tpc' \in {"poll", "apply"}
          /\ cur' \in Ids \cup {NoSig} /\ reach' \in 0 .. 3
      BY <3>1, <3>2
    <3>6. queue' \in Queues \cup {<<>>}
      BY <3>2, <3>3
    <3> QED
      BY <3>1, <3>4, <3>5, <3>6
  <2>5. CASE PollEnds
    BY <1>1, <2>5 DEF PollEnds, Rest, books, scanner
  <2>6. ASSUME NEW i \in Ids, NoPrice(i) \/ Wait(i) PROVE TypeOK'
    BY <1>1, <2>6 DEF NoPrice, Wait, books, scanner
  <2>7. ASSUME NEW i \in Ids, NEW tp \in 0 .. 3, NEW low, NEW touched, Check(i, tp, low, touched)
        PROVE  TypeOK'
    <3> DEFINE c == [polled[i] EXCEPT !.filled = @ \/ FillRequired]
               q == EventsOf(c, tp, low)
    <3>1. c \in Rows
      BY <2>7, SettingAssumption DEF Check, CopyInv, Rows
    <3>2. \/ q = <<>> /\ polled' = [polled EXCEPT ![i] = NoSig] /\ UNCHANGED <<tpc, cur, queue, reach>>
          \/ /\ q # <<>> /\ polled' = [polled EXCEPT ![i] = c]
             /\ tpc' = "apply" /\ cur' = i /\ queue' = q /\ reach' = TopOf(c, tp)
      BY <2>7, Zenon DEF Check
    <3>3. UNCHANGED <<paper, auto, spc, cand, saved>>
      BY <2>7 DEF Check, scanner
    <3>4. q # <<>> => q \in Queues /\ TopOf(c, tp) \in 0 .. 3
      BY <3>1, EventsFit
    <3> HIDE DEF c, q
    <3> QED
      BY <1>1, <3>1, <3>2, <3>3, <3>4
  <2> QED
    BY <1>5, <2>1, <2>2, <2>3, <2>4, <2>5, <2>6, <2>7 DEF TrackerStep
<1> QED
  BY <1>2, <1>3, <1>4, <1>5 DEF Next

-----------------------------------------------------------------------------
(* The followers.                                                           *)

\* How a follower's position moves: opened for a stored signal, closed by hand, or
\* told the event at the head of the queue.
LEMMA FollowerMoves ==
  ASSUME SigInv, [Next]_vars, NEW i \in Ids
  PROVE  /\ \/ paper'[i] = paper[i]
            \/ paper'[i] = "OPEN" /\ sig[i] # NoSig
            \/ tpc = "paper" /\ i = cur /\ paper'[i] = Head(queue) /\ sig' = sig
         /\ \/ auto'[i] = auto[i]
            \/ auto'[i] = "none"
            \/ auto'[i] = "OPEN" /\ sig[i] # NoSig
            \/ tpc = "auto" /\ i = cur /\ auto'[i] = "CLOSED" /\ Head(queue) \in Final /\ sig' = sig
<1> USE DEF SigInv, TypeOK
<1>1. CASE UNCHANGED <<paper, auto>>
  BY <1>1
<1>2. CASE OpenPaper \/ OpenAuto
  BY <1>2 DEF OpenPaper, OpenAuto, StoredInv
<1>3. CASE TellPaper \/ TellAuto
  BY <1>3 DEF TellPaper, TellAuto
<1>4. ASSUME NEW k \in Ids, ByHand(k) PROVE (auto'[i] = auto[i] \/ auto'[i] = "none") /\ paper' = paper
  BY <1>4 DEF ByHand
<1>5. CASE TrackerStep
  BY <1>1, <1>3, <1>5 DEF TrackerStep, Poll, Apply, PollEnds, NoPrice, Wait, Check, books
<1>6. CASE ScannerStep
  BY <1>1, <1>2, <1>6 DEF ScannerStep, Guard, Save, books
<1> QED
  BY <1>1, <1>4, <1>5, <1>6 DEF Next, Find, Crash, vars, books

\* What followers acted on stays on record.
LEMMA FollowersStep ==
  ASSUME SigInv, [Next]_vars, TypeOK'
  PROVE  FollowersNotAhead' /\ StoredInv'
<1>1. ASSUME NEW i \in Ids
      PROVE  /\ paper'[i] # "none" => sig'[i] # NoSig
             /\ Rank(paper'[i]) > 0 => Rank(paper'[i]) <= sig'[i].best
             /\ paper'[i] = "SL" => sig'[i].stopped
             /\ auto'[i] = "CLOSED" => sig'[i].closed
             /\ auto'[i] # "none" => sig'[i] # NoSig
  <2>1. /\ sig[i] # NoSig => sig'[i] # NoSig
        /\ sig[i] # NoSig => /\ sig[i] \in Rows /\ sig'[i] \in Rows
                             /\ sig'[i].best >= sig[i].best
                             /\ (sig[i].stopped => sig'[i].stopped)
                             /\ (sig[i].closed => sig'[i].closed)
    BY RowStep, NoSigAssumption DEF Later, SigInv, TypeOK, Rows
  <2>2. /\ paper[i] # "none" => sig[i] # NoSig
        /\ Rank(paper[i]) > 0 => Rank(paper[i]) <= sig[i].best
        /\ paper[i] = "SL" => sig[i].stopped
        /\ auto[i] = "CLOSED" => sig[i].closed
        /\ auto[i] # "none" => sig[i] # NoSig
    BY DEF SigInv, FollowersNotAhead, StoredInv
  <2>3. tpc \in {"paper", "auto"} /\ i = cur =>
          /\ sig[i] # NoSig /\ Rank(Head(queue)) <= sig[i].best
          /\ Head(queue) = "SL" => sig[i].stopped
          /\ Head(queue) \in Final => sig[i].closed
    BY ServedRow DEF SigInv, ToldInv
  <2>4. sig[i] # NoSig => sig[i].best \in Nat /\ sig'[i].best \in Nat
    BY <2>1 DEF Rows
  <2>5. paper[i] = "none" \/ Rank(paper[i]) \in 0 .. 3
    BY DEF Rank
  <2>6. /\ paper'[i] # "none" => sig'[i] # NoSig
        /\ Rank(paper'[i]) > 0 => Rank(paper'[i]) <= sig'[i].best
        /\ paper'[i] = "SL" => sig'[i].stopped
    <3>1. CASE paper'[i] = paper[i]
      <4>1. Rank(paper[i]) > 0 => paper[i] # "none"
        BY DEF Rank
      <4> QED
        BY <2>1, <2>2, <2>4, <2>5, <3>1, <4>1
    <3>2. CASE paper'[i] = "OPEN" /\ sig[i] # NoSig
      BY <2>1, <3>2 DEF Rank
    <3>3. CASE tpc = "paper" /\ i = cur /\ paper'[i] = Head(queue) /\ sig' = sig
      BY <2>3, <3>3
    <3> QED
      BY <3>1, <3>2, <3>3, FollowerMoves
  <2>7. /\ auto'[i] = "CLOSED" => sig'[i].closed
        /\ auto'[i] # "none" => sig'[i] # NoSig
    <3>1. CASE auto'[i] = auto[i]
      BY <2>1, <2>2, <3>1
    <3>2. CASE auto'[i] = "none" \/ (auto'[i] = "OPEN" /\ sig[i] # NoSig)
      BY <2>1, <3>2
    <3>3. CASE tpc = "auto" /\ i = cur /\ auto'[i] = "CLOSED" /\ Head(queue) \in Final /\ sig' = sig
      BY <2>3, <3>3
    <3> QED
      BY <3>1, <3>2, <3>3, FollowerMoves
  <2> QED
    BY <2>6, <2>7
<1>2. spc' \in {"paper", "auto"} => saved' \in Ids /\ sig'[saved'] # NoSig
  <2>1. CASE Save
    <3>1. \A m \in Symbols : NewRow(m) # NoSig
      <4>1. \A m \in Symbols : NewRow(m) \in Rows
        BY DEF NewRow, Rows, Statuses
      <4> QED
        BY <4>1, NoSigAssumption
    <3> QED
      BY <2>1, <3>1 DEF Save, SigInv, TypeOK
  <2>2. CASE spc' = spc /\ saved' = saved
    <3>1. \A i \in Ids : sig[i] # NoSig => sig'[i] # NoSig
      BY RowStep, NoSigAssumption DEF Later
    <3> QED
      BY <2>2, <3>1 DEF SigInv, StoredInv
  <2>3. CASE OpenPaper
    BY <2>3 DEF OpenPaper, SigInv, StoredInv
  <2>4. CASE spc' \notin {"paper", "auto"}
    BY <2>4
  <2>5. CASE TrackerStep
    BY <2>2, <2>5 DEF TrackerStep, Poll, Apply, TellPaper, TellAuto, PollEnds, NoPrice, Wait, Check, scanner
  <2>6. CASE ScannerStep
    BY <2>1, <2>3, <2>4, <2>6 DEF ScannerStep, Guard, OpenAuto
  <2> QED
    BY <2>2, <2>4, <2>5, <2>6 DEF Next, Find, ByHand, Crash, vars, scanner
<1> QED
  BY <1>1, <1>2 DEF FollowersNotAhead, StoredInv

-----------------------------------------------------------------------------
(* The tracker's copies and its queue.                                      *)

\* Every step keeps the copies true and the event being served in order.
LEMMA TrackerKeeps ==
  ASSUME SigInv, [Next]_vars, TypeOK'
  PROVE  CopyInv' /\ WorkInv' /\ ToldInv'
<1> USE DEF SigInv
<1>1. CASE UNCHANGED <<sig, tracker>>
  BY <1>1 DEF tracker, CopyInv, WorkInv, ToldInv
<1>2. CASE tpc' = "idle" /\ cur' = NoSig /\ polled' = [i \in Ids |-> NoSig]
  BY <1>2 DEF CopyInv, WorkInv, ToldInv
<1>3. CASE Save
  <2>1. \A i \in Ids : polled[i] # NoSig => sig'[i] = sig[i]
    BY <1>3 DEF Save, Used, CopyInv, TypeOK
  <2>2. UNCHANGED tracker
    BY <1>3 DEF Save
  <2> QED
    BY <2>1, <2>2 DEF tracker, CopyInv, WorkInv, ToldInv
<1>4. CASE Poll
  <2>1. /\ tpc' = "poll" /\ cur' = NoSig /\ sig' = sig
        /\ polled' = [i \in Ids |-> IF i \in Tracked THEN sig[i] ELSE NoSig]
    BY <1>4 DEF Poll, books, CopyInv
  <2> QED
    BY <2>1 DEF Tracked, CopyInv, WorkInv, ToldInv
<1>5. ASSUME NEW k \in Ids, NoPrice(k) \/ Wait(k) PROVE CopyInv' /\ WorkInv' /\ ToldInv'
  <2>1. /\ tpc = "poll" /\ tpc' = "poll" /\ cur = NoSig /\ cur' = cur
        /\ polled' = [polled EXCEPT ![k] = NoSig]
        /\ \A i \in Ids : i # k => sig'[i] = sig[i]
    BY <1>5 DEF NoPrice, Wait, books, CopyInv, TypeOK
  <2> QED
    BY <2>1 DEF CopyInv, WorkInv, ToldInv, TypeOK
<1>6. ASSUME NEW k \in Ids, NEW tp \in 0 .. 3, NEW low, NEW touched, Check(k, tp, low, touched)
      PROVE  CopyInv' /\ WorkInv' /\ ToldInv'
  <2> DEFINE c == [polled[k] EXCEPT !.filled = @ \/ FillRequired]
             q == EventsOf(c, tp, low)
  <2>1. /\ tpc = "poll" /\ cur = NoSig /\ sig' = [sig EXCEPT ![k] = c]
        /\ \/ q = <<>> /\ polled' = [polled EXCEPT ![k] = NoSig] /\ UNCHANGED <<tpc, cur, queue, reach>>
           \/ /\ q # <<>> /\ polled' = [polled EXCEPT ![k] = c]
              /\ tpc' = "apply" /\ cur' = k /\ queue' = q /\ reach' = TopOf(c, tp)
    BY <1>6, Zenon DEF Check, CopyInv
  <2>2. /\ polled[k] = sig[k] /\ sig[k] \in Rows /\ RowTruth(sig[k]) /\ sig[k].status # "EXPIRED"
    BY <1>6, <2>1, NoSigAssumption DEF Check, CopyInv, RowsInv, TypeOK
  <2>3. c \in Rows /\ (FillRequired => c.filled)
    BY <2>2, FillIsLater DEF Later
  <2>4. c # NoSig
    BY <2>3, NoSigAssumption
  <2>5. q # <<>> => /\ q \in Queues /\ Rank(c.status) <= TopOf(c, tp) /\ Rank(Head(q)) <= TopOf(c, tp)
                    /\ Head(q) # "SL" => Rank(c.status) <= Rank(Head(q))
    BY <2>3, EventsFit
  <2> HIDE DEF c, q
  <2>6. \A i \in Ids : i # k => sig'[i] = sig[i] /\ polled'[i] = polled[i]
    BY <2>1 DEF TypeOK
  <2>7. CASE q = <<>>
    BY <2>1, <2>6, <2>7 DEF CopyInv, WorkInv, ToldInv, TypeOK
  <2>8. CASE q # <<>>
    <3>1. sig'[k] = c /\ polled'[k] = c /\ tpc' = "apply" /\ cur' = k /\ queue' = q /\ reach' = TopOf(c, tp)
      BY <2>1, <2>8 DEF TypeOK
    <3>2. CopyInv'
      BY <2>1, <2>6, <3>1, NoSigAssumption DEF CopyInv
    <3>3. WorkInv' /\ ToldInv'
      BY <2>3, <2>4, <2>5, <2>8, <3>1 DEF WorkInv, ToldInv
    <3> QED
      BY <3>2, <3>3
  <2> QED
    BY <2>7, <2>8
<1>7. CASE Apply
  <2> DEFINE d == After(polled[cur], Head(queue))
  <2>1. /\ tpc = "apply" /\ tpc' = "paper" /\ cur' = cur /\ queue' = queue /\ reach' = reach
        /\ sig' = [sig EXCEPT ![cur] = d] /\ polled' = [polled EXCEPT ![cur] = d]
    BY <1>7, Zenon DEF Apply, Update
  <2>2. /\ cur \in Ids /\ queue \in Queues /\ Head(queue) \in Events
        /\ sig[cur] \in Rows /\ RowTruth(sig[cur]) /\ polled[cur] = sig[cur]
    BY <2>1, ServedRow
  <2>3. /\ d \in Rows /\ d.status \in Events /\ d.best >= Rank(Head(queue))
        /\ Head(queue) = "SL" => d.stopped
        /\ Head(queue) \in Final => d.closed
        /\ d.filled = sig[cur].filled
        /\ Rank(d.status) <= reach /\ Rank(Head(queue)) <= reach
        /\ Head(queue) # "SL" => d.status = Head(queue)
    BY <2>1, AppliedRow DEF Later
  <2>4. FillRequired => d.filled
    BY <2>1, <2>2, <2>3 DEF WorkInv
  <2>5. d # NoSig
    BY <2>3, NoSigAssumption
  <2> HIDE DEF d
  <2>6. /\ sig'[cur] = d /\ polled'[cur] = d
        /\ \A i \in Ids : i # cur => sig'[i] = sig[i] /\ polled'[i] = polled[i]
    BY <2>1, <2>2 DEF TypeOK
  <2>7. CopyInv'
    BY <2>1, <2>6 DEF CopyInv
  <2>8. d.best \in Nat /\ Rank(d.status) \in Nat /\ Rank(Head(queue)) \in Nat
    BY <2>3 DEF Rows, Rank
  <2>9. WorkInv'
    BY <2>1, <2>2, <2>3, <2>4, <2>5, <2>6, <2>8 DEF WorkInv
  <2>10. ToldInv'
    BY <2>1, <2>3, <2>6, <2>8 DEF ToldInv
  <2> QED
    BY <2>7, <2>9, <2>10
<1>8. CASE TellPaper
  BY <1>8 DEF TellPaper, CopyInv, WorkInv, ToldInv
<1>9. CASE TellAuto
  <2>1. /\ tpc = "auto" /\ cur \in Ids /\ queue \in Queues /\ sig' = sig
    BY <1>9, ServedRow DEF TellAuto
  <2>2. CASE Tail(queue) = <<>>
    <3>1. tpc' = "poll" /\ polled' = [polled EXCEPT ![cur] = NoSig] /\ cur' = NoSig
      BY <1>9, <2>2 DEF TellAuto
    <3> QED
      BY <2>1, <3>1 DEF CopyInv, WorkInv, ToldInv, TypeOK
  <2>3. CASE Tail(queue) # <<>>
    <3>1. tpc' = "apply" /\ queue' = Tail(queue) /\ UNCHANGED <<polled, cur, reach>>
      BY <1>9, <2>3 DEF TellAuto
    <3>2. queue' = <<"SL">> /\ queue' \in Queues /\ Head(queue') = "SL"
      <4>1. Tail(queue) = <<"SL">> /\ Tail(queue) \in Queues
        BY <2>1, <2>3, QueueParts
      <4>2. Head(<<"SL">>) = "SL"
        OBVIOUS
      <4> QED
        BY <3>1, <4>1, <4>2
    <3>3. Rank("SL") <= reach
      BY DEF Rank, TypeOK
    <3> QED
      BY <2>1, <3>1, <3>2, <3>3 DEF CopyInv, WorkInv, ToldInv
  <2> QED
    BY <2>2, <2>3
<1>10. CASE TrackerStep
  BY <1>2, <1>4, <1>5, <1>6, <1>7, <1>8, <1>9, <1>10 DEF TrackerStep, PollEnds, Rest
<1>11. CASE ScannerStep
  BY <1>1, <1>3, <1>11 DEF ScannerStep, Guard, OpenPaper, OpenAuto, books
<1> QED
  BY <1>1, <1>2, <1>10, <1>11 DEF Next, Find, ByHand, Crash, Rest, vars, books

-----------------------------------------------------------------------------
(* The theorems.                                                            *)

LEMMA InitInv == Init => SigInv
<1> SUFFICES ASSUME Init PROVE SigInv
  OBVIOUS
<1>1. TypeOK
  BY DEF Init, TypeOK
<1>2. FollowersNotAhead /\ StoredInv
  BY DEF Init, FollowersNotAhead, StoredInv, Rank
<1>3. RowsInv /\ CopyInv /\ WorkInv /\ ToldInv
  BY DEF Init, RowsInv, CopyInv, WorkInv, ToldInv
<1> QED
  BY <1>1, <1>2, <1>3 DEF SigInv

LEMMA StepInv ==
  ASSUME SigInv, [Next]_vars
  PROVE  SigInv'
<1>1. TypeOK'
  BY TypeStep
<1>2. RowsInv'
  BY RowStep DEF RowsInv, SigInv, Later
<1>3. CopyInv' /\ WorkInv' /\ ToldInv' /\ StoredInv' /\ FollowersNotAhead'
  BY <1>1, TrackerKeeps, FollowersStep
<1> QED
  BY <1>1, <1>2, <1>3 DEF SigInv

\* The invariant holds in every state.
THEOREM SignalInvariant == Spec => []SigInv
<1>1. SigInv /\ [Next]_vars => SigInv'
  BY StepInv
<1> QED
  BY InitInv, <1>1, PTL DEF Spec

\* Type correctness of the signal tables, the scanner and the tracker.
THEOREM SignalTypeCorrect == Spec => []TypeOK
<1>1. SigInv => TypeOK
  BY DEF SigInv
<1> QED
  BY SignalInvariant, <1>1, PTL

\* The paper book and the auto engine never act on what is not on record.
THEOREM NeverAhead == Spec => []FollowersNotAhead
<1>1. SigInv => FollowersNotAhead
  BY DEF SigInv
<1> QED
  BY SignalInvariant, <1>1, PTL

\* An entry that was never filled has no outcome, one that was filled never expires.
THEOREM NoOutcomeWithoutFill == Spec => []NoPhantomFill
<1>1. SigInv => NoPhantomFill
  BY DEF SigInv, RowsInv, RowTruth, NoPhantomFill, Used
<1> QED
  BY SignalInvariant, <1>1, PTL

\* A stop after a target is never recorded as a loss.
THEOREM NoProtectedLoss == Spec => []ProtectedIsNoLoss
<1>1. SigInv => ProtectedIsNoLoss
  BY DEF SigInv, TypeOK, RowsInv, RowTruth, ProtectedIsNoLoss, Used, Rank, Rows
<1> QED
  BY SignalInvariant, <1>1, PTL

\* A status never falls back to a lower target nor to OPEN.
THEOREM NeverFallsBack == Spec => StatusOnlyRises
<1> DEFINE Rises == ProtectedAsWin => \A i \in Used :
                       /\ Rank(sig'[i].status) >= Rank(sig[i].status)
                       /\ sig[i].status # "OPEN" => sig'[i].status # "OPEN"
<1>1. SigInv /\ [Next]_vars => [Rises]_vars
  <2>1. ASSUME SigInv, [Next]_vars, NEW i \in Ids, sig[i] # NoSig, ProtectedAsWin
        PROVE  Rank(sig'[i].status) >= Rank(sig[i].status)
               /\ (sig[i].status # "OPEN" => sig'[i].status # "OPEN")
    <3>1. CASE sig'[i] = sig[i]
      BY <3>1 DEF Rank
    <3>2. CASE Later(sig[i], sig'[i])
      BY <2>1, <3>2 DEF Later
    <3> QED
      BY <2>1, <3>1, <3>2, RowStep
  <2> QED
    BY <2>1 DEF Used
<1> QED
  BY SignalInvariant, <1>1, PTL DEF Spec, StatusOnlyRises

=============================================================================
