------------------------------- MODULE Publisher -------------------------------
(***************************************************************************)
(* From an analysed symbol to the posts about its signal: the scan         *)
(* (app/scanner/scanner.py) with its cooldowns and its hourly budget       *)
(* (app/risk/filters.py), the handler that saves and publishes (app/main.py)*)
(* and the Telegram bot (app/telegram_bot/bot.py).                         *)
(*                                                                         *)
(* A scan analyses all symbols side by side and hands what it finds to the *)
(* handler one by one, in the order the analyses end.  The tracker moves   *)
(* the signals meanwhile and posts its events.  Times are ticks from 1;    *)
(* the time 0 stands for NULL.  The book followers of Signals, which the   *)
(* handler opens before it posts, are left out.                            *)
(***************************************************************************)
EXTENDS Integers, Sequences, FiniteSets

CONSTANTS
    Symbols, Sides,
    Setups,       \* [chats |-> where signals and events are posted, card |-> whether the
                  \* picture of a signal can be drawn, faults |-> a subset of
                  \* FaultKinds, until, signals |-> bounds on the clock and the signals]
    Budget, Hour, \* settings.max_signals_per_hour, and an hour
    Cooldown,     \* settings.symbol_cooldown_minutes
    Silence       \* settings.signal_duplicate_cooldown_hours; 0 turns it off

\* "crash": the process ends anywhere and starts again; "db": a transaction of the
\* handler may fail; "telegram": a post may fail, or succeed without an answer.
FaultKinds == {"crash", "db", "telegram"}

ASSUME SetupAssumption ==
    \A s \in Setups : /\ IsFiniteSet(s.chats) /\ s.card \in BOOLEAN
                      /\ s.until \in Nat \ {0} /\ s.signals \in Nat
                      /\ s.faults \subseteq FaultKinds
ASSUME BudgetAssumption == {Budget, Hour, Cooldown, Silence} \subseteq Nat

VARIABLES
    setup,     \* the settings
    now,
    paused,    \* the system setting broadcasts_paused
    sig,       \* the table of signals, in the order of their ids
    thread,    \* per signal and chat: its row of signal_messages, and how many posts
               \* of it the chat holds, and how many of those went unanswered
    task,      \* _analyze_symbol of each symbol
    found,     \* its results, in the order of as_completed
    marked,    \* CooldownTracker._last
    slots,     \* HourlyRateLimiter._times
    hand,      \* _handle_signal
    news,      \* broadcast_event
    since      \* ghost: the signals posted since the pause

database == <<sig, thread, paused>>
scan == <<task, found, marked, slots>>
vars == <<setup, now, database, scan, hand, news, since>>

-----------------------------------------------------------------------------
Fails(kind) == kind \in setup.faults
Ids == 1..Len(sig)
Free == [at |-> "free"]
Done == [at |-> "done"]
Quiet == [of |-> 0]
NoThread == [c \in setup.chats |-> [saved |-> FALSE, posts |-> 0, lost |-> 0, told |-> FALSE]]

Active(m) == \E i \in Ids : sig[i].sym = m /\ sig[i].status = "OPEN"
\* has_active_signal_excluding.
OtherActive(m, id) == \E i \in Ids \ {id} : sig[i].sym = m /\ sig[i].status = "OPEN"

\* in_post_close_cooldown.
Silenced(m, d) ==
    /\ Silence > 0
    /\ \E i \in Ids : /\ sig[i].sym = m /\ sig[i].side = d
                      /\ sig[i].status \in {"TP", "TP3", "SL"}
                      /\ sig[i].closed > 0 /\ sig[i].closed + Silence >= now

\* last_signal_for: t is when the last one was created, 0 when there is none.
LastCreated(m, d, t) ==
    LET times == {sig[i].created : i \in {j \in Ids : sig[j].sym = m /\ sig[j].side = d}}
    IN t \in times \cup {0} /\ \A u \in times : u <= t

Recent(t) == t > 0 /\ now - t < Cooldown

Init ==
    /\ setup \in Setups /\ now = 1 /\ paused = FALSE
    /\ sig = <<>> /\ thread = <<>>
    /\ task = [m \in Symbols |-> Done] /\ found = <<>>
    /\ marked = [m \in Symbols |-> [d \in Sides |-> 0]] /\ slots = <<>>
    /\ hand = Free /\ news = Quiet /\ since = {}

Tick == now < setup.until /\ now' = now + 1
        /\ UNCHANGED <<setup, database, scan, hand, news, since>>

-----------------------------------------------------------------------------
(* scan_once.                                                              *)

\* What the pipeline, the market filters and the levels say of each symbol: a side, or
\* that there is nothing; they change nothing.
Verdicts == [Symbols -> Sides \cup {"none"}]

ScanOnce ==
    /\ hand = Free /\ found = <<>> /\ \A m \in Symbols : task[m] = Done
    /\ Len(sig) < setup.signals
    /\ \E verdict \in Verdicts :
         /\ Cardinality({m \in Symbols : verdict[m] # "none"}) \in 1..setup.signals - Len(sig)
         /\ task' = [m \in Symbols |-> IF verdict[m] = "none" THEN Done
                                       ELSE [at |-> "guard", side |-> verdict[m]]]
    /\ UNCHANGED <<setup, now, database, found, marked, slots, hand, news, since>>

\* The task of m goes to a, or returns a rejection.
Go(m, pass, a) == task' = [task EXCEPT ![m] = IF pass THEN [@ EXCEPT !.at = a] ELSE Done]

GuardActive(m) ==
    /\ task[m].at = "guard" /\ Go(m, ~Active(m), "silence")
    /\ UNCHANGED <<setup, now, database, found, marked, slots, hand, news, since>>

GuardSilence(m) ==
    /\ task[m].at = "silence" /\ Go(m, ~Silenced(m, task[m].side), "cooldown")
    /\ UNCHANGED <<setup, now, database, found, marked, slots, hand, news, since>>

\* Mutation: the cooldown is kept in memory only.
CanEmitByMemory(m) ==
    /\ task[m].at = "cooldown" /\ Go(m, ~Recent(marked[m][task[m].side]), "gates")
    /\ UNCHANGED <<setup, now, database, found, marked, slots, hand, news, since>>

\* can_emit: the table is asked when the memory does not know.
CanEmit(m) ==
    \E there \in 0..now :
        LET d == task[m].side
        IN /\ task[m].at = "cooldown" /\ LastCreated(m, d, there)
           /\ Go(m, ~Recent(marked[m][d]) /\ ~Recent(there), "gates")
           /\ marked' = IF ~Recent(marked[m][d]) /\ Recent(there)
                        THEN [marked EXCEPT ![m][d] = there] ELSE marked
           /\ UNCHANGED <<setup, now, database, found, slots, hand, news, since>>

\* Open interest, funding, confidence and short protection, with the calls they make.
Gates(m) ==
    /\ task[m].at = "gates" /\ \E pass \in BOOLEAN : Go(m, pass, "budget")
    /\ UNCHANGED <<setup, now, database, found, marked, slots, hand, news, since>>

\* Mutation: one slot too many.
FullLater(held) == Len(held) > Budget
Full(held) == Len(held) >= Budget

\* acquire, and mark_emitted if there is a slot.
Spend(m) ==
    LET held == SelectSeq(slots, LAMBDA t : t + Hour >= now)
        d == task[m].side
    IN /\ task[m].at = "budget" /\ Go(m, FALSE, "")
       /\ \/ /\ Full(held)
             /\ slots' = held /\ UNCHANGED <<found, marked>>
          \/ /\ ~Full(held)
             /\ slots' = Append(held, now)
             /\ marked' = [marked EXCEPT ![m][d] = now]
             /\ found' = Append(found, [sym |-> m, side |-> d])
       /\ UNCHANGED <<setup, now, database, hand, news, since>>

-----------------------------------------------------------------------------
(* _handle_signal, up to the row.                                          *)

TakeUp ==
    /\ hand = Free /\ found # <<>>
    /\ hand' = [at |-> "guard", what |-> Head(found)] /\ found' = Tail(found)
    /\ UNCHANGED <<setup, now, database, task, marked, slots, news, since>>

PrePersist ==
    /\ hand.at = "guard"
    /\ \/ hand' = IF Active(hand.what.sym) THEN Free ELSE [hand EXCEPT !.at = "save"]
       \/ Fails("db") /\ hand' = Free
    /\ UNCHANGED <<setup, now, database, scan, news, since>>

\* The unique index refuses a second OPEN row of the symbol.
CreateSignal ==
    LET w == hand.what
    IN /\ hand.at = "save"
       /\ \/ /\ ~Active(w.sym)
             /\ sig' = Append(sig, [sym |-> w.sym, side |-> w.side, status |-> "OPEN",
                                    created |-> now, closed |-> 0])
             /\ thread' = Append(thread, NoThread)
             /\ hand' = [at |-> "paused", id |-> Len(sig) + 1]
          \/ /\ Active(w.sym) \/ Fails("db")
             /\ hand' = Free /\ UNCHANGED <<sig, thread>>
       /\ UNCHANGED <<setup, now, paused, scan, news, since>>

-----------------------------------------------------------------------------
(* broadcast_signal.                                                       *)

Attempts == 4   \* max_attempts of _tg_send_with_retry
Again == 2      \* and of the recovery by text

\* Mutation: the flag is not read.
PauseUnread ==
    /\ hand.at = "paused" /\ hand' = [hand EXCEPT !.at = "exclude"]
    /\ UNCHANGED <<setup, now, database, scan, news, since>>

\* A flag that cannot be read does not stop the post.
CheckPause ==
    /\ hand.at = "paused"
    /\ \/ paused /\ hand' = Free
       \/ (~paused \/ Fails("db")) /\ hand' = [hand EXCEPT !.at = "exclude"]
    /\ UNCHANGED <<setup, now, database, scan, news, since>>

\* The publisher guard, and the chats of _route_signal_chats.
Exclude ==
    /\ hand.at = "exclude"
    /\ hand' = IF OtherActive(sig[hand.id].sym, hand.id) \/ setup.chats = {} THEN Free
               ELSE [at |-> "chat", id |-> hand.id, to |-> setup.chats, sent |-> {}]
    /\ UNCHANGED <<setup, now, database, scan, news, since>>

NextChat ==
    /\ hand.at = "chat"
    /\ \/ \E c \in hand.to :
            hand' = [at |-> "send", id |-> hand.id, to |-> hand.to \ {c}, sent |-> hand.sent,
                     chat |-> c, recovery |-> FALSE, left |-> Attempts]
       \/ /\ hand.to = {}
          /\ hand' = IF hand.sent = {} THEN Free
                     ELSE [at |-> "stamp", id |-> hand.id, sent |-> hand.sent]
    /\ UNCHANGED <<setup, now, database, scan, news, since>>

After(sent) == [at |-> "chat", id |-> hand.id, to |-> hand.to, sent |-> sent]

\* The send ended with an exception: the picture is followed by a text.
Raised ==
    IF setup.card /\ ~hand.recovery THEN [hand EXCEPT !.recovery = TRUE, !.left = Again]
    ELSE After(hand.sent)

Retry == [hand EXCEPT !.left = @ - 1]

\* The chat gets the signal; the answer to it is lost.
Posted(t) == [t EXCEPT !.posts = @ + 1]
Lost(t) == [t EXCEPT !.lost = @ + 1]

Deliver(unanswered) ==
    /\ thread' = [thread EXCEPT ![hand.id][hand.chat] =
                    IF unanswered THEN Lost(Posted(@)) ELSE Posted(@)]
    /\ since' = IF paused THEN since \cup {hand.id} ELSE since

\* Mutation: an answer does not end the attempts.
SendAnswered ==
    /\ hand.at = "send" /\ Deliver(FALSE)
    /\ hand' = IF hand.left > 1 THEN Retry ELSE After(hand.sent \cup {hand.chat})
    /\ UNCHANGED <<setup, now, sig, paused, scan, news>>

Answered ==
    /\ hand.at = "send" /\ Deliver(FALSE)
    /\ hand' = After(hand.sent \cup {hand.chat})
    /\ UNCHANGED <<setup, now, sig, paused, scan, news>>

\* TimedOut or NetworkError, with or without a post.
Unanswered ==
    /\ hand.at = "send" /\ Fails("telegram")
    /\ \/ Deliver(TRUE)
       \/ UNCHANGED <<thread, since>>
    /\ hand' = IF hand.left > 1 THEN Retry ELSE Raised
    /\ UNCHANGED <<setup, now, sig, paused, scan, news>>

\* RetryAfter: the last one ends the send without an exception.
Flooded ==
    /\ hand.at = "send" /\ Fails("telegram")
    /\ hand' = IF hand.left > 1 THEN Retry ELSE After(hand.sent)
    /\ UNCHANGED <<setup, now, database, scan, news, since>>

Refused ==
    /\ hand.at = "send" /\ Fails("telegram") /\ hand' = Raised
    /\ UNCHANGED <<setup, now, database, scan, news, since>>

\* update_signal with the first message, then save_signal_message for each chat; an
\* exception ends the handler.
Stamp ==
    /\ hand.at = "stamp"
    /\ \/ hand' = [hand EXCEPT !.at = "record"]
       \/ Fails("db") /\ hand' = Free
    /\ UNCHANGED <<setup, now, database, scan, news, since>>

Record ==
    /\ hand.at = "record"
    /\ \/ \E c \in hand.sent :
            /\ thread' = [thread EXCEPT ![hand.id][c].saved = TRUE]
            /\ hand' = IF hand.sent = {c} THEN Free ELSE [hand EXCEPT !.sent = @ \ {c}]
       \/ Fails("db") /\ hand' = Free /\ UNCHANGED thread
    /\ UNCHANGED <<setup, now, sig, paused, scan, news, since>>

-----------------------------------------------------------------------------
(* The tracker, and broadcast_event.                                       *)

\* Whether _check_one, applying the event, has something to announce: a stop after a take
\* profit is recorded as that take profit and suppressed.
Announced(i, event) == event # "EXPIRED" /\ (event = "SL" => sig[i].status = "OPEN")

\* The tracker applies an event: TP stands for the first and the second take profit, which
\* leave the signal open.
Track(i, event) ==
    /\ news = Quiet /\ sig[i].status \in {"OPEN", "TP"}
    /\ event = "EXPIRED" => sig[i].status = "OPEN"
    /\ sig' = [sig EXCEPT
                 ![i].status = IF event = "SL" /\ sig[i].status = "TP" THEN "TP" ELSE event,
                 ![i].closed = IF event = "TP" THEN @ ELSE now]
    /\ news' = IF Announced(i, event) /\ setup.chats # {}
               THEN [of |-> i, to |-> {}, at |-> "read"] ELSE Quiet
    /\ UNCHANGED <<setup, now, thread, paused, scan, hand, since>>

\* get_signal_messages; every chat when there is no row.
Address ==
    /\ news # Quiet /\ news.at = "read"
    /\ LET known == {c \in setup.chats : thread[news.of][c].saved}
       IN news' = [news EXCEPT !.to = IF known = {} THEN setup.chats ELSE known, !.at = "tell"]
    /\ UNCHANGED <<setup, now, database, scan, hand, since>>

\* The chat gets the event, or the sends and the standalone ones all fail.
Tell ==
    /\ news # Quiet /\ news.at = "tell"
    /\ \E c \in news.to :
         /\ \/ thread' = [thread EXCEPT ![news.of][c].told = TRUE]
            \/ Fails("telegram") /\ UNCHANGED thread
         /\ news' = IF news.to = {c} THEN Quiet ELSE [news EXCEPT !.to = @ \ {c}]
    /\ UNCHANGED <<setup, now, sig, paused, scan, hand, since>>

-----------------------------------------------------------------------------
\* cmd_pause and cmd_resume.
Pause(on) ==
    /\ paused # on /\ paused' = on /\ since' = {}
    /\ UNCHANGED <<setup, now, sig, thread, scan, hand, news>>

Crash ==
    /\ Fails("crash")
    /\ task' = [m \in Symbols |-> Done] /\ found' = <<>>
    /\ marked' = [m \in Symbols |-> [d \in Sides |-> 0]] /\ slots' = <<>>
    /\ hand' = Free /\ news' = Quiet
    /\ UNCHANGED <<setup, now, database, since>>

Scan == ScanOnce \/ \E m \in Symbols :
    GuardActive(m) \/ GuardSilence(m) \/ CanEmit(m) \/ Gates(m) \/ Spend(m)
Handle == TakeUp \/ PrePersist \/ CreateSignal
Publish == CheckPause \/ Exclude \/ NextChat \/ Answered \/ Unanswered \/ Flooded \/ Refused
           \/ Stamp \/ Record
Follow == \/ \E i \in Ids, event \in {"TP", "TP3", "SL", "EXPIRED"} : Track(i, event)
          \/ Address \/ Tell

Next == Tick \/ Scan \/ Handle \/ Publish \/ Follow \/ Crash \/ \E on \in BOOLEAN : Pause(on)

Spec == Init /\ [][Next]_vars

-----------------------------------------------------------------------------
(* Properties.                                                             *)

Stages == {"guard", "silence", "cooldown", "gates", "budget"}
TypeOK ==
    /\ setup \in Setups /\ now \in 1..setup.until /\ paused \in BOOLEAN
    /\ Len(sig) <= setup.signals /\ Len(thread) = Len(sig)
    /\ \A i \in Ids : /\ sig[i].status \in {"OPEN", "TP", "TP3", "SL", "EXPIRED"}
                      /\ sig[i].created \in 1..now /\ sig[i].closed \in 0..now
                      /\ DOMAIN thread[i] = setup.chats
    /\ \A m \in Symbols : task[m] = Done \/ (task[m].at \in Stages /\ task[m].side \in Sides)
    /\ Len(slots) <= Budget /\ since \subseteq Ids

\* Two signals of a symbol and a side are created a cooldown apart, whatever restarts in
\* between: what the process remembers of its emissions and what it asks the table for
\* together cover the time between an emission and its row (can_emit).
SpacedOut ==
    \A i, j \in Ids :
        i < j /\ sig[i].sym = sig[j].sym /\ sig[i].side = sig[j].side
            => sig[j].created >= sig[i].created + Cooldown

\* A chat holds a signal twice only if Telegram left a send unanswered: each further post
\* of it follows an answer that was lost (_tg_send_with_retry and the recovery by text).
OnePostPerLostAnswer ==
    \A i \in Ids, c \in setup.chats : thread[i][c].posts <= 1 + thread[i][c].lost

\* After /pause at most the signal whose broadcast has read the flag before is still
\* posted, if the flag can be read (broadcast_signal).
OneSignalAfterPause == ~Fails("db") => Cardinality(since) <= 1

\* A row of signal_messages names a post that exists, so that an event replies to one.
SavedIsPosted == \A i \in Ids, c \in setup.chats : thread[i][c].saved => thread[i][c].posts > 0

\* Nothing is posted while broadcasts are paused.  Not so: broadcast_event does not ask.
PausedIsSilent ==
    [][paused => \A i \in Ids, c \in setup.chats : thread'[i][c].told = thread[i][c].told]_vars

\* No signal within the silence after a close of its symbol and side.  Not so: one at a
\* take profit is not active, and its end comes while the next one is on its way.
QuietAfterClose ==
    \A i, j \in Ids :
        i # j /\ sig[i].sym = sig[j].sym /\ sig[i].side = sig[j].side
            /\ sig[i].closed > 0 /\ sig[i].status # "EXPIRED" /\ sig[j].created > sig[i].closed
            => sig[j].created > sig[i].closed + Silence

\* One signal per symbol is followed at a time.  Not so: ACTIVE_STATUSES has no TP1, TP2.
OneLivePerSymbol ==
    \A i, j \in Ids :
        sig[i].sym = sig[j].sym /\ {sig[i].status, sig[j].status} \subseteq {"OPEN", "TP"}
            /\ sig[i].closed = 0 /\ sig[j].closed = 0 => i = j

\* No event of a signal is posted to a chat that has not got the signal.  Not so: the
\* tracker does not wait for the broadcast.
NoEventBeforePost ==
    \A i \in Ids, c \in setup.chats : thread[i][c].told => thread[i][c].posts > 0

=============================================================================
