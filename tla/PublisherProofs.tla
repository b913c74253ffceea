---------------------------- MODULE PublisherProofs ----------------------------
(* Proofs about Publisher, for any symbols, sides, chats, limits and faults. *)
EXTENDS Publisher, SequenceTheorems, FiniteSetTheorems, TLAPS

Statuses == {"OPEN", "TP", "TP3", "SL", "EXPIRED"}
Rows == [sym : Symbols, side : Sides, status : Statuses, created : Nat, closed : Nat]
ThreadRows == [saved : BOOLEAN, posts : Nat, lost : Nat, told : BOOLEAN]
Threads == [setup.chats -> ThreadRows]
Items == [sym : Symbols, side : Sides]
Tasks == {Done} \cup [at : Stages, side : Sides]

\* What the handler holds: an emission, then the id of its row, and from the first chat on
\* the chats still to be served and those that got the signal.
Guarded == [at : {"guard", "save"}, what : Items]
Created == [at : {"paused", "exclude"}, id : Ids]
Choosing == [at : {"chat"}, id : Ids, to : SUBSET setup.chats, sent : SUBSET setup.chats]
Sending == [at : {"send"}, id : Ids, to : SUBSET setup.chats, sent : SUBSET setup.chats,
            chat : setup.chats, recovery : BOOLEAN, left : Int]
Saving == [at : {"stamp", "record"}, id : Ids, sent : SUBSET setup.chats]
Hands == {Free} \cup Guarded \cup Created \cup Choosing \cup Sending \cup Saving
Events == {Quiet} \cup [of : Ids, to : SUBSET setup.chats, at : {"read", "tell"}]

TypeInv ==
    /\ setup \in Setups /\ now \in Nat \ {0} /\ paused \in BOOLEAN
    /\ sig \in Seq(Rows) /\ thread \in Seq(Threads) /\ Len(thread) = Len(sig)
    /\ task \in [Symbols -> Tasks] /\ found \in Seq(Items)
    /\ hand \in Hands /\ news \in Events /\ since \subseteq Ids

\* The signal i has yet to be sent to the chat c, or is being sent.
Owed(i, c) ==
    \/ hand.at \in {"paused", "exclude"} /\ i = hand.id
    \/ hand.at \in {"chat", "send"} /\ i = hand.id /\ c \in hand.to
    \/ hand.at = "send" /\ i = hand.id /\ c = hand.chat

\* Every post to a chat that is still to be served was one whose answer was lost.
PostInv ==
    /\ hand.at = "send" => hand.chat \notin hand.to
    /\ \A i \in Ids, c \in setup.chats :
          /\ thread[i][c].posts <= 1 + thread[i][c].lost
          /\ Owed(i, c) => thread[i][c].posts <= thread[i][c].lost

\* The handler has read the flag and may still post.
Underway == hand.at \in {"exclude", "chat", "send"}

\* What was posted since the pause is the signal that was on its way.
PauseInv ==
    /\ ~paused => since = {}
    /\ ~Fails("db") => /\ \E i \in Nat : since \subseteq {i}
                       /\ Underway => since \subseteq {hand.id}

\* All rows of the symbol and the side are a cooldown old.
Clear(m, d) ==
    \A i \in Ids : sig[i].sym = m /\ sig[i].side = d => sig[i].created + Cooldown <= now

\* A symbol is in one place at a time between can_emit and its row: in its task, in the
\* list of results or in the handler; and there its rows are a cooldown old.
SpaceInv ==
    /\ \A i \in Ids : sig[i].created \in 1..now
    /\ \A m \in Symbols : task[m].at \in {"gates", "budget"} => Clear(m, task[m].side)
    /\ \A k \in 1..Len(found) : task[found[k].sym] = Done /\ Clear(found[k].sym, found[k].side)
    /\ \A k, l \in 1..Len(found) : found[k].sym = found[l].sym => k = l
    /\ hand.at \in {"guard", "save"} =>
          /\ task[hand.what.sym] = Done /\ Clear(hand.what.sym, hand.what.side)
          /\ \A k \in 1..Len(found) : found[k].sym # hand.what.sym
    /\ SpacedOut

\* The chats the handler will save have the signal.
SavedInv ==
    /\ SavedIsPosted
    /\ hand.at \in {"chat", "send", "stamp", "record"} =>
          \A c \in hand.sent : thread[hand.id][c].posts > 0

IInv == TypeInv /\ PostInv /\ PauseInv /\ SpaceInv /\ SavedInv

-----------------------------------------------------------------------------
(* The handler and the thread of a signal.                                 *)

\* The step the handler stands at tells what it holds.
LEMMA HandShape ==
    ASSUME TypeInv
    PROVE  /\ hand.at \in {"guard", "save"} => hand \in Guarded
           /\ hand.at \in {"paused", "exclude"} => hand \in Created
           /\ hand.at = "chat" => hand \in Choosing
           /\ hand.at = "send" => hand \in Sending
           /\ hand.at \in {"stamp", "record"} => hand \in Saving
  BY DEF TypeInv, Hands, Free, Guarded, Created, Choosing, Sending, Saving

\* One chat of one signal is written.
LEMMA WriteChat ==
    ASSUME TypeInv, NEW i \in Ids, NEW c \in setup.chats, NEW r \in ThreadRows
    PROVE  LET t == [thread EXCEPT ![i] = [thread[i] EXCEPT ![c] = r]]
           IN /\ t \in Seq(Threads) /\ Len(t) = Len(thread)
              /\ \A j \in Ids, k \in setup.chats :
                    t[j][k] = IF j = i /\ k = c THEN r ELSE thread[j][k]
<1> DEFINE t == [thread EXCEPT ![i] = [thread[i] EXCEPT ![c] = r]]
<1>1. thread \in Seq(Threads) /\ i \in 1..Len(thread) /\ Ids = 1..Len(thread)
  BY DEF TypeInv, Ids
<1>2. thread[i] \in Threads
  BY <1>1, ElementOfSeq
<1>3. [thread[i] EXCEPT ![c] = r] \in Threads
  BY <1>2 DEF Threads
<1>4. /\ t \in Seq(Threads) /\ Len(t) = Len(thread)
      /\ \A j \in 1..Len(thread) : t[j] = IF j = i THEN [thread[i] EXCEPT ![c] = r] ELSE thread[j]
  BY <1>1, <1>3, ExceptSeq
<1> QED
  BY <1>1, <1>2, <1>4 DEF Threads

\* The rows of a thread that exist.
LEMMA ThreadType ==
    ASSUME TypeInv, NEW i \in Ids, NEW c \in setup.chats
    PROVE  thread[i] \in Threads /\ thread[i][c] \in ThreadRows
  BY ElementOfSeq DEF TypeInv, Ids, Threads

LEMMA PostedRow ==
    ASSUME NEW t \in ThreadRows
    PROVE  /\ Posted(t) \in ThreadRows
           /\ Posted(t).posts = t.posts + 1 /\ Posted(t).lost = t.lost /\ Posted(t).saved = t.saved
  BY DEF Posted, ThreadRows

LEMMA LostRow ==
    ASSUME NEW t \in ThreadRows
    PROVE  /\ Lost(t) \in ThreadRows
           /\ Lost(t).posts = t.posts /\ Lost(t).lost = t.lost + 1 /\ Lost(t).saved = t.saved
  BY DEF Lost, ThreadRows

\* A post adds one, and one to the lost ones if it goes unanswered.
LEMMA DeliverThread ==
    ASSUME TypeInv, hand.at = "send", NEW lost \in BOOLEAN, Deliver(lost)
    PROVE  /\ thread' \in Seq(Threads) /\ Len(thread') = Len(thread)
           /\ \A j \in Ids, k \in setup.chats :
                 IF j = hand.id /\ k = hand.chat
                 THEN /\ thread'[j][k].posts = thread[j][k].posts + 1
                      /\ thread'[j][k].lost = thread[j][k].lost + (IF lost THEN 1 ELSE 0)
                      /\ thread'[j][k].saved = thread[j][k].saved
                 ELSE thread'[j][k] = thread[j][k]
<1> DEFINE i == hand.id
           c == hand.chat
           r == IF lost THEN Lost(Posted(thread[i][c])) ELSE Posted(thread[i][c])
           t == [thread EXCEPT ![i] = [thread[i] EXCEPT ![c] = r]]
<1>1. i \in Ids /\ c \in setup.chats
  BY HandShape DEF Sending
<1>2. thread[i][c] \in ThreadRows
  BY <1>1, ThreadType
<1>3. /\ r \in ThreadRows /\ r.posts = thread[i][c].posts + 1
      /\ r.lost = thread[i][c].lost + (IF lost THEN 1 ELSE 0)
      /\ r.saved = thread[i][c].saved
  <2>1. CASE lost
    <3>1. r = Lost(Posted(thread[i][c]))
      BY <2>1, Zenon
    <3>2. Posted(thread[i][c]) \in ThreadRows
      BY <1>2, PostedRow
    <3> HIDE DEF r
    <3> QED
      BY <1>2, <2>1, <3>1, <3>2, PostedRow, LostRow DEF ThreadRows
  <2>2. CASE ~lost
    <3>1. r = Posted(thread[i][c])
      BY <2>2, Zenon
    <3> HIDE DEF r
    <3> QED
      BY <1>2, <2>2, <3>1, PostedRow DEF ThreadRows
  <2> QED
    BY <2>1, <2>2
<1>4. thread' = t
  BY DEF Deliver
<1> HIDE DEF r
<1>5. /\ t \in Seq(Threads) /\ Len(t) = Len(thread)
      /\ \A j \in Ids, k \in setup.chats :
            t[j][k] = IF j = i /\ k = c THEN r ELSE thread[j][k]
  BY <1>1, <1>3, WriteChat
<1> HIDE DEF t
<1> QED
  BY <1>1, <1>3, <1>4, <1>5

-----------------------------------------------------------------------------
(* Types.                                                                  *)

\* As long as no signal is added, the sets of values stay.
LEMMA SameSets ==
    ASSUME setup' = setup, Len(sig') = Len(sig)
    PROVE  Ids' = Ids /\ Hands' = Hands /\ Events' = Events /\ Threads' = Threads
  BY DEF Ids, Hands, Events, Threads, Guarded, Created, Choosing, Sending, Saving

\* A row of signal_messages, or an event, is noted in the thread.
LEMMA NoteThread ==
    ASSUME TypeInv, NEW i \in Ids, NEW c \in setup.chats,
           \/ thread' = [thread EXCEPT ![i][c].saved = TRUE]
           \/ thread' = [thread EXCEPT ![i][c].told = TRUE]
    PROVE  /\ thread' \in Seq(Threads) /\ Len(thread') = Len(thread)
           /\ \A j \in Ids, k \in setup.chats :
                 /\ thread'[j][k].posts = thread[j][k].posts
                 /\ thread'[j][k].lost = thread[j][k].lost
<1>1. thread[i][c] \in ThreadRows
  BY ThreadType
<1>2. PICK r \in ThreadRows : /\ r.posts = thread[i][c].posts /\ r.lost = thread[i][c].lost
                             /\ thread' = [thread EXCEPT ![i] = [thread[i] EXCEPT ![c] = r]]
  <2>1. CASE thread' = [thread EXCEPT ![i][c].saved = TRUE]
    <3> DEFINE r == [thread[i][c] EXCEPT !.saved = TRUE]
    <3>1. r \in ThreadRows /\ r.posts = thread[i][c].posts /\ r.lost = thread[i][c].lost
      BY <1>1 DEF ThreadRows
    <3>2. thread' = [thread EXCEPT ![i] = [thread[i] EXCEPT ![c] = r]]
      BY <2>1
    <3> QED
      BY <3>1, <3>2
  <2>2. CASE thread' = [thread EXCEPT ![i][c].told = TRUE]
    <3> DEFINE r == [thread[i][c] EXCEPT !.told = TRUE]
    <3>1. r \in ThreadRows /\ r.posts = thread[i][c].posts /\ r.lost = thread[i][c].lost
      BY <1>1 DEF ThreadRows
    <3>2. thread' = [thread EXCEPT ![i] = [thread[i] EXCEPT ![c] = r]]
      BY <2>2
    <3> QED
      BY <3>1, <3>2
  <2> QED
    BY <2>1, <2>2
<1> DEFINE t == [thread EXCEPT ![i] = [thread[i] EXCEPT ![c] = r]]
<1>3. /\ t \in Seq(Threads) /\ Len(t) = Len(thread)
      /\ \A j \in Ids, k \in setup.chats :
            t[j][k] = IF j = i /\ k = c THEN r ELSE thread[j][k]
  BY <1>2, WriteChat
<1> HIDE DEF t
<1>4. thread' = t
  BY <1>2 DEF t
<1>5. \A j \in Ids, k \in setup.chats :
         t[j][k].posts = thread[j][k].posts /\ t[j][k].lost = thread[j][k].lost
  BY <1>2, <1>3
<1> QED
  BY <1>3, <1>4, <1>5

\* The scan leaves all but the emissions alone.
LEMMA ScanType ==
    ASSUME TypeInv, Scan
    PROVE  TypeInv'
<1> USE DEF TypeInv, database
<1>1. CASE ScanOnce
  <2>1. PICK verdict \in Verdicts :
           task' = [m \in Symbols |-> IF verdict[m] = "none" THEN Done
                                     ELSE [at |-> "guard", side |-> verdict[m]]]
    BY <1>1 DEF ScanOnce
  <2>2. task' \in [Symbols -> Tasks]
    BY <2>1 DEF Verdicts, Tasks, Stages
  <2> QED
    BY <1>1, <2>2, SameSets DEF ScanOnce
<1>2. ASSUME NEW m \in Symbols, NEW pass \in BOOLEAN, NEW a \in Stages, task[m].at \in Stages,
             Go(m, pass, a)
      PROVE  task' \in [Symbols -> Tasks]
  <2>1. task[m] \in [at : Stages, side : Sides]
    BY <1>2 DEF Tasks, Done, Stages
  <2>2. [task[m] EXCEPT !.at = a] \in Tasks
    BY <1>2, <2>1 DEF Tasks
  <2> QED
    BY <1>2, <2>2 DEF Go, Tasks
<1>3. ASSUME NEW m \in Symbols, GuardActive(m) \/ GuardSilence(m) \/ CanEmit(m) \/ Gates(m)
      PROVE  /\ task' \in [Symbols -> Tasks]
             /\ UNCHANGED <<setup, now, database, found, hand, news, since>>
  <2>1. CASE GuardActive(m)
    BY <1>2, <2>1 DEF GuardActive, Stages
  <2>2. CASE GuardSilence(m)
    BY <1>2, <2>2 DEF GuardSilence, Stages
  <2>3. CASE CanEmit(m)
    BY <1>2, <2>3 DEF CanEmit, Stages
  <2>4. CASE Gates(m)
    BY <1>2, <2>4 DEF Gates, Stages
  <2> QED
    BY <1>3, <2>1, <2>2, <2>3, <2>4
<1>4. ASSUME NEW m \in Symbols, Spend(m)
      PROVE  /\ task' \in [Symbols -> Tasks] /\ found' \in Seq(Items)
             /\ UNCHANGED <<setup, now, database, hand, news, since>>
  <2>1. task' = [task EXCEPT ![m] = Done] /\ task[m].at = "budget"
    BY <1>4 DEF Spend, Go
  <2>2. task[m].side \in Sides
    BY <2>1 DEF Tasks, Done
  <2>3. found' = found \/ found' = Append(found, [sym |-> m, side |-> task[m].side])
    BY <1>4 DEF Spend
  <2>4. task' \in [Symbols -> Tasks]
    BY <2>1 DEF Tasks
  <2>5. [sym |-> m, side |-> task[m].side] \in Items
    BY <2>2 DEF Items
  <2>6. found' \in Seq(Items)
    BY <2>3, <2>5, AppendProperties
  <2> QED
    BY <1>4, <2>4, <2>6 DEF Spend
<1>5. CASE \E m \in Symbols : GuardActive(m) \/ GuardSilence(m) \/ CanEmit(m) \/ Gates(m)
  BY <1>3, <1>5, SameSets
<1>6. CASE \E m \in Symbols : Spend(m)
  BY <1>4, <1>6, SameSets
<1> QED
  BY <1>1, <1>5, <1>6 DEF Scan

\* A new signal has a thread without posts.
LEMMA NewSignal ==
    ASSUME TypeInv, CreateSignal, sig' # sig
    PROVE  /\ ~Active(hand.what.sym) /\ hand.at = "save" /\ hand.what \in Items
           /\ sig' \in Seq(Rows) /\ thread' \in Seq(Threads)
           /\ Len(sig') = Len(sig) + 1 /\ Len(thread') = Len(sig')
           /\ \A i \in Ids : sig'[i] = sig[i] /\ thread'[i] = thread[i]
           /\ thread'[Len(sig) + 1] = NoThread
           /\ LET r == sig'[Len(sig) + 1]
              IN r.sym = hand.what.sym /\ r.side = hand.what.side /\ r.created = now
           /\ hand' = [at |-> "paused", id |-> Len(sig) + 1]
           /\ UNCHANGED <<setup, now, paused, scan, news, since>>
<1> DEFINE w == hand.what
           r == [sym |-> w.sym, side |-> w.side, status |-> "OPEN", created |-> now, closed |-> 0]
<1>1. /\ hand.at = "save" /\ ~Active(w.sym)
      /\ sig' = Append(sig, r) /\ thread' = Append(thread, NoThread)
      /\ hand' = [at |-> "paused", id |-> Len(sig) + 1]
      /\ UNCHANGED <<setup, now, paused, scan, news, since>>
  BY DEF CreateSignal
<1>2. w \in Items
  BY <1>1, HandShape DEF Guarded
<1>3. r \in Rows /\ r.sym = w.sym /\ r.side = w.side /\ r.created = now
  BY <1>2 DEF Rows, Statuses, Items, TypeInv
<1>4. NoThread \in Threads
  BY DEF NoThread, Threads, ThreadRows
<1> HIDE DEF r
<1>5. /\ sig' \in Seq(Rows) /\ Len(sig') = Len(sig) + 1 /\ sig'[Len(sig) + 1] = r
      /\ \A i \in Ids : sig'[i] = sig[i]
  BY <1>1, <1>3, AppendProperties DEF TypeInv, Ids
<1>6. /\ thread' \in Seq(Threads) /\ Len(thread') = Len(sig')
      /\ thread'[Len(sig) + 1] = NoThread /\ \A i \in Ids : thread'[i] = thread[i]
  BY <1>1, <1>4, <1>5, AppendProperties DEF TypeInv, Ids
<1> QED
  BY <1>1, <1>2, <1>3, <1>5, <1>6

\* Up to the row the handler stands before the flag, and a row comes with its thread.
LEMMA HandleStep ==
    ASSUME TypeInv, Handle
    PROVE  /\ hand'.at \in {"free", "guard", "save", "paused"}
           /\ UNCHANGED <<setup, now, paused, since>>
           /\ sig' = sig => hand'.at # "paused" /\ thread' = thread
           /\ sig' # sig => CreateSignal
<1>1. CASE TakeUp
  BY <1>1 DEF TakeUp, database
<1>2. CASE PrePersist
  <2>1. hand' = Free \/ hand' = [hand EXCEPT !.at = "save"]
    BY <1>2 DEF PrePersist
  <2>2. CASE hand' = Free
    BY <1>2, <2>2 DEF PrePersist, Free, database
  <2>3. CASE hand' = [hand EXCEPT !.at = "save"]
    <3>1. hand \in Guarded
      BY <1>2, HandShape DEF PrePersist
    <3>2. hand'.at = "save"
      BY <2>3, <3>1 DEF Guarded
    <3> QED
      BY <1>2, <3>2 DEF PrePersist, database
  <2> QED
    BY <2>1, <2>2, <2>3
<1>3. CASE CreateSignal
  <2>1. \A r : Append(sig, r) # sig
    <3>1. \A r : Len(Append(sig, r)) = Len(sig) + 1
      BY DEF TypeInv
    <3> QED
      BY <3>1
  <2> QED
    BY <1>3, <2>1 DEF CreateSignal, Free
<1> QED
  BY <1>1, <1>2, <1>3 DEF Handle

LEMMA HandleType ==
    ASSUME TypeInv, Handle
    PROVE  TypeInv'
<1> USE DEF TypeInv, database
<1>1. CASE TakeUp
  <2>1. Head(found) \in Items /\ Tail(found) \in Seq(Items)
    BY <1>1, HeadTailProperties DEF TakeUp
  <2>2. hand' \in Hands
    BY <1>1, <2>1 DEF TakeUp, Hands, Guarded
  <2> QED
    BY <1>1, <2>1, <2>2, SameSets DEF TakeUp
<1>2. CASE PrePersist
  <2>1. hand \in Guarded
    BY <1>2, HandShape DEF PrePersist
  <2>2. [hand EXCEPT !.at = "save"] \in Hands /\ Free \in Hands
    BY <2>1 DEF Hands, Guarded
  <2>3. hand' \in Hands
    BY <1>2, <2>2 DEF PrePersist
  <2> QED
    BY <1>2, <2>3, SameSets DEF PrePersist, scan
<1>3. CASE CreateSignal /\ sig' = sig
  <2>1. hand' = Free /\ UNCHANGED <<thread, setup, now, paused, scan, news, since>>
    <3>1. \A r : Append(sig, r) # sig
      <4>1. \A r : Len(Append(sig, r)) = Len(sig) + 1
        OBVIOUS
      <4> QED
        BY <4>1
    <3> QED
      BY <1>3, <3>1 DEF CreateSignal
  <2> QED
    BY <1>3, <2>1, SameSets DEF scan, Hands
<1>4. CASE CreateSignal /\ sig' # sig
  <2> DEFINE n == Len(sig) + 1
  <2>1. /\ sig' \in Seq(Rows) /\ thread' \in Seq(Threads) /\ Len(sig') = n /\ Len(thread') = n
        /\ hand' = [at |-> "paused", id |-> n]
        /\ UNCHANGED <<setup, now, paused, scan, news, since>>
    BY <1>4, NewSignal
  <2>2. n \in Ids' /\ Ids \subseteq Ids' /\ Threads' = Threads
    BY <2>1 DEF Ids, Threads
  <2>3. hand' \in Hands'
    BY <2>1, <2>2 DEF Hands, Created
  <2>4. news' \in Events'
    BY <2>1, <2>2 DEF Events
  <2> QED
    BY <2>1, <2>2, <2>3, <2>4 DEF scan
<1> QED
  BY <1>1, <1>2, <1>3, <1>4 DEF Handle

\* What the broadcast leaves alone, and what it does with the thread.
LEMMA PublishFrame ==
    ASSUME TypeInv, Publish
    PROVE  /\ UNCHANGED <<setup, now, sig, paused, scan, news>>
           /\ thread' \in Seq(Threads) /\ Len(thread') = Len(thread)
           /\ since' \subseteq Ids
<1>1. CASE CheckPause \/ Exclude \/ NextChat \/ Flooded \/ Refused \/ Stamp
  BY <1>1 DEF CheckPause, Exclude, NextChat, Flooded, Refused, Stamp, database, TypeInv
<1>2. ASSUME hand.at = "send", NEW lost \in BOOLEAN, Deliver(lost)
      PROVE  /\ thread' \in Seq(Threads) /\ Len(thread') = Len(thread) /\ since' \subseteq Ids
  <2>1. hand.id \in Ids
    BY <1>2, HandShape DEF Sending
  <2> QED
    BY <1>2, <2>1, DeliverThread DEF Deliver, TypeInv
<1>3. CASE Answered \/ Unanswered
  BY <1>2, <1>3 DEF Answered, Unanswered, TypeInv
<1>4. CASE Record
  <2>1. hand.id \in Ids /\ hand.sent \subseteq setup.chats
    BY <1>4, HandShape DEF Record, Saving
  <2>2. \/ thread' = thread
        \/ \E c \in setup.chats : thread' = [thread EXCEPT ![hand.id][c].saved = TRUE]
    BY <1>4, <2>1 DEF Record
  <2>3. thread' \in Seq(Threads) /\ Len(thread') = Len(thread)
    BY <2>1, <2>2, NoteThread DEF TypeInv
  <2> QED
    BY <1>4, <2>3 DEF Record, TypeInv
<1> QED
  BY <1>1, <1>3, <1>4 DEF Publish

\* And with the handler.
LEMMA PublishHand ==
    ASSUME TypeInv, Publish
    PROVE  hand' \in Hands
<1>1. CASE CheckPause
  <2>1. hand \in Created
    BY <1>1, HandShape DEF CheckPause
  <2>2. [hand EXCEPT !.at = "exclude"] \in Created
    BY <2>1 DEF Created
  <2> QED
    BY <1>1, <2>2 DEF CheckPause, Hands
<1>2. CASE Exclude
  <2>1. hand.id \in Ids
    BY <1>2, HandShape DEF Exclude, Created
  <2>2. [at |-> "chat", id |-> hand.id, to |-> setup.chats, sent |-> {}] \in Choosing
    BY <2>1 DEF Choosing
  <2> QED
    BY <1>2, <2>2 DEF Exclude, Hands
<1>3. CASE NextChat
  <2>1. hand \in Choosing
    BY <1>3, HandShape DEF NextChat
  <2>2. \A c \in hand.to :
           [at |-> "send", id |-> hand.id, to |-> hand.to \ {c}, sent |-> hand.sent,
            chat |-> c, recovery |-> FALSE, left |-> Attempts] \in Sending
    BY <2>1 DEF Choosing, Sending, Attempts
  <2>3. [at |-> "stamp", id |-> hand.id, sent |-> hand.sent] \in Saving
    BY <2>1 DEF Choosing, Saving
  <2> QED
    BY <1>3, <2>2, <2>3 DEF NextChat, Hands
<1>4. CASE Answered \/ Unanswered \/ Flooded \/ Refused
  <2>1. hand \in Sending
    BY <1>4, HandShape DEF Answered, Unanswered, Flooded, Refused
  <2>2. After(hand.sent) \in Choosing /\ After(hand.sent \cup {hand.chat}) \in Choosing
    BY <2>1 DEF Sending, Choosing, After
  <2>3. Retry \in Sending
    BY <2>1 DEF Retry, Sending
  <2>4. [hand EXCEPT !.recovery = TRUE, !.left = Again] \in Sending
    <3>1. [[hand EXCEPT !.recovery = TRUE] EXCEPT !.left = Again] \in Sending
      <4>1. [hand EXCEPT !.recovery = TRUE] \in Sending
        BY <2>1 DEF Sending
      <4>2. \A h \in Sending : [h EXCEPT !.left = Again] \in Sending
        BY DEF Sending, Again
      <4> QED
        BY <4>1, <4>2
    <3> QED
      BY <3>1
  <2>5. Raised \in Hands
    BY <2>2, <2>4 DEF Raised, Hands
  <2> QED
    BY <1>4, <2>2, <2>3, <2>5 DEF Answered, Unanswered, Flooded, Refused, Hands
<1>5. CASE Stamp \/ Record
  <2>1. hand \in Saving
    BY <1>5, HandShape DEF Stamp, Record
  <2>2. [hand EXCEPT !.at = "record"] \in Saving
    BY <2>1 DEF Saving
  <2>3. \A c : [hand EXCEPT !.sent = @ \ {c}] \in Saving
    BY <2>1 DEF Saving
  <2> QED
    <3>1. CASE Stamp
      BY <2>2, <3>1 DEF Stamp, Hands
    <3>2. CASE Record
      BY <2>3, <3>2 DEF Record, Hands
    <3> QED
      BY <1>5, <3>1, <3>2
<1> QED
  BY <1>1, <1>2, <1>3, <1>4, <1>5 DEF Publish

LEMMA PublishType ==
    ASSUME TypeInv, Publish
    PROVE  TypeInv'
  BY PublishFrame, PublishHand, SameSets DEF TypeInv, scan

\* The tracker moves the state of a row, not what the scan asks for.
LEMMA FollowFrame ==
    ASSUME TypeInv, Follow
    PROVE  /\ UNCHANGED <<setup, now, paused, scan, hand, since>>
           /\ sig' \in Seq(Rows) /\ Len(sig') = Len(sig)
           /\ \A i \in Ids : /\ sig'[i].sym = sig[i].sym /\ sig'[i].side = sig[i].side
                             /\ sig'[i].created = sig[i].created
           /\ thread' \in Seq(Threads) /\ Len(thread') = Len(thread)
           /\ \A i \in Ids, c \in setup.chats :
                 /\ thread'[i][c].posts = thread[i][c].posts
                 /\ thread'[i][c].lost = thread[i][c].lost
           /\ news' \in Events
<1> USE DEF TypeInv
<1>1. ASSUME NEW n \in Ids, NEW event \in {"TP", "TP3", "SL", "EXPIRED"}, Track(n, event)
      PROVE  /\ UNCHANGED <<setup, now, thread, paused, scan, hand, since>>
             /\ sig' \in Seq(Rows) /\ Len(sig') = Len(sig)
             /\ \A i \in Ids : /\ sig'[i].sym = sig[i].sym /\ sig'[i].side = sig[i].side
                               /\ sig'[i].created = sig[i].created
             /\ news' \in Events
  <2> DEFINE st == IF event = "SL" /\ sig[n].status = "TP" THEN "TP" ELSE event
             cl == IF event = "TP" THEN sig[n].closed ELSE now
             r == [[sig[n] EXCEPT !.status = st] EXCEPT !.closed = cl]
  <2>1. sig[n] \in Rows
    BY ElementOfSeq DEF Ids
  <2>2. st \in Statuses /\ cl \in Nat
    BY <1>1, <2>1 DEF Statuses, Rows
  <2>3. sig' = [sig EXCEPT ![n] = r]
    BY <1>1 DEF Track
  <2> HIDE DEF st, cl
  <2>4. [sig[n] EXCEPT !.status = st] \in Rows
    BY <2>1, <2>2 DEF Rows
  <2>5. \A x \in Rows : [x EXCEPT !.closed = cl] \in Rows
    BY <2>2 DEF Rows
  <2>6. r \in Rows
    BY <2>4, <2>5
  <2>7. r.sym = sig[n].sym /\ r.side = sig[n].side /\ r.created = sig[n].created
    BY <2>1 DEF Rows
  <2> HIDE DEF r
  <2>8. sig' \in Seq(Rows) /\ Len(sig') = Len(sig)
        /\ \A i \in Ids : sig'[i] = IF i = n THEN r ELSE sig[i]
    BY <2>3, <2>6, ExceptSeq DEF Ids
  <2>9. news' \in Events
    BY <1>1 DEF Track, Events
  <2> QED
    BY <1>1, <2>7, <2>8, <2>9 DEF Track
<1>2. CASE Address
  <2>1. news \in [of : Ids, to : SUBSET setup.chats, at : {"read", "tell"}]
    BY <1>2 DEF Address, Events
  <2>2. \A to \in SUBSET setup.chats : [[news EXCEPT !.to = to] EXCEPT !.at = "tell"] \in Events
    <3>1. \A to \in SUBSET setup.chats :
             [news EXCEPT !.to = to] \in [of : Ids, to : SUBSET setup.chats, at : {"read", "tell"}]
      BY <2>1
    <3>2. \A x \in [of : Ids, to : SUBSET setup.chats, at : {"read", "tell"}] :
             [x EXCEPT !.at = "tell"] \in Events
      BY DEF Events
    <3> QED
      BY <3>1, <3>2
  <2>3. news' \in Events
    <3> DEFINE known == {c \in setup.chats : thread[news.of][c].saved}
               to == IF known = {} THEN setup.chats ELSE known
    <3>1. news' = [[news EXCEPT !.to = to] EXCEPT !.at = "tell"]
      BY <1>2 DEF Address
    <3>2. to \in SUBSET setup.chats
      OBVIOUS
    <3> HIDE DEF to
    <3> QED
      BY <2>2, <3>1, <3>2
  <2> QED
    BY <1>2, <2>3 DEF Address, database
<1>3. CASE Tell
  <2>1. /\ news \in [of : Ids, to : SUBSET setup.chats, at : {"read", "tell"}]
        /\ news.of \in Ids /\ news.to \subseteq setup.chats
    BY <1>3 DEF Tell, Events
  <2>2. \/ thread' = thread
        \/ \E c \in setup.chats : thread' = [thread EXCEPT ![news.of][c].told = TRUE]
    BY <1>3, <2>1 DEF Tell
  <2>3. \A c : [news EXCEPT !.to = @ \ {c}] \in Events
    BY <2>1 DEF Events
  <2>4. news' \in Events
    BY <1>3, <2>3 DEF Tell, Events
  <2>5. /\ thread' \in Seq(Threads) /\ Len(thread') = Len(thread)
        /\ \A i \in Ids, c \in setup.chats :
              /\ thread'[i][c].posts = thread[i][c].posts
              /\ thread'[i][c].lost = thread[i][c].lost
    BY <2>1, <2>2, NoteThread
  <2> QED
    BY <1>3, <2>4, <2>5 DEF Tell
<1> QED
  BY <1>1, <1>2, <1>3 DEF Follow

\* Every step keeps the types.
LEMMA TypeStep ==
    ASSUME TypeInv, [Next]_vars
    PROVE  TypeInv'
<1>1. CASE Follow
  BY <1>1, FollowFrame, SameSets DEF TypeInv, scan
<1>2. CASE Tick
  BY <1>2, SameSets DEF Tick, TypeInv, database, scan
<1>3. CASE Crash
  <2>1. /\ task' \in [Symbols -> Tasks] /\ found' \in Seq(Items) /\ Free \in Hands /\ Quiet \in Events
        /\ hand' = Free /\ news' = Quiet /\ UNCHANGED <<setup, now, database, since>>
    BY <1>3 DEF Crash, Tasks, Hands, Events
  <2> QED
    BY <2>1, SameSets DEF TypeInv, database
<1>4. ASSUME NEW on \in BOOLEAN, Pause(on) PROVE TypeInv'
  BY <1>4, SameSets DEF Pause, TypeInv, scan
<1>5. CASE UNCHANGED vars
  BY <1>5, SameSets DEF vars, TypeInv, database, scan
<1> QED
  BY <1>1, <1>2, <1>3, <1>4, <1>5, ScanType, HandleType, PublishType DEF Next

-----------------------------------------------------------------------------
(* Posts and lost answers.                                                 *)

\* Where an attempt leaves the handler: with the same signal, and with the same chats still
\* to be served.
LEMMA RaisedShape ==
    ASSUME TypeInv, hand.at = "send"
    PROVE  /\ Retry.at = "send" /\ Retry.id = hand.id /\ Retry.to = hand.to
           /\ Retry.chat = hand.chat
           /\ \A sent : /\ After(sent).at = "chat" /\ After(sent).id = hand.id
                        /\ After(sent).to = hand.to
           /\ Raised.id = hand.id /\ Raised.to = hand.to
           /\ \/ Raised.at = "send" /\ Raised.chat = hand.chat
              \/ Raised.at = "chat"
<1>1. hand \in Sending
  BY HandShape
<1>2. /\ Retry.at = "send" /\ Retry.id = hand.id /\ Retry.to = hand.to /\ Retry.chat = hand.chat
  BY <1>1 DEF Retry, Sending
<1>3. \A sent : After(sent).at = "chat" /\ After(sent).id = hand.id /\ After(sent).to = hand.to
  BY DEF After
<1>4. CASE setup.card /\ ~hand.recovery
  <2> DEFINE h == [hand EXCEPT !.recovery = TRUE]
  <2>1. h \in Sending /\ h.at = "send" /\ h.id = hand.id /\ h.to = hand.to /\ h.chat = hand.chat
    BY <1>1 DEF Sending
  <2>2. Raised = [h EXCEPT !.left = Again]
    BY <1>4 DEF Raised
  <2> HIDE DEF h
  <2>3. Raised.at = "send" /\ Raised.id = h.id /\ Raised.to = h.to /\ Raised.chat = h.chat
    BY <2>1, <2>2 DEF Sending
  <2> QED
    BY <1>2, <1>3, <2>1, <2>3
<1>5. CASE ~(setup.card /\ ~hand.recovery)
  <2>1. Raised = After(hand.sent)
    BY <1>5 DEF Raised
  <2> QED
    BY <1>2, <1>3, <2>1
<1> QED
  BY <1>4, <1>5

\* After the sends the handler only writes.
LEMMA SavingStep ==
    ASSUME TypeInv, Stamp \/ Record
    PROVE  hand'.at \in {"free", "stamp", "record"}
<1>1. hand \in Saving
  BY HandShape DEF Stamp, Record
<1>2. CASE hand' = Free
  BY <1>2 DEF Free
<1>3. CASE hand' = [hand EXCEPT !.at = "record"]
  BY <1>1, <1>3 DEF Saving
<1>4. ASSUME NEW c, hand' = [hand EXCEPT !.sent = @ \ {c}]
      PROVE  hand'.at \in {"stamp", "record"}
  BY <1>1, <1>4 DEF Saving
<1>5. CASE \E c : hand' = [hand EXCEPT !.sent = @ \ {c}]
  BY <1>4, <1>5
<1> QED
  BY <1>2, <1>3, <1>5 DEF Stamp, Record

\* What the broadcast does to the chats still to be served: none is added but all at the
\* start, and the one being served stays so until it is posted to or given up.
LEMMA PostPublish ==
    ASSUME TypeInv, PostInv, Publish
    PROVE  PostInv'
<1> USE DEF PostInv, Owed
<1>1. /\ UNCHANGED <<setup, sig>> /\ Ids' = Ids
      /\ \A i \in Ids, c \in setup.chats : thread[i][c].posts \in Nat /\ thread[i][c].lost \in Nat
  BY PublishFrame, ThreadType DEF Ids, ThreadRows
<1>2. CASE CheckPause \/ Stamp
  <2>1. thread' = thread /\ hand' \in {Free, [hand EXCEPT !.at = "exclude"], [hand EXCEPT !.at = "record"]}
    BY <1>2 DEF CheckPause, Stamp, database
  <2>2. CASE CheckPause
    <3>1. hand \in Created
      BY <2>2, HandShape DEF CheckPause
    <3>2. hand'.at \in {"free", "exclude"} /\ (hand'.at = "exclude" => hand'.id = hand.id)
      BY <2>2, <3>1 DEF CheckPause, Created, Free
    <3> QED
      BY <1>1, <2>1, <2>2, <3>2 DEF CheckPause
  <2>3. CASE Stamp
    <3>1. hand \in Saving
      BY <2>3, HandShape DEF Stamp
    <3>2. hand'.at \in {"free", "record"}
      BY <2>3, <3>1 DEF Stamp, Saving, Free
    <3> QED
      BY <1>1, <2>1, <3>2
  <2> QED
    BY <1>2, <2>2, <2>3
<1>3. CASE Exclude
  <2>1. thread' = thread /\ hand.at = "exclude"
    BY <1>3 DEF Exclude, database
  <2>2. hand'.at \in {"free", "chat"} /\ (hand'.at = "chat" => hand'.id = hand.id)
    BY <1>3 DEF Exclude, Free
  <2> QED
    BY <1>1, <2>1, <2>2
<1>4. CASE NextChat
  <2>1. thread' = thread /\ hand \in Choosing /\ hand.at = "chat"
    BY <1>4, HandShape DEF NextChat, database
  <2>2. CASE \E c \in hand.to :
               hand' = [at |-> "send", id |-> hand.id, to |-> hand.to \ {c}, sent |-> hand.sent,
                        chat |-> c, recovery |-> FALSE, left |-> Attempts]
    BY <1>1, <2>1, <2>2
  <2>3. CASE hand'.at \in {"free", "stamp"}
    BY <1>1, <2>1, <2>3
  <2> QED
    BY <1>4, <2>2, <2>3 DEF NextChat, Free
<1>5. hand.at = "send" => /\ Retry.at = "send" /\ Retry.id = hand.id /\ Retry.to = hand.to
                          /\ Retry.chat = hand.chat
                          /\ \A sent : /\ After(sent).at = "chat" /\ After(sent).id = hand.id
                                       /\ After(sent).to = hand.to
                          /\ Raised.id = hand.id /\ Raised.to = hand.to
                          /\ \/ Raised.at = "send" /\ Raised.chat = hand.chat
                             \/ Raised.at = "chat"
  BY RaisedShape
<1>6. CASE Answered
  <2>1. /\ hand.at = "send" /\ Deliver(FALSE) /\ hand' = After(hand.sent \cup {hand.chat})
    BY <1>6 DEF Answered
  <2>2. hand'.at = "chat" /\ hand'.id = hand.id /\ hand'.to = hand.to
    BY <1>5, <2>1
  <2>3. \A j \in Ids, k \in setup.chats :
           IF j = hand.id /\ k = hand.chat
           THEN /\ thread'[j][k].posts = thread[j][k].posts + 1
                /\ thread'[j][k].lost = thread[j][k].lost
           ELSE thread'[j][k] = thread[j][k]
    <3>1. \A j \in Ids, k \in setup.chats :
             IF j = hand.id /\ k = hand.chat
             THEN /\ thread'[j][k].posts = thread[j][k].posts + 1
                  /\ thread'[j][k].lost = thread[j][k].lost + (IF FALSE THEN 1 ELSE 0)
             ELSE thread'[j][k] = thread[j][k]
      BY <2>1, DeliverThread
    <3> QED
      BY <1>1, <3>1
  <2>4. ASSUME NEW j \in Ids, NEW k \in setup.chats
        PROVE  /\ thread'[j][k].posts <= 1 + thread'[j][k].lost
               /\ Owed(j, k)' => thread'[j][k].posts <= thread'[j][k].lost
    <3>1. CASE j = hand.id /\ k = hand.chat
      <4>1. thread'[j][k].posts = thread[j][k].posts + 1 /\ thread'[j][k].lost = thread[j][k].lost
        BY <2>3, <3>1
      <4>2. thread[j][k].posts <= thread[j][k].lost /\ ~Owed(j, k)'
        BY <1>1, <2>1, <2>2, <3>1
      <4> QED
        BY <1>1, <4>1, <4>2
    <3>2. CASE ~(j = hand.id /\ k = hand.chat)
      <4>1. thread'[j][k] = thread[j][k]
        BY <2>3, <3>2
      <4>2. Owed(j, k)' => Owed(j, k)
        BY <2>1, <2>2
      <4> QED
        BY <1>1, <4>1, <4>2
    <3> QED
      BY <3>1, <3>2
  <2> QED
    BY <1>1, <2>2, <2>4
<1>7. ASSUME hand.at = "send",
             \/ hand' = Retry \/ hand' = Raised \/ hand' = After(hand.sent),
             \A j \in Ids, k \in setup.chats :
                /\ thread'[j][k].posts \in Nat /\ thread'[j][k].lost \in Nat
                /\ thread[j][k].posts <= thread[j][k].lost => thread'[j][k].posts <= thread'[j][k].lost
                /\ thread[j][k].posts <= thread[j][k].lost + 1 => thread'[j][k].posts <= thread'[j][k].lost + 1
      PROVE  PostInv'
  <2>1. /\ hand'.id = hand.id /\ hand'.to = hand.to
        /\ (hand'.at = "send" /\ hand'.chat = hand.chat) \/ hand'.at = "chat"
    BY <1>5, <1>7
  <2> QED
    BY <1>1, <1>7, <2>1
<1>8. CASE Unanswered
  <2>1. /\ hand.at = "send"
        /\ Deliver(TRUE) \/ thread' = thread
        /\ hand' = Retry \/ hand' = Raised
    BY <1>8 DEF Unanswered
  <2>2. CASE Deliver(TRUE)
    <3>1. \A j \in Ids, k \in setup.chats :
             IF j = hand.id /\ k = hand.chat
             THEN /\ thread'[j][k].posts = thread[j][k].posts + 1
                  /\ thread'[j][k].lost = thread[j][k].lost + (IF TRUE THEN 1 ELSE 0)
             ELSE thread'[j][k] = thread[j][k]
      BY <2>1, <2>2, DeliverThread
    <3>2. \A j \in Ids, k \in setup.chats :
             /\ thread'[j][k].posts \in Nat /\ thread'[j][k].lost \in Nat
             /\ thread[j][k].posts <= thread[j][k].lost => thread'[j][k].posts <= thread'[j][k].lost
             /\ thread[j][k].posts <= thread[j][k].lost + 1 => thread'[j][k].posts <= thread'[j][k].lost + 1
      BY <1>1, <3>1
    <3> QED
      BY <1>7, <2>1, <3>2
  <2>3. CASE thread' = thread
    BY <1>1, <1>7, <2>1, <2>3
  <2> QED
    BY <2>1, <2>2, <2>3
<1>9. CASE Flooded \/ Refused
  <2>1. hand.at = "send" /\ thread' = thread /\ hand' \in {Retry, Raised, After(hand.sent)}
    BY <1>9 DEF Flooded, Refused, database
  <2> QED
    BY <1>1, <1>7, <2>1
<1>10. CASE Record
  <2>1. hand \in Saving /\ hand.at = "record"
    BY <1>10, HandShape DEF Record
  <2>2. hand'.at \in {"free", "stamp", "record"}
    BY <1>10, SavingStep
  <2>3. \/ thread' = thread
        \/ \E c \in setup.chats : thread' = [thread EXCEPT ![hand.id][c].saved = TRUE]
    BY <1>10, <2>1 DEF Record, Saving
  <2>4. \A j \in Ids, k \in setup.chats :
           thread'[j][k].posts = thread[j][k].posts /\ thread'[j][k].lost = thread[j][k].lost
    <3>1. hand.id \in Ids
      BY <2>1 DEF Saving
    <3> QED
      BY <2>3, <3>1, NoteThread
  <2> QED
    BY <1>1, <2>2, <2>4
<1> QED
  BY <1>2, <1>3, <1>4, <1>6, <1>8, <1>9, <1>10 DEF Publish

LEMMA PostStep ==
    ASSUME TypeInv, PostInv, [Next]_vars
    PROVE  PostInv'
<1>1. CASE UNCHANGED <<setup, sig, thread, hand>>
  BY <1>1 DEF PostInv, Owed, Ids
<1>2. CASE Tick \/ Scan \/ UNCHANGED vars \/ \E on \in BOOLEAN : Pause(on)
  BY <1>1, <1>2 DEF Tick, Scan, ScanOnce, GuardActive, GuardSilence, CanEmit, Gates, Spend, Pause,
                    vars, database
<1>3. CASE (Handle /\ sig' = sig) \/ Crash
  <2>1. UNCHANGED <<setup, sig, thread>> /\ hand'.at \in {"free", "guard", "save"}
    BY <1>3, HandleStep DEF Crash, Free, database
  <2> QED
    BY <2>1 DEF PostInv, Owed, Ids
<1>4. CASE CreateSignal /\ sig' # sig
  <2>1. /\ Len(sig') = Len(sig) + 1 /\ setup' = setup
        /\ \A i \in Ids : thread'[i] = thread[i]
        /\ thread'[Len(sig) + 1] = NoThread
        /\ hand'.at = "paused" /\ hand'.id = Len(sig) + 1
    BY <1>4, NewSignal
  <2>2. Ids' = Ids \cup {Len(sig) + 1} /\ Len(sig) + 1 \notin Ids
    BY <2>1 DEF Ids, TypeInv
  <2>3. \A c \in setup.chats : NoThread[c].posts = 0 /\ NoThread[c].lost = 0
    BY DEF NoThread
  <2> QED
    BY <2>1, <2>2, <2>3 DEF PostInv, Owed
<1>5. CASE Follow
  BY <1>5, FollowFrame DEF PostInv, Owed, Ids
<1> QED
  BY <1>2, <1>3, <1>4, <1>5, PostPublish, HandleStep DEF Next

-----------------------------------------------------------------------------
(* The rows of signal_messages.                                            *)

\* Nothing is noted as saved but the row that is written.
LEMMA SavedThread ==
    ASSUME TypeInv, NEW i \in Ids, NEW c \in setup.chats,
           thread' = [thread EXCEPT ![i][c].saved = TRUE]
    PROVE  \A j \in Ids, k \in setup.chats :
              thread'[j][k].saved => thread[j][k].saved \/ (j = i /\ k = c)
<1>1. thread[i][c] \in ThreadRows
  BY ThreadType
<1> DEFINE r == [thread[i][c] EXCEPT !.saved = TRUE]
<1>2. r \in ThreadRows
  BY <1>1 DEF ThreadRows
<1>3. thread' = [thread EXCEPT ![i] = [thread[i] EXCEPT ![c] = r]]
  OBVIOUS
<1> HIDE DEF r
<1> QED
  BY <1>2, <1>3, WriteChat

LEMMA ToldThread ==
    ASSUME TypeInv, NEW i \in Ids, NEW c \in setup.chats,
           thread' = [thread EXCEPT ![i][c].told = TRUE]
    PROVE  \A j \in Ids, k \in setup.chats : thread'[j][k].saved = thread[j][k].saved
<1>1. thread[i][c] \in ThreadRows
  BY ThreadType
<1>2. PICK r \in ThreadRows : /\ r.saved = thread[i][c].saved
                             /\ thread' = [thread EXCEPT ![i] = [thread[i] EXCEPT ![c] = r]]
  <2> DEFINE r == [thread[i][c] EXCEPT !.told = TRUE]
  <2>1. r \in ThreadRows /\ r.saved = thread[i][c].saved
    BY <1>1 DEF ThreadRows
  <2>2. thread' = [thread EXCEPT ![i] = [thread[i] EXCEPT ![c] = r]]
    OBVIOUS
  <2> QED
    BY <2>1, <2>2
<1> DEFINE t == [thread EXCEPT ![i] = [thread[i] EXCEPT ![c] = r]]
<1>3. /\ t \in Seq(Threads) /\ Len(t) = Len(thread)
      /\ \A j \in Ids, k \in setup.chats :
            t[j][k] = IF j = i /\ k = c THEN r ELSE thread[j][k]
  BY <1>2, WriteChat
<1> HIDE DEF t
<1>4. thread' = t
  BY <1>2 DEF t
<1>5. \A j \in Ids, k \in setup.chats : t[j][k].saved = thread[j][k].saved
  BY <1>2, <1>3
<1> QED
  BY <1>4, <1>5

\* An attempt takes with it the chats that got the signal.
LEMMA SentShape ==
    ASSUME TypeInv, hand.at = "send"
    PROVE  /\ Retry.id = hand.id /\ Retry.sent = hand.sent
           /\ Raised.id = hand.id /\ Raised.sent = hand.sent
           /\ \A sent : After(sent).id = hand.id /\ After(sent).sent = sent
<1>1. hand \in Sending
  BY HandShape
<1>2. Retry.id = hand.id /\ Retry.sent = hand.sent
  BY <1>1 DEF Retry, Sending
<1>3. \A sent : After(sent).id = hand.id /\ After(sent).sent = sent
  BY DEF After
<1>4. CASE setup.card /\ ~hand.recovery
  <2> DEFINE h == [hand EXCEPT !.recovery = TRUE]
  <2>1. h \in Sending /\ h.id = hand.id /\ h.sent = hand.sent
    BY <1>1 DEF Sending
  <2>2. Raised = [h EXCEPT !.left = Again]
    BY <1>4 DEF Raised
  <2> HIDE DEF h
  <2>3. Raised.id = h.id /\ Raised.sent = h.sent
    BY <2>1, <2>2 DEF Sending
  <2> QED
    BY <1>2, <1>3, <2>1, <2>3
<1>5. CASE ~(setup.card /\ ~hand.recovery)
  <2>1. Raised = After(hand.sent)
    BY <1>5 DEF Raised
  <2> QED
    BY <1>2, <1>3, <2>1
<1> QED
  BY <1>4, <1>5

LEMMA SavedPublish ==
    ASSUME TypeInv, SavedInv, Publish
    PROVE  SavedInv'
<1> USE DEF SavedInv, SavedIsPosted
<1>1. /\ UNCHANGED <<setup, sig>> /\ Ids' = Ids
      /\ \A i \in Ids, c \in setup.chats : thread[i][c].posts \in Nat
  BY PublishFrame, ThreadType DEF Ids, ThreadRows
\* A step that posts nothing, saves nothing and holds no other chats.
<1>2. ASSUME thread' = thread,
             hand'.at \in {"chat", "send", "stamp", "record"} =>
               \/ hand'.sent = {}
               \/ /\ hand.at \in {"chat", "send", "stamp", "record"}
                  /\ hand'.id = hand.id /\ hand'.sent \subseteq hand.sent
      PROVE  SavedInv'
  BY <1>1, <1>2
<1>3. CASE CheckPause
  <2>1. hand \in Created
    BY <1>3, HandShape DEF CheckPause
  <2>2. hand'.at \in {"free", "exclude"} /\ thread' = thread
    BY <1>3, <2>1 DEF CheckPause, Created, Free, database
  <2> QED
    BY <1>2, <2>2
<1>4. CASE Exclude
  <2>1. thread' = thread /\ (hand'.at = "free" \/ hand'.sent = {})
    BY <1>4 DEF Exclude, Free, database
  <2> QED
    BY <1>2, <2>1
<1>5. CASE NextChat
  <2>1. thread' = thread /\ hand.at = "chat"
    BY <1>5 DEF NextChat, database
  <2>2. hand'.at = "free" \/ (hand'.id = hand.id /\ hand'.sent = hand.sent)
    BY <1>5 DEF NextChat, Free
  <2> QED
    BY <1>2, <2>1, <2>2
<1>6. CASE Stamp
  <2>1. hand \in Saving
    BY <1>6, HandShape DEF Stamp
  <2>2. /\ thread' = thread /\ hand.at = "stamp"
        /\ hand'.at = "free" \/ (hand'.id = hand.id /\ hand'.sent = hand.sent)
    BY <1>6, <2>1 DEF Stamp, Saving, Free, database
  <2> QED
    BY <1>2, <2>2
<1>7. CASE Flooded \/ Refused
  <2>1. hand.at = "send" /\ thread' = thread /\ hand' \in {Retry, Raised, After(hand.sent)}
    BY <1>7 DEF Flooded, Refused, database
  <2>2. hand'.id = hand.id /\ hand'.sent = hand.sent
    BY <2>1, SentShape
  <2> QED
    BY <1>2, <2>1, <2>2
<1>8. ASSUME hand.at = "send", NEW lost \in BOOLEAN, Deliver(lost)
      PROVE  \A j \in Ids, k \in setup.chats :
                /\ thread'[j][k].saved = thread[j][k].saved
                /\ thread'[j][k].posts >= thread[j][k].posts /\ thread'[j][k].posts \in Nat
                /\ j = hand.id /\ k = hand.chat => thread'[j][k].posts > 0
  BY <1>1, <1>8, DeliverThread
\* A step that posts to the chat of the handler, and holds it at most in addition.
<1>9. ASSUME hand.at = "send", NEW lost \in BOOLEAN, Deliver(lost),
             hand'.id = hand.id, hand'.sent \subseteq hand.sent \cup {hand.chat}
      PROVE  SavedInv'
  <2>1. hand.id \in Ids /\ hand.chat \in setup.chats /\ hand.sent \subseteq setup.chats
    BY <1>9, HandShape DEF Sending
  <2>2. PICK i \in Ids, c \in setup.chats : i = hand.id /\ c = hand.chat
    BY <2>1
  <2>3. \A j \in Ids, k \in setup.chats :
           /\ thread'[j][k].saved = thread[j][k].saved
           /\ thread[j][k].posts > 0 => thread'[j][k].posts > 0
           /\ j = i /\ k = c => thread'[j][k].posts > 0
    BY <1>1, <1>8, <1>9, <2>2
  <2>4. SavedIsPosted'
    BY <1>1, <2>3
  <2>5. \A k \in hand'.sent : thread'[hand'.id][k].posts > 0
    <3> TAKE k \in hand'.sent
    <3>1. k \in hand.sent \/ k = c
      BY <1>9, <2>2
    <3>2. k \in setup.chats /\ hand'.id = i
      BY <1>9, <2>1, <2>2, <3>1
    <3>3. k \in hand.sent => thread[i][k].posts > 0
      BY <1>9, <2>2
    <3> QED
      BY <2>3, <3>1, <3>2, <3>3
  <2> QED
    BY <2>4, <2>5
<1>10. CASE Answered
  <2>1. hand.at = "send" /\ Deliver(FALSE) /\ hand' = After(hand.sent \cup {hand.chat})
    BY <1>10 DEF Answered
  <2>2. hand'.id = hand.id /\ hand'.sent = hand.sent \cup {hand.chat}
    BY <2>1, SentShape
  <2> QED
    BY <1>9, <2>1, <2>2
<1>11. CASE Unanswered
  <2>1. /\ hand.at = "send"
        /\ Deliver(TRUE) \/ thread' = thread
        /\ hand' = Retry \/ hand' = Raised
    BY <1>11 DEF Unanswered
  <2>2. hand'.id = hand.id /\ hand'.sent = hand.sent
    BY <2>1, SentShape
  <2>3. CASE Deliver(TRUE)
    BY <1>9, <2>1, <2>2, <2>3
  <2>4. CASE thread' = thread
    BY <1>2, <2>1, <2>2, <2>4
  <2> QED
    BY <2>1, <2>3, <2>4
<1>12. CASE Record
  <2>1. hand \in Saving /\ hand.at = "record"
    BY <1>12, HandShape DEF Record
  <2>2. hand.id \in Ids /\ hand.sent \subseteq setup.chats
    BY <2>1 DEF Saving
  <2>3. CASE hand' = Free /\ thread' = thread
    BY <1>2, <2>3 DEF Free
  <2>4. ASSUME NEW c \in hand.sent, thread' = [thread EXCEPT ![hand.id][c].saved = TRUE],
               hand' = IF hand.sent = {c} THEN Free ELSE [hand EXCEPT !.sent = @ \ {c}]
        PROVE  SavedInv'
    <3>1. \A j \in Ids, k \in setup.chats : thread'[j][k].posts = thread[j][k].posts
      BY <2>2, <2>4, NoteThread
    <3>2. \A j \in Ids, k \in setup.chats :
             thread'[j][k].saved => thread[j][k].saved \/ (j = hand.id /\ k = c)
      BY <2>2, <2>4, SavedThread
    <3>3. hand'.at = "free" \/ (hand'.id = hand.id /\ hand'.sent \subseteq hand.sent)
      BY <2>1, <2>4 DEF Saving, Free
    <3> QED
      BY <1>1, <2>1, <2>2, <2>4, <3>1, <3>2, <3>3
  <2> QED
    BY <1>12, <2>3, <2>4 DEF Record
<1> QED
  BY <1>3, <1>4, <1>5, <1>6, <1>7, <1>10, <1>11, <1>12 DEF Publish

LEMMA SavedStep ==
    ASSUME TypeInv, SavedInv, [Next]_vars
    PROVE  SavedInv'
<1>1. CASE UNCHANGED <<setup, sig, thread, hand>>
  BY <1>1 DEF SavedInv, SavedIsPosted, Ids
<1>2. CASE Tick \/ Scan \/ UNCHANGED vars \/ \E on \in BOOLEAN : Pause(on)
  BY <1>1, <1>2 DEF Tick, Scan, ScanOnce, GuardActive, GuardSilence, CanEmit, Gates, Spend, Pause,
                    vars, database
<1>3. CASE (Handle /\ sig' = sig) \/ Crash
  <2>1. UNCHANGED <<setup, sig, thread>> /\ hand'.at \in {"free", "guard", "save"}
    BY <1>3, HandleStep DEF Crash, Free, database
  <2> QED
    BY <2>1 DEF SavedInv, SavedIsPosted, Ids
<1>4. CASE CreateSignal /\ sig' # sig
  <2>1. /\ Len(sig') = Len(sig) + 1 /\ setup' = setup
        /\ \A i \in Ids : thread'[i] = thread[i]
        /\ thread'[Len(sig) + 1] = NoThread
        /\ hand'.at = "paused"
    BY <1>4, NewSignal
  <2>2. Ids' = Ids \cup {Len(sig) + 1}
    BY <2>1 DEF Ids, TypeInv
  <2>3. \A c \in setup.chats : ~NoThread[c].saved
    BY DEF NoThread
  <2> QED
    BY <2>1, <2>2, <2>3 DEF SavedInv, SavedIsPosted
<1>5. CASE Follow
  <2>1. \A i \in Ids, c \in setup.chats : thread'[i][c].saved = thread[i][c].saved
    <3>1. CASE thread' = thread
      BY <3>1
    <3>2. CASE Tell /\ thread' # thread
      <4>1. news.of \in Ids /\ news.to \subseteq setup.chats
        BY <3>2 DEF Tell, TypeInv, Events
      <4>2. \E c \in setup.chats : thread' = [thread EXCEPT ![news.of][c].told = TRUE]
        BY <3>2, <4>1 DEF Tell
      <4> QED
        BY <4>1, <4>2, ToldThread
    <3> QED
      BY <1>5, <3>1, <3>2 DEF Follow, Track, Address, database
  <2>2. /\ UNCHANGED <<setup, hand>> /\ Ids' = Ids
        /\ \A i \in Ids, c \in setup.chats : thread'[i][c].posts = thread[i][c].posts
    BY <1>5, FollowFrame DEF Ids
  <2>3. hand.at \in {"chat", "send", "stamp", "record"} => hand.id \in Ids /\ hand.sent \subseteq setup.chats
    BY HandShape DEF Choosing, Sending, Saving
  <2> QED
    BY <2>1, <2>2, <2>3 DEF SavedInv, SavedIsPosted
<1> QED
  BY <1>2, <1>3, <1>4, <1>5, SavedPublish, HandleStep DEF Next

-----------------------------------------------------------------------------
(* The pause.                                                              *)

LEMMA PauseStep ==
    ASSUME TypeInv, PauseInv, [Next]_vars
    PROVE  PauseInv'
<1> USE DEF PauseInv, Underway, Fails
<1>1. CASE UNCHANGED <<setup, paused, since, hand>>
  BY <1>1
<1>2. CASE Tick \/ Scan \/ UNCHANGED vars
  BY <1>1, <1>2 DEF Tick, Scan, ScanOnce, GuardActive, GuardSilence, CanEmit, Gates, Spend,
                    vars, database
<1>3. ASSUME UNCHANGED <<setup, paused, since>>, ~Underway'
      PROVE  PauseInv'
  BY <1>3
<1>4. CASE Handle \/ Crash
  <2>1. UNCHANGED <<setup, paused, since>> /\ hand'.at \in {"free", "guard", "save", "paused"}
    BY <1>4, HandleStep DEF Crash, Free, database
  <2> QED
    BY <1>3, <2>1
<1>5. CASE Follow
  BY <1>1, <1>5, FollowFrame
<1>6. ASSUME NEW on \in BOOLEAN, Pause(on) PROVE PauseInv'
  BY <1>6 DEF Pause
<1>7. CASE CheckPause
  <2>1. hand \in Created
    BY <1>7, HandShape DEF CheckPause
  <2>2. /\ UNCHANGED <<setup, paused, since>>
        /\ hand' = Free \/ hand' = [hand EXCEPT !.at = "exclude"]
        /\ paused /\ ~Fails("db") => hand' = Free
    BY <1>7 DEF CheckPause, database
  <2>3. CASE hand' = Free
    BY <1>3, <2>2, <2>3 DEF Free
  <2>4. CASE hand' # Free
    BY <2>1, <2>2, <2>4 DEF Created
  <2> QED
    BY <2>3, <2>4
<1>8. CASE Exclude \/ NextChat \/ Flooded \/ Refused \/ Answered \/ Unanswered
  <2>1. /\ UNCHANGED <<setup, paused>> /\ Underway /\ hand.id \in Nat
        /\ since' = since \/ (paused /\ since' = since \cup {hand.id})
    <3>1. hand.id \in Ids /\ Underway
      BY <1>8, HandShape DEF Exclude, NextChat, Flooded, Refused, Answered, Unanswered,
                             Created, Choosing, Sending
    <3> QED
      BY <1>8, <3>1 DEF Exclude, NextChat, Flooded, Refused, Answered, Unanswered, Deliver, database, Ids
  <2>2. ~Underway' \/ hand'.id = hand.id
    <3>1. CASE Exclude \/ NextChat
      BY <3>1 DEF Exclude, NextChat, Free
    <3>2. CASE Flooded \/ Refused \/ Answered \/ Unanswered
      <4>1. hand \in Sending /\ hand.at = "send"
        BY <3>2, HandShape DEF Flooded, Refused, Answered, Unanswered
      <4>2. \A sent : After(sent).id = hand.id
        BY DEF After
      <4>3. Retry.id = hand.id
        BY <4>1 DEF Retry, Sending
      <4>4. Raised.id = hand.id
        BY <4>1, <4>2, RaisedShape
      <4> QED
        BY <3>2, <4>2, <4>3, <4>4 DEF Flooded, Refused, Answered, Unanswered
    <3> QED
      BY <1>8, <3>1, <3>2
  <2> QED
    BY <2>1, <2>2
<1>9. CASE Stamp \/ Record
  <2>1. UNCHANGED <<setup, paused, since>>
    BY <1>9 DEF Stamp, Record, database
  <2>2. hand \in Saving
    BY <1>9, HandShape DEF Stamp, Record
  <2>3. hand'.at \in {"free", "stamp", "record"}
    BY <1>9, <2>2, SavingStep
  <2> QED
    BY <1>3, <2>1, <2>3
<1> QED
  BY <1>2, <1>4, <1>5, <1>6, <1>7, <1>8, <1>9 DEF Next, Publish

-----------------------------------------------------------------------------
(* The distance between signals.                                           *)

\* What the scan asks of the table does not see the tracker, and time only helps.
LEMMA StillClear ==
    ASSUME TypeInv, Len(sig') = Len(sig), now' \in Nat, now' >= now,
           \A i \in Ids : /\ sig'[i].sym = sig[i].sym /\ sig'[i].side = sig[i].side
                          /\ sig'[i].created = sig[i].created,
           \A i \in Ids : sig[i].created \in 1..now
    PROVE  /\ \A m, d : Clear(m, d) => Clear(m, d)'
           /\ SpacedOut => SpacedOut'
           /\ \A i \in Ids' : sig'[i].created \in 1..now'
<1>1. Ids' = Ids /\ now \in Nat /\ Cooldown \in Nat
  BY BudgetAssumption DEF Ids, TypeInv
<1>2. ASSUME NEW m, NEW d, Clear(m, d)
      PROVE  Clear(m, d)'
  <2>1. ASSUME NEW i \in Ids, sig'[i].sym = m /\ sig'[i].side = d
        PROVE  sig'[i].created + Cooldown <= now'
    BY <1>1, <1>2, <2>1 DEF Clear
  <2> QED
    BY <1>1, <2>1 DEF Clear
<1>3. SpacedOut => SpacedOut'
  BY <1>1 DEF SpacedOut
<1>4. \A i \in Ids' : sig'[i].created \in 1..now'
  BY <1>1
<1> QED
  BY <1>2, <1>3, <1>4

\* can_emit lets a symbol pass only if the table has no row of it within the cooldown.
LEMMA CanEmitClears ==
    ASSUME TypeInv, SpaceInv, NEW m \in Symbols, CanEmit(m), task'[m] # Done
    PROVE  Clear(m, task[m].side)
<1>1. PICK there \in 0..now : /\ LastCreated(m, task[m].side, there)
                              /\ Go(m, ~Recent(marked[m][task[m].side]) /\ ~Recent(there), "gates")
  BY DEF CanEmit
<1>2. ~Recent(there)
  BY <1>1 DEF Go, TypeInv
<1>3. now \in Nat /\ Cooldown \in Nat
  BY BudgetAssumption DEF TypeInv
<1>4. ASSUME NEW i \in Ids, sig[i].sym = m, sig[i].side = task[m].side
      PROVE  sig[i].created + Cooldown <= now
  <2>1. sig[i].created <= there /\ sig[i].created \in 1..now
    BY <1>1, <1>4 DEF LastCreated, SpaceInv
  <2> QED
    BY <1>2, <1>3, <2>1 DEF Recent
<1> QED
  BY <1>4 DEF Clear

LEMMA FoundType ==
    ASSUME TypeInv, NEW k \in 1..Len(found)
    PROVE  found[k] \in Items /\ found[k].sym \in Symbols
<1>1. found[k] \in Items
  BY ElementOfSeq DEF TypeInv
<1> QED
  BY <1>1 DEF Items

\* The scan works on symbols that are nowhere else.
LEMMA SpaceScan ==
    ASSUME TypeInv, SpaceInv, Scan
    PROVE  SpaceInv'
<1> USE DEF SpaceInv
<1>1. UNCHANGED <<now, sig, hand>>
  BY DEF Scan, ScanOnce, GuardActive, GuardSilence, CanEmit, Gates, Spend, database
<1>2. /\ \A m, d : Clear(m, d)' <=> Clear(m, d)
      /\ SpacedOut' /\ \A i \in Ids' : sig'[i].created \in 1..now'
  BY <1>1 DEF Clear, SpacedOut, Ids
<1>3. CASE ScanOnce
  <2>1. found = <<>> /\ found' = <<>> /\ hand = Free
        /\ \A m \in Symbols : task'[m].at \notin {"gates", "budget"}
    BY <1>3 DEF ScanOnce, Done
  <2> QED
    BY <1>1, <1>2, <2>1 DEF Free
<1>4. ASSUME NEW m \in Symbols, task[m].at \in Stages, NEW t \in Tasks,
             task' = [task EXCEPT ![m] = t], found' = found,
             t.at \in {"gates", "budget"} => Clear(m, t.side)
      PROVE  SpaceInv'
  <2>1. task[m] # Done
    BY <1>4 DEF Done, Stages
  <2>2. \A k \in 1..Len(found) : found[k].sym \in Symbols
    BY FoundType
  <2>3. hand.at \in {"guard", "save"} => hand.what.sym \in Symbols
    BY HandShape DEF Guarded, Items
  <2>4. \A n \in Symbols : task'[n] = IF n = m THEN t ELSE task[n]
    BY <1>4 DEF TypeInv
  <2>5. \A k \in 1..Len(found) : task'[found[k].sym] = Done
    BY <2>1, <2>2, <2>4
  <2>6. hand.at \in {"guard", "save"} => task'[hand.what.sym] = Done
    BY <2>1, <2>3, <2>4
  <2>7. \A n \in Symbols : task'[n].at \in {"gates", "budget"} => Clear(n, task'[n].side)
    BY <1>4, <2>4
  <2> QED
    BY <1>1, <1>2, <1>4, <2>5, <2>6, <2>7
<1>5. ASSUME NEW m \in Symbols, GuardActive(m) \/ GuardSilence(m)
      PROVE  SpaceInv'
  <2>1. PICK a \in {"silence", "cooldown"}, pass \in BOOLEAN :
           task[m].at \in {"guard", "silence"} /\ Go(m, pass, a) /\ found' = found
    BY <1>5 DEF GuardActive, GuardSilence
  <2>2. task[m] \in [at : Stages, side : Sides]
    BY <2>1 DEF TypeInv, Tasks, Done
  <2>3. [task[m] EXCEPT !.at = a] \in Tasks /\ [task[m] EXCEPT !.at = a].at = a
    BY <2>1, <2>2 DEF Tasks, Stages
  <2>4. task' = [task EXCEPT ![m] = Done] \/ task' = [task EXCEPT ![m] = [task[m] EXCEPT !.at = a]]
    BY <2>1 DEF Go
  <2>5. task[m].at \in Stages /\ Done \in Tasks /\ Done.at = "done"
    BY <2>1 DEF Stages, Tasks, Done
  <2> QED
    BY <1>4, <2>1, <2>3, <2>4, <2>5
<1>6. ASSUME NEW m \in Symbols, CanEmit(m) \/ Gates(m)
      PROVE  SpaceInv'
  <2>1. PICK a \in {"gates", "budget"}, pass \in BOOLEAN :
           task[m].at \in {"cooldown", "gates"} /\ Go(m, pass, a) /\ found' = found
    BY <1>6 DEF CanEmit, Gates
  <2>2. task[m] \in [at : Stages, side : Sides]
    BY <2>1 DEF TypeInv, Tasks, Done
  <2>3. /\ [task[m] EXCEPT !.at = a] \in Tasks /\ [task[m] EXCEPT !.at = a].at = a
        /\ [task[m] EXCEPT !.at = a].side = task[m].side
    BY <2>1, <2>2 DEF Tasks, Stages
  <2>4. task[m].at \in Stages /\ Done \in Tasks /\ Done.at = "done"
    BY <2>1 DEF Stages, Tasks, Done
  <2>5. CASE task' = [task EXCEPT ![m] = Done]
    BY <1>4, <2>1, <2>4, <2>5
  <2>6. CASE task' = [task EXCEPT ![m] = [task[m] EXCEPT !.at = a]]
    <3>1. task'[m] # Done
      BY <2>1, <2>3, <2>4, <2>6 DEF TypeInv
    <3>2. CASE CanEmit(m)
      BY <1>4, <2>1, <2>3, <2>4, <2>6, <3>1, <3>2, CanEmitClears
    <3>3. CASE Gates(m)
      <4>1. Clear(m, task[m].side)
        BY <3>3 DEF Gates
      <4> QED
        BY <1>4, <2>1, <2>3, <2>4, <2>6, <4>1
    <3> QED
      BY <1>6, <3>2, <3>3
  <2> QED
    BY <2>1, <2>5, <2>6 DEF Go
<1>7. ASSUME NEW m \in Symbols, Spend(m)
      PROVE  SpaceInv'
  <2> DEFINE r == [sym |-> m, side |-> task[m].side]
  <2>1. /\ task' = [task EXCEPT ![m] = Done] /\ task[m].at = "budget"
        /\ found' = found \/ found' = Append(found, r)
    BY <1>7 DEF Spend, Go
  <2>2. task[m].at \in Stages /\ Done \in Tasks /\ Done.at = "done" /\ task[m] # Done
    BY <2>1 DEF Stages, Tasks, Done
  <2>3. CASE found' = found
    BY <1>4, <2>1, <2>2, <2>3
  <2>4. CASE found' = Append(found, r)
    <3>1. r \in Items /\ r.sym = m /\ r.side = task[m].side
      BY <2>1 DEF TypeInv, Tasks, Done, Items
    <3>2. Clear(m, task[m].side)
      BY <2>1
    <3> HIDE DEF r
    <3>3. /\ Len(found') = Len(found) + 1 /\ found'[Len(found) + 1] = r /\ Len(found) \in Nat
          /\ \A k \in 1..Len(found) : found'[k] = found[k]
      BY <2>4, <3>1, AppendProperties DEF TypeInv
    <3>4. \A k \in 1..Len(found) : found[k].sym \in Symbols /\ found[k].sym # m
      BY <2>2, FoundType
    <3>5. hand.at \in {"guard", "save"} => hand.what.sym \in Symbols /\ hand.what.sym # m
      BY <2>2, HandShape DEF Guarded, Items
    <3>6. \A n \in Symbols : task'[n] = IF n = m THEN Done ELSE task[n]
      BY <2>1 DEF TypeInv
    <3>7. 1..Len(found') = 1..Len(found) \cup {Len(found) + 1}
      BY <3>3
    <3>8. \A n \in Symbols : task'[n].at \in {"gates", "budget"} => Clear(n, task'[n].side)
      BY <2>2, <3>6
    <3>9. \A k \in 1..Len(found') :
             task'[found'[k].sym] = Done /\ Clear(found'[k].sym, found'[k].side)
      BY <3>1, <3>2, <3>3, <3>4, <3>6, <3>7
    <3>10. \A k, l \in 1..Len(found') : found'[k].sym = found'[l].sym => k = l
      BY <3>1, <3>3, <3>4, <3>7
    <3>11. hand.at \in {"guard", "save"} =>
              /\ task'[hand.what.sym] = Done
              /\ \A k \in 1..Len(found') : found'[k].sym # hand.what.sym
      BY <3>1, <3>3, <3>5, <3>6, <3>7
    <3> QED
      BY <1>1, <1>2, <3>8, <3>9, <3>10, <3>11
  <2> QED
    BY <2>1, <2>3, <2>4
<1> QED
  BY <1>3, <1>5, <1>6, <1>7 DEF Scan

\* The handler takes a symbol from the list and leaves it with its row.
LEMMA SpaceHandle ==
    ASSUME TypeInv, SpaceInv, Handle
    PROVE  SpaceInv'
<1> USE DEF SpaceInv
<1>1. ASSUME sig' = sig
      PROVE  /\ \A m, d : Clear(m, d)' <=> Clear(m, d)
             /\ SpacedOut' /\ \A i \in Ids' : sig'[i].created \in 1..now'
  BY <1>1, HandleStep DEF Clear, SpacedOut, Ids
<1>2. CASE TakeUp
  <2> DEFINE w == Head(found)
  <2>1. /\ UNCHANGED <<sig, task>> /\ found # <<>> /\ found' = Tail(found)
        /\ hand' = [at |-> "guard", what |-> w]
    BY <1>2 DEF TakeUp, database
  <2>2. /\ w = found[1] /\ Len(found') = Len(found) - 1 /\ Len(found) \in Nat \ {0}
        /\ \A k \in 1..Len(found') : found'[k] = found[k + 1] /\ k + 1 \in 1..Len(found)
    BY <2>1, HeadTailProperties DEF TypeInv
  <2>3. 1 \in 1..Len(found) /\ task[w.sym] = Done /\ Clear(w.sym, w.side)
    BY <2>2
  <2>4. \A k \in 1..Len(found') :
           /\ task[found'[k].sym] = Done /\ Clear(found'[k].sym, found'[k].side)
           /\ found'[k].sym # w.sym
    BY <2>2, <2>3
  <2>5. \A k, l \in 1..Len(found') : found'[k].sym = found'[l].sym => k = l
    BY <2>2
  <2> HIDE DEF w
  <2> QED
    BY <1>1, <2>1, <2>3, <2>4, <2>5
<1>3. CASE PrePersist
  <2>1. UNCHANGED <<sig, task, found>> /\ hand.at = "guard"
    BY <1>3 DEF PrePersist, database, scan
  <2>2. hand'.at \in {"guard", "save"} => hand'.what = hand.what
    <3>1. hand \in Guarded
      BY <1>3, HandShape DEF PrePersist
    <3>2. [hand EXCEPT !.at = "save"].what = hand.what
      BY <3>1 DEF Guarded
    <3>3. hand' = Free \/ hand' = [hand EXCEPT !.at = "save"]
      BY <1>3 DEF PrePersist
    <3>4. CASE hand' = Free
      BY <3>4 DEF Free
    <3> QED
      BY <3>2, <3>3, <3>4
  <2> QED
    BY <1>1, <2>1, <2>2
<1>4. CASE CreateSignal /\ sig' = sig
  <2>1. UNCHANGED <<task, found>> /\ hand'.at \notin {"guard", "save"}
    BY <1>4 DEF CreateSignal, scan, Free
  <2> QED
    BY <1>1, <1>4, <2>1
<1>5. CASE CreateSignal /\ sig' # sig
  <2> DEFINE n == Len(sig) + 1
             w == hand.what
  <2>1. /\ hand.at = "save" /\ w \in Items /\ Len(sig') = n /\ hand'.at = "paused"
        /\ \A i \in Ids : sig'[i] = sig[i]
        /\ sig'[n].sym = w.sym /\ sig'[n].side = w.side /\ sig'[n].created = now
        /\ UNCHANGED <<now, task, found>>
    BY <1>5, NewSignal DEF scan
  <2>2. Ids' = Ids \cup {n} /\ n \notin Ids /\ n \in Nat /\ \A i \in Ids : i < n /\ i \in Nat
    BY <2>1 DEF Ids, TypeInv
  <2>3. now \in Nat \ {0} /\ Cooldown \in Nat
    BY BudgetAssumption DEF TypeInv
  <2>5. SpacedOut'
    <3>1. \A i \in Ids : sig[i].sym = w.sym /\ sig[i].side = w.side => sig[i].created + Cooldown <= now
      BY <2>1 DEF Clear
    <3> SUFFICES ASSUME NEW i \in Ids', NEW j \in Ids', i < j,
                        sig'[i].sym = sig'[j].sym, sig'[i].side = sig'[j].side
                 PROVE  sig'[j].created >= sig'[i].created + Cooldown
      BY DEF SpacedOut
    <3>2. CASE j \in Ids
      <4>1. i \in Ids
        BY <2>2, <3>2
      <4> QED
        BY <2>1, <3>2, <4>1 DEF SpacedOut
    <3>3. CASE j = n
      <4>1. i \in Ids
        BY <2>2, <3>3
      <4>2. sig[i].created + Cooldown <= now /\ sig[i].created \in Nat
        BY <2>1, <3>1, <3>3, <4>1
      <4> QED
        BY <2>1, <2>3, <3>3, <4>1, <4>2
    <3> QED
      BY <2>2, <3>2, <3>3
  <2>6. \A i \in Ids' : sig'[i].created \in 1..now'
    BY <2>1, <2>2, <2>3
  <2>7. w.sym \in Symbols /\ task[w.sym] = Done /\ Done.at = "done"
    BY <2>1 DEF Items, Done
  <2>8. ASSUME NEW m \in Symbols, task'[m].at \in {"gates", "budget"}
        PROVE  Clear(m, task[m].side)'
    <3>1. task' = task /\ m # w.sym /\ Clear(m, task[m].side)
      BY <2>1, <2>7, <2>8
    <3> DEFINE d == task[m].side
    <3>2. Clear(m, d)'
      BY <2>1, <2>2, <3>1 DEF Clear
    <3> QED
      BY <3>2
  <2>9. ASSUME NEW k \in 1..Len(found')
        PROVE  Clear(found[k].sym, found[k].side)' /\ task'[found'[k].sym] = Done
    <3>1. found' = found /\ found[k].sym # w.sym /\ Clear(found[k].sym, found[k].side)
      BY <2>1, <2>9
    <3>2. Clear(found[k].sym, found[k].side)'
      BY <2>1, <2>2, <3>1 DEF Clear
    <3> QED
      BY <2>1, <2>9, <3>2
  <2> HIDE DEF w, n
  <2> QED
    BY <2>1, <2>5, <2>6, <2>8, <2>9
<1> QED
  BY <1>2, <1>3, <1>4, <1>5 DEF Handle

LEMMA SpaceStep ==
    ASSUME TypeInv, SpaceInv, [Next]_vars
    PROVE  SpaceInv'
<1> USE DEF SpaceInv
<1>1. ASSUME UNCHANGED <<task, found>>, Len(sig') = Len(sig), now' \in Nat, now' >= now,
             \A i \in Ids : /\ sig'[i].sym = sig[i].sym /\ sig'[i].side = sig[i].side
                            /\ sig'[i].created = sig[i].created,
             hand' = hand \/ hand'.at \notin {"guard", "save"}
      PROVE  SpaceInv'
  <2>1. /\ \A m, d : Clear(m, d) => Clear(m, d)'
        /\ SpacedOut' /\ \A i \in Ids' : sig'[i].created \in 1..now'
    BY <1>1, StillClear
  <2> QED
    BY <1>1, <2>1
<1>2. now \in Nat
  BY DEF TypeInv
<1>3. CASE Tick \/ UNCHANGED vars \/ \E on \in BOOLEAN : Pause(on)
  BY <1>1, <1>2, <1>3 DEF Tick, Pause, vars, database, scan
<1>4. CASE Follow
  BY <1>1, <1>2, <1>4, FollowFrame DEF scan
<1>5. CASE Publish
  <2>1. UNCHANGED <<now, sig, task, found>>
    BY <1>5, PublishFrame DEF scan
  <2>2. hand'.at \notin {"guard", "save"}
    <3>1. CASE CheckPause
      <4>1. hand' = Free \/ hand' = [hand EXCEPT !.at = "exclude"]
        BY <3>1 DEF CheckPause
      <4>2. [hand EXCEPT !.at = "exclude"].at = "exclude"
        BY <3>1, HandShape DEF CheckPause, Created
      <4>3. CASE hand' = Free
        BY <4>3 DEF Free
      <4> QED
        BY <4>1, <4>2, <4>3
    <3>2. CASE Exclude \/ NextChat
      BY <3>2 DEF Exclude, NextChat, Free
    <3>3. CASE Answered \/ Unanswered \/ Flooded \/ Refused
      <4>1. /\ hand' = Retry \/ hand' = Raised \/ \E sent : hand' = After(sent)
            /\ hand.at = "send"
        BY <3>3 DEF Answered, Unanswered, Flooded, Refused
      <4> QED
        BY <4>1, RaisedShape
    <3>4. CASE Stamp \/ Record
      BY <3>4, SavingStep
    <3> QED
      BY <1>5, <3>1, <3>2, <3>3, <3>4 DEF Publish
  <2> QED
    BY <1>1, <1>2, <2>1, <2>2
<1>6. CASE Crash
  <2>1. /\ UNCHANGED <<now, sig>> /\ found' = <<>> /\ hand' = Free
        /\ \A m \in Symbols : task'[m] = Done
    BY <1>6 DEF Crash, database
  <2>2. SpacedOut' /\ \A i \in Ids' : sig'[i].created \in 1..now'
    BY <2>1 DEF SpacedOut, Ids
  <2> QED
    BY <2>1, <2>2 DEF Free, Done
<1> QED
  BY <1>3, <1>4, <1>5, <1>6, SpaceScan, SpaceHandle DEF Next

-----------------------------------------------------------------------------
(* Theorems.                                                               *)

THEOREM Inductive == Spec => []IInv
<1>1. Init => IInv
  <2> SUFFICES ASSUME Init PROVE IInv
    OBVIOUS
  <2>1. Ids = {}
    BY DEF Init, Ids
  <2>2. TypeInv
    <3>1. \A S : <<>> \in Seq(S) /\ Len(<<>>) = 0
      BY EmptySeq
    <3>2. task \in [Symbols -> Tasks] /\ hand \in Hands /\ news \in Events
      BY DEF Init, Tasks, Hands, Events
    <3>3. sig \in Seq(Rows) /\ thread \in Seq(Threads) /\ Len(thread) = Len(sig) /\ found \in Seq(Items)
      <4>1. sig = <<>> /\ thread = <<>> /\ found = <<>>
        BY DEF Init
      <4> HIDE DEF Init
      <4> QED
        BY <4>1, <3>1, Zenon
    <3>4. /\ setup \in Setups /\ now \in Nat \ {0} /\ paused \in BOOLEAN /\ since \subseteq Ids
      <4>1. setup \in Setups /\ paused \in BOOLEAN /\ since \subseteq Ids
        BY Zenon DEF Init
      <4>2. now \in Nat \ {0}
        BY DEF Init
      <4> QED
        BY <4>1, <4>2, Zenon
    <3> QED
      BY <3>2, <3>3, <3>4, Zenon DEF TypeInv
  <2>3. PostInv /\ PauseInv
    BY <2>1 DEF Init, PostInv, PauseInv, Underway, Free
  <2>4. SpaceInv
    BY <2>1 DEF Init, SpaceInv, SpacedOut, Done, Free
  <2>5. SavedInv
    BY <2>1 DEF Init, SavedInv, SavedIsPosted, Free
  <2> QED
    BY <2>2, <2>3, <2>4, <2>5 DEF IInv
<1>2. IInv /\ [Next]_vars => IInv'
  BY TypeStep, PostStep, PauseStep, SpaceStep, SavedStep DEF IInv
<1> QED
  BY <1>1, <1>2, PTL DEF Spec

\* Two signals of a symbol and a side are created a cooldown apart, whatever restarts
\* and fails, for any number of symbols and any cooldown (can_emit).
THEOREM CooldownIsKept == Spec => []SpacedOut
<1>1. IInv => SpacedOut
  BY DEF IInv, SpaceInv
<1> QED
  BY <1>1, Inductive, PTL

\* A chat holds a signal once more per lost answer and no more, for any chats
\* (_tg_send_with_retry and the recovery by text).
THEOREM RepeatsNeedLostAnswers == Spec => []OnePostPerLostAnswer
<1>1. IInv => OnePostPerLostAnswer
  BY DEF IInv, PostInv, OnePostPerLostAnswer
<1> QED
  BY <1>1, Inductive, PTL

\* After /pause only the signal on its way is posted, if the flag can be read
\* (broadcast_signal).
THEOREM PauseStopsSignals == Spec => []OneSignalAfterPause
<1>1. IInv => OneSignalAfterPause
  <2> SUFFICES ASSUME IInv, ~Fails("db") PROVE Cardinality(since) <= 1
    BY DEF OneSignalAfterPause
  <2>1. PICK i \in Nat : since \subseteq {i}
    BY DEF IInv, PauseInv
  <2>2. since = {} \/ since = {i}
    BY <2>1
  <2> QED
    BY <2>2, FS_EmptySet, FS_Singleton
<1> QED
  BY <1>1, Inductive, PTL

\* A row of signal_messages names a post that exists, whatever fails between the posts and
\* the rows, so that an event replies to one (save_signal_message).
THEOREM RowsNamePosts == Spec => []SavedIsPosted
<1>1. IInv => SavedIsPosted
  BY DEF IInv, SavedInv
<1> QED
  BY <1>1, Inductive, PTL
=============================================================================
