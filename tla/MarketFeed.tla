----------------------------- MODULE MarketFeed -----------------------------
(***************************************************************************)
(* The price cache (market_data/ws_engine.py): a loop polls the tracked    *)
(* symbols one after another, callers fetch what they miss on demand, and  *)
(* both stamp a price with the time at which they store it.  A price is    *)
(* known here by the time at which it was the exchange's price.            *)
(***************************************************************************)
EXTENDS Integers, FiniteSets

CONSTANTS
    Symbols, Default,   \* symbols, and those always polled
    Callers,            \* coroutines that want prices now (paper and live trading)
    Stale, Timeout,     \* STALE_AFTER_SEC, and the limit of a request
    Horizon             \* bound on the time

ConstantsOK == Default \subseteq Symbols /\ {Stale, Timeout, Horizon} \subseteq Nat

VARIABLES
    now,
    price,      \* latest_prices and price_updated_at: [of, stamp] per symbol, or Never
    tracked,    \* symbols the loop polls
    todo,       \* symbols left in the loop's cycle
    request,    \* the loop's request: its symbol, start and what it brought
    call        \* per caller: its start and what each of its requests brought

vars == <<now, price, tracked, todo, request, call>>

Never == [of |-> -1, stamp |-> -1]
Waiting == -1           \* not answered yet
Missed == -2            \* failed
NoRequest == <<>>

TypeOK ==
    /\ now \in 0 .. Horizon
    /\ price \in [Symbols -> [of : -1 .. Horizon, stamp : -1 .. Horizon]]
    /\ tracked \subseteq Symbols /\ todo \subseteq Symbols

Init ==
    /\ now = 0 /\ price = [s \in Symbols |-> Never]
    /\ tracked = Default /\ todo = {} /\ request = NoRequest
    /\ call = [c \in Callers |-> NoRequest]

\* _store: the stamp is the time of storing.
Stored(of) == [of |-> of, stamp |-> now]

Age(s) == now - price[s].stamp
NeedsFetch(s) == price[s] = Never \/ Age(s) > Stale

-----------------------------------------------------------------------------
\* A cycle takes the symbols tracked at its start; they are polled in turn.
CycleStarts ==
    /\ todo = {} /\ request = NoRequest
    /\ todo' = tracked
    /\ UNCHANGED <<now, price, tracked, request, call>>

PollAsks(s) ==
    /\ request = NoRequest /\ s \in todo
    /\ request' = [symbol |-> s, start |-> now, brought |-> Waiting] /\ todo' = todo \ {s}
    /\ UNCHANGED <<now, price, tracked, call>>

PollAnswered ==
    /\ request # NoRequest /\ request.brought = Waiting
    /\ \E what \in {now, Missed} : request' = [request EXCEPT !.brought = what]
    /\ UNCHANGED <<now, price, tracked, todo, call>>

PollStores ==
    /\ request # NoRequest /\ request.brought \in Nat
    /\ price' = [price EXCEPT ![request.symbol] = Stored(request.brought)] /\ request' = NoRequest
    /\ UNCHANGED <<now, tracked, todo, call>>

\* "price poll miss": the symbol keeps its old price and stamp until the next cycle.
PollMisses ==
    /\ request # NoRequest /\ request.brought = Missed
    /\ request' = NoRequest
    /\ UNCHANGED <<now, price, tracked, todo, call>>

-----------------------------------------------------------------------------
\* ensure_prices: the wanted symbols are tracked from now on; those missing or stale are
\* fetched together, and the answers stored when the last one is there.
Ensure(c, wanted) ==
    LET missing == {s \in wanted : NeedsFetch(s)}
    IN /\ call[c] = NoRequest /\ wanted # {}
       /\ tracked' = tracked \cup wanted
       /\ call' = IF missing = {} THEN call
                  ELSE [call EXCEPT ![c] = [start |-> now, brought |-> [s \in missing |-> Waiting]]]
       /\ UNCHANGED <<now, price, todo, request>>

EnsureAnswered(c, s) ==
    /\ call[c] # NoRequest /\ s \in DOMAIN call[c].brought /\ call[c].brought[s] = Waiting
    /\ \E what \in {now, Missed} : call' = [call EXCEPT ![c].brought[s] = what]
    /\ UNCHANGED <<now, price, tracked, todo, request>>

\* Mutant of AfterEnsure: every wanted symbol is stamped, a missed one too.
AfterEnsureStamped(c, s) ==
    IF s \notin DOMAIN call[c].brought THEN price[s]
    ELSE IF call[c].brought[s] \in Nat THEN Stored(call[c].brought[s]) ELSE Stored(price[s].of)

\* A symbol that was missed keeps its old price, with its old stamp.
AfterEnsure(c, s) ==
    IF s \in DOMAIN call[c].brought /\ call[c].brought[s] \in Nat
    THEN Stored(call[c].brought[s]) ELSE price[s]

EnsureStores(c) ==
    /\ call[c] # NoRequest
    /\ \A s \in DOMAIN call[c].brought : call[c].brought[s] # Waiting
    /\ price' = [s \in Symbols |-> AfterEnsure(c, s)]
    /\ call' = [call EXCEPT ![c] = NoRequest]
    /\ UNCHANGED <<now, tracked, todo, request>>

-----------------------------------------------------------------------------
\* A request is over by its time limit; storing follows without a wait.
InTime(start) == now < start + Timeout

Tick ==
    /\ now < Horizon /\ now' = now + 1
    /\ request # NoRequest => InTime(request.start)
    /\ \A c \in Callers : call[c] # NoRequest => InTime(call[c].start)
    /\ UNCHANGED <<price, tracked, todo, request, call>>

Next ==
    \/ CycleStarts \/ (\E s \in Symbols : PollAsks(s)) \/ PollAnswered \/ PollStores \/ PollMisses
    \/ \E c \in Callers : \/ \E wanted \in SUBSET Symbols : Ensure(c, wanted)
                          \/ \E s \in Symbols : EnsureAnswered(c, s)
                          \/ EnsureStores(c)
    \/ Tick

Spec == Init /\ [][Next]_vars

-----------------------------------------------------------------------------
\* What a caller takes for fresh has been the exchange's price a request ago at most
\* beyond the limit of staleness, however the loop and the callers overtake each other
\* and whichever requests fail.
FreshIsRecent ==
    \A s \in Symbols :
        ~NeedsFetch(s) => now - price[s].of <= Stale + Timeout

\* Violated: prices go forward.  A request that was answered earlier may store later, and
\* replaces the newer price by the older one with a newer stamp.
PricesGoForward ==
    [][\A s \in Symbols : price'[s].of >= price[s].of]_vars

\* Violated: "Guarantee a fresh cached price for each symbol ... so callers never have to
\* fall back": after a failed request the caller goes on with a stale price, or none.
EnsuredIsFresh ==
    [][\A c \in Callers : (call[c] # NoRequest /\ call'[c] = NoRequest) =>
        \A s \in DOMAIN call[c].brought : ~NeedsFetch(s)']_vars
=============================================================================
