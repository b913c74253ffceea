------------------------------- MODULE Venues -------------------------------
(***************************************************************************)
(* How the venues differ (exchange_adapters/): the life of one position of *)
(* one account, opened, protected, recovered and closed through the        *)
(* adapter of its exchange.  Every request may be carried out, refused, or *)
(* left without an answer, carried out or not.  LiveTrading and Recovery   *)
(* model the handlers in full for Binance; here it is the adapter that     *)
(* varies, and a handler runs as one step.                                 *)
(***************************************************************************)
EXTENDS Integers, Sequences, FiniteSets

CONSTANTS
    Venues,     \* the venues of an instance, records like those below
    RetryMax,   \* tp_sl_retry_max
    LegsMax     \* bound: orders of one kind at the exchange

Legs == {"tp", "sl", "trail"}
Names == {"ours", "theirs"}     \* BTCUSDT and BTC-USDT-SWAP

\* An adapter: the name get_positions lists a position by; the requests set_tp_sl makes, with
\* the legs of each; whether a leg placed again is one more order (or an attribute of the
\* position); whether get_open_orders and cancel_all_orders are implemented; whether a lost
\* answer escapes as it is (or is an AdapterError, and an entry is looked up).
Binance == [name |-> "binance", lists |-> "ours", requests |-> <<{"tp"}, {"sl"}, {"trail"}>>,
            adds |-> TRUE, orders |-> TRUE, raw |-> FALSE]
Okx == [name |-> "okx", lists |-> "theirs", requests |-> <<{"tp", "sl"}>>,
        adds |-> TRUE, orders |-> FALSE, raw |-> TRUE]
Bybit == [name |-> "bybit", lists |-> "ours", requests |-> <<{"tp", "sl"}>>,
          adds |-> FALSE, orders |-> FALSE, raw |-> TRUE]
Bitget == [name |-> "bitget", lists |-> "ours", requests |-> <<{"tp"}, {"sl"}>>,
           adds |-> FALSE, orders |-> FALSE, raw |-> TRUE]
\* The simulation keeps no positions and no orders, and nothing fails.
Mock == [name |-> "mock", lists |-> "nowhere", requests |-> <<{"tp"}, {"sl"}, {"trail"}>>,
         adds |-> FALSE, orders |-> FALSE, raw |-> FALSE]

ConstantsOK ==
    /\ Venues \subseteq {Binance, Okx, Bybit, Bitget, Mock}
    /\ RetryMax \in Nat \ {0} /\ LegsMax \in Nat \ {0}

VARIABLES
    venue,
    ex,     \* the position at the exchange: open or not, and the orders of each leg
    rows    \* the app's row of each name: status, tp_sl_status and the legs it expects

vars == <<venue, ex, rows>>

NoRow == [st |-> "none", mark |-> "none", wants |-> {}]
Live == {"OPEN", "RECOVERED"}
Ended == {"CLOSED", "CLOSED_UNKNOWN"}

TypeOK ==
    /\ venue \in Venues
    /\ ex \in [open : BOOLEAN, legs : [Legs -> 0 .. LegsMax]]
    /\ rows \in [Names -> [st : {"none"} \cup Live \cup Ended,
                           mark : {"none", "SYNCED", "UNSAFE", "UNKNOWN"}, wants : SUBSET Legs]]

Answers == IF venue.name = "mock" THEN {"ok"} ELSE {"ok", "refused", "silent"}

\* A silent request was carried out or was not; a reduce-only order needs a position.
Outcomes(possible) ==
    {[says |-> s, done |-> d] : s \in Answers, d \in BOOLEAN}
        \cap ({[says |-> "refused", done |-> FALSE], [says |-> "silent", done |-> FALSE]}
              \cup (IF possible THEN {[says |-> "ok", done |-> TRUE], [says |-> "silent", done |-> TRUE]}
                    ELSE {}))

\* get_positions; [] for the simulation.
Listed == IF ex.open /\ venue.lists \in Names THEN {venue.lists} ELSE {}

\* _open_protection: an adapter that reads no orders sees none.
Seen(legs) == IF venue.orders THEN {l \in Legs : legs[l] > 0} ELSE {}

\* set_tp_sl: the requests that concern a wanted leg, up to the first that is not answered "ok".
Placements(legs, wants) ==
    LET asked == SelectSeq(venue.requests, LAMBDA r : r \cap wants # {})
        Placed(n) ==
            [l \in Legs |->
                LET more == Cardinality({i \in 1 .. n : l \in asked[i] \cap wants})
                IN IF venue.adds THEN legs[l] + more ELSE IF more > 0 THEN 1 ELSE legs[l]]
    IN {[says |-> "ok", legs |-> Placed(Len(asked))]}
       \cup {[says |-> s, legs |-> Placed(n)] : s \in Answers \ {"ok"}, n \in 0 .. Len(asked) - 1}
       \cup (IF "silent" \in Answers
             THEN {[says |-> "silent", legs |-> Placed(n)] : n \in 1 .. Len(asked)} ELSE {})

\* Whether a lost answer leaves the handler as an exception nobody catches: all it wrote is undone.
Escapes(says) == says = "silent" /\ venue.raw

\* The position ends: attributes of it end with it, orders stay.
Flat(legs) ==
    [open |-> FALSE, legs |-> IF venue.adds THEN legs ELSE [l \in Legs |-> 0]]

WithinBounds(legs) == \A l \in Legs : legs[l] <= LegsMax

-----------------------------------------------------------------------------
Init ==
    /\ venue \in Venues
    /\ ex = [open |-> FALSE, legs |-> [l \in Legs |-> 0]]
    /\ rows = [n \in Names |-> NoRow]

\* open_position.  An entry without an answer is looked up where the adapter can, and is taken
\* for failed where the lookup finds nothing.
Open ==
    /\ ~ex.open /\ \A n \in Names : rows[n] = NoRow
    /\ \E wants \in SUBSET Legs, entry \in Outcomes(TRUE) :
        \/ /\ ~entry.done \/ Escapes(entry.says)
           /\ ex' = [ex EXCEPT !.open = entry.done] /\ UNCHANGED rows
        \/ /\ entry.done /\ ~Escapes(entry.says)
           /\ \E p \in Placements(ex.legs, wants) :
                /\ WithinBounds(p.legs)
                /\ ex' = [open |-> TRUE, legs |-> p.legs]
                /\ rows' = IF Escapes(p.says) THEN rows
                           ELSE [rows EXCEPT !["ours"] =
                                    [st |-> "OPEN", wants |-> wants \ {"trail"},
                                     mark |-> IF p.says = "ok" THEN "SYNCED" ELSE "UNSAFE"]]
    /\ UNCHANGED venue

\* sync_tp_sl_for_position: missing legs are placed until they are seen; an attempt that fails
\* is made again on the same reading.
Attempt(row, r) ==
    IF r.at # "trying" \/ row.wants \subseteq r.seen THEN {r}
    ELSE {[legs |-> p.legs,
           seen |-> IF p.says = "ok" THEN Seen(p.legs) ELSE r.seen,
           at |-> IF Escapes(p.says) THEN "escaped" ELSE "trying"]
            : p \in Placements(r.legs, row.wants \ r.seen)}
Syncs(row) ==
    LET tried[n \in 0 .. RetryMax] ==
            IF n = 0 THEN {[legs |-> ex.legs, seen |-> Seen(ex.legs), at |-> "trying"]}
            ELSE UNION {Attempt(row, r) : r \in tried[n - 1]}
    IN tried[RetryMax]

\* recover_user_positions: import what is listed, end what is not, protect the rest.
Reconciled(n) ==
    IF n \in Listed /\ rows[n].st \notin Live
    THEN [st |-> "RECOVERED", mark |-> "UNKNOWN", wants |-> {}]
    ELSE IF n \notin Listed /\ rows[n].st \in Live THEN [rows[n] EXCEPT !.st = "CLOSED_UNKNOWN"]
    ELSE rows[n]
Recover ==
    /\ \/ /\ \A n \in Listed : rows[n].st \notin Live
          /\ rows' = [n \in Names |-> Reconciled(n)] /\ UNCHANGED ex
       \/ \E n \in Listed : rows[n].st \in Live /\ \E r \in Syncs(rows[n]) :
            /\ WithinBounds(r.legs) /\ ex' = [ex EXCEPT !.legs = r.legs]
            /\ rows' = IF r.at = "escaped" THEN rows
                       ELSE [m \in Names |->
                                IF m # n THEN Reconciled(m)
                                ELSE [rows[m] EXCEPT !.mark =
                                        IF rows[m].wants \subseteq r.seen THEN "SYNCED" ELSE "UNSAFE"]]
    /\ UNCHANGED venue

\* close_position: whatever is not answered "ok" is raised, and the row stays.
Close(n) ==
    /\ rows[n].st = "OPEN"
    /\ \E order \in Outcomes(ex.open) :
        /\ ex' = IF order.done THEN Flat(ex.legs) ELSE ex
        /\ rows' = IF order.says = "ok" THEN [rows EXCEPT ![n].st = "CLOSED"] ELSE rows
    /\ UNCHANGED venue

\* Mutant of FoundFlat: a listing that fails is taken for an empty one.
FoundNothing(n) ==
    /\ rows[n].st \in Live
    /\ rows' = [rows EXCEPT ![n].st = "CLOSED_UNKNOWN", ![n].mark = "UNKNOWN"]
    /\ UNCHANGED <<venue, ex>>

\* emergency_close_position: a listing without the row's symbol means flat; a listing that
\* fails does not stop the close.
FoundFlat(n) ==
    /\ rows[n].st \in Live /\ n \notin Listed
    /\ rows' = [rows EXCEPT ![n].st = "CLOSED_UNKNOWN", ![n].mark = "UNKNOWN"]
    /\ UNCHANGED <<venue, ex>>
EmergencyClose(n) ==
    /\ rows[n].st \in Live
    /\ n \in Listed \/ "refused" \in Answers
    /\ \E order \in Outcomes(ex.open), cancelled \in {FALSE, venue.orders} :
        LET legs == IF cancelled THEN [l \in Legs |-> 0] ELSE ex.legs
        IN /\ ex' = IF order.done THEN Flat(legs) ELSE [ex EXCEPT !.legs = legs]
           /\ rows' = IF order.says = "ok"
                      THEN [rows EXCEPT ![n].st = "CLOSED", ![n].mark = "SYNCED"] ELSE rows
    /\ UNCHANGED venue

\* The exchange executes a leg.
LegTriggers ==
    /\ ex.open /\ \E l \in Legs : ex.legs[l] > 0 /\ ex' = Flat([ex.legs EXCEPT ![l] = @ - 1])
    /\ UNCHANGED <<venue, rows>>

Next ==
    \/ Open \/ Recover \/ LegTriggers
    \/ \E n \in Names : Close(n) \/ FoundFlat(n) \/ EmergencyClose(n)

Spec == Init /\ [][Next]_vars

-----------------------------------------------------------------------------
\* A row that goes by the name its venue lists is ended only when the position is: a read that
\* fails, an order without an answer and an exception that undoes the session never make it
\* look closed.
ListedRowIsTrue ==
    venue.lists \in Names /\ rows[venue.lists].st \in Ended => ~ex.open

\* Violated by OKX: it lists BTC-USDT-SWAP where the row says BTCUSDT, which is taken for flat.
EndedIsFlat == \A n \in Names : rows[n].st = "CLOSED_UNKNOWN" => ~ex.open

\* Violated by OKX, whose orders are never read: every sweep adds an order for each leg; and by
\* Binance, where an attempt that fails half way is made again on the same reading.
OneOrderPerLeg == \A l \in Legs : ex.legs[l] <= 1
=============================================================================
