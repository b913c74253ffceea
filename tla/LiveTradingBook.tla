--------------------------- MODULE LiveTradingBook ---------------------------
(* LiveTrading seen as an EntryBook: the refinement mapping.                *)
EXTENDS LiveTrading

\* How far the entry order of an open request has come; handlers that serve
\* other requests stay "new".
EntryOf(h) ==
    CASE IsOpen(h)                                           -> "booked"
      [] row[h].status = "CLOSED"                            -> "closed"
      [] row[h].status = "CLOSED_UNKNOWN"                    -> "unknown"
      [] row[h] = NoRow /\ h \in landed                      -> "taken"
      [] row[h] = NoRow /\ h \notin landed /\ req[h].op = "open" ->
             IF Busy(h) THEN "asked" ELSE "refused"
      [] OTHER                                               -> "new"

Entries == [h \in Handlers |-> EntryOf(h)]

Book == INSTANCE EntryBook WITH Requests <- Handlers, entry <- Entries

\* Live trading implements the entry book: an accepted order is never refused
\* afterwards and is booked in the end, and a closed entry never comes back.
ImplementsEntryBook == Book!Spec
=============================================================================
