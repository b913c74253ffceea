------------------------------ MODULE EntryBook ------------------------------
(***************************************************************************)
(* What live trading promises about one entry order, seen from outside:    *)
(* a request is refused without an order, or the exchange takes the order  *)
(* and then it is booked; what is booked is closed at most in two words    *)
(* (closed, or closed in an unknown way) and never comes back.             *)
(***************************************************************************)
CONSTANT Requests
VARIABLE entry

States == {"new", "asked", "refused", "taken", "booked", "closed", "unknown"}

Init == entry = [h \in Requests |-> "new"]

Becomes(h, from, to) == entry[h] \in from /\ entry' = [entry EXCEPT ![h] = to]

Ask(h)    == Becomes(h, {"new"}, "asked")
Refuse(h) == Becomes(h, {"asked", "new"}, "refused")
Take(h)   == Becomes(h, {"asked"}, "taken")
Book(h)   == Becomes(h, {"asked", "taken"}, "booked")
Close(h)  == \/ Becomes(h, {"booked", "unknown"}, "closed")
             \/ Becomes(h, {"booked", "closed"}, "unknown")

Step(h) == Ask(h) \/ Refuse(h) \/ Take(h) \/ Book(h) \/ Close(h)
Next == \E h \in Requests : Step(h)

Settle(h) == Refuse(h) \/ Book(h)
SafeSpec == Init /\ [][Next]_entry
Spec == SafeSpec /\ \A h \in Requests : WF_entry(entry[h] \in {"asked", "taken"} /\ Settle(h))
=============================================================================
