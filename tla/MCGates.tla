------------------------------- MODULE MCGates -------------------------------
(* Gates on a small instance: a beta, a pilot and a demo deployment.       *)
EXTENDS Gates

Deployments ==
    {[on |-> {"live", "beta"}, users |-> Users], [on |-> {"live", "pilot"}, users |-> {Pilot}],
     [on |-> {"auto"}, users |-> {Pilot}]}
SmallCaps == [user |-> 2, symbol |-> 2, global |-> 3, rows |-> 2, pilot |-> 1, seats |-> 1]
Strict == [daily |-> 1, weekly |-> 2, streak |-> 2, open |-> 1]
StreakOnly == [daily |-> 0, weekly |-> 0, streak |-> 2, open |-> 1]
TwoLimits == {Strict, StreakOnly}
OneLimit == {StreakOnly}
WinOrLose == {-1, 1}
\* The clock runs for the locks, which live deployments here do not set; and one switch at
\* a time is enough.
Calm ==
    /\ "auto" \in deploy.on \/ now = 1
    /\ Quantify(Users, LAMBDA u : safe[u].kill) <= IF kill THEN 0 ELSE 1
Symmetry == {p @@ q : p \in Permutations(Req), q \in Permutations(Symbols)}

=============================================================================
