----------------------------- MODULE MCPublisher -----------------------------
(* Publisher on a small instance: a deployment that scans and posts        *)
(* nothing, with a clock; and deployments that post, with the clock        *)
(* standing still: one chat and every fault, two chats and no fault.       *)
EXTENDS Publisher, TLC

CONSTANTS c1, c2

Scanning == [chats |-> {}, card |-> TRUE, until |-> 4, signals |-> 3, faults |-> {"crash"}]
Posting(n, c, card, faults) ==
    [chats |-> c, card |-> card, until |-> 1, signals |-> n, faults |-> faults]
Deployments ==
    {Scanning, Posting(1, {c1}, TRUE, FaultKinds), Posting(1, {c1}, FALSE, {"telegram"}),
     Posting(2, {c1}, TRUE, {}), Posting(1, {c1, c2}, TRUE, {})}
OnePost == {Posting(1, {c1}, TRUE, {})}
OnlyScans == {Scanning}
Symmetry == Permutations(Symbols)

=============================================================================
