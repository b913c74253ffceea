---------------------------- MODULE MCLiveTrading ----------------------------
(* Small instances of LiveTrading.                                           *)
EXTENDS LiveTradingBook, TLC

\* Handlers are interchangeable and so are their rows (safety runs only).
HandlerSymmetry == Permutations(Handlers)
=============================================================================
