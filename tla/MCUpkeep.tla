------------------------------ MODULE MCUpkeep ------------------------------
(***************************************************************************)
(* Small instances of the parts in Upkeep.                                 *)
(***************************************************************************)
EXTENDS Upkeep

Level == INSTANCE Levels
Tenth == Level!Tenth
NoFunding == 9

MCSnapshots ==
  [atr: {Tenth, 10 * Tenth, 24 * Tenth, 80 * Tenth}, swing: {0, 5 * Tenth, 70 * Tenth, 300 * Tenth},
   far: {0, 30 * Tenth, 130 * Tenth}, pool: {Level!NoPool, 250 * Tenth},
   day: {Level!NoDay} \cup [level: {-5 * Tenth, Tenth, 90 * Tenth}, atr: {10 * Tenth, 60 * Tenth}]]

MCLayers == {[trend |-> 50, structure |-> 2, setup |-> 3, triggers |-> 1, aligned |-> 1],
             [trend |-> 100, structure |-> 4, setup |-> 5, triggers |-> 2, aligned |-> 2],
             [trend |-> 0, structure |-> 3, setup |-> 3, triggers |-> 0, aligned |-> 2]}

MCMarkets == {[rejected |-> FALSE, adx |-> 22, stretched |-> FALSE, bias |-> "NEUTRAL"],
              [rejected |-> FALSE, adx |-> 35, stretched |-> TRUE, bias |-> "RISK_ON"]}

MCContexts == {[oi |-> 1, price |-> -1, funding |-> 1, liquidity |-> 8, swept |-> TRUE, bearish15m |-> TRUE, bearish1h |-> TRUE],
               [oi |-> -1, price |-> 1, funding |-> NoFunding, liquidity |-> 0, swept |-> FALSE, bearish15m |-> TRUE, bearish1h |-> FALSE]}

MCDeployments == [mode: Level!Modes, gate: BOOLEAN, bias: {FALSE}]

MCErrors == {{}, {"insufficient"}, {"notional"}, {"precision"}, {"429"}, {"timeout"},
             {"503"}, {"reduceonly"}, {"reject"}, {"timeout", "503"}}

MCQuotes == 0 .. 12

MCSetups == [offline : BOOLEAN, testnet : BOOLEAN]

MCFilters ==
  {f \in [found : BOOLEAN, trading : BOOLEAN, step : {1, 3}, minQty : {0, 2, 6}, maxQty : {9, 30},
        minNotional : {0, 7, 20}] :
     f.found \/ (f.step = 1 /\ f.minQty = 0 /\ f.maxQty = 9 /\ f.minNotional = 0)}
MCHairs == {-1, 0, 1}

Adapter == INSTANCE Venues WITH Venues <- {}, venue <- v1, ex <- v2, rows <- v3
MCAdapters == {Adapter!Binance, Adapter!Okx, Adapter!Bybit, Adapter!Bitget, Adapter!Mock}

Bar(l, h, c) == [lo |-> l, hi |-> h, close |-> c]
MCShapes == {Bar(5, 8, 7), Bar(3, 5, 4), Bar(3, 8, 5), Bar(5, 6, 6)}
MCPeriod == [tf \in {"1d", "4h", "1h"} |-> CASE tf = "1d" -> 3 [] tf = "4h" -> 2 [] tf = "1h" -> 1]

MCEvents == {[at |-> 2, high |-> TRUE, of |-> {"btc"}], [at |-> 3, high |-> FALSE, of |-> {"eth"}]}

MCGross == {-1, 1, 3}
=============================================================================
