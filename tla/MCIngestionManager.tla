--------------------------- MODULE MCIngestionManager ---------------------------
(***************************************************************************)
(* Both exchanges and two symbols, of which Coinbase sends one.            *)
(***************************************************************************)
EXTENDS IngestionManager, TLC

CONSTANTS binance, coinbase, btc, eth

MCClients == {binance, coinbase}
MCSnapshotClients == {binance}
MCSymbols == binance :> {btc, eth} @@ coinbase :> {btc}
MCMaxConns == binance :> 3 @@ coinbase :> 2

=================================================================================
