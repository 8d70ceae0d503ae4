------------------------ MODULE MCMarketDataPipeline ------------------------
(* Small instance of MarketDataPipeline.                                     *)
EXTENDS MarketDataPipeline

CONSTANTS m1, m2

\* two markets, each with a shard of its own
MCShardOf == [m \in Markets |-> IF m = m1 THEN 0 ELSE 1]
=============================================================================
