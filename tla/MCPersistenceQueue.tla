------------------------- MODULE MCPersistenceQueue -------------------------
(* Small instances of PersistenceQueue for TLC.                             *)
EXTENDS PersistenceQueue, TLC

CONSTANTS
    s1, s2,     \* market metadata of two schedulers
    c1,         \* a candle
    g1,         \* a ticker of the collector
    w1, w2, price, spread, volume, candle

MCCategory == s1 :> "scheduler" @@ s2 :> "scheduler" @@ c1 :> "compute" @@ g1 :> "ingest"

MCWrites ==
    s1 :> {price, spread} @@ s2 :> {spread} @@ c1 :> {candle} @@ g1 :> {price, volume}
=============================================================================
