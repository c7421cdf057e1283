----------------------------- MODULE MCL3Outbox -----------------------------
(* Small instances of L3Outbox for TLC: decisions d1 and d2 compete for one *)
(* candle of symbol s1, d1 with the better rank.                            *)
EXTENDS L3Outbox, TLC

CONSTANTS c1, c2, d1, d2, p1, p2, s1, k1, r1, r2

(* Two profiles, one scan. *)
PairProfileOf == d1 :> p1 @@ d2 :> p2
PairSymbolOf == d1 :> s1 @@ d2 :> s1
PairCandleOf == d1 :> k1 @@ d2 :> k1
PairScanOf == d1 :> r1 @@ d2 :> r1
PairRank == d1 :> 1 @@ d2 :> 2

(* Two evaluations of the same profile. *)
TwinProfileOf == d1 :> p1 @@ d2 :> p1

(* Two scans. *)
ApartScanOf == d1 :> r1 @@ d2 :> r2

(* Consumers run the same code and are never told apart. *)
ConsumerSymmetry == Permutations(Consumer)
=============================================================================
