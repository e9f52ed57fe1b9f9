------------------------------- MODULE MC_Cdc -------------------------------
(* cdc_get_chunk_size scaled down: MinSize 2, NormalSize 4, MaxSize 7 keep *)
(* the order of 2K < 8K < 64K; a 3-bit fingerprint wraps within one scan, *)
(* as the u64 does within 64 of the up to 62K bytes scanned.  Gear and    *)
(* mask are chosen so that every chunk size 1..7 occurs over the files,   *)
(* and a 0 byte at MinSize cuts there (gear 2 has no mask bit set).       *)
EXTENDS Cdc, TLC

MCGear == 0 :> 2 @@ 1 :> 7

\* every file of up to 10 bytes over {0, 1}: 10 > MaxSize, so a file is
\* cut into several chunks and the MaxSize clamp is reached
MCFiles == BoundedSeq({0, 1}, 10)
=============================================================================
