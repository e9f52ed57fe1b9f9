--------------------------- MODULE MC_ChunkStore ---------------------------
(***************************************************************************)
(* Instantiation of ChunkStore for TLC.  Three contents: a and b collide   *)
(* in the same bucket of a two-bucket table, c has a bucket of its own.    *)
(* Block size 8 and header size 3 make the header-straddle realignment of  *)
(* chunk_alloc happen within a few allocations.                           *)
(***************************************************************************)
EXTENDS ChunkStore, TLC

CONSTANTS t1, t2, a, b, c

MCHashOf == (a :> 1) @@ (b :> 3) @@ (c :> 2)
MCLenOf  == (a :> 2) @@ (b :> 3) @@ (c :> 1)

\* every file of at most three chunks: repeats, collisions, fresh buckets
MCFilesSeq == UNION {[1..n -> {a, b, c}] : n \in 0..3}

\* files for two concurrent chunkers, sharing and colliding chunks
MCFilesConc == {<<a, c>>, <<b, a>>}

\* files whose chunks collide in one bucket, for the store's races
MCFilesRace == {<<a>>, <<b, a>>}

=============================================================================
