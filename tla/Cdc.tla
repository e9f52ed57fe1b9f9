-------------------------------- MODULE Cdc --------------------------------
(***************************************************************************)
(* The gear-hash boundary detector of src/cdc.h, cdc_get_chunk_size, and  *)
(* the loop of chunk_and_replace that cuts a whole file with it.           *)
(*                                                                         *)
(* A file is a sequence of byte values; byte offset k is data[k + 1].     *)
(* The fingerprint keeps its width: fp is a W-bit unsigned integer, so    *)
(* (fp << 1) + Gear[b] wraps as the u64 of the code does, and fp depends  *)
(* only on the last W bytes scanned.                                       *)
(***************************************************************************)
EXTENDS Naturals, Sequences, SequencesExt, Bitwise

CONSTANTS
  Bytes,        \* byte values a file may contain
  Gear,         \* gear_table: Bytes -> 0..2^W-1
  W,            \* width of fp in bits
  MaskS,        \* mask while i < NormalSize
  MaskL,        \* mask from NormalSize on
  MinSize, NormalSize, MaxSize,
  Files         \* the files chunk_and_replace is run on

ASSUME MinSize < NormalSize /\ NormalSize < MaxSize

\* fp = (fp << 1) + gear_table[b], in W bits
GearStep(fp, b) == (2 * fp + Gear[b]) % (2 ^ W)

\* kernel_read(filp, &b, 1, &pos) at byte offset k: at or past i_size it
\* reads nothing and b keeps the byte read before
ReadByte(d, k, b) == IF k < Len(d) THEN d[k + 1] ELSE b

\* the second for loop of cdc_get_chunk_size, from i on: read the next
\* byte, roll it into fp, return i on the first fp with no MaskL bit set
\* and n when the loop runs out
RECURSIVE ScanL(_, _, _, _, _, _)
ScanL(d, pos, i, fp, b, n) ==
  IF i >= n THEN i
  ELSE LET c == ReadByte(d, pos + i, b)
           f == GearStep(fp, c)
       IN IF (f & MaskL) = 0 THEN i ELSE ScanL(d, pos, i + 1, f, c, n)

\* mutant: the byte that matched MaskS is counted into the chunk
RECURSIVE ScanSInclusive(_, _, _, _, _, _, _)
ScanSInclusive(d, pos, i, fp, b, normal, n) ==
  IF i >= normal THEN ScanL(d, pos, i, fp, b, n)
  ELSE LET c == ReadByte(d, pos + i, b)
           f == GearStep(fp, c)
       IN IF (f & MaskS) = 0 THEN i + 1
          ELSE ScanSInclusive(d, pos, i + 1, f, c, normal, n)

\* the first for loop, from i up to NormalSize with MaskS, then the second
RECURSIVE ScanS(_, _, _, _, _, _, _)
ScanS(d, pos, i, fp, b, normal, n) ==
  IF i >= normal THEN ScanL(d, pos, i, fp, b, n)
  ELSE LET c == ReadByte(d, pos + i, b)
           f == GearStep(fp, c)
       IN IF (f & MaskS) = 0 THEN i ELSE ScanS(d, pos, i + 1, f, c, normal, n)

\* cdc_get_chunk_size(filp, pos): a remainder n of at most MinSize is the
\* last chunk; otherwise n is clamped to MaxSize, or else NormalSize is
\* lowered to n when n <= NormalSize, and the scan starts at MinSize
CdcChunkSize(d, pos) ==
  LET rem == Len(d) - pos
      n == IF rem >= MaxSize THEN MaxSize ELSE rem
      normal == IF rem < MaxSize /\ rem <= NormalSize THEN rem ELSE NormalSize
  IN IF rem <= MinSize THEN rem
     ELSE ScanS(d, pos, MinSize, 0, 0, normal, n)

-----------------------------------------------------------------------------
(* Reference: spec 4.1 stated directly.  The boundary is the least scanned *)
(* position i in MinSize..n-1 whose fingerprint over bytes MinSize..i has  *)
(* no bit of its mask set; with none, the chunk extends to n.              *)

FpAt(d, pos, i) ==
  FoldLeft(GearStep, 0, SubSeq(d, pos + MinSize + 1, pos + i + 1))

RefChunkSize(d, pos) ==
  LET rem == Len(d) - pos
      n == IF rem < MaxSize THEN rem ELSE MaxSize
      normal == IF rem <= NormalSize THEN rem ELSE NormalSize
      mask(i) == IF i < normal THEN MaskS ELSE MaskL
      cuts == {i \in MinSize..n - 1 : (FpAt(d, pos, i) & mask(i)) = 0}
  IN IF rem <= MinSize THEN rem
     ELSE IF cuts = {} THEN n ELSE Min(cuts)

-----------------------------------------------------------------------------
(* The cutting loop of chunk_and_replace: while f_pos < i_size, take      *)
(* cdc_get_chunk_size(filp, f_pos) bytes and advance f_pos over them.     *)

VARIABLES
  data,    \* the file's bytes
  fpos,    \* filp->f_pos
  chunks   \* the chunk sizes returned so far

vars == <<data, fpos, chunks>>

Init ==
  /\ data \in Files
  /\ fpos = 0
  /\ chunks = <<>>

\* mutant: the loop runs while f_pos <= i_size
CutPastEnd ==
  /\ fpos <= Len(data)
  /\ LET len == CdcChunkSize(data, fpos)
     IN /\ fpos' = fpos + len
        /\ chunks' = Append(chunks, len)
  /\ UNCHANGED data

\* mutant: the loop stops one byte early (f_pos + 1 < i_size)
CutStopsShort ==
  /\ fpos + 1 < Len(data)
  /\ LET len == CdcChunkSize(data, fpos)
     IN /\ fpos' = fpos + len
        /\ chunks' = Append(chunks, len)
  /\ UNCHANGED data

\* one iteration: cdc_get_chunk_size, then the kernel_read loop that reads
\* exactly chunk_size bytes and moves f_pos past them
Cut ==
  /\ fpos < Len(data)
  /\ LET len == CdcChunkSize(data, fpos)
     IN /\ fpos' = fpos + len
        /\ chunks' = Append(chunks, len)
  /\ UNCHANGED data

\* the loop has left: f_pos = i_size
Done == fpos >= Len(data) /\ UNCHANGED vars

Next == Cut \/ Done

Spec == Init /\ [][Next]_vars /\ WF_vars(Cut)

-----------------------------------------------------------------------------
\* cdc_get_chunk_size agrees with spec 4.1 at every position the cutting
\* loop asks it about: the scan starts at MinSize, switches from MaskS to
\* MaskL at NormalSize, and returns the matching position itself.
MatchesReference ==
  fpos < Len(data) => CdcChunkSize(data, fpos) = RefChunkSize(data, fpos)

\* Spec 8.2: every chunk cut by chunk_and_replace has a size between
\* MinSize and MaxSize, except the final one, which may be shorter.
ChunkBounds ==
  \A k \in 1..Len(chunks) :
     /\ 0 < chunks[k] /\ chunks[k] <= MaxSize
     /\ chunks[k] < MinSize => k = Len(chunks) /\ fpos = Len(data)

\* The cutting loop of chunk_and_replace terminates with f_pos = i_size,
\* so BUG_ON(filp->f_pos != filp->f_inode->i_size) after it never fires:
\* every iteration takes a chunk of at least one byte and the loop runs
\* until the whole file is taken.  The loop is one thread running
\* without waiting, which justifies weak fairness of Cut.
Termination == <>(fpos = Len(data))

=============================================================================
