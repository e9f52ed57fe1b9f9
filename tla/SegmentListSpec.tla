--------------------------- MODULE SegmentListSpec ---------------------------
(***************************************************************************)
(* What the segment list of a chunked file promises (spec 4.3): an        *)
(* append-only sequence of {location, size} entries, and a lookup that    *)
(* maps a byte offset below the total size to the entry that owns it and  *)
(* the offset at which that entry starts.                                 *)
(***************************************************************************)
EXTENDS Naturals, Sequences, SequencesExt

CONSTANTS
  Entries,   \* the entries that can be appended (size > 0)
  MaxCount   \* bound on the number of appends

VARIABLE entries

\* total size of the first k entries
PrefixSize(s, k) == FoldLeft(LAMBDA acc, e : acc + e.size, 0, SubSeq(s, 1, k))

TotalSize(s) == PrefixSize(s, Len(s))

\* LocateByOffset: the entry owning byte pos and the offset it starts at
Locate(s, pos) ==
  LET i == CHOOSE i \in 1..Len(s) :
             PrefixSize(s, i - 1) <= pos /\ pos < PrefixSize(s, i)
  IN <<s[i], PrefixSize(s, i - 1)>>

Init == entries = <<>>

AppendEntry ==
  /\ Len(entries) < MaxCount
  /\ \E e \in Entries : entries' = Append(entries, e)

Spec == Init /\ [][AppendEntry]_entries

=============================================================================
