--------------------------- MODULE MC_SegmentList ---------------------------
(* Instantiates SegmentList with two zones of two entries each (a 48-byte  *)
(* block: 48 / 16 - 1 = 2): a list of four entries takes the new-block     *)
(* branch of ll_append, and exhausts the bitmap when one zone is in use.   *)
EXTENDS SegmentList, TLC

\* entries the chunker appends: {location, size}
\* with a 24-byte chunk_head, the payload of the chunk at 23 is bytes 47
\* and 48, across the end of heap block 0; both headers lie in one block,
\* as chunk_alloc places them
MCEntries == {[location |-> 23, size |-> 2], [location |-> 49, size |-> 1]}

\* what a zone freed by an earlier owner still holds: nonzero entries and a
\* next pointer to any zone
StaleEntry == [location |-> 40, size |-> 3]
StaleBlocks == {[slot |-> [i \in 0..EPB-1 |-> StaleEntry], next |-> n] : n \in Blocks \cup {0}}

\* a freshly formatted device: every zone reads as zeroes
MCDiskZero == {[b \in Blocks |-> ZeroBlk]}

\* a used device: every zone is either zeroes or stale
MCDiskStale == [Blocks -> {ZeroBlk} \cup StaleBlocks]

\* the bitmap before chunking: all zones free, or one already owned
MCFree == {Blocks} \cup {Blocks \ {b} : b \in Blocks}

=============================================================================
