--------------------------- MODULE MC_ProcChunker ---------------------------
(* Two writers of the control file, three inodes: a regular file of this *)
(* volume, a directory and a file of another volume; each writer names any *)
(* of them or a path that does not exist, and each inode starts with any  *)
(* i_fop.                                                                  *)
EXTENDS ProcChunker, TLC

CONSTANTS r, d, x

MCKind == r :> "reg" @@ d :> "dir" @@ x :> "foreign"
=============================================================================
