--------------------------- MODULE MCLogProcessor ---------------------------
(* Small instances of LogProcessor for TLC. *)
EXTENDS LogProcessor, TLC

(***************************************************************************)
(* A configured value that Control::Init has to correct.                   *)
(***************************************************************************)
ArchiveDays == -1
Symmetry == Permutations(Ids)
=============================================================================
