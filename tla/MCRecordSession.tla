---------------------------- MODULE MCRecordSession ----------------------------
(* Finite instances of RecordSession for TLC. *)
EXTENDS RecordSession, TLC

Symmetry == Permutations(Streams)

================================================================================
