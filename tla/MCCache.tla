------------------------------- MODULE MCCache -------------------------------
(* Model-checking instance of Cache: readers and writers are model values, *)
(* interchangeable among themselves.                                       *)
EXTENDS Cache, TLC

ReaderWriterSymmetry == Permutations(Readers) \cup Permutations(Writers)
=============================================================================
