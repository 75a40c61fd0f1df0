-------------------------- MODULE MCAtomicWriteFile -------------------------
(* AtomicWriteFile on small instances.                                        *)
EXTENDS AtomicWriteFile, TLC

WriterSymmetry == Permutations(Writers)
=============================================================================
