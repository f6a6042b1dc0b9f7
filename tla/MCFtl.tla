------------------------------- MODULE MCFtl -------------------------------
(* Model-checking instances of Ftl.  LBAs are interchangeable.             *)
EXTENDS FtlInvariant, TLC

LbaSymmetry == Permutations(LBA)
=============================================================================
