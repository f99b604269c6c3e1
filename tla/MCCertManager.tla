---------------------------- MODULE MCCertManager ----------------------------
(* Small instances of CertManager. *)
EXTENDS CertManager, TLC

MCKeySymmetry == Permutations(Keys)
=============================================================================
