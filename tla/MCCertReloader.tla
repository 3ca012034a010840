-------------------------- MODULE MCCertReloader --------------------------
(***************************************************************************)
(* CertReloader with a few handshakes and rotations.                       *)
(***************************************************************************)
EXTENDS CertReloader, TLC

CONSTANTS h1, h2

Handshakes == Permutations({h1, h2})
=============================================================================
