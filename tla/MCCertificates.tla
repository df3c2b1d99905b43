--------------------------- MODULE MCCertificates ---------------------------
(* Certificates for TLC. *)
EXTENDS Certificates, TLC
=============================================================================
