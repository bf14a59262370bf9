--------------------------- MODULE MCCertificates ---------------------------
(***************************************************************************)
(* A small instance of Certificate-Service.                                *)
(***************************************************************************)
EXTENDS Certificates, TLC
=============================================================================
