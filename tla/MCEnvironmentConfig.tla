-------------------------- MODULE MCEnvironmentConfig --------------------------
(* Two environments to switch between.                                     *)
EXTENDS EnvironmentConfig

CONSTANTS studio, hdr
=============================================================================
