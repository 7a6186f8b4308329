-------------------------- MODULE MCDemoGeneration --------------------------
(* A small instance of DemoGeneration for TLC.                             *)
EXTENDS DemoGeneration

CONSTANTS j1, j2, j3
=============================================================================
