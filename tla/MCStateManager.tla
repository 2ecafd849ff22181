--------------------------- MODULE MCStateManager ---------------------------
(***************************************************************************)
(* A small table: values 0..7 with a tolerance of two, so that up to three *)
(* classes exist and a value may be near two of them.                      *)
(***************************************************************************)
EXTENDS StateManager

MCValues == 0 .. 7
=============================================================================
