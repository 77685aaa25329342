----------------------------- MODULE MCConsole -----------------------------
(* A screen of two rows of two characters, cursor registers of three       *)
(* values, and texts that scroll it several times.                         *)
EXTENDS Console, Printf
=============================================================================
