----------------------------- MODULE MCTerminal -----------------------------
(* A screen of two rows of two characters, and texts that fill it, scroll  *)
(* it, fill the buffer and outlast it.                                     *)
EXTENDS Terminal
=============================================================================
