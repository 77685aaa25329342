------------------------------- MODULE MCAsa -------------------------------
(* Nine pages, two of them reserved, requests for up to six: long enough  *)
(* for gaps of different length between taken pages, and for a request     *)
(* whose page count exceeds its first page number, where asa_free clears   *)
(* something.                                                              *)
EXTENDS Asa
=============================================================================
