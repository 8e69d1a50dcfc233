----------------------------- MODULE MCAppipc -----------------------------
(* Model values for the link: three payloads tell a word from the one    *)
(* before it and the one after it.                                         *)
EXTENDS Appipc
CONSTANTS w1, w2, w3
MCWords == {w1, w2, w3}
=============================================================================
