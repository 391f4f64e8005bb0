----------------------------- MODULE MCEmtypen -----------------------------
(* Every file of four cursors.                                              *)
EXTENDS Emtypen
============================================================================
