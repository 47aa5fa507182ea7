----------------------------- MODULE MC_StartAll -----------------------------
(* TLC instances of StartAll.                                              *)
EXTENDS StartAll

CONSTANTS a, typo

MC_AskedFor == {Organ \cup {Spine}, {a, typo}}

=============================================================================
