------------------------------- MODULE MC_Organ -------------------------------
(* TLC instances of Organ.                                                 *)
EXTENDS Organ, TLC

MC_NoCorrelation == [m \in Message |-> NoCorr]

=============================================================================
