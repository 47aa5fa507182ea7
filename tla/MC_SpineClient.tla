---------------------------- MODULE MC_SpineClient ----------------------------
(* TLC instances of SpineClient.                                           *)
EXTENDS SpineClient, TLC

SocketSymmetry == Permutations(Socket)

=============================================================================
