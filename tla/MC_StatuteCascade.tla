-------------------------- MODULE MC_StatuteCascade --------------------------
(* TLC instances of StatuteCascade.                                        *)
EXTENDS StatuteCascade, FiniteSets

CONSTANTS
  NewStatute    \* statutes that the walk does not find but may see come

\* Any graph over the other statutes; what is there sets every field.
MC_Seed ==
  LET old == URN \ NewStatute
      edges == ({persona} \X (Role \cup Other)) \cup (Domain \X Role)
                 \cup (Category \X Domain)
  IN {[concepts |-> [u \in there |-> [f \in Field |-> <<u, 0>>]],
       bindings |-> B] :
        there \in SUBSET old,
        B \in SUBSET {e \in edges : e[1] \notin NewStatute /\ e[2] \notin NewStatute}}

=============================================================================
