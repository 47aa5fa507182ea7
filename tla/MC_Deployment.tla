--------------------------- MODULE MC_Deployment ---------------------------
(* TLC instances of Deployment.                                            *)
EXTENDS Deployment

CONSTANTS c1, m1, t1, f1, n1, n2

\* Calls that have the model or the target in common: others go their own ways.
\* Models and targets are interchangeable: those of one call may be fixed.
MC_Requests ==
  {a \in [Call -> Args] :
     /\ a[c1] = [model |-> m1, target |-> t1]
     /\ \A c \in Call : a[c].model = m1 \/ a[c].target = t1}

\* An operator may serve what the first call is to deploy.
MC_Manual == {[model |-> m1, target |-> t1]}

\* One model on one target, deployed again and again.
MC_SameRequest == {[c \in Call |-> [model |-> m1, target |-> t1]]}

\* The files of m1 have names of their own, those of any other model one name.
MC_Basename ==
  [m \in Model |-> [f \in File |-> IF m = m1 /\ f = f1 THEN n1 ELSE n2]]

=============================================================================
