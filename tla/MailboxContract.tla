--------------------------- MODULE MailboxContract ---------------------------
(***************************************************************************)
(* What the mailbox of an organ promises, with no cycle, request or        *)
(* connection in sight: at-least-once processing.  A message waits from    *)
(* its arrival until it was served, and only served messages are removed.  *)
(* LiveLoop implements it.                                                 *)
(***************************************************************************)
CONSTANT Message
VARIABLE status

Init == status = [m \in Message |-> "unknown"]

Arrive(m) ==
  /\ status[m] = "unknown"
  /\ status' = [status EXCEPT ![m] = "waiting"]

Serve(m) ==
  /\ status[m] = "waiting"
  /\ status' = [status EXCEPT ![m] = "served"]

Remove(S) ==
  /\ S # {} /\ \A m \in S : status[m] = "served"
  /\ status' = [m \in Message |-> IF m \in S THEN "removed" ELSE status[m]]

Next ==
  \/ \E m \in Message : Arrive(m) \/ Serve(m)
  \/ \E S \in SUBSET Message : Remove(S)

Spec == Init /\ [][Next]_status

=============================================================================
