--------------------------- MODULE DependencyCheck ---------------------------
(***************************************************************************)
(* checkDependencies (src/lib/dependency-check.js), the first thing        *)
(* createOrgan awaits, in any number of organs that boot side by side: it  *)
(* polls the Spine's /health until the Spine is alive, then /consumers     *)
(* until every dependency is connected, with a limited number of attempts  *)
(* for each.                                                               *)
(*                                                                         *)
(* A request is answered with what the Spine knows at that moment and the  *)
(* answer is looked at later, when all may be different again.  The Spine  *)
(* is external: it comes and goes, and organs connect and disconnect.  A   *)
(* request that fails is one that met a Spine that was down.               *)
(***************************************************************************)
EXTENDS Naturals

CONSTANTS
  Organ,        \* the organs besides the Spine
  Spine,
  MaxRetries    \* options.maxRetries

ASSUME RetriesAssumption == MaxRetries \in Nat \ {0}
ASSUME SpineAssumption == Spine \notin Organ

VARIABLES
  requires,      \* the dependencies of each organ; never changes
  pc,            \* the request or sleep it awaits, or how it ended
  attempt,
  reply,         \* to the request: "none" yet, "ok", or "error"
  connectedNames, \* the organs an "ok" lists
  spineUp,
  consumers,     \* Spine: the connected organs
  wasComplete    \* history: all dependencies were connected at one time

checkVars == <<pc, attempt, reply, connectedNames>>
spineVars == <<spineUp, consumers>>
vars == <<requires, checkVars, spineVars, wasComplete>>

-----------------------------------------------------------------------------
Init ==
  /\ requires \in [Organ -> SUBSET (Organ \cup {Spine})]
  /\ pc = [o \in Organ |-> "off"]
  /\ attempt = [o \in Organ |-> 1]
  /\ reply = [o \in Organ |-> "none"]
  /\ connectedNames = [o \in Organ |-> {}]
  /\ spineUp = FALSE
  /\ consumers = {}
  /\ wasComplete = [o \in Organ |-> FALSE]

nonSpineDeps(o) == requires[o] \ {Spine}

Complete(o) == spineUp /\ nonSpineDeps(o) \subseteq consumers

Ended == {"off", "passed", "unreachable", "unavailable", "gone"}

\* Only what is seen while the check is under way counts.
Remember ==
  wasComplete' =
    [o \in Organ |-> wasComplete[o] \/ (pc'[o] \notin Ended /\ Complete(o)')]

-----------------------------------------------------------------------------
(* The Spine, and the processes of the organs.                             *)

SpineStarts ==
  /\ ~spineUp /\ spineUp' = TRUE
  /\ UNCHANGED <<requires, checkVars, consumers>>
  /\ Remember

SpineStops ==
  /\ spineUp /\ spineUp' = FALSE /\ consumers' = {}
  /\ UNCHANGED <<requires, checkVars>>
  /\ Remember

OrganConnects(o) ==
  /\ pc[o] = "passed"
  /\ spineUp /\ o \notin consumers /\ consumers' = consumers \cup {o}
  /\ UNCHANGED <<requires, checkVars, spineUp>>
  /\ Remember

OrganLeaves(o) ==
  /\ o \in consumers /\ consumers' = consumers \ {o}
  /\ UNCHANGED <<requires, checkVars, spineUp>>
  /\ Remember

OrganDies(o) ==
  /\ pc[o] \notin {"off", "gone"}
  /\ pc' = [pc EXCEPT ![o] = "gone"]
  /\ attempt' = [attempt EXCEPT ![o] = 1]
  /\ reply' = [reply EXCEPT ![o] = "none"]
  /\ connectedNames' = [connectedNames EXCEPT ![o] = {}]
  /\ consumers' = consumers \ {o}
  /\ UNCHANGED <<requires, spineUp>>
  /\ Remember

Answer(o) ==
  /\ pc[o] \in {"health", "consumers", "final"} /\ reply[o] = "none"
  /\ reply' = [reply EXCEPT ![o] = IF spineUp THEN "ok" ELSE "error"]
  /\ connectedNames' = [connectedNames EXCEPT ![o] = consumers]
  /\ UNCHANGED <<requires, pc, attempt, spineVars, wasComplete>>

-----------------------------------------------------------------------------
(* checkDependencies.                                                      *)

\* The check begins; without any dependency it is over at once.
Boot(o) ==
  /\ pc[o] = "off"
  /\ pc' = [pc EXCEPT ![o] = IF requires[o] = {} THEN "passed" ELSE "health"]
  /\ UNCHANGED <<requires, attempt, reply, connectedNames, spineVars>>
  /\ Remember

LastAttempt(o) == attempt[o] = MaxRetries

Missing(o) == nonSpineDeps(o) \ connectedNames[o]

\* An answer has come and the code goes on to l.
Got(o, at, l) ==
  /\ pc[o] = at /\ reply[o] # "none"
  /\ pc' = [pc EXCEPT ![o] = l]
  /\ reply' = [reply EXCEPT ![o] = "none"]
  /\ connectedNames' = [connectedNames EXCEPT ![o] = {}]
  /\ UNCHANGED <<requires, spineVars, wasComplete>>

HealthOk(o) ==
  /\ reply[o] = "ok"
  /\ Got(o, "health", IF nonSpineDeps(o) = {} THEN "passed" ELSE "consumers")
  /\ attempt' = [attempt EXCEPT ![o] = 1]

HealthFails(o) ==
  /\ reply[o] = "error"
  /\ Got(o, "health", IF LastAttempt(o) THEN "unreachable" ELSE "health sleep")
  /\ UNCHANGED attempt

\* mutant: the limit is looked at before the answer
PresentUnlessLast(o) ==
  /\ reply[o] = "ok" /\ Missing(o) = {} /\ ~LastAttempt(o)
  /\ Got(o, "consumers", "passed")
  /\ UNCHANGED attempt

AllPresent(o) ==
  /\ reply[o] = "ok" /\ Missing(o) = {}
  /\ Got(o, "consumers", "passed")
  /\ UNCHANGED attempt

SomeMissing(o) ==
  /\ reply[o] = "error" \/ Missing(o) # {}
  /\ Got(o, "consumers", IF LastAttempt(o) THEN "final" ELSE "consumers sleep")
  /\ UNCHANGED attempt

\* mutant: the error is logged and not thrown
FinalLogged(o) == Got(o, "final", "passed") /\ UNCHANGED attempt

\* The request for the error message; its answer decides nothing else.
FinalCheck(o) == Got(o, "final", "unavailable") /\ UNCHANGED attempt

\* sleep(retryInterval) is over.
Wakes(o, at, l) ==
  /\ pc[o] = at /\ pc' = [pc EXCEPT ![o] = l]
  /\ attempt' = [attempt EXCEPT ![o] = @ + 1]
  /\ UNCHANGED <<requires, reply, connectedNames, spineVars>>
  /\ Remember

Check(o) ==
  \/ Answer(o) \/ HealthOk(o) \/ HealthFails(o)
  \/ AllPresent(o) \/ SomeMissing(o) \/ FinalCheck(o)
  \/ Wakes(o, "health sleep", "health")
  \/ Wakes(o, "consumers sleep", "consumers")

Next ==
  \/ SpineStarts \/ SpineStops
  \/ \E o \in Organ :
       \/ Boot(o) \/ Check(o)
       \/ OrganConnects(o) \/ OrganLeaves(o) \/ OrganDies(o)

Spec == Init /\ [][Next]_vars

-----------------------------------------------------------------------------
TypeOK ==
  /\ requires \in [Organ -> SUBSET (Organ \cup {Spine})]
  /\ pc \in [Organ -> Ended \cup {"health", "health sleep", "consumers",
                                  "consumers sleep", "final"}]
  /\ attempt \in [Organ -> 1 .. MaxRetries]
  /\ reply \in [Organ -> {"none", "ok", "error"}]
  /\ connectedNames \in [Organ -> SUBSET Organ]
  /\ spineUp \in BOOLEAN
  /\ consumers \subseteq Organ
  /\ wasComplete \in [Organ -> BOOLEAN]

\* "are alive and connected to Spine before allowing an organ to boot": an
\* organ boots only when at some one moment of its check the Spine was up and
\* all its dependencies were connected together, not one now and one then.
PassedWasComplete ==
  \A o \in Organ :
    pc[o] = "passed" /\ requires[o] # {} => wasComplete[o]

\* A check that asks while everything is there passes, in any attempt and the
\* last one too, unless something goes away before the answer.
CompletePasses ==
  \A o \in Organ :
    (pc[o] = "consumers" /\ reply[o] = "none" /\ Complete(o))
      ~> (pc[o] \in {"passed", "gone"} \/ ~Complete(o))

=============================================================================
