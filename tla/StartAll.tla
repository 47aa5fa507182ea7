------------------------------- MODULE StartAll -------------------------------
(***************************************************************************)
(* The start of a fleet of organs (src/scripts/start-all.js): the closure  *)
(* of the organs asked for, Kahn's topological sort of it, one organ after *)
(* the other spawned and waited for, and the signal that ends them all.    *)
(* The organs are processes of their own, each with its own                *)
(* checkDependencies (DependencyCheck), its server and its connection.     *)
(*                                                                         *)
(* The boot graph and each organ's own list of dependencies agree.  The    *)
(* sort takes one step per turn of its loop; queue.sort() makes its order  *)
(* a matter of names, which are not modelled, so any order is allowed.     *)
(***************************************************************************)
EXTENDS DependencyCheck, Sequences, FiniteSets

CONSTANTS
  Unknown,      \* names that are not in the boot graph
  Registered,   \* the organs of PORT_REGISTRY
  AskedFor      \* values of --organs; that of all organs stands for none

Node == Organ \cup {Spine} \cup Unknown

ASSUME FleetAssumption ==
  /\ IsFiniteSet(Organ) /\ IsFiniteSet(Unknown)
  /\ Unknown \cap (Organ \cup {Spine}) = {}
  /\ Registered \subseteq Organ \cup {Spine}
  /\ AskedFor \subseteq SUBSET Node

VARIABLES
  organs,       \* the organs asked for; never changes
  inDegree, queue, sorted,  \* the sort
  main,         \* where main() is, or how start-all ended
  todo,         \* what is left of the loop over the order
  status,       \* what the log says of each organ
  children,     \* the processes start-all has spawned and that live
  listening,    \* the organs whose server answers
  terminated    \* the children that were sent SIGTERM

sortVars == <<inDegree, queue, sorted>>
fleetVars == <<organs, sortVars, main, todo, status, children, listening, terminated>>
allVars == <<vars, fleetVars>>

-----------------------------------------------------------------------------
\* graph[organ] || []; the Spine requires nothing.
graph(n) == IF n \in Organ THEN requires[n] ELSE {}

\* What walk() reaches: the least set that holds the organs asked for and,
\* with each organ, what it requires.
getTransitiveDeps(S) ==
  {n \in Node : \A T \in SUBSET Node :
     S \subseteq T /\ (\A m \in T : graph(m) \subseteq T) => n \in T}

needed == getTransitiveDeps(organs)

FleetInit ==
  /\ Init
  /\ organs \in AskedFor
  /\ inDegree = [n \in needed |-> Cardinality(graph(n))]
  /\ queue = {n \in needed : graph(n) = {}}
  /\ sorted = <<>>
  /\ main = "sort"
  /\ todo = <<>>
  /\ status = [n \in Node |-> "pending"]
  /\ children = {}
  /\ listening = {}
  /\ terminated = {}

-----------------------------------------------------------------------------
(* main().                                                                 *)

\* mutant: a neighbor is queued as soon as one of its requirements is sorted
ReadyAtOnce(degree) == degree >= 0

IsReady(degree) == degree = 0

SortStep(n) ==
  /\ main = "sort" /\ n \in queue
  /\ LET neighbors == {m \in needed : n \in graph(m)}
     IN /\ inDegree' = [m \in needed |-> IF m \in neighbors THEN inDegree[m] - 1
                                                            ELSE inDegree[m]]
        /\ queue' = (queue \ {n}) \cup {m \in neighbors : IsReady(inDegree'[m])}
  /\ sorted' = Append(sorted, n)
  /\ UNCHANGED <<vars, organs, main, todo, status, children, listening, terminated>>

\* An incomplete order is a circular dependency, and main() rejects.
SortEnds ==
  /\ main = "sort" /\ queue = {}
  /\ IF Len(sorted) # Cardinality(needed)
     THEN main' = "rejected" /\ UNCHANGED todo
     ELSE main' = "next" /\ todo' = sorted
  /\ UNCHANGED <<vars, organs, sortVars, status, children, listening, terminated>>

Log(n, what) == status' = [status EXCEPT ![n] = what]

Skip ==
  /\ main = "next" /\ todo # <<>> /\ Head(todo) \notin Registered
  /\ Log(Head(todo), "skipped")
  /\ todo' = Tail(todo)
  /\ UNCHANGED <<vars, organs, sortVars, main, children, listening, terminated>>

\* The child's own check begins.
Spawn ==
  /\ main = "next" /\ todo # <<>> /\ Head(todo) \in Registered
  /\ LET n == Head(todo)
     IN /\ Log(n, "starting")
        /\ children' = children \cup {n}
        /\ IF n = Spine THEN UNCHANGED vars ELSE Boot(n)
  /\ main' = "wait"
  /\ UNCHANGED <<organs, sortVars, todo, listening, terminated>>

\* The organ's directory is missing: nobody listens to the child's error
\* event, and it ends start-all.
SpawnError ==
  /\ main = "next" /\ todo # <<>> /\ Head(todo) \in Registered
  /\ Log(Head(todo), "starting")
  /\ main' = "crashed"
  /\ UNCHANGED <<vars, organs, sortVars, todo, children, listening, terminated>>

WaitEnds(what) ==
  /\ Log(Head(todo), what)
  /\ todo' = Tail(todo) /\ main' = "next"
  /\ UNCHANGED <<vars, organs, sortVars, children, listening, terminated>>

\* waitForHealth: an answer, or the deadline; no organ holds up the others.
Healthy ==
  main = "wait" /\ Head(todo) \in listening /\ WaitEnds("ready")

\* mutant: there is no deadline
NoTimeout == FALSE

TimedOut == main = "wait" /\ WaitEnds("timeout")

Finish ==
  /\ main = "next" /\ todo = <<>>
  /\ main' = "complete"
  /\ UNCHANGED <<vars, organs, sortVars, todo, status, children, listening, terminated>>

\* mutant: cleanup ends the organ that was started last
TerminateLast == {n \in children : n = sorted[Len(sorted)]}

Terminate == children

\* SIGTERM or SIGINT: there is no handler before main() is through.
Signal ==
  /\ \/ main \in {"sort", "next", "wait"} /\ main' = "killed" /\ UNCHANGED terminated
     \/ main = "complete" /\ main' = "stopping" /\ terminated' = Terminate
  /\ UNCHANGED <<vars, organs, sortVars, todo, status, children, listening>>

\* The 5 s timer of cleanup.
Exit ==
  /\ main = "stopping"
  /\ main' = "exited"
  /\ UNCHANGED <<vars, organs, sortVars, todo, status, children, listening, terminated>>

Main ==
  \/ \E n \in Node : SortStep(n)
  \/ SortEnds \/ Skip \/ Spawn \/ SpawnError \/ Healthy \/ TimedOut \/ Finish \/ Exit

-----------------------------------------------------------------------------
(* The children.                                                           *)

InOrgans == UNCHANGED <<organs, sortVars, main, todo, status, terminated>>

SpineListens ==
  /\ Spine \in children /\ SpineStarts
  /\ listening' = listening \cup {Spine}
  /\ UNCHANGED children /\ InOrgans

OrganChecks(o) == Check(o) /\ UNCHANGED fleetVars

\* createOrgan listens before it connects.
OrganListens(o) ==
  /\ pc[o] = "passed" /\ o \notin listening
  /\ listening' = listening \cup {o}
  /\ UNCHANGED <<vars, children>> /\ InOrgans

Connection(o) ==
  /\ \/ o \in listening /\ OrganConnects(o)
     \/ OrganLeaves(o)
  /\ UNCHANGED fleetVars

\* A process ends by itself, at any time, or because of the signal.
Dies(n) ==
  /\ n \in children
  /\ children' = children \ {n}
  /\ listening' = listening \ {n}
  /\ IF n # Spine THEN OrganDies(n)
     ELSE IF spineUp THEN SpineStops ELSE UNCHANGED vars
  /\ InOrgans

EndsOnSignal(n) == n \in terminated /\ Dies(n)

FleetNext ==
  \/ Main \/ Signal \/ SpineListens
  \/ \E o \in Organ : OrganChecks(o) \/ OrganListens(o) \/ Connection(o)
  \/ \E n \in Node : Dies(n)

FleetSpec == FleetInit /\ [][FleetNext]_allVars

(***************************************************************************)
(* Fairness.  Requests are answered or refused (fetch has no timeout, so   *)
(* this is assumed), timers fire, start-all's loop goes on, and a process  *)
(* that was sent SIGTERM ends (see Organ).  Nothing else is assumed of the *)
(* organs and the Spine: they need never listen or connect.                *)
(***************************************************************************)
FleetFairness ==
  /\ WF_allVars(Main)
  /\ \A o \in Organ : WF_allVars(OrganChecks(o))
  /\ \A n \in Node : WF_allVars(EndsOnSignal(n))

FleetFairSpec == FleetSpec /\ FleetFairness

-----------------------------------------------------------------------------
FleetTypeOK ==
  /\ TypeOK
  /\ organs \subseteq Node
  /\ inDegree \in [needed -> Nat]
  /\ queue \subseteq needed
  /\ sorted \in Seq(needed) /\ todo \in Seq(needed)
  /\ main \in {"sort", "next", "wait", "complete", "stopping", "exited",
               "rejected", "crashed", "killed"}
  /\ status \in [Node -> {"pending", "skipped", "starting", "ready", "timeout"}]
  /\ children \subseteq Registered /\ listening \subseteq children
  /\ terminated \subseteq Registered

\* "topologically sorts organs, then spawns each in order" (start-all.js:8):
\* an organ is started only when start-all is done with all it requires, one
\* way or another, and the boot graph is rejected only if it has a circle.
SortRight ==
  /\ \A n \in needed : status[n] # "pending" =>
       \A d \in graph(n) : status[d] \in {"skipped", "ready", "timeout"}
  /\ main = "rejected" =>
       \E S \in SUBSET needed : S # {} /\ \A n \in S : graph(n) \cap S # {}

\* An organ that start-all calls ready has had all its dependencies connected
\* at one moment, although start-all goes on when an organ times out and calls
\* ready whatever answers /health.
ReadyWasComplete ==
  \A o \in Organ : status[o] = "ready" /\ requires[o] # {} => wasComplete[o]

\* start-all comes to an end or waits for a signal, and every check that has
\* begun passes or gives up, whatever the Spine and the other organs do.
StartEnds ==
  /\ <>(main \in {"complete", "rejected", "crashed", "killed", "stopping", "exited"})
  /\ \A o \in Organ : pc[o] = "health" ~> pc[o] \in Ended

\* A signal after the start ends every organ that was started, those too that
\* are still in their check ("forward SIGINT/SIGTERM to children").
ChildrenEnd == main = "stopping" ~> children = {}

=============================================================================
