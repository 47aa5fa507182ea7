---------------------------- MODULE StartAll_proofs ----------------------------
(***************************************************************************)
(* Theorems about DependencyCheck and StartAll, for any boot graph,        *)
(* organs, dependencies and number of attempts: what a check that passed   *)
(* has seen, that every organ's check in the fleet is the one of           *)
(* DependencyCheck, and that what start-all reports of an organ is so.     *)
(***************************************************************************)
EXTENDS StartAll, TLAPS, FiniteSetTheorems, SequenceTheorems

-----------------------------------------------------------------------------
(* The check of one organ, whatever the others do.                         *)

\* A check under way has noticed if all was there, and an answer not yet
\* looked at that lists all dependencies was given when all were there.
AnswerWasTrue ==
  \A o \in Organ :
    /\ pc[o] \notin Ended /\ Complete(o) => wasComplete[o]
    /\ /\ pc[o] \notin Ended /\ reply[o] = "ok"
       /\ nonSpineDeps(o) \subseteq connectedNames[o]
       => wasComplete[o]

\* A sleep is entered only when an attempt is left.
AttemptLeft ==
  \A o \in Organ :
    pc[o] \in {"health sleep", "consumers sleep"} => attempt[o] < MaxRetries

\* No answer is left over when a check is over.
EndedIsQuiet == \A o \in Organ : pc[o] \in Ended => reply[o] = "none"

IInv ==
  TypeOK /\ AttemptLeft /\ EndedIsQuiet /\ AnswerWasTrue /\ PassedWasComplete

LEMMA OneAttempt == 1 \in 1 .. MaxRetries
BY RetriesAssumption

LEMMA OneMore ==
  ASSUME NEW a \in 1 .. MaxRetries, a # MaxRetries
  PROVE  a < MaxRetries /\ a + 1 \in 1 .. MaxRetries
BY RetriesAssumption

LEMMA LessIsOther ==
  ASSUME NEW a \in 1 .. MaxRetries, a < MaxRetries
  PROVE  a # MaxRetries
BY RetriesAssumption

LEMMA InitIInv == Init => IInv
<1> SUFFICES ASSUME Init PROVE IInv
  OBVIOUS
<1>1. TypeOK
  BY OneAttempt DEF Init, TypeOK, Ended
<1>2. AttemptLeft /\ EndedIsQuiet /\ AnswerWasTrue /\ PassedWasComplete
  BY DEF Init, AttemptLeft, EndedIsQuiet, AnswerWasTrue, PassedWasComplete, Ended
<1> QED BY <1>1, <1>2 DEF IInv

\* The part of a step that is the same for every action that remembers.
LEMMA RememberOK ==
  ASSUME IInv, Remember, UNCHANGED requires,
         pc' \in [Organ -> Ended \cup {"health", "health sleep", "consumers",
                                       "consumers sleep", "final"}],
         \A o \in Organ : pc'[o] \notin Ended /\ reply'[o] = "ok" =>
           /\ pc[o] \notin Ended /\ reply[o] = "ok"
           /\ connectedNames'[o] = connectedNames[o],
         \A o \in Organ : pc'[o] = "passed" => pc[o] = "passed" \/ requires[o] = {}
  PROVE  /\ wasComplete' \in [Organ -> BOOLEAN]
         /\ AnswerWasTrue' /\ PassedWasComplete'
<1>1. wasComplete' \in [Organ -> BOOLEAN]
  BY DEF IInv, TypeOK, Remember
<1>2. ASSUME NEW o \in Organ
      PROVE  wasComplete'[o] = (wasComplete[o] \/ (pc'[o] \notin Ended /\ Complete(o)'))
  BY DEF Remember
<1>3. AnswerWasTrue'
  BY <1>2 DEF IInv, AnswerWasTrue, nonSpineDeps
<1>4. PassedWasComplete'
  BY <1>2 DEF IInv, PassedWasComplete
<1> QED BY <1>1, <1>3, <1>4

\* The answer has been looked at: the check of one organ goes on from it.
LEMMA GotOK ==
  ASSUME IInv, NEW o \in Organ, NEW at, NEW l, Got(o, at, l), at \notin Ended,
         attempt' \in [Organ -> 1 .. MaxRetries],
         \A p \in Organ \ {o} : attempt'[p] = attempt[p],
         l \in Ended \cup {"health sleep", "consumers", "consumers sleep", "final"},
         l \in {"health sleep", "consumers sleep"} => attempt'[o] < MaxRetries,
         l = "passed" => requires[o] = {} \/ wasComplete[o]
  PROVE  IInv'
<1> USE DEF IInv, TypeOK, Got
<1>1. TypeOK'
  BY DEF spineVars, Ended
<1>2. ASSUME NEW p \in Organ
      PROVE  /\ pc'[p] = IF p = o THEN l ELSE pc[p]
             /\ reply'[p] = IF p = o THEN "none" ELSE reply[p]
             /\ p # o => connectedNames'[p] = connectedNames[p]
             /\ Complete(p)' = Complete(p) /\ nonSpineDeps(p)' = nonSpineDeps(p)
             /\ wasComplete'[p] = wasComplete[p]
  BY DEF Complete, nonSpineDeps, spineVars
<1>3. AttemptLeft' /\ EndedIsQuiet'
  BY <1>2 DEF AttemptLeft, EndedIsQuiet
<1>4. AnswerWasTrue'
  BY <1>2 DEF AnswerWasTrue
<1>5. PassedWasComplete'
  BY <1>2 DEF PassedWasComplete
<1> QED BY <1>1, <1>3, <1>4, <1>5

LEMMA AnswerOK == ASSUME IInv, NEW o \in Organ, Answer(o) PROVE IInv'
<1> USE DEF IInv, TypeOK, Answer
<1>1. TypeOK'
  BY DEF spineVars
<1>2. ASSUME NEW p \in Organ
      PROVE  /\ reply'[p] = IF p = o THEN IF spineUp THEN "ok" ELSE "error" ELSE reply[p]
             /\ connectedNames'[p] = IF p = o THEN consumers ELSE connectedNames[p]
             /\ Complete(p)' = Complete(p) /\ nonSpineDeps(p)' = nonSpineDeps(p)
             /\ pc'[p] = pc[p] /\ wasComplete'[p] = wasComplete[p]
  BY DEF Complete, nonSpineDeps, spineVars
<1>3. AttemptLeft' /\ EndedIsQuiet' /\ PassedWasComplete'
  BY DEF AttemptLeft, EndedIsQuiet, PassedWasComplete, Ended
<1>4. ASSUME NEW p \in Organ, pc'[p] \notin Ended
      PROVE  /\ Complete(p)' => wasComplete'[p]
             /\ reply'[p] = "ok" /\ nonSpineDeps(p)' \subseteq connectedNames'[p]
                => wasComplete'[p]
  <2>1. Complete(p) => wasComplete[p]
    BY <1>2, <1>4 DEF AnswerWasTrue
  <2>2. CASE p = o /\ reply'[p] = "ok"
    <3>1. /\ spineUp /\ connectedNames'[p] = consumers
          /\ nonSpineDeps(p)' = nonSpineDeps(p) /\ wasComplete'[p] = wasComplete[p]
      BY <1>2, <2>2
    <3>2. nonSpineDeps(p) \subseteq consumers => wasComplete[p]
      BY <2>1, <3>1 DEF Complete
    <3> QED BY <1>2, <2>1, <3>1, <3>2
  <2>3. CASE p # o
    <3>1. pc[p] \notin Ended /\ reply'[p] = reply[p] /\ connectedNames'[p] = connectedNames[p]
      BY <1>2, <1>4, <2>3
    <3>2. reply[p] = "ok" /\ nonSpineDeps(p) \subseteq connectedNames[p] => wasComplete[p]
      BY <3>1 DEF AnswerWasTrue
    <3> QED BY <1>2, <2>1, <3>1, <3>2
  <2>4. CASE reply'[p] # "ok"
    BY <1>2, <2>1, <2>4
  <2> QED BY <2>2, <2>3, <2>4
<1>5. AnswerWasTrue'
  BY <1>4 DEF AnswerWasTrue, Ended
<1> QED BY <1>1, <1>3, <1>5

LEMMA CheckOK == ASSUME IInv, NEW o \in Organ, Check(o) PROVE IInv'
<1>0. /\ attempt \in [Organ -> 1 .. MaxRetries] /\ attempt[o] \in 1 .. MaxRetries
      /\ requires \in [Organ -> SUBSET (Organ \cup {Spine})]
  BY DEF IInv, TypeOK
<1>1. CASE Answer(o)
  BY <1>1, AnswerOK
<1>2. CASE HealthOk(o)
  <2>1. PICK l : /\ Got(o, "health", l) /\ l \in {"passed", "consumers"}
                 /\ l = "passed" => nonSpineDeps(o) = {}
    BY <1>2 DEF HealthOk
  <2>2. attempt' = [attempt EXCEPT ![o] = 1]
    BY <1>2 DEF HealthOk
  <2>3. nonSpineDeps(o) = {} => wasComplete[o]
    BY <1>2 DEF HealthOk, Got, IInv, AnswerWasTrue, Ended
  <2> HIDE <1>2
  <2> QED BY <1>0, <2>1, <2>2, <2>3, OneAttempt, GotOK DEF Ended
<1>3. CASE HealthFails(o)
  <2>1. CASE LastAttempt(o)
    <3>1. Got(o, "health", "unreachable") /\ attempt' = attempt
      BY <1>3, <2>1 DEF HealthFails
    <3> QED BY <1>0, <3>1, GotOK DEF Ended
  <2>2. CASE ~LastAttempt(o)
    <3>1. Got(o, "health", "health sleep") /\ attempt' = attempt
      BY <1>3, <2>2 DEF HealthFails
    <3>2. attempt[o] < MaxRetries
      BY <1>0, <2>2, OneMore DEF LastAttempt
    <3> QED BY <1>0, <3>1, <3>2, GotOK DEF Ended
  <2> QED BY <2>1, <2>2
<1>4. CASE AllPresent(o)
  <2>1. wasComplete[o]
    BY <1>4 DEF AllPresent, Got, Missing, IInv, AnswerWasTrue, Ended
  <2> QED BY <1>0, <1>4, <2>1, GotOK DEF AllPresent, Ended
<1>5. CASE SomeMissing(o)
  <2>1. CASE LastAttempt(o)
    <3>1. Got(o, "consumers", "final") /\ attempt' = attempt
      BY <1>5, <2>1 DEF SomeMissing
    <3> QED BY <1>0, <3>1, GotOK DEF Ended
  <2>2. CASE ~LastAttempt(o)
    <3>1. Got(o, "consumers", "consumers sleep") /\ attempt' = attempt
      BY <1>5, <2>2 DEF SomeMissing
    <3>2. attempt[o] < MaxRetries
      BY <1>0, <2>2, OneMore DEF LastAttempt
    <3> QED BY <1>0, <3>1, <3>2, GotOK DEF Ended
  <2> QED BY <2>1, <2>2
<1>6. CASE FinalCheck(o)
  BY <1>0, <1>6, GotOK DEF FinalCheck, Ended
<1>7. ASSUME NEW at, NEW l, Wakes(o, at, l), at \in {"health sleep", "consumers sleep"},
             l \in {"health", "consumers"}
      PROVE  IInv'
  <2>1. attempt[o] < MaxRetries
    BY <1>7 DEF Wakes, IInv, AttemptLeft
  <2>2. attempt[o] + 1 \in 1 .. MaxRetries
    BY <2>1, <1>0, LessIsOther, OneMore
  <2>3. TypeOK' /\ AttemptLeft' /\ EndedIsQuiet' /\ AnswerWasTrue' /\ PassedWasComplete'
    <3>1. pc' = [pc EXCEPT ![o] = l] /\ attempt' = [attempt EXCEPT ![o] = @ + 1]
      BY <1>7 DEF Wakes
    <3>2. attempt' \in [Organ -> 1 .. MaxRetries]
      BY <2>2, <3>1, <1>0
    <3>3. pc' \in [Organ -> Ended \cup {"health", "health sleep", "consumers",
                                        "consumers sleep", "final"}]
      BY <1>7, <3>1 DEF IInv, TypeOK
    <3>4. wasComplete' \in [Organ -> BOOLEAN] /\ AnswerWasTrue' /\ PassedWasComplete'
      BY <1>7, <3>1, <3>3, RememberOK DEF Wakes, Ended, IInv, TypeOK
    <3>5. TypeOK'
      BY <1>7, <3>2, <3>3, <3>4 DEF Wakes, IInv, TypeOK, spineVars
    <3>6. AttemptLeft' /\ EndedIsQuiet'
      BY <1>7, <3>1 DEF IInv, TypeOK, AttemptLeft, EndedIsQuiet, Wakes, Ended
    <3> QED BY <3>4, <3>5, <3>6
  <2> QED BY <2>3 DEF IInv
<1> QED BY <1>1, <1>2, <1>3, <1>4, <1>5, <1>6, <1>7 DEF Check

LEMMA StepIInv == ASSUME IInv, [Next]_vars PROVE IInv'
<1> USE DEF IInv, TypeOK, AttemptLeft, EndedIsQuiet
<1>1. CASE UNCHANGED vars
  BY <1>1 DEF vars, checkVars, spineVars, AnswerWasTrue, PassedWasComplete,
              Complete, nonSpineDeps
<1>2. CASE SpineStarts \/ SpineStops
  <2>1. Remember /\ UNCHANGED <<requires, checkVars>> /\ spineUp' \in BOOLEAN
        /\ consumers' \subseteq Organ
    BY <1>2 DEF SpineStarts, SpineStops
  <2>2. wasComplete' \in [Organ -> BOOLEAN] /\ AnswerWasTrue' /\ PassedWasComplete'
    BY <2>1, RememberOK DEF checkVars
  <2> QED BY <2>1, <2>2 DEF checkVars
<1>3. ASSUME NEW o \in Organ, OrganConnects(o) \/ OrganLeaves(o)
      PROVE  IInv'
  <2>1. Remember /\ UNCHANGED <<requires, checkVars, spineUp>> /\ consumers' \subseteq Organ
    BY <1>3 DEF OrganConnects, OrganLeaves
  <2>2. wasComplete' \in [Organ -> BOOLEAN] /\ AnswerWasTrue' /\ PassedWasComplete'
    BY <2>1, RememberOK DEF checkVars
  <2> QED BY <2>1, <2>2 DEF checkVars
<1>4. ASSUME NEW o \in Organ, Boot(o)
      PROVE  IInv'
  <2>1. PICK l \in {"passed", "health"} :
          pc' = [pc EXCEPT ![o] = l] /\ (l = "passed" => requires[o] = {})
    BY <1>4 DEF Boot
  <2>2. Remember /\ UNCHANGED <<requires, attempt, reply, connectedNames, spineVars>>
    BY <1>4 DEF Boot
  <2>3. reply[o] = "none"
    BY <1>4 DEF Boot, Ended
  <2>4. wasComplete' \in [Organ -> BOOLEAN] /\ AnswerWasTrue' /\ PassedWasComplete'
    BY <2>1, <2>2, <2>3, RememberOK DEF Ended
  <2> QED BY <2>1, <2>2, <2>3, <2>4 DEF spineVars, Ended
<1>5. ASSUME NEW o \in Organ, OrganDies(o)
      PROVE  IInv'
  <2>1. /\ Remember /\ UNCHANGED <<requires, spineUp>>
        /\ pc' = [pc EXCEPT ![o] = "gone"] /\ reply' = [reply EXCEPT ![o] = "none"]
        /\ connectedNames' = [connectedNames EXCEPT ![o] = {}]
        /\ attempt' = [attempt EXCEPT ![o] = 1] /\ consumers' \subseteq Organ
    BY <1>5 DEF OrganDies
  <2>2. wasComplete' \in [Organ -> BOOLEAN] /\ AnswerWasTrue' /\ PassedWasComplete'
    BY <2>1, RememberOK DEF Ended
  <2> QED BY <2>1, <2>2, OneAttempt DEF Ended
<1>6. ASSUME NEW o \in Organ, Check(o) PROVE IInv'
  BY <1>6, CheckOK
<1> QED
  BY <1>1, <1>2, <1>3, <1>4, <1>5, <1>6 DEF Next

LEMMA Invariance == Spec => []IInv
BY InitIInv, StepIInv, PTL DEF Spec

\* Every variable keeps its type; no attempt is made beyond the limit.
THEOREM Typing == Spec => []TypeOK
BY Invariance, PTL DEF IInv

\* An organ never boots on dependencies that were not all connected at one
\* moment of its check, although the answer is looked at later than given.
THEOREM BootJustified == Spec => []PassedWasComplete
BY Invariance, PTL DEF IInv

-----------------------------------------------------------------------------
(* The fleet.                                                              *)

In(s) == {s[i] : i \in 1 .. Len(s)}

Before(s, i) == {s[j] : j \in 1 .. i - 1}

Distinct(s) == \A i, j \in 1 .. Len(s) : i # j => s[i] # s[j]

\* What an organ of s requires comes before it in s, or is in H.
InOrder(s, H) == \A i \in 1 .. Len(s) : graph(s[i]) \subseteq H \cup Before(s, i)

Handled == {n \in Node : status[n] \in {"skipped", "ready", "timeout"}}

FleetTypes ==
  /\ organs \subseteq Node
  /\ inDegree \in [needed -> Nat]
  /\ queue \subseteq needed
  /\ sorted \in Seq(needed) /\ todo \in Seq(needed)
  /\ status \in [Node -> {"pending", "skipped", "starting", "ready", "timeout"}]
  /\ children \subseteq Registered

\* Kahn's algorithm: what is sorted is in order, and of each other organ the
\* requirements that are not sorted yet are counted.
SortInv ==
  main = "sort" =>
    /\ Distinct(sorted) /\ InOrder(sorted, {})
    /\ \A n \in needed : inDegree[n] = Cardinality(graph(n) \ In(sorted))
    /\ queue = {n \in needed \ In(sorted) : inDegree[n] = 0}
    /\ Cardinality(In(sorted)) = Len(sorted)
    /\ \A n \in Node : status[n] = "pending"

\* The loop over the order: what is left is in order after what is done.
Looping == main \in {"next", "wait"}

LoopInv ==
  Looping =>
    /\ Distinct(todo) /\ InOrder(todo, Handled)
    /\ \A i \in 1 .. Len(todo) :
         IF i = 1 /\ main = "wait" THEN status[todo[i]] = "starting"
                                   ELSE status[todo[i]] = "pending"
    /\ main = "wait" => todo # <<>>

\* A server answers only in an organ whose check has passed.
ListenInv == \A o \in listening \cap Organ : pc[o] = "passed"

FleetInv ==
  /\ IInv /\ FleetTypes /\ SortInv /\ LoopInv /\ ListenInv
  /\ SortRight /\ ReadyWasComplete

-----------------------------------------------------------------------------
(* The boot graph and its closure.                                         *)

LEMMA GraphType ==
  ASSUME requires \in [Organ -> SUBSET (Organ \cup {Spine})], NEW n
  PROVE  graph(n) \subseteq Node /\ IsFiniteSet(graph(n))
<1>1. IsFiniteSet(Organ \cup {Spine})
  BY FleetAssumption, FS_AddElement
<1>2. graph(n) \subseteq Organ \cup {Spine}
  BY DEF graph
<1> QED BY <1>1, <1>2, FS_Subset DEF Node

LEMMA NeededClosed ==
  ASSUME requires \in [Organ -> SUBSET (Organ \cup {Spine})]
  PROVE  needed \subseteq Node /\ \A n \in needed : graph(n) \subseteq needed
<1>1. needed \subseteq Node
  BY DEF needed, getTransitiveDeps
<1>2. ASSUME NEW n \in needed, NEW d \in graph(n)
      PROVE  d \in needed
  <2>1. d \in Node
    BY <1>2, GraphType
  <2>2. ASSUME NEW T \in SUBSET Node, organs \subseteq T, \A m \in T : graph(m) \subseteq T
        PROVE  d \in T
    BY <1>2, <2>2 DEF needed, getTransitiveDeps
  <2> QED BY <2>1, <2>2 DEF needed, getTransitiveDeps
<1> QED BY <1>1, <1>2

LEMMA FiniteNode == IsFiniteSet(Node)
BY FleetAssumption, FS_AddElement, FS_Union DEF Node

LEMMA SameGraph ==
  ASSUME UNCHANGED <<requires, organs>>
  PROVE  needed' = needed /\ \A n : graph(n)' = graph(n)
BY DEF needed, getTransitiveDeps, graph

-----------------------------------------------------------------------------
(* The fleet as so many checks.                                            *)

LEMMA StepIsCheck ==
  ASSUME IInv, FleetTypes, [FleetNext]_allVars
  PROVE  [Next]_vars /\ UNCHANGED organs /\ UNCHANGED requires
<1>1. CASE UNCHANGED allVars
  BY <1>1 DEF allVars, fleetVars, vars
<1>2. CASE Main
  <2>1. CASE Spawn
    <3>1. CASE Head(todo) = Spine
      BY <2>1, <3>1 DEF Spawn, vars
    <3>2. CASE Head(todo) # Spine
      <4>1. Head(todo) \in Organ /\ Boot(Head(todo)) /\ UNCHANGED organs
        BY <2>1, <3>2, FleetAssumption DEF Spawn
      <4> QED BY <4>1 DEF Next, Boot
    <3> QED BY <3>1, <3>2
  <2>2. CASE (\E n \in Node : SortStep(n)) \/ SortEnds \/ Skip \/ SpawnError
             \/ Healthy \/ TimedOut \/ Finish \/ Exit
    BY <2>2 DEF SortStep, SortEnds, Skip, SpawnError, Healthy, TimedOut, WaitEnds,
                Finish, Exit, vars
  <2> QED BY <1>2, <2>1, <2>2 DEF Main
<1>3. CASE Signal
  BY <1>3 DEF Signal, vars
<1>4. CASE SpineListens
  BY <1>4 DEF SpineListens, SpineStarts, InOrgans, Next
<1>5. ASSUME NEW o \in Organ, OrganChecks(o) PROVE [Next]_vars /\ UNCHANGED <<organs, requires>>
  <2>1. UNCHANGED requires
    BY <1>5 DEF OrganChecks, Check, Answer, HealthOk, HealthFails, AllPresent,
                SomeMissing, FinalCheck, Wakes, Got
  <2> QED BY <1>5, <2>1 DEF OrganChecks, fleetVars, Next
<1>6. ASSUME NEW o \in Organ, OrganListens(o) PROVE [Next]_vars /\ UNCHANGED <<organs, requires>>
  BY <1>6 DEF OrganListens, InOrgans, vars
<1>7. ASSUME NEW o \in Organ, Connection(o) PROVE [Next]_vars /\ UNCHANGED <<organs, requires>>
  BY <1>7 DEF Connection, OrganConnects, OrganLeaves, fleetVars, Next
<1>8. ASSUME NEW n \in Node, Dies(n) PROVE [Next]_vars /\ UNCHANGED <<organs, requires>>
  <2>1. CASE n = Spine
    BY <1>8, <2>1 DEF Dies, InOrgans, SpineStops, Next, vars
  <2>2. CASE n # Spine
    <3>1. n \in Organ
      BY <1>8, <2>2, FleetAssumption DEF Dies, FleetTypes
    <3> QED BY <1>8, <2>2, <3>1 DEF Dies, InOrgans, OrganDies, Next
  <2> QED BY <2>1, <2>2
<1> QED
  BY <1>1, <1>2, <1>3, <1>4, <1>5, <1>6, <1>7, <1>8 DEF FleetNext


LEMMA FleetInitInv == FleetInit => FleetInv
<1> SUFFICES ASSUME FleetInit PROVE FleetInv
  OBVIOUS
<1> USE DEF FleetInit
<1>1. IInv
  BY InitIInv
<1>2. requires \in [Organ -> SUBSET (Organ \cup {Spine})]
  BY DEF Init
<1>3. \A n : IsFiniteSet(graph(n)) /\ Cardinality(graph(n)) \in Nat
             /\ (Cardinality(graph(n)) = 0 <=> graph(n) = {})
  BY <1>2, GraphType, FS_CardinalityType, FS_EmptySet
<1>4. organs \subseteq Node
  BY FleetAssumption
<1>5. FleetTypes
  BY <1>3, <1>4 DEF FleetTypes
<1>6. SortInv
  <2>1. In(sorted) = {} /\ Distinct(sorted) /\ InOrder(sorted, {}) /\ Len(sorted) = 0
    BY DEF In, Distinct, InOrder
  <2>2. Cardinality(In(sorted)) = Len(sorted)
    BY <2>1, FS_EmptySet
  <2>3. \A n \in needed : inDegree[n] = Cardinality(graph(n) \ In(sorted))
    BY <2>1
  <2>4. queue = {n \in needed \ In(sorted) : inDegree[n] = 0}
    BY <1>3, <2>1
  <2> QED BY <2>1, <2>2, <2>3, <2>4 DEF SortInv
<1>7. LoopInv /\ ListenInv
  BY DEF LoopInv, Looping, ListenInv
<1>8. SortRight /\ ReadyWasComplete
  <2>1. needed \subseteq Node /\ Organ \subseteq Node
    BY <1>2, NeededClosed DEF Node
  <2> QED BY <2>1 DEF SortRight, ReadyWasComplete
<1> QED BY <1>1, <1>5, <1>6, <1>7, <1>8 DEF FleetInv

-----------------------------------------------------------------------------
(* The sort.                                                               *)

LEMMA AppendIn ==
  ASSUME NEW S, NEW s \in Seq(S), NEW n \in S
  PROVE  /\ In(Append(s, n)) = In(s) \cup {n}
         /\ \A i \in 1 .. Len(s) : Before(Append(s, n), i) = Before(s, i)
         /\ Before(Append(s, n), Len(s) + 1) = In(s)
BY AppendProperties, LenProperties DEF In, Before

LEMMA SortStepOK ==
  ASSUME IInv, FleetTypes, SortInv, NEW n \in Node, SortStep(n)
  PROVE  SortInv'
<1>1. /\ main = "sort" /\ n \in queue /\ sorted' = Append(sorted, n)
      /\ UNCHANGED <<requires, organs, main, status>>
  BY DEF SortStep, vars
<1>2. requires \in [Organ -> SUBSET (Organ \cup {Spine})]
  BY DEF IInv, TypeOK
<1>3. needed' = needed /\ \A m : graph(m)' = graph(m)
  BY <1>1, SameGraph
<1>4. /\ Distinct(sorted) /\ InOrder(sorted, {})
      /\ \A m \in needed : inDegree[m] = Cardinality(graph(m) \ In(sorted))
      /\ queue = {m \in needed \ In(sorted) : inDegree[m] = 0}
      /\ Cardinality(In(sorted)) = Len(sorted)
  BY <1>1 DEF SortInv
<1>5. n \in needed /\ n \notin In(sorted) /\ inDegree[n] = 0
  BY <1>1, <1>4
<1>6. sorted \in Seq(needed) /\ In(sorted) \subseteq needed
  BY DEF FleetTypes, In
<1>7. /\ sorted' \in Seq(needed) /\ Len(sorted') = Len(sorted) + 1 /\ Len(sorted) \in Nat
      /\ \A i \in 1 .. Len(sorted) : sorted'[i] = sorted[i]
      /\ sorted'[Len(sorted) + 1] = n
      /\ In(sorted') = In(sorted) \cup {n}
      /\ \A i \in 1 .. Len(sorted) : Before(sorted', i) = Before(sorted, i)
      /\ Before(sorted', Len(sorted) + 1) = In(sorted)
  BY <1>1, <1>5, <1>6, AppendIn, AppendProperties, LenProperties
<1>8. \A m : IsFiniteSet(graph(m) \ In(sorted))
  BY <1>2, GraphType, FS_Subset
<1>9. graph(n) \subseteq In(sorted)
  <2>1. Cardinality(graph(n) \ In(sorted)) = 0
    BY <1>4, <1>5
  <2> QED BY <1>8, <2>1, FS_EmptySet
<1>10. Distinct(sorted')
  <2>1. \A i \in 1 .. Len(sorted) : sorted[i] # n
    BY <1>5 DEF In
  <2>2. \A i \in 1 .. Len(sorted') : i \in 1 .. Len(sorted) \/ i = Len(sorted) + 1
    BY <1>7
  <2>3. ASSUME NEW i \in 1 .. Len(sorted'), NEW j \in 1 .. Len(sorted'), i # j
        PROVE  sorted'[i] # sorted'[j]
    BY <1>4, <1>7, <2>1, <2>2, <2>3 DEF Distinct
  <2> QED BY <2>3 DEF Distinct
<1>11. InOrder(sorted, {})'
  <2>1. \A i \in 1 .. Len(sorted') : i \in 1 .. Len(sorted) \/ i = Len(sorted) + 1
    BY <1>7
  <2>2. ASSUME NEW i \in 1 .. Len(sorted') PROVE graph(sorted'[i]) \subseteq Before(sorted', i)
    <3>1. CASE i = Len(sorted) + 1
      BY <1>7, <1>9, <3>1
    <3>2. CASE i \in 1 .. Len(sorted)
      BY <1>4, <1>7, <3>2 DEF InOrder
    <3> QED BY <2>1, <3>1, <3>2
  <2> QED BY <1>3, <2>2 DEF InOrder, Before
<1> DEFINE neighbors == {m \in needed : n \in graph(m)}
<1>12. /\ \A m \in needed : inDegree'[m] = IF m \in neighbors THEN inDegree[m] - 1 ELSE inDegree[m]
       /\ queue' = (queue \ {n}) \cup {m \in neighbors : inDegree'[m] = 0}
  BY DEF SortStep, IsReady
<1>13. ASSUME NEW m \in needed
       PROVE  inDegree'[m] = Cardinality(graph(m) \ In(sorted'))
  <2>1. graph(m) \ In(sorted') = (graph(m) \ In(sorted)) \ {n}
    BY <1>7
  <2>2. n \in graph(m) \ In(sorted) <=> m \in neighbors
    BY <1>5
  <2>3. Cardinality((graph(m) \ In(sorted)) \ {n}) =
          IF n \in graph(m) \ In(sorted) THEN Cardinality(graph(m) \ In(sorted)) - 1
                                         ELSE Cardinality(graph(m) \ In(sorted))
    BY <1>8, FS_RemoveElement
  <2>4. inDegree[m] = Cardinality(graph(m) \ In(sorted))
    BY <1>4, <1>13
  <2>5. inDegree'[m] = IF m \in neighbors THEN inDegree[m] - 1 ELSE inDegree[m]
    BY <1>12, <1>13
  <2> HIDE DEF neighbors
  <2> QED BY <2>1, <2>2, <2>3, <2>4, <2>5
<1>14. \A m \in neighbors : m \notin In(sorted) /\ m # n
  <2>1. \A m \in In(sorted) : graph(m) \subseteq In(sorted)
    <3>1. ASSUME NEW m \in In(sorted) PROVE graph(m) \subseteq In(sorted)
      <4>1. PICK i \in 1 .. Len(sorted) : m = sorted[i]
        BY DEF In
      <4>2. graph(m) \subseteq Before(sorted, i)
        BY <1>4, <4>1 DEF InOrder
      <4>3. Before(sorted, i) \subseteq In(sorted)
        BY <1>7 DEF Before, In
      <4> QED BY <4>2, <4>3
    <3> QED BY <3>1
  <2> QED BY <1>5, <1>9, <2>1
<1>15. queue' = {m \in needed \ In(sorted') : inDegree'[m] = 0}
  <2> HIDE DEF neighbors
  <2>1. \A m \in needed : m \notin neighbors => inDegree'[m] = inDegree[m]
    BY <1>12
  <2>2. \A m \in neighbors : m \in needed /\ inDegree[m] # 0
    <3>1. ASSUME NEW m \in neighbors PROVE inDegree[m] # 0
      <4>1. m \in needed /\ n \in graph(m) \ In(sorted)
        BY <1>5 DEF neighbors
      <4> QED BY <1>4, <1>8, <4>1, FS_EmptySet
    <3> QED BY <3>1 DEF neighbors
  <2> QED BY <1>4, <1>7, <1>12, <1>14, <2>1, <2>2
<1>16. Cardinality(In(sorted')) = Len(sorted')
  <2>1. IsFiniteSet(In(sorted))
    BY <1>2, <1>6, NeededClosed, FiniteNode, FS_Subset
  <2> QED BY <1>4, <1>5, <1>7, <2>1, FS_AddElement
<1>17. \A m \in Node : status'[m] = "pending"
  BY <1>1 DEF SortInv
<1>18. \A m \in needed' : inDegree'[m] = Cardinality(graph(m)' \ In(sorted'))
  BY <1>3, <1>13
<1>19. queue' = {m \in needed' \ In(sorted') : inDegree'[m] = 0}
  BY <1>3, <1>15
<1> QED
  BY <1>10, <1>11, <1>16, <1>17, <1>18, <1>19 DEF SortInv, In, Distinct

\* A sort that ends early leaves a set of organs each of which waits for
\* another of them; a complete one has everybody in order.
LEMMA SortEndsOK ==
  ASSUME IInv, FleetTypes, SortInv, SortRight, SortEnds
  PROVE  LoopInv' /\ SortRight' /\ SortInv'
<1>1. /\ main = "sort" /\ queue = {}
      /\ UNCHANGED <<requires, organs, sorted, status>>
  BY DEF SortEnds, vars, sortVars
<1>2. requires \in [Organ -> SUBSET (Organ \cup {Spine})]
  BY DEF IInv, TypeOK
<1>3. needed' = needed /\ (\A m : graph(m)' = graph(m)) /\ needed \subseteq Node
  BY <1>1, <1>2, SameGraph, NeededClosed
<1>4. /\ Distinct(sorted) /\ InOrder(sorted, {})
      /\ \A m \in needed : inDegree[m] = Cardinality(graph(m) \ In(sorted))
      /\ queue = {m \in needed \ In(sorted) : inDegree[m] = 0}
      /\ Cardinality(In(sorted)) = Len(sorted)
      /\ \A m \in Node : status[m] = "pending"
  BY <1>1 DEF SortInv
<1>5. CASE Len(sorted) # Cardinality(needed)
  <2>1. main' = "rejected"
    BY <1>5 DEF SortEnds
  <2> DEFINE S == needed \ In(sorted)
  <2>2. In(sorted) \subseteq needed
    BY DEF In, FleetTypes
  <2>3. S # {}
    <3>1. S = {} => In(sorted) = needed
      BY <2>2
    <3>2. In(sorted) # needed
      BY <1>4, <1>5
    <3> QED BY <3>1, <3>2
  <2>4. ASSUME NEW m \in S PROVE graph(m) \cap S # {}
    <3>1. Cardinality(graph(m) \ In(sorted)) # 0
      BY <1>1, <1>4
    <3>2. graph(m) \ In(sorted) # {}
      BY <3>1, FS_EmptySet
    <3> QED BY <1>2, <3>2, NeededClosed
  <2>5. SortRight'
    BY <1>1, <1>3, <1>4, <2>3, <2>4 DEF SortRight
  <2> QED BY <2>1, <2>5 DEF LoopInv, Looping, SortInv
<1>6. CASE Len(sorted) = Cardinality(needed)
  <2>1. main' = "next" /\ todo' = sorted
    BY <1>6 DEF SortEnds
  <2>2. InOrder(todo, Handled)'
    <3>1. \A i \in 1 .. Len(todo') : graph(todo'[i]) \subseteq Before(todo', i)
      BY <1>4, <2>1 DEF InOrder
    <3> QED BY <1>3, <3>1 DEF InOrder, Before
  <2>3. \A i \in 1 .. Len(todo') : status'[todo'[i]] = "pending"
    BY <1>1, <1>3, <1>4, <2>1 DEF FleetTypes
  <2>4. LoopInv'
    BY <1>4, <2>1, <2>2, <2>3 DEF LoopInv, Distinct
  <2>5. SortRight'
    BY <1>1, <1>3, <1>4, <2>1 DEF SortRight
  <2> QED BY <2>1, <2>4, <2>5 DEF SortInv
<1> QED BY <1>5, <1>6

-----------------------------------------------------------------------------
(* The loop over the order.                                                *)

\* The head of the order is logged as handled, and the loop goes on.
LEMMA HandledOK ==
  ASSUME IInv, FleetTypes, LoopInv, SortRight, UNCHANGED <<requires, organs>>,
         Looping, todo # <<>>, NEW what \in {"skipped", "ready", "timeout"},
         Log(Head(todo), what), todo' = Tail(todo), main' = "next"
  PROVE  LoopInv' /\ SortRight'
<1>1. requires \in [Organ -> SUBSET (Organ \cup {Spine})]
  BY DEF IInv, TypeOK
<1>2. needed' = needed /\ (\A m : graph(m)' = graph(m)) /\ needed \subseteq Node
  BY <1>1, SameGraph, NeededClosed
<1>3. /\ todo \in Seq(needed) /\ Head(todo) = todo[1] /\ Len(todo) \in Nat /\ 1 \in 1 .. Len(todo)
      /\ Len(todo') = Len(todo) - 1
      /\ \A i \in 1 .. Len(todo') : i + 1 \in 1 .. Len(todo) /\ todo'[i] = todo[i + 1]
  BY HeadTailProperties, EmptySeq, LenProperties DEF FleetTypes
<1>4. \A i \in 1 .. Len(todo) : todo[i] \in Node
  BY <1>2, <1>3, ElementOfSeq
<1>5. \A m \in Node : status'[m] = IF m = todo[1] THEN what ELSE status[m]
  BY <1>3 DEF Log, FleetTypes
<1>6. Handled' = Handled \cup {todo[1]}
  BY <1>3, <1>4, <1>5 DEF Handled
<1>7. /\ Distinct(todo) /\ InOrder(todo, Handled)
      /\ \A i \in 1 .. Len(todo) : i # 1 => status[todo[i]] = "pending"
  BY DEF LoopInv
<1>8. ASSUME NEW i \in 1 .. Len(todo')
      PROVE  /\ graph(todo'[i]) \subseteq Handled' \cup Before(todo', i)
             /\ status'[todo'[i]] = "pending"
  <2>1. i + 1 \in 1 .. Len(todo) /\ todo'[i] = todo[i + 1] /\ i + 1 # 1
    BY <1>3, <1>8
  <2>2. Before(todo, i + 1) \subseteq {todo[1]} \cup Before(todo', i)
    <3>1. ASSUME NEW j \in 1 .. (i + 1) - 1
          PROVE  todo[j] \in {todo[1]} \cup Before(todo', i)
      <4>1. CASE j = 1
        BY <4>1
      <4>2. CASE j # 1
        <5>1. j - 1 \in 1 .. i - 1 /\ j - 1 \in 1 .. Len(todo') /\ (j - 1) + 1 = j
          BY <1>3, <1>8, <4>2
        <5>2. todo'[j - 1] = todo[j]
          BY <1>3, <5>1
        <5> QED BY <5>1, <5>2 DEF Before
      <4> QED BY <4>1, <4>2
    <3> QED BY <3>1 DEF Before
  <2>3. graph(todo[i + 1]) \subseteq Handled \cup Before(todo, i + 1)
    BY <1>7, <2>1 DEF InOrder
  <2>4. todo[i + 1] # todo[1]
    BY <1>3, <1>7, <2>1 DEF Distinct
  <2> QED BY <1>4, <1>5, <1>6, <1>7, <2>1, <2>2, <2>3, <2>4
<1>9. Distinct(todo')
  BY <1>3, <1>7 DEF Distinct
<1>10. InOrder(todo, Handled)'
  BY <1>2, <1>8 DEF InOrder, Before
<1>11. LoopInv'
  BY <1>8, <1>9, <1>10 DEF LoopInv, Distinct
<1>12. graph(todo[1]) \subseteq Handled
  BY <1>3, <1>7 DEF InOrder, Before
<1>13. ASSUME NEW n \in needed, status'[n] # "pending", NEW d \in graph(n)
       PROVE  status'[d] \in {"skipped", "ready", "timeout"}
  <2>1. d \in Handled
    BY <1>1, <1>2, <1>5, <1>12, <1>13, GraphType DEF SortRight, Handled
  <2> QED BY <1>5, <1>6, <2>1 DEF Handled
<1> QED BY <1>2, <1>11, <1>13 DEF SortRight

\* The head of the order is spawned, and the loop waits for it or is over.
LEMMA SpawnOK ==
  ASSUME IInv, FleetTypes, LoopInv, SortRight, Spawn \/ SpawnError, UNCHANGED requires
  PROVE  LoopInv' /\ SortRight'
<1>1. requires \in [Organ -> SUBSET (Organ \cup {Spine})]
  BY DEF IInv, TypeOK
<1>2. /\ main = "next" /\ todo # <<>> /\ todo' = todo /\ organs' = organs
      /\ main' \in {"wait", "crashed"} /\ Log(Head(todo), "starting")
  BY DEF Spawn, SpawnError
<1>3. needed' = needed /\ (\A m : graph(m)' = graph(m)) /\ needed \subseteq Node
  BY <1>1, <1>2, SameGraph, NeededClosed
<1>4. todo \in Seq(needed) /\ Head(todo) = todo[1] /\ Len(todo) \in Nat /\ 1 \in 1 .. Len(todo)
  BY <1>2, HeadTailProperties, EmptySeq, LenProperties DEF FleetTypes
<1>5. \A i \in 1 .. Len(todo) : todo[i] \in Node
  BY <1>3, <1>4, ElementOfSeq
<1>6. \A m \in Node : status'[m] = IF m = todo[1] THEN "starting" ELSE status[m]
  BY <1>2, <1>4 DEF Log, FleetTypes
<1>7. /\ Distinct(todo) /\ InOrder(todo, Handled)
      /\ \A i \in 1 .. Len(todo) : status[todo[i]] = "pending"
  BY <1>2 DEF LoopInv, Looping
<1>8. Handled' = Handled
  BY <1>4, <1>5, <1>6, <1>7 DEF Handled
<1>9. \A i \in 1 .. Len(todo) :
        IF i = 1 THEN status'[todo[i]] = "starting" ELSE status'[todo[i]] = "pending"
  BY <1>4, <1>5, <1>6, <1>7 DEF Distinct
<1>10. InOrder(todo, Handled)'
  <2>1. \A i \in 1 .. Len(todo') : graph(todo'[i]) \subseteq Handled' \cup Before(todo', i)
    BY <1>2, <1>7, <1>8 DEF InOrder
  <2> QED BY <1>3, <2>1 DEF InOrder, Before
<1>11. LoopInv'
  BY <1>2, <1>7, <1>9, <1>10 DEF LoopInv, Looping, Distinct
<1>12. graph(todo[1]) \subseteq Handled
  BY <1>4, <1>7 DEF InOrder, Before
<1>13. ASSUME NEW n \in needed, status'[n] # "pending", NEW d \in graph(n)
       PROVE  status'[d] \in {"skipped", "ready", "timeout"}
  <2>1. d \in Handled
    BY <1>3, <1>6, <1>12, <1>13, GraphType, <1>1 DEF SortRight, Handled
  <2> QED BY <1>8, <2>1 DEF Handled
<1>14. main' # "rejected"
  BY <1>2
<1> QED BY <1>3, <1>11, <1>13, <1>14 DEF SortRight

\* A step of somebody else.
LEMMA NotInLoop ==
  ASSUME IInv, SortInv, LoopInv, SortRight,
         UNCHANGED <<requires, organs, sortVars, todo, status>>,
         main' = main \/ main' \notin {"sort", "next", "wait", "rejected"}
  PROVE  SortInv' /\ LoopInv' /\ SortRight'
<1>1. needed' = needed /\ \A m : graph(m)' = graph(m)
  BY SameGraph
<1>2. SortInv'
  <2>1. sorted' = sorted /\ queue' = queue /\ inDegree' = inDegree
    BY DEF sortVars
  <2>2. ASSUME InOrder(sorted, {}) PROVE InOrder(sorted, {})'
    <3>1. \A i \in 1 .. Len(sorted') : graph(sorted'[i]) \subseteq {} \cup Before(sorted', i)
      BY <2>1, <2>2 DEF InOrder
    <3> QED BY <1>1, <3>1 DEF InOrder, Before
  <2>3. ASSUME \A n \in needed : inDegree[n] = Cardinality(graph(n) \ In(sorted))
        PROVE  \A n \in needed' : inDegree'[n] = Cardinality(graph(n)' \ In(sorted'))
    BY <1>1, <2>1, <2>3
  <2> QED BY <1>1, <2>1, <2>2, <2>3 DEF SortInv, In, Distinct
<1>3. LoopInv'
  BY <1>1 DEF LoopInv, Looping, Distinct, InOrder, Before, Handled
<1>4. SortRight'
  BY <1>1 DEF SortRight
<1> QED BY <1>2, <1>3, <1>4

-----------------------------------------------------------------------------
(* The organs.                                                             *)

LEMMA CompleteKept ==
  ASSUME IInv, [Next]_vars, NEW o \in Organ, wasComplete[o]
  PROVE  wasComplete'[o]
<1>1. CASE Remember
  BY <1>1 DEF Remember
<1>2. CASE UNCHANGED wasComplete
  BY <1>2
<1>3. Remember \/ UNCHANGED wasComplete
  BY DEF Next, vars, SpineStarts, SpineStops, Boot, Check, OrganConnects, OrganLeaves,
         OrganDies, Answer, HealthOk, HealthFails, AllPresent, SomeMissing, FinalCheck,
         Wakes, Got
<1> QED BY <1>1, <1>2, <1>3

LEMMA CheckKeepsPassed ==
  ASSUME IInv, NEW p \in Organ, Check(p), NEW o \in Organ, pc[o] = "passed"
  PROVE  pc'[o] = "passed"
<1>1. CASE Answer(p)
  BY <1>1 DEF Answer
<1>2. ASSUME NEW at, NEW l, Got(p, at, l) \/ Wakes(p, at, l), at # "passed"
      PROVE  pc'[o] = "passed"
  BY <1>2 DEF Got, Wakes, IInv, TypeOK
<1> QED
  BY <1>1, <1>2 DEF Check, HealthOk, HealthFails, AllPresent, SomeMissing, FinalCheck

LEMMA ListenOK ==
  ASSUME IInv, FleetTypes, ListenInv, [FleetNext]_allVars
  PROVE  ListenInv'
<1>1. CASE UNCHANGED allVars
  BY <1>1 DEF allVars, vars, checkVars, fleetVars, ListenInv
<1>2. CASE Main \/ Signal
  <2>1. listening' = listening
    BY <1>2 DEF Main, SortStep, SortEnds, Skip, Spawn, SpawnError, Healthy, TimedOut,
                WaitEnds, Finish, Exit, Signal
  <2>2. pc' = pc \/ \E h \in Organ : Boot(h)
    <3>1. CASE Spawn
      <4>1. CASE Head(todo) = Spine
        BY <3>1, <4>1 DEF Spawn, vars, checkVars
      <4>2. CASE Head(todo) # Spine
        BY <3>1, <4>2, FleetAssumption DEF Spawn
      <4> QED BY <4>1, <4>2
    <3> QED BY <1>2, <3>1 DEF Main, SortStep, SortEnds, Skip, SpawnError, Healthy, TimedOut,
                WaitEnds, Finish, Exit, Signal, vars, checkVars
  <2>3. CASE pc' = pc
    BY <2>1, <2>3 DEF ListenInv
  <2>4. ASSUME NEW h \in Organ, Boot(h) PROVE ListenInv'
    BY <2>1, <2>4 DEF ListenInv, Boot, IInv, TypeOK
  <2> QED BY <2>2, <2>3, <2>4
<1>3. CASE SpineListens
  BY <1>3, SpineAssumption DEF SpineListens, SpineStarts, checkVars, ListenInv
<1>4. ASSUME NEW p \in Organ, OrganChecks(p) PROVE ListenInv'
  <2>1. listening' = listening
    BY <1>4 DEF OrganChecks, fleetVars
  <2> QED BY <1>4, <2>1, CheckKeepsPassed DEF OrganChecks, ListenInv
<1>5. ASSUME NEW p \in Organ, OrganListens(p) PROVE ListenInv'
  BY <1>5 DEF OrganListens, vars, checkVars, ListenInv
<1>6. ASSUME NEW p \in Organ, Connection(p) PROVE ListenInv'
  BY <1>6 DEF Connection, OrganConnects, OrganLeaves, checkVars, fleetVars, ListenInv
<1>7. ASSUME NEW n \in Node, Dies(n) PROVE ListenInv'
  <2>1. listening' = listening \ {n}
    BY <1>7 DEF Dies
  <2>2. CASE n = Spine
    BY <1>7, <2>1, <2>2 DEF Dies, SpineStops, vars, checkVars, ListenInv
  <2>3. CASE n # Spine
    BY <1>7, <2>1, <2>3 DEF Dies, OrganDies, ListenInv, IInv, TypeOK
  <2> QED BY <2>2, <2>3
<1> QED BY <1>1, <1>2, <1>3, <1>4, <1>5, <1>6, <1>7 DEF FleetNext

\* Only an organ whose server answered is newly called ready.
LEMMA ReadyOK ==
  ASSUME IInv, FleetTypes, ListenInv, ReadyWasComplete, [FleetNext]_allVars
  PROVE  ReadyWasComplete'
<1>1. [Next]_vars /\ UNCHANGED requires
  BY StepIsCheck
<1>2. ASSUME NEW o \in Organ, status'[o] = "ready" PROVE status[o] = "ready" \/ o \in listening
  <2>1. CASE UNCHANGED status
    BY <1>2, <2>1
  <2>2. ASSUME NEW what, Log(Head(todo), what), what # "ready" \/ Head(todo) \in listening
        PROVE  status[o] = "ready" \/ o \in listening
    BY <1>2, <2>2 DEF Log, FleetTypes, Node
  <2>3. \/ UNCHANGED status
        \/ Log(Head(todo), "skipped") \/ Log(Head(todo), "starting")
        \/ Log(Head(todo), "timeout")
        \/ Log(Head(todo), "ready") /\ Head(todo) \in listening
    BY DEF FleetNext, allVars, fleetVars, Main, SortStep, SortEnds, Skip, Spawn, SpawnError,
           Healthy, TimedOut, WaitEnds, Finish, Exit, Signal, SpineListens, OrganChecks,
           OrganListens, Connection, Dies, InOrgans
  <2> QED BY <2>1, <2>2, <2>3
<1>3. ASSUME NEW o \in Organ, status'[o] = "ready", requires'[o] # {} PROVE wasComplete'[o]
  <2>1. status[o] = "ready" => wasComplete[o]
    BY <1>1, <1>3 DEF ReadyWasComplete
  <2>2. o \in listening => wasComplete[o]
    BY <1>1, <1>3 DEF ListenInv, IInv, PassedWasComplete
  <2> QED BY <1>1, <1>2, <1>3, <2>1, <2>2, CompleteKept
<1> QED BY <1>3 DEF ReadyWasComplete

-----------------------------------------------------------------------------
LEMMA TypesOK ==
  ASSUME IInv, FleetTypes, LoopInv, SortInv', [FleetNext]_allVars
  PROVE  FleetTypes'
<1>1. UNCHANGED <<requires, organs>>
  BY StepIsCheck
<1>2. requires \in [Organ -> SUBSET (Organ \cup {Spine})]
  BY DEF IInv, TypeOK
<1>3. needed' = needed /\ (\A m : graph(m)' = graph(m)) /\ needed \subseteq Node
  BY <1>1, <1>2, SameGraph, NeededClosed
<1>4. ASSUME NEW n \in Node, SortStep(n) PROVE FleetTypes'
  <2>1. n \in needed
    BY <1>4 DEF SortStep, FleetTypes
  <2>2. sorted' \in Seq(needed) /\ queue' \subseteq needed
    BY <1>4, <2>1, AppendProperties DEF SortStep, FleetTypes
  <2>3. inDegree' \in [needed -> Nat]
    <3>1. inDegree' = [m \in needed |-> IF m \in {k \in needed : n \in graph(k)}
                                       THEN inDegree[m] - 1 ELSE inDegree[m]]
      BY <1>4 DEF SortStep
    <3>2. ASSUME NEW m \in needed PROVE inDegree'[m] \in Nat
      <4>1. inDegree'[m] = Cardinality(graph(m) \ In(sorted'))
        <5>1. main' = "sort"
          BY <1>4 DEF SortStep
        <5>2. \A k \in needed' : inDegree'[k] = Cardinality(graph(k)' \ In(sorted'))
          BY <5>1 DEF SortInv, In
        <5> QED BY <1>3, <5>2
      <4>2. IsFiniteSet(graph(m) \ In(sorted'))
        BY <1>2, GraphType, FS_Subset
      <4> QED BY <4>1, <4>2, FS_CardinalityType
    <3> QED BY <3>1, <3>2
  <2> QED BY <1>1, <1>3, <1>4, <2>2, <2>3 DEF SortStep, FleetTypes
<1>5. CASE UNCHANGED <<sortVars, todo, status>> /\ children' \subseteq Registered
  BY <1>1, <1>3, <1>5 DEF FleetTypes, sortVars
<1>6. ASSUME NEW what \in {"skipped", "ready", "timeout"}, todo # <<>>,
             Log(Head(todo), what), todo' = Tail(todo), UNCHANGED <<sortVars, children>>
      PROVE  FleetTypes'
  <2>1. todo' \in Seq(needed)
    BY <1>6, HeadTailProperties DEF FleetTypes
  <2>2. status' \in [Node -> {"pending", "skipped", "starting", "ready", "timeout"}]
    BY <1>6 DEF FleetTypes, Log
  <2> QED BY <1>1, <1>3, <1>6, <2>1, <2>2 DEF FleetTypes, sortVars
<1>7. CASE Spawn \/ SpawnError
  <2>1. status' \in [Node -> {"pending", "skipped", "starting", "ready", "timeout"}]
    BY <1>7 DEF Spawn, SpawnError, FleetTypes, Log
  <2> QED BY <1>1, <1>3, <1>7, <2>1 DEF Spawn, SpawnError, FleetTypes, sortVars
<1>8. CASE SortEnds
  BY <1>1, <1>3, <1>8 DEF SortEnds, FleetTypes, sortVars
<1>9. CASE Skip \/ Healthy \/ TimedOut
  <2>1. todo # <<>>
    BY <1>9 DEF Skip, Healthy, TimedOut, LoopInv, Looping
  <2> QED BY <1>6, <1>9, <2>1 DEF Skip, Healthy, TimedOut, WaitEnds
<1>10. CASE Finish \/ Exit \/ Signal \/ UNCHANGED allVars
  BY <1>5, <1>10 DEF Finish, Exit, Signal, allVars, fleetVars, FleetTypes
<1>11. CASE \/ SpineListens
            \/ \E o \in Organ : OrganChecks(o) \/ OrganListens(o) \/ Connection(o)
            \/ \E n \in Node : Dies(n)
  <2>1. UNCHANGED <<sortVars, todo, status>> /\ children' \subseteq Registered
    BY <1>11 DEF SpineListens, OrganChecks, OrganListens, Connection, Dies, InOrgans,
                 fleetVars, FleetTypes
  <2> QED BY <1>5, <2>1
<1> QED
  BY <1>4, <1>7, <1>8, <1>9, <1>10, <1>11 DEF FleetNext, Main

LEMMA OrderOK ==
  ASSUME IInv, FleetTypes, SortInv, LoopInv, SortRight, [FleetNext]_allVars
  PROVE  SortInv' /\ LoopInv' /\ SortRight'
<1>1. UNCHANGED <<requires, organs>>
  BY StepIsCheck
<1>2. ASSUME NEW n \in Node, SortStep(n) PROVE SortInv' /\ LoopInv' /\ SortRight'
  <2>1. main = "sort" /\ main' = "sort" /\ status' = status
    BY <1>2 DEF SortStep
  <2>2. \A m \in needed : status[m] = "pending"
    <3>1. needed \subseteq Node
      BY NeededClosed DEF IInv, TypeOK
    <3> QED BY <2>1, <3>1 DEF SortInv
  <2>3. SortRight'
    BY <1>1, <2>1, <2>2, SameGraph DEF SortRight
  <2> QED BY <1>2, <2>1, <2>3, SortStepOK DEF LoopInv, Looping
<1>3. CASE SortEnds
  BY <1>3, SortEndsOK
<1>4. CASE Skip \/ Healthy \/ TimedOut
  <2>1. Looping /\ todo # <<>> /\ main' = "next" /\ todo' = Tail(todo)
    BY <1>4 DEF Skip, Healthy, TimedOut, WaitEnds, LoopInv, Looping
  <2>2. \E what \in {"skipped", "ready", "timeout"} : Log(Head(todo), what)
    BY <1>4 DEF Skip, Healthy, TimedOut, WaitEnds
  <2>3. LoopInv' /\ SortRight'
    BY <1>1, <2>1, <2>2, HandledOK
  <2> QED BY <2>1, <2>3 DEF SortInv
<1>5. CASE Spawn \/ SpawnError
  <2>1. LoopInv' /\ SortRight'
    BY <1>1, <1>5, SpawnOK
  <2> QED BY <1>5, <2>1 DEF Spawn, SpawnError, SortInv
<1>6. CASE Finish \/ Exit \/ Signal \/ UNCHANGED allVars
  BY <1>1, <1>6, NotInLoop DEF Finish, Exit, Signal, allVars, fleetVars
<1>7. CASE \/ SpineListens
           \/ \E o \in Organ : OrganChecks(o) \/ OrganListens(o) \/ Connection(o)
           \/ \E n \in Node : Dies(n)
  <2>1. UNCHANGED <<sortVars, todo, status, main>>
    BY <1>7 DEF SpineListens, OrganChecks, OrganListens, Connection, Dies, InOrgans, fleetVars
  <2> QED BY <1>1, <2>1, NotInLoop
<1> QED
  BY <1>2, <1>3, <1>4, <1>5, <1>6, <1>7 DEF FleetNext, Main

LEMMA FleetStepInv == ASSUME FleetInv, [FleetNext]_allVars PROVE FleetInv'
<1>1. IInv'
  BY StepIsCheck, StepIInv DEF FleetInv
<1>2. SortInv' /\ LoopInv' /\ SortRight'
  BY OrderOK DEF FleetInv
<1>3. FleetTypes' /\ ListenInv' /\ ReadyWasComplete'
  BY <1>2, TypesOK, ListenOK, ReadyOK DEF FleetInv
<1> QED BY <1>1, <1>2, <1>3 DEF FleetInv

LEMMA FleetInvariance == FleetSpec => []FleetInv
BY FleetInitInv, FleetStepInv, PTL DEF FleetSpec

\* In a fleet that start-all starts, every organ's check is a behaviour of
\* DependencyCheck, so that all that is proved of the check alone holds there.
THEOREM FleetIsChecks == FleetSpec => Spec
<1>1. FleetInit => Init
  BY DEF FleetInit
<1>2. FleetInv /\ [FleetNext]_allVars => [Next]_vars
  BY StepIsCheck DEF FleetInv
<1> QED BY <1>1, <1>2, FleetInvariance, PTL DEF FleetSpec, Spec

\* Whatever the boot graph, an organ is started only after all it requires, and
\* only a graph with a circle is rejected.
THEOREM OrderIsRight == FleetSpec => []SortRight
BY FleetInvariance, PTL DEF FleetInv

\* Whatever is asked for and however the organs come and go, what start-all
\* calls ready has had all its dependencies connected.
THEOREM ReadyIsJustified == FleetSpec => []ReadyWasComplete
BY FleetInvariance, PTL DEF FleetInv

=============================================================================
