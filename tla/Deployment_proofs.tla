-------------------------- MODULE Deployment_proofs --------------------------
(***************************************************************************)
(* Theorems about Deployment, for any calls, models, targets, snapshots,   *)
(* timeouts and durations of requests, and whatever an operator does.      *)
(***************************************************************************)
EXTENDS Deployment, TLAPS

Step(c) == CallStep(c) \/ ChildServes(c) \/ ChildExits(c)
Operate(t) == ManualStarts(t) \/ ManualStops(t)

\* How far a call has come, and what it has still to download.
PhasesAgree ==
  \A c \in Call :
    /\ pc[c] \in {"probe", "exists", "list"} => left[c] = File /\ file[c] = none
    /\ pc[c] = "fetch" => file[c] \notin left[c]
    /\ pc[c] = "write" => file[c] \in left[c]
    /\ pc[c] = "spawn" =>
         \/ left[c] = {}
         \/ left[c] = File /\ file[c] = none /\ ModelOf(c) \in dir

\* A directory is made by a download.
MadeByDownload ==
  \A m \in dir : \E d \in Call : ModelOf(d) = m /\ file[d] # none

\* Under a name that was opened is a whole file of that name, or the call that
\* opened it last has not come further, or was not given a file.
OpenedByWriter ==
  \A m \in Model, n \in Name :
    opener[m][n] # none =>
      LET e == opener[m][n] IN
      /\ ModelOf(e) = m /\ file[e] # none
      /\ \/ \E f \in File : Basename[m][f] = n /\ content[m][n] = f
         \/ Basename[m][file[e]] = n /\ file[e] \in left[e]
         \/ e \in shorted

\* The file being written is open under its name.
WriterOpened ==
  \A c \in Call :
    pc[c] = "write" => opener[ModelOf(c)][Basename[ModelOf(c)][file[c]]] # none

\* A download leaves out no file that the hub gave it.
NoneLeftOut ==
  \A d \in Call : \A f \in File \ left[d] :
    d \in shorted \/ opener[ModelOf(d)][Basename[ModelOf(d)][f]] # none

\* A call's time runs from its first request, and it sleeps from a refusal on,
\* by the deadline only.
Clock ==
  \A c \in Call :
    /\ pc[c] \notin {"ready", "sleep"} \cup Ended => waited[c] = 0
    /\ pc[c] = "sleep" => waited[c] = refused[c] /\ waited[c] <= Timeout

\* A call that has probed and goes on beside an operator's server has not been
\* shown it.
NotShown ==
  \A c \in Call :
    pc[c] \notin {"probe"} \cup Ended /\ manual[TargetOf(c)] # none => c \in unseen

FilesInv == PhasesAgree /\ MadeByDownload /\ OpenedByWriter /\ WriterOpened /\ NoneLeftOut
IInv == TypeOK /\ FilesInv /\ Clock /\ TimeoutJustified /\ NotShown

-----------------------------------------------------------------------------
LEMMA InitIInv == Init => IInv
<1> SUFFICES ASSUME Init PROVE IInv
  OBVIOUS
<1> USE RequestsAssumption, FileAssumption, TimeAssumption DEF Init
<1>1. TypeOK
  BY DEF TypeOK
<1>2. PhasesAgree /\ MadeByDownload /\ WriterOpened /\ NoneLeftOut
  BY DEF PhasesAgree, MadeByDownload, WriterOpened, NoneLeftOut
<1>3. OpenedByWriter
  BY DEF OpenedByWriter
<1>4. Clock /\ TimeoutJustified /\ NotShown
  BY DEF Clock, TimeoutJustified, NotShown
<1> QED BY <1>1, <1>2, <1>3, <1>4 DEF IInv, FilesInv

LEMMA Asked ==
  ASSUME TypeOK, NEW c \in Call
  PROVE  ModelOf(c) \in Model /\ TargetOf(c) \in Target
BY DEF TypeOK, Args, ModelOf, TargetOf

\* Where a file of a model goes.
LEMMA PlaceOf ==
  ASSUME NEW m \in Model, NEW f \in File
  PROVE  Basename[m][f] \in Name
BY FileAssumption

LEMMA StepTypeOK ==
  ASSUME TypeOK, PhasesAgree, NEW c \in Call, Step(c)
  PROVE  TypeOK'
<1> USE DEF Step, TypeOK, Goto, Ended, cacheVars, serverVars
<1>0. ModelOf(c) \in Model
  BY Asked
<1>1. CASE ChildServes(c) \/ ChildExits(c)
  BY <1>1 DEF ChildServes, ChildExits
<1>2. CASE Probe(c) \/ Exists(c) \/ HubFails(c)
  BY <1>2 DEF Probe, Exists, HubFails
<1>3. CASE ListSnapshot(c)
  BY <1>3 DEF ListSnapshot, FetchNext
<1>4. CASE FileAnswered(c)
  <2>1. PICK f \in left[c] :
          /\ file' = [file EXCEPT ![c] = f]
          /\ content' = [content EXCEPT ![ModelOf(c)][Basename[ModelOf(c)][f]] = "partial"]
          /\ opener' = [opener EXCEPT ![ModelOf(c)][Basename[ModelOf(c)][f]] = c]
          /\ left' \in {left, [left EXCEPT ![c] = @ \ {f}]}
          /\ shorted' \in {shorted, shorted \cup {c}}
          /\ \E place \in {"write", "spawn", "fetch"} : Goto(c, place)
    BY <1>4 DEF FileAnswered, FetchNext
  <2>2. f \in File /\ Basename[ModelOf(c)][f] \in Name
    BY <1>0, <2>1, PlaceOf
  <2>3. (content \in [Model -> [Name -> {"absent", "partial"} \cup File]])'
    BY <1>0, <2>1, <2>2
  <2>4. (opener \in [Model -> [Name -> Call \cup {none}]])'
    BY <1>0, <2>1, <2>2
  <2>5. UNCHANGED <<waited, args, child, servedAs, manual, refused, unseen>>
    BY <1>4 DEF FileAnswered
  <2>6. dir' \subseteq Model
    BY <1>0, <1>4 DEF FileAnswered
  <2>7. \E place \in {"write", "spawn", "fetch"} : pc' = [pc EXCEPT ![c] = place]
    BY <2>1, Zenon DEF Goto
  <2>8. (pc \in [Call -> {"probe", "exists", "list", "fetch", "write",
                          "spawn", "ready", "sleep"} \cup Ended])'
    BY <2>7
  <2>9. (left \in [Call -> SUBSET File])' /\ shorted' \subseteq Call
    BY <2>1
  <2>10. (file \in [Call -> File \cup {none}])'
    BY <2>1, <2>2
  <2> QED BY <2>3, <2>4, <2>5, <2>6, <2>8, <2>9, <2>10
<1>5. CASE FileWritten(c)
  <2>1. file[c] \in File
    BY <1>5 DEF FileWritten, PhasesAgree
  <2>2. Basename[ModelOf(c)][file[c]] \in Name
    BY <1>0, <2>1, PlaceOf
  <2>3. (content \in [Model -> [Name -> {"absent", "partial"} \cup File]])'
    BY <1>0, <1>5, <2>1, <2>2 DEF FileWritten
  <2> QED BY <1>5, <2>3 DEF FileWritten, FetchNext
<1>6. CASE Spawn(c) \/ SpawnFails(c) \/ ReadyOk(c)
  BY <1>6 DEF Spawn, SpawnFails, ReadyOk
<1>7. CASE ReadyRefused(c)
  <2>1. PICK elapsed \in RequestTime :
          /\ waited' = [waited EXCEPT ![c] = @ + elapsed]
          /\ refused' = [refused EXCEPT ![c] = waited[c] + elapsed]
    BY <1>7 DEF ReadyRefused
  <2>2. waited[c] + elapsed \in Nat
    BY TimeAssumption
  <2>3. waited' \in [Call -> Nat] /\ refused' \in [Call -> Nat]
    BY <2>1, <2>2
  <2> QED BY <1>7, <2>3 DEF ReadyRefused
<1>8. CASE Wake(c)
  <2>1. waited' \in [Call -> Nat]
    BY <1>8 DEF Wake, Slept
  <2>2. \E place \in {"ready", "timedOut"} : pc' = [pc EXCEPT ![c] = place]
    BY <1>8, Zenon DEF Wake
  <2> QED BY <1>8, <2>1, <2>2 DEF Wake
<1> QED
  BY <1>1, <1>2, <1>3, <1>4, <1>5, <1>6, <1>7, <1>8 DEF CallStep

LEMMA StepClock ==
  ASSUME TypeOK, Clock, TimeoutJustified, NEW c \in Call, Step(c)
  PROVE  (Clock /\ TimeoutJustified)'
<1> USE TimeAssumption
        DEF Step, TypeOK, Clock, TimeoutJustified, Goto, Ended, cacheVars, serverVars
<1>1. CASE ChildServes(c) \/ ChildExits(c)
  BY <1>1 DEF ChildServes, ChildExits
<1>2. CASE Probe(c) \/ Exists(c) \/ HubFails(c)
  BY <1>2 DEF Probe, Exists, HubFails
<1>3. CASE ListSnapshot(c) \/ FileAnswered(c) \/ FileWritten(c)
  BY <1>3 DEF ListSnapshot, FileAnswered, FileWritten, FetchNext
<1>4. CASE Spawn(c) \/ SpawnFails(c) \/ ReadyOk(c)
  BY <1>4 DEF Spawn, SpawnFails, ReadyOk
<1>5. CASE ReadyRefused(c)
  BY <1>5 DEF ReadyRefused
<1>6. CASE Wake(c)
  BY <1>6 DEF Wake, InTime, Slept
<1> QED BY <1>1, <1>2, <1>3, <1>4, <1>5, <1>6 DEF CallStep

LEMMA StepNotShown ==
  ASSUME TypeOK, NotShown, NEW c \in Call, Step(c)
  PROVE  NotShown'
<1> USE DEF Step, TypeOK, NotShown, TargetOf, Goto, Ended, cacheVars, serverVars
<1>1. CASE ChildServes(c) \/ ChildExits(c)
  BY <1>1 DEF ChildServes, ChildExits
<1>2. CASE Probe(c)
  BY <1>2 DEF Probe, Free
<1>3. CASE Exists(c) \/ HubFails(c)
  BY <1>3 DEF Exists, HubFails
<1>4. CASE ListSnapshot(c) \/ FileAnswered(c) \/ FileWritten(c)
  BY <1>4 DEF ListSnapshot, FileAnswered, FileWritten, FetchNext
<1>5. CASE Spawn(c) \/ SpawnFails(c) \/ ReadyOk(c)
  BY <1>5 DEF Spawn, SpawnFails, ReadyOk
<1>6. CASE ReadyRefused(c) \/ Wake(c)
  BY <1>6 DEF ReadyRefused, Wake
<1> QED BY <1>1, <1>2, <1>3, <1>4, <1>5, <1>6 DEF CallStep

-----------------------------------------------------------------------------
(* Downloads: only the steps of one call's step 2 touch what they are about *)

LEMMA ElsewhereFilesInv ==
  ASSUME TypeOK, FilesInv, NEW c \in Call, Step(c),
         ~ListSnapshot(c), ~FileAnswered(c), ~FileWritten(c)
  PROVE  FilesInv'
<1>1. UNCHANGED <<args, left, file, dir, content, opener, shorted>>
  BY DEF Step, CallStep, ChildServes, ChildExits, Probe, Exists, HubFails, Spawn,
         SpawnFails, ReadyOk, ReadyRefused, Wake, cacheVars, serverVars
<1>2. PhasesAgree'
  <2> USE <1>1 DEF FilesInv, PhasesAgree, TypeOK, ModelOf, Goto, Step
  <2>1. CASE ChildServes(c) \/ ChildExits(c)
    BY <2>1 DEF ChildServes, ChildExits
  <2>2. CASE Probe(c)
    BY <2>2 DEF Probe
  <2>3. CASE Exists(c) \/ HubFails(c)
    BY <2>3 DEF Exists, HubFails
  <2>4. CASE Spawn(c) \/ SpawnFails(c) \/ ReadyOk(c)
    BY <2>4 DEF Spawn, SpawnFails, ReadyOk
  <2>5. CASE ReadyRefused(c) \/ Wake(c)
    BY <2>5 DEF ReadyRefused, Wake
  <2> QED BY <2>1, <2>2, <2>3, <2>4, <2>5 DEF CallStep
<1>3. \A d \in Call : pc'[d] = "write" => pc[d] = "write"
  BY DEF TypeOK, Goto, Step, CallStep, ChildServes, ChildExits, Probe, Exists,
         HubFails, Spawn, SpawnFails, ReadyOk, ReadyRefused, Wake
<1>4. WriterOpened'
  BY <1>1, <1>3 DEF FilesInv, WriterOpened, ModelOf
<1>5. MadeByDownload' /\ OpenedByWriter' /\ NoneLeftOut'
  BY <1>1 DEF FilesInv, MadeByDownload, OpenedByWriter, NoneLeftOut, ModelOf
<1> QED BY <1>2, <1>4, <1>5 DEF FilesInv

LEMMA ListFilesInv ==
  ASSUME TypeOK, FilesInv, NEW c \in Call, ListSnapshot(c)
  PROVE  FilesInv'
<1> USE DEF FilesInv, TypeOK, ModelOf
<1>1. PICK omitted \in SUBSET Omissible :
        /\ left' = [left EXCEPT ![c] = File \ omitted]
        /\ shorted' = IF omitted = {} THEN shorted ELSE shorted \cup {c}
  BY DEF ListSnapshot
<1>2. UNCHANGED <<args, file, dir, content, opener>> /\ left[c] = File /\ file[c] = none
  BY DEF ListSnapshot, cacheVars, serverVars, PhasesAgree
<1>3. PhasesAgree'
  BY <1>1, <1>2, NoneAssumption DEF ListSnapshot, FetchNext, AllFetched, Goto, PhasesAgree
<1>4. MadeByDownload'
  BY <1>2 DEF MadeByDownload
<1>5. OpenedByWriter'
  BY <1>1, <1>2 DEF OpenedByWriter
<1>6. WriterOpened'
  BY <1>2 DEF ListSnapshot, FetchNext, Goto, WriterOpened
<1>7. NoneLeftOut'
  <2> SUFFICES ASSUME NEW d \in Call, NEW f \in File \ left'[d]
               PROVE  d \in shorted' \/ opener[ModelOf(d)][Basename[ModelOf(d)][f]] # none
    BY <1>2 DEF NoneLeftOut
  <2>1. CASE d = c
    BY <1>1, <2>1
  <2>2. CASE d # c
    BY <1>1, <2>2 DEF NoneLeftOut
  <2> QED BY <2>1, <2>2
<1> QED BY <1>3, <1>4, <1>5, <1>6, <1>7

LEMMA AnsweredFilesInv ==
  ASSUME TypeOK, FilesInv, NEW c \in Call, FileAnswered(c)
  PROVE  FilesInv'
<1> DEFINE m == ModelOf(c)
<1> USE DEF FilesInv
<1>0. m \in Model
  BY Asked
<1>1. PICK f \in left[c] :
        /\ file' = [file EXCEPT ![c] = f]
        /\ content' = [content EXCEPT ![m][Basename[m][f]] = "partial"]
        /\ opener' = [opener EXCEPT ![m][Basename[m][f]] = c]
        /\ \/ Goto(c, "write") /\ UNCHANGED <<left, shorted>>
           \/ /\ f \in Omissible
              /\ left' = [left EXCEPT ![c] = @ \ {f}]
              /\ shorted' = shorted \cup {c}
              /\ FetchNext(c)
  BY DEF FileAnswered
<1>2. f \in File /\ f # none /\ Basename[m][f] \in Name
  BY <1>0, NoneAssumption, PlaceOf DEF TypeOK
<1>3. args' = args /\ dir' = dir \cup {m}
  BY DEF FileAnswered, serverVars
<1>4. PhasesAgree'
  <2>1. CASE Goto(c, "write") /\ UNCHANGED <<left, shorted>>
    BY <1>1, <1>2, <1>3, <2>1 DEF TypeOK, ModelOf, Goto, PhasesAgree
  <2>2. CASE /\ left' = [left EXCEPT ![c] = @ \ {f}]
             /\ FetchNext(c)
    BY <1>1, <1>2, <1>3, <2>2 DEF TypeOK, ModelOf, FetchNext, AllFetched, Goto, PhasesAgree
  <2> QED BY <1>1, <2>1, <2>2
<1>5. \A d \in Call : file[d] # none => file'[d] # none
  BY <1>1, <1>2 DEF TypeOK
<1>6. file'[c] = f
  BY <1>1 DEF TypeOK
<1>7. MadeByDownload'
  BY <1>2, <1>3, <1>5, <1>6 DEF MadeByDownload, ModelOf
<1>8. opener'[m][Basename[m][f]] = c
  BY <1>0, <1>1, <1>2 DEF TypeOK
<1>9. c # none
  BY NoneAssumption
<1>10. \A k \in Model, n \in Name : opener[k][n] # none => opener'[k][n] # none
  BY <1>0, <1>1, <1>2, <1>9 DEF TypeOK
<1>11. OpenedByWriter'
  <2> SUFFICES ASSUME NEW k \in Model, NEW n \in Name, opener'[k][n] # none
               PROVE  LET e == opener'[k][n] IN
                      /\ ModelOf(e) = k /\ file'[e] # none
                      /\ \/ \E g \in File : Basename[k][g] = n /\ content'[k][n] = g
                         \/ Basename[k][file'[e]] = n /\ file'[e] \in left'[e]
                         \/ e \in shorted'
    BY <1>3, Zenon DEF OpenedByWriter, ModelOf
  <2>1. CASE k = m /\ n = Basename[m][f]
    <3>1. f \in left'[c] \/ c \in shorted'
      BY <1>1
    <3> QED BY <1>2, <1>6, <1>8, <2>1, <3>1
  <2>2. CASE ~(k = m /\ n = Basename[m][f])
    <3> DEFINE e == opener[k][n]
    <3>1. opener'[k][n] = e /\ content'[k][n] = content[k][n]
      BY <1>0, <1>1, <1>2, <2>2 DEF TypeOK
    <3>2. e \in Call /\ ModelOf(e) = k /\ file[e] # none
      BY <3>1 DEF TypeOK, OpenedByWriter
    <3>3. file'[e] # none
      BY <1>5, <3>2
    <3>4. CASE e # c
      <4>1. file'[e] = file[e] /\ left'[e] = left[e] /\ (e \in shorted => e \in shorted')
        BY <1>1, <3>2, <3>4 DEF TypeOK
      <4> QED BY <3>1, <3>2, <3>3, <4>1 DEF OpenedByWriter
    <3>5. CASE e = c
      <4>1. file[c] \notin left[c]
        BY DEF FileAnswered, PhasesAgree
      <4>2. c \in shorted => c \in shorted'
        BY <1>1
      <4> QED BY <3>1, <3>2, <3>3, <3>5, <4>1, <4>2 DEF OpenedByWriter
    <3> QED BY <3>4, <3>5
  <2> QED BY <2>1, <2>2
<1>12. WriterOpened'
  <2> SUFFICES ASSUME NEW d \in Call, pc'[d] = "write"
               PROVE  opener'[ModelOf(d)][Basename[ModelOf(d)][file'[d]]] # none
    BY <1>3 DEF WriterOpened, ModelOf
  <2>1. CASE d = c
    BY <1>6, <1>8, <1>9, <2>1
  <2>2. CASE d # c
    <3>1. pc[d] = "write" /\ file'[d] = file[d]
      BY <1>1, <2>2 DEF TypeOK, Goto, FetchNext
    <3>2. file[d] \in File
      BY <3>1 DEF PhasesAgree, TypeOK
    <3>3. Basename[ModelOf(d)][file[d]] \in Name /\ ModelOf(d) \in Model
      BY <3>2, Asked, PlaceOf
    <3> QED BY <1>10, <3>1, <3>3 DEF WriterOpened
  <2> QED BY <2>1, <2>2
<1>13. NoneLeftOut'
  <2> SUFFICES ASSUME NEW d \in Call, NEW g \in File \ left'[d]
               PROVE  d \in shorted' \/ opener'[ModelOf(d)][Basename[ModelOf(d)][g]] # none
    BY <1>3 DEF NoneLeftOut, ModelOf
  <2>1. g \notin left[d] \/ (d = c /\ d \in shorted')
    BY <1>1 DEF TypeOK
  <2>2. ModelOf(d) \in Model /\ Basename[ModelOf(d)][g] \in Name
    BY Asked, PlaceOf
  <2>3. d \in shorted => d \in shorted'
    BY <1>1
  <2> QED BY <1>10, <2>1, <2>2, <2>3 DEF NoneLeftOut
<1> QED BY <1>4, <1>7, <1>11, <1>12, <1>13

LEMMA WrittenFilesInv ==
  ASSUME TypeOK, FilesInv, NEW c \in Call, FileWritten(c)
  PROVE  FilesInv'
<1> DEFINE m == ModelOf(c)
<1> DEFINE p == Basename[m][file[c]]
<1> USE DEF FilesInv
<1>1. /\ UNCHANGED <<args, file, dir, opener, shorted>>
      /\ content' = [content EXCEPT ![m][p] = IF opener[m][p] = c THEN file[c] ELSE @]
      /\ left' = [left EXCEPT ![c] = @ \ {file[c]}]
  BY DEF FileWritten, serverVars
<1>2. file[c] \in left[c] /\ file[c] \in File /\ file[c] # none
  BY NoneAssumption DEF FileWritten, PhasesAgree, TypeOK
<1>3. m \in Model /\ p \in Name
  BY <1>2, Asked, PlaceOf
<1>4. PhasesAgree'
  BY <1>1, <1>2 DEF FileWritten, FetchNext, AllFetched, Goto, PhasesAgree, TypeOK, ModelOf
<1>5. MadeByDownload'
  BY <1>1 DEF MadeByDownload, ModelOf
<1>6. \A d \in Call : pc'[d] = "write" => pc[d] = "write"
  BY DEF FileWritten, FetchNext, Goto, TypeOK
<1>7. WriterOpened'
  BY <1>1, <1>6 DEF WriterOpened, ModelOf
<1>8. OpenedByWriter'
  <2> SUFFICES ASSUME NEW k \in Model, NEW n \in Name, opener[k][n] # none
               PROVE  LET e == opener[k][n] IN
                      /\ ModelOf(e) = k /\ file[e] # none
                      /\ \/ \E g \in File : Basename[k][g] = n /\ content'[k][n] = g
                         \/ Basename[k][file[e]] = n /\ file[e] \in left'[e]
                         \/ e \in shorted
    BY <1>1, Zenon DEF OpenedByWriter, ModelOf
  <2> DEFINE e == opener[k][n]
  <2>1. /\ e \in Call /\ ModelOf(e) = k /\ file[e] # none
        /\ \/ \E g \in File : Basename[k][g] = n /\ content[k][n] = g
           \/ Basename[k][file[e]] = n /\ file[e] \in left[e]
           \/ e \in shorted
    BY DEF OpenedByWriter, TypeOK
  <2>2. CASE k = m /\ n = p /\ e = c
    <3>1. content'[k][n] = file[c]
      BY <1>1, <1>3, <2>2 DEF TypeOK
    <3> QED BY <1>2, <2>1, <2>2, <3>1
  <2>3. CASE ~(k = m /\ n = p /\ e = c)
    <3>1. content'[k][n] = content[k][n]
      BY <1>1, <1>3, <2>3 DEF TypeOK
    <3>2. e # c => left'[e] = left[e]
      BY <1>1, <2>1 DEF TypeOK
    <3>3. e = c => Basename[k][file[e]] # n
      BY <2>1, <2>3
    <3> QED BY <2>1, <3>1, <3>2, <3>3
  <2> QED BY <2>2, <2>3
<1>9. NoneLeftOut'
  <2> SUFFICES ASSUME NEW d \in Call, NEW g \in File \ left'[d], d \notin shorted
               PROVE  opener[ModelOf(d)][Basename[ModelOf(d)][g]] # none
    BY <1>1 DEF NoneLeftOut, ModelOf
  <2>1. CASE g \notin left[d]
    BY <2>1 DEF NoneLeftOut
  <2>2. CASE g \in left[d]
    <3>1. d = c /\ g = file[c]
      BY <1>1, <2>2 DEF TypeOK
    <3> QED BY <3>1 DEF WriterOpened, FileWritten
  <2> QED BY <2>1, <2>2
<1> QED BY <1>4, <1>5, <1>7, <1>8, <1>9

\* Who finds its model incomplete was not given a file, or finds another
\* call that is to blame: the name that does not hold its file was opened last
\* by one that is still writing it, has failed or was not given a file, or
\* was never opened, by a download that is not through.
LEMMA IncompleteIsAmiss ==
  ASSUME TypeOK, FilesInv, NEW c \in Call, pc[c] = "spawn", Distinct(ModelOf(c)),
         ~Whole(ModelOf(c)), c \notin shorted
  PROVE  \E d \in Call \ {c} : ModelOf(d) = ModelOf(c) /\ Amiss(d)
<1> DEFINE m == ModelOf(c)
<1>0. m \in Model
  BY Asked
<1>1. PICK f \in File : content[m][Basename[m][f]] # f
  BY DEF Whole
<1> DEFINE p == Basename[m][f]
<1>2. p \in Name
  BY <1>0, PlaceOf
<1>3. \/ left[c] = {}
      \/ left[c] = File /\ file[c] = none /\ m \in dir
  BY DEF FilesInv, PhasesAgree
<1>4. ~Amiss(c)
  BY <1>3 DEF Amiss
<1>5. CASE opener[m][p] = none
  <2>1. \A d \in Call : ModelOf(d) = m => d \in shorted \/ f \in left[d]
    BY <1>5 DEF FilesInv, NoneLeftOut
  <2>2. m \in dir
    BY <1>3, <2>1
  <2>3. PICK d \in Call : ModelOf(d) = m /\ file[d] # none
    BY <2>2 DEF FilesInv, MadeByDownload
  <2>4. Amiss(d)
    BY <2>1, <2>3 DEF Amiss
  <2> QED BY <1>4, <2>3, <2>4
<1>6. CASE opener[m][p] # none
  <2> DEFINE e == opener[m][p]
  <2>1. e \in Call
    BY <1>0, <1>2, <1>6 DEF TypeOK
  <2>2. /\ ModelOf(e) = m /\ file[e] # none
        /\ \/ \E g \in File : Basename[m][g] = p /\ content[m][p] = g
           \/ Basename[m][file[e]] = p /\ file[e] \in left[e]
           \/ e \in shorted
    BY <1>0, <1>2, <1>6 DEF FilesInv, OpenedByWriter
  <2>3. ~ \E g \in File : Basename[m][g] = p /\ content[m][p] = g
    BY <1>1 DEF Distinct
  <2>4. Amiss(e)
    BY <2>2, <2>3 DEF Amiss
  <2> QED BY <1>4, <2>1, <2>2, <2>4
<1> QED BY <1>5, <1>6

LEMMA WholeFollows == TypeOK /\ FilesInv => WholeUnlessDisturbed
BY IncompleteIsAmiss, Zenon DEF WholeUnlessDisturbed

-----------------------------------------------------------------------------
LEMMA OperateIInv ==
  ASSUME IInv, NEW t \in Target, Operate(t)
  PROVE  IInv'
<1>1. UNCHANGED <<pc, left, file, waited, args, dir, content, opener, child, servedAs,
                  shorted, refused>>
  BY DEF Operate, ManualStarts, ManualStops, cacheVars
<1>2. \E v \in Model \cup {none} : manual' = [manual EXCEPT ![t] = v]
  BY ManualAssumption DEF Operate, ManualStarts, ManualStops, Args
<1>3. unseen' \subseteq Call /\ unseen \subseteq unseen'
  BY DEF Operate, ManualStarts, ManualStops, IInv, TypeOK
<1>4. TypeOK'
  BY <1>1, <1>2, <1>3 DEF IInv, TypeOK
<1>5. FilesInv' /\ Clock' /\ TimeoutJustified'
  BY <1>1 DEF IInv, FilesInv, PhasesAgree, MadeByDownload, OpenedByWriter,
              WriterOpened, NoneLeftOut, Clock, TimeoutJustified, ModelOf
<1>6. NotShown'
  <2> SUFFICES ASSUME NEW c \in Call, pc[c] \notin {"probe"} \cup Ended,
                      manual'[TargetOf(c)] # none
               PROVE  c \in unseen'
    BY <1>1 DEF NotShown, TargetOf
  <2>1. CASE TargetOf(c) = t
    <3>1. CASE ManualStarts(t)
      BY <2>1, <3>1 DEF ManualStarts
    <3>2. CASE ManualStops(t)
      BY <2>1, <3>2 DEF ManualStops, IInv, TypeOK
    <3> QED BY <3>1, <3>2 DEF Operate
  <2>2. CASE TargetOf(c) # t
    <3>1. manual'[TargetOf(c)] = manual[TargetOf(c)]
      BY <1>2, <2>2, Asked DEF IInv, TypeOK
    <3> QED BY <1>3, <3>1 DEF IInv, NotShown
  <2> QED BY <2>1, <2>2
<1> QED BY <1>4, <1>5, <1>6 DEF IInv

LEMMA StepIInv == ASSUME IInv, [Next]_vars PROVE IInv'
<1>1. CASE UNCHANGED vars
  BY <1>1 DEF vars, cacheVars, serverVars, IInv, TypeOK, FilesInv, PhasesAgree,
         MadeByDownload, OpenedByWriter, WriterOpened, NoneLeftOut,
         Clock, TimeoutJustified, NotShown, ModelOf, TargetOf
<1>2. ASSUME NEW c \in Call, Step(c)
      PROVE  IInv'
  <2>1. TypeOK' /\ (Clock /\ TimeoutJustified)' /\ NotShown'
    BY <1>2, StepTypeOK, StepClock, StepNotShown, Zenon DEF IInv, FilesInv
  <2>2. FilesInv'
    BY <1>2, ElsewhereFilesInv, ListFilesInv, AnsweredFilesInv, WrittenFilesInv, Zenon
       DEF IInv
  <2> QED BY <2>1, <2>2, Zenon DEF IInv
<1>3. ASSUME NEW t \in Target, Operate(t)
      PROVE  IInv'
  BY <1>3, OperateIInv
<1> QED BY <1>1, <1>2, <1>3 DEF Next, Step, Operate

LEMMA Invariance == Spec => []IInv
BY InitIInv, StepIInv, PTL DEF Spec

\* Every variable of a deployment keeps its type.
THEOREM Typing == Spec => []TypeOK
BY Invariance, PTL DEF IInv

\* However many calls, models, targets and files, whatever files the hub leaves
\* out and however basenames coincide: a server is started on an incomplete
\* model whose files have names of their own only if the hub left a file out
\* for this call, or another call's download of it is going on, has failed or
\* was not given a file.
THEOREM StartsOnWholeModels == Spec => []WholeUnlessDisturbed
<1>1. IInv => WholeUnlessDisturbed
  BY WholeFollows DEF IInv
<1> QED BY <1>1, Invariance, PTL

\* For every timeout and however long the requests take: no wait asks after its
\* deadline, and none gives up before it or without an answer that came less
\* than an interval before it or later.
THEOREM NoEarlyTimeout == Spec => []TimeoutJustified
BY Invariance, PTL DEF IInv

LEMMA StepReadyIsOwn ==
  ASSUME IInv, NEW c \in Call, ReadyOk(c)
  PROVE  \/ child[c] = "serving"
         \/ \E d \in Call \ {c} : TargetOf(d) = TargetOf(c) /\ child[d] = "serving"
         \/ manual[TargetOf(c)] # none /\ c \in unseen
<1>1. CASE manual[TargetOf(c)] # none
  BY <1>1 DEF ReadyOk, IInv, NotShown, Ended
<1>2. CASE manual[TargetOf(c)] = none
  <2>1. PICK d \in Call : TargetOf(d) = TargetOf(c) /\ child[d] = "serving"
    BY <1>2 DEF ReadyOk, Up, ServingOn
  <2> QED BY <2>1
<1> QED BY <1>1, <1>2

\* The server that a call reports as ready is its own, or another call's on the
\* same target, or an operator's that the probe was not shown, whenever the
\* operator starts and stops his servers and whatever they answer.
THEOREM ReadyIsOwn == Spec => ReadyIsOwnUnlessRival
<1>1. IInv /\ [Next]_vars =>
        [\A c \in Call :
           ReadyOk(c) =>
             \/ child[c] = "serving"
             \/ \E d \in Call \ {c} : TargetOf(d) = TargetOf(c) /\ child[d] = "serving"
             \/ manual[TargetOf(c)] # none /\ c \in unseen]_vars
  BY StepReadyIsOwn, Zenon
<1> QED BY <1>1, Invariance, PTL DEF Spec, ReadyIsOwnUnlessRival

=============================================================================
