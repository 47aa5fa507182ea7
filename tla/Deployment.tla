------------------------------ MODULE Deployment ------------------------------
(***************************************************************************)
(* Deployments of Hugging Face models: ensureModelDeployed                 *)
(* (src/lib/hf-orchestrator.js) with the download (src/lib/hf-client.js)   *)
(* and the start of an inference server                                    *)
(* (src/lib/inference-server-bootstrap.js).  Several calls run at once and *)
(* share the cache directory and the deployment targets; an operator       *)
(* starts and stops servers of his own there.                              *)
(*                                                                         *)
(* Time is counted in poll intervals (pollMs) since a call began to wait.  *)
(***************************************************************************)
EXTENDS Naturals

CONSTANTS
  Call,         \* the calls of ensureModelDeployed
  Model,        \* a repo at its pinned revision
  Target,
  Requests,     \* what the calls may be asked for, a set of [Call -> Args]
  File,         \* the files of a snapshot
  Name,         \* the names in a cache directory
  Basename,     \* Basename[m][f]: the last component of a file's path
  Omissible,    \* the files that the hub may leave out
  Manual,       \* what an operator may serve and where, a set of Args
  Timeout,      \* timeoutMs
  RequestTime,  \* how long a request for readiness may take: none times it out
  none

Args == [model : Model, target : Target]
ASSUME RequestsAssumption == Requests \subseteq [Call -> Args]
ASSUME ManualAssumption == Manual \subseteq Args
ASSUME FileAssumption == Omissible \subseteq File /\ Basename \in [Model -> [File -> Name]]
ASSUME TimeAssumption == Timeout \in Nat /\ RequestTime \subseteq Nat
ASSUME NoneAssumption == none \notin Call \cup Model \cup File

VARIABLES
  args,       \* the model and the target of a call
  pc,         \* the await a call stands at, or how it ended
  left,       \* the files that a call has still to download
  file,       \* the file it opened last, or none
  waited,     \* time since a call began to wait for readiness
  dir,        \* the models whose cache directory exists
  content,    \* content[m][n]: "absent", "partial", or the file it is a copy of
  opener,     \* opener[m][n]: the call that opened that name last
  child,      \* the inference server a call spawned
  servedAs,   \* the id under which that server lists its model
  manual,     \* the model an operator serves on a target, or none
  shorted,    \* history: the calls that the hub did not give every file
  refused,    \* history: when a call's last request for readiness came to nothing
  unseen      \* history: the calls whose probe did not show an operator's server

cacheVars == <<dir, content, opener>>
serverVars == <<args, child, servedAs, manual>>
vars == <<pc, left, file, waited, cacheVars, serverVars, shorted, refused, unseen>>

Ended == {"reachable", "occupied", "hubFailed", "spawnFailed", "timedOut", "started"}

Init ==
  /\ args \in Requests
  /\ pc = [c \in Call |-> "probe"]
  /\ left = [c \in Call |-> File] /\ file = [c \in Call |-> none]
  /\ waited = [c \in Call |-> 0] /\ refused = [c \in Call |-> 0]
  /\ dir = {} /\ content = [m \in Model |-> [n \in Name |-> "absent"]]
  /\ opener = [m \in Model |-> [n \in Name |-> none]]
  /\ child = [c \in Call |-> "none"] /\ servedAs = [c \in Call |-> "none"]
  /\ manual = [t \in Target |-> none]
  /\ shorted = {} /\ unseen = {}

ModelOf(c) == args[c].model
TargetOf(c) == args[c].target
Goto(c, place) == pc' = [pc EXCEPT ![c] = place]

-----------------------------------------------------------------------------
(* The servers on a target.                                                *)

ServingOn(t) == {c \in Call : TargetOf(c) = t /\ child[c] = "serving"}
Up(t) == manual[t] # none \/ ServingOn(t) # {}

\* A server listens if its port is free; how it names its model is its own
\* affair, the path it was given or the repo.
ChildServes(c) ==
  /\ child[c] = "loading" /\ ~Up(TargetOf(c))
  /\ child' = [child EXCEPT ![c] = "serving"]
  /\ \E id \in {"repo", "path"} : servedAs' = [servedAs EXCEPT ![c] = id]
  /\ UNCHANGED <<pc, left, file, waited, cacheVars, args, manual, shorted, refused, unseen>>

\* It may end at any time; nobody listens to its exit.
ChildExits(c) ==
  /\ child[c] \in {"loading", "serving"}
  /\ child' = [child EXCEPT ![c] = "exited"]
  /\ servedAs' = [servedAs EXCEPT ![c] = "none"]
  /\ UNCHANGED <<pc, left, file, waited, cacheVars, args, manual, shorted, refused, unseen>>

\* An operator deploys by hand whenever he likes; no call that has probed looks
\* again.
ManualStarts(t) ==
  /\ ~Up(t)
  /\ \E s \in Manual : s.target = t /\ manual' = [manual EXCEPT ![t] = s.model]
  /\ unseen' = unseen \cup {c \in Call : TargetOf(c) = t /\ pc[c] \notin {"probe"} \cup Ended}
  /\ UNCHANGED <<pc, left, file, waited, cacheVars, args, child, servedAs, shorted, refused>>

ManualStops(t) ==
  /\ manual[t] # none
  /\ manual' = [manual EXCEPT ![t] = none]
  /\ UNCHANGED <<pc, left, file, waited, cacheVars, args, child, servedAs, shorted, refused, unseen>>

ServedModel(t) ==
  {<<m, "repo">> : m \in {manual[t]} \ {none}}
    \cup {<<ModelOf(c), servedAs[c]>> : c \in ServingOn(t)}

\* What probeServedModel may return.  It is null (none) where nothing listens,
\* and also for a server that is still loading and answers other than 200, that
\* lists no model, or whose answer is lost or cannot be read.
Answers(t) == ServedModel(t) \cup {none}

-----------------------------------------------------------------------------
(* ensureModelDeployed, steps 1 and 2                                      *)

\* mutant: a target that serves another model is taken over
AlwaysFree(answer) == TRUE

Free(answer) == answer = none

\* probeServedModel answers, and what follows up to the next await.
Probe(c) ==
  LET t == TargetOf(c)
      repo == <<ModelOf(c), "repo">> IN
  /\ pc[c] = "probe"
  /\ \E answer \in Answers(t) :
       /\ \/ answer = repo /\ Goto(c, "reachable")
          \/ answer # repo /\ ~Free(answer) /\ Goto(c, "occupied")
          \/ answer # repo /\ Free(answer) /\ Goto(c, "exists")
       /\ unseen' = IF answer = none /\ manual[t] # none THEN unseen \cup {c} ELSE unseen
  /\ UNCHANGED <<left, file, waited, cacheVars, serverVars, shorted, refused>>

\* The directory stands for the whole snapshot.
Exists(c) ==
  /\ pc[c] = "exists"
  /\ Goto(c, IF ModelOf(c) \in dir THEN "spawn" ELSE "list")
  /\ UNCHANGED <<left, file, waited, cacheVars, serverVars, shorted, refused, unseen>>

\* mutant: the loop ends before the last file
AlmostAll(files) == \E f \in File : files \subseteq {f}

\* The loop over the listing is through.
AllFetched(files) == files = {}

FetchNext(c) == Goto(c, IF AllFetched(left'[c]) THEN "spawn" ELSE "fetch")

\* A listing without siblings is an empty one, and an entry without a name is
\* passed over: whatever it names is all that is downloaded.
ListSnapshot(c) ==
  /\ pc[c] = "list"
  /\ \E omitted \in SUBSET Omissible :
       /\ left' = [left EXCEPT ![c] = File \ omitted]
       /\ shorted' = IF omitted = {} THEN shorted ELSE shorted \cup {c}
  /\ FetchNext(c)
  /\ UNCHANGED <<file, waited, cacheVars, serverVars, refused, unseen>>

\* downloadFile: the directory is made and the file opened under its basename,
\* which empties what bore that name.  An answer without a body leaves it so.
FileAnswered(c) ==
  LET m == ModelOf(c) IN
  /\ pc[c] = "fetch"
  /\ dir' = dir \cup {m}
  /\ \E f \in left[c] :
       /\ file' = [file EXCEPT ![c] = f]
       /\ content' = [content EXCEPT ![m][Basename[m][f]] = "partial"]
       /\ opener' = [opener EXCEPT ![m][Basename[m][f]] = c]
       /\ \/ Goto(c, "write") /\ UNCHANGED <<left, shorted>>
          \/ /\ f \in Omissible
             /\ left' = [left EXCEPT ![c] = @ \ {f}]
             /\ shorted' = shorted \cup {c}
             /\ FetchNext(c)
  /\ UNCHANGED <<waited, serverVars, refused, unseen>>

\* The stream has ended.  Two calls that write one file do so over each other;
\* it is whole when the one that emptied it last is through.  (What two
\* different files of one name make of each other is never both of them.)
FileWritten(c) ==
  LET m == ModelOf(c)
      n == Basename[m][file[c]] IN
  /\ pc[c] = "write"
  /\ content' = [content EXCEPT ![m][n] = IF opener[m][n] = c THEN file[c] ELSE @]
  /\ left' = [left EXCEPT ![c] = @ \ {file[c]}]
  /\ FetchNext(c)
  /\ UNCHANGED <<file, waited, dir, opener, serverVars, shorted, refused, unseen>>

\* A request to the hub fails, or the stream breaks off: what was written stays.
HubFails(c) ==
  /\ pc[c] \in {"list", "fetch", "write"}
  /\ Goto(c, "hubFailed")
  /\ UNCHANGED <<left, file, waited, cacheVars, serverVars, shorted, refused, unseen>>

-----------------------------------------------------------------------------
(* Step 3: startInferenceServer and waitForReadiness                       *)

Spawn(c) ==
  /\ pc[c] = "spawn"
  /\ Goto(c, "ready")
  /\ child' = [child EXCEPT ![c] = "loading"]
  /\ UNCHANGED <<left, file, waited, cacheVars, args, servedAs, manual, shorted, refused, unseen>>

SpawnFails(c) ==
  /\ pc[c] = "spawn"
  /\ Goto(c, "spawnFailed")
  /\ UNCHANGED <<left, file, waited, cacheVars, serverVars, shorted, refused, unseen>>

\* Any server that answers 200 will do, however long it takes.
ReadyOk(c) ==
  /\ pc[c] = "ready" /\ Up(TargetOf(c))
  /\ Goto(c, "started")
  /\ UNCHANGED <<left, file, waited, cacheVars, serverVars, shorted, refused, unseen>>

\* The request fails, or a server that is up answers other than 200, at once or
\* after any time: the request itself has no timeout.
ReadyRefused(c) ==
  /\ pc[c] = "ready"
  /\ \E elapsed \in RequestTime :
       /\ waited' = [waited EXCEPT ![c] = @ + elapsed]
       /\ refused' = [refused EXCEPT ![c] = waited[c] + elapsed]
       /\ Goto(c, IF waited[c] + elapsed > Timeout THEN "timedOut" ELSE "sleep")
  /\ UNCHANGED <<left, file, cacheVars, serverVars, shorted, unseen>>

\* mutant: the deadline itself is too late
BeforeDeadline(w) == w < Timeout

InTime(w) == w <= Timeout

\* mutant: the time asleep does not count
Overslept(w) == w

Slept(w) == w + 1

Wake(c) ==
  /\ pc[c] = "sleep"
  /\ waited' = [waited EXCEPT ![c] = Slept(@)]
  /\ Goto(c, IF InTime(waited'[c]) THEN "ready" ELSE "timedOut")
  /\ UNCHANGED <<left, file, cacheVars, serverVars, shorted, refused, unseen>>

CallStep(c) ==
  \/ Probe(c) \/ Exists(c)
  \/ ListSnapshot(c) \/ FileAnswered(c) \/ FileWritten(c) \/ HubFails(c)
  \/ Spawn(c) \/ SpawnFails(c) \/ ReadyOk(c) \/ ReadyRefused(c) \/ Wake(c)

Next ==
  \/ \E c \in Call : CallStep(c) \/ ChildServes(c) \/ ChildExits(c)
  \/ \E t \in Target : ManualStarts(t) \/ ManualStops(t)

Spec == Init /\ [][Next]_vars

\* Requests are answered or fail, and timers fire.  Nothing is assumed of the
\* servers, neither of those that were spawned nor of an operator's.
Fairness == \A c \in Call : WF_vars(CallStep(c))
FairSpec == Spec /\ Fairness

-----------------------------------------------------------------------------
TypeOK ==
  /\ args \in [Call -> Args]
  /\ pc \in [Call -> {"probe", "exists", "list", "fetch", "write",
                      "spawn", "ready", "sleep"} \cup Ended]
  /\ left \in [Call -> SUBSET File] /\ file \in [Call -> File \cup {none}]
  /\ waited \in [Call -> Nat] /\ refused \in [Call -> Nat]
  /\ dir \subseteq Model
  /\ content \in [Model -> [Name -> {"absent", "partial"} \cup File]]
  /\ opener \in [Model -> [Name -> Call \cup {none}]]
  /\ child \in [Call -> {"none", "loading", "serving", "exited"}]
  /\ servedAs \in [Call -> {"none", "repo", "path"}]
  /\ manual \in [Target -> Model \cup {none}]
  /\ shorted \subseteq Call /\ unseen \subseteq Call

Whole(m) == \A f \in File : content[m][Basename[m][f]] = f
Distinct(m) == \A f, g \in File : Basename[m][f] = Basename[m][g] => f = g

\* A download that has begun and is going on, has broken off, or was not given
\* every file.
Amiss(d) == file[d] # none /\ (left[d] # {} \/ d \in shorted)

\* A model whose files all have names of their own is incomplete when a server
\* is started on it only if the hub did not give this call every file, or the
\* download of another call is amiss: a call by itself never cuts its download
\* short.
WholeUnlessDisturbed ==
  \A c \in Call : pc[c] = "spawn" /\ Distinct(ModelOf(c)) =>
    \/ Whole(ModelOf(c))
    \/ c \in shorted
    \/ \E d \in Call \ {c} : ModelOf(d) = ModelOf(c) /\ Amiss(d)

\* What ensureModelDeployed calls ready is its own server, unless another call
\* serves on the same target, or an operator does whose server the probe could
\* not name or came after it: a server that named itself is never taken for
\* the one that was started.
ReadyIsOwnUnlessRival ==
  [][\A c \in Call :
       ReadyOk(c) =>
         \/ child[c] = "serving"
         \/ \E d \in Call \ {c} : TargetOf(d) = TargetOf(c) /\ child[d] = "serving"
         \/ manual[TargetOf(c)] # none /\ c \in unseen]_vars

\* A wait asks for the last time by its deadline, and gives up only past it,
\* when the last request came to nothing less than an interval before it or
\* later: but for its sleeps, somebody has been asked all the time.
TimeoutJustified ==
  \A c \in Call :
    /\ pc[c] = "ready" => waited[c] <= Timeout
    /\ pc[c] = "timedOut" => waited[c] > Timeout /\ refused[c] + 1 > Timeout

\* Whatever becomes of the servers, all calls come to an end.
Settles == <>(\A c \in Call : pc[c] \in Ended)

\* hf-orchestrator.js:13: "ensure the pinned revision is present in the local
\* cache (download via hf-client if missing)", before the server is started.
StartedOnWhole == \A c \in Call : pc[c] = "spawn" => Whole(ModelOf(c))

=============================================================================
