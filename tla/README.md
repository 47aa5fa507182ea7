# Formal models of the organ shared library

TLA+ models, TLC checks and TLAPS proofs for `@coretex/organ-boot`, the library
every organ of the system is built with. All line numbers refer to `src/`.

To check: `tlc -config <name>.cfg <Module>.tla` for a run of `PROJECT.json`,
`tlapm <Module>_proofs.tla` for the proofs.

## 1. The system

An *organ* is one Node.js process. `createOrgan` boots it: it waits for its
dependencies, opens an HTTP server, registers a mailbox with the *Spine* (the
message broker, a process of its own), connects a WebSocket and starts the live
loop. Organs talk to each other only through the Spine: a message addressed to
an organ is stored in its mailbox until the organ acknowledges it, and is
also pushed over the WebSocket if one is open. Organs that use language models
call them through a cascade of providers configured in settings files.

One process runs one piece of JavaScript at a time; everything between two
`await`s, and every event listener, is atomic. What interleaves is the
asynchronous functions (several activations of the same one included), the timers, the socket
events, the signals and the other processes.

| Component | State | Operations | Interacts with | What is hard, and what makes it correct |
|---|---|---|---|---|
| Spine client (`lib/spine-client.js`) | the socket `ws`, `connected`, `intentionalClose`, reconnect timer and delay, heartbeat timer and `missedPongs`, filters | `connect`, `subscribe`, `disconnect`/`close`; requests `send`, `drain`, `ack`, `register`; listeners open, close, pong, message; two timers | Spine; live loop | Listeners of an old socket act on shared variables. One live socket; a reconnect always and only when there is none; nothing comes back after `disconnect`; dead peers are found, live ones are not ended; filters survive reconnects |
| Live loop (`lib/live-loop.js`) | interval, `stopped`, per activation of `drainCycle`: batch and `ackedIds` | `drainCycle`, `handleWsMessage`, ping and tool call interception, `stop` | Spine client; the organ's handlers | Cycles overlap, requests fail before or after they took effect, handlers throw, messages arrive twice. Only served messages are acknowledged; order; no starvation |
| Organ boot and shutdown (`lib/organ-boot.js`) | boot step, server, `shutdownCalled` | the boot steps, `shutdown`, `onSignal` | all of the above | Failures between boot steps, signals at any moment, work in flight during shutdown, crashes. Clean exit; nothing left connected; no message lost over a restart |
| Dependency check (`lib/dependency-check.js`) | attempt counters | `checkDependencies` | Spine; the other organs, which boot at the same time | Retries at their limit, answers that are stale when looked at. Success means all were seen together; bounded time |
| Health, introspection (`lib/health.js`, `lib/introspect.js`) | none | two GET handlers | organ boot | A check that throws must still answer |
| Tool-call surface (`lib/tool-*.js`) | none | payload builders, validator, fallback handler | live loop, JSON, the requester | The contract is stated three times and JSON is between them. A reply that is valid where it is built is valid where it arrives |
| LLM cascade (`lib/llm-cascade.js`, `lib/llm-errors.js`) | stage, `attempted`, start time | `chat`, `emitUsage`, stage configuration | LLM client, classifier, usage writer | Calls race the budget timer and go on after losing. One usage event; fallback only when allowed; the budget holds |
| LLM failure classifier (`lib/llm-classifier.js`) | none | `classifyLLMFailure` | cascade | Order of the tests; every failure has one class |
| LLM client (`lib/llm-client.js`) | usage counters | `chat` for two protocols | providers | Failures are wrapped, and some calls have no timeout. Every failure reaches the classifier recognisably |
| Settings loader and schema (`lib/llm-settings-*.js`) | the settings in force | `load`, `reload`, `resolve`, validation | cascade | A failed reload leaves the old settings; agents resolve to one of two buckets |
| Usage writer and attribution (`lib/llm-usage-writer.js`, `usage-attribution.js`, `pricing-table.js`, `budget-policy.js`, `host-identity.js`) | default writer | two inserts per event | graph database | The second insert fails; the caller must never notice |
| Graph client (`lib/graph-client.js`) | none | queries over HTTP | graph service | Error translation |
| Statute cascade, URNs (`lib/statute-cascade.js`, `governance-urn.js`, `urn.js`) | none | walk and merge of a chain of statutes | graph client | One request per link, while others edit the graph; answers that cannot be read. The chain is one of one moment, connected, and the Constitution wins |
| HF orchestrator (`lib/hf-*.js`, `inference-server-bootstrap.js`, `quantization-validator.js`) | files, child processes | download, start, wait until ready | model hub | Concurrent callers, partial downloads, readiness timeouts |
| Erlang bridge (`lib/erlang-bridge-*.js`) | none | export and import of a settings file | settings loader | What is null in a record is absent in a file, and absent fields inherit. What an agent resolves to survives the round trip |
| Fleet start (`scripts/start-all.js`, `boot-graph.json`) | child processes | closure, topological sort, health wait, teardown | all organs and their dependency checks | Circles, organs that never come up, signals. Order; ready means ready; no child is left |
| Liveness verification (`scripts/verify-liveness.js`) | none | one round of pings, polling for pongs | all organs | Late answers of an earlier round |
| Operations scripts (`scripts/*.sh`, `validate-all-settings.js`) | none | file checks | none | none |

Every place in the code where something can go wrong that a test would hardly
reach is listed, at its line, under `hazards` in `PROJECT.json`.

## 2. The modules

```
MailboxContract          what a mailbox promises: at-least-once processing
   ^ implements
LiveLoop                 drain cycles, handlers, replies, acks, pushes
   ^ extends
ToolCall                 what replies to tool calls carry, and their validation
   |   MC_LiveLoop, LiveLoop_proofs
SpineClient              socket, reconnect, heartbeat, filters
   |   MC_SpineClient, SpineClient_proofs
Organ                    INSTANCE SpineClient, INSTANCE LiveLoop WITH
   |                     connected <- Client!isConnected; boot, shutdown, crash
   |   MC_Organ, Organ_proofs
DependencyCheck          checkDependencies in organs that boot side by side
   ^ extends
StartAll                 the script that sorts, spawns, waits for and ends them
   |   MC_StartAll, StartAll_proofs
LLMFailure               the errors of the LLM client and their classes
   ^ extends
LLMCascade               one chat() over its stages
   ^ extends
UsageWriter              the usage event of that chat() on its way to the graph
   |   MC_LLMCascade, LLMCascade_proofs
LLMSettings              schema, loader and resolution, the cascade's stages
   ^ extends
ErlangBridge             settings files as records of another system, and back
   |   MC_LLMSettings, LLMSettings_proofs
Deployment               ensureModelDeployed: probe, download, server, readiness
   |   MC_Deployment, Deployment_proofs
StatuteCascade           resolveCascade over a graph that others edit
       MC_StatuteCascade, StatuteCascade_proofs
```

### LiveLoop

An action is the code between two awaits. `Cycle` is the set of activations of
`drainCycle` that may be in flight at once: `setInterval` (line 263) starts one
every second and does not wait for the last. `pc[c]` says at which await
activation `c` stands: `drain` (194), `handle` (209 or 217), `reply` (80, 113 or 221),
`ack` (242); `next` is the head of the `for` loop and `idle` stands for an activation that does not exist.
`todo[c]` and `ackedIds[c]` are its batch and its `ackedIds`.

| Code | Model |
|---|---|
| interval, guards of lines 187-188 | `Tick` |
| `spine.drain` answers or throws | `DrainOk`, `DrainError` |
| head of the loop, up to the first await | `Begin` |
| `onMessage` or `toolCallHandler` resolves, throws | `HandlerReturns`, `HandlerThrows` |
| the reply is accepted; the request fails, before or after it was | `SendOk`, `SendError` |
| end of the batch; ack answered; ack failed | `EndOfBatch`, `AckOk`, `AckError` |
| `handleWsMessage` | `WsPush`, `WsHandlerReturns`, `WsHandlerThrows`, `WsSend` |
| `stop` | `Stop` |

An ack that reaches the Spine but whose answer is lost is `AckOk`: the loop only
logs the error (line 244), so the two do not differ in anything the loop does next.
The Spine's half (`Accept`, `DrainResult`, the effect of `AckOk`) is external,
modelled from how the loop uses it: a drain lists and does not remove.
The history variables `started`, `resolved` and `replies` record what was done to
each message; no guard reads them.

### ToolCall

Extends LiveLoop, whose histories say which replies were sent, and is checked in its run. A
JavaScript value is one of the nine kinds that the code tells apart; a payload is a record of
kinds, with `error.code` and `error.message` as fields of it. `success` and its siblings are the
builders, `Constructed` all they can build, `Wire` what `JSON.stringify` makes of it,
`validateToolResponse` the validator and `TOOL_RESPONSE_SCHEMA` the published schema. `Tool` is the kind of what a
request carries for its tool's name: a string, an empty one, or anything else.

### SpineClient

Every listener and timer callback is an action. A socket event carries its
socket, and acts on `ws` whichever socket that holds by then. `readyState` is
the WebSocket's; the close event comes once, after `CLOSING`. `silent` counts the
pings on a socket since its last pong independently of the client's `missedPongs`;
`peerAlive` is what the client cannot see. Sending on a connecting socket or on
`null` throws (`sendThrows`) and would end the process (`crashed`). With
`Reuse = FALSE` the client is used the way `createOrgan` uses it: `connect()`
once, nothing after `disconnect()`.

### Organ

`boot` is the await `createOrgan` stands at, `shutdownPc` the one of
`shutdown()`. The client's and the loop's actions run side by side; the loop
sees the connection only through `isConnected()`. Steps 2 to 7 of the boot are
one action, `Listen`. `signals` counts the requests to stop, by a signal or the owner's
`shutdown()`; each `onSignal` ends the process when its own await is through. `Crash` can come at any time; `Restart`
resets everything but the mailbox and the histories. A signal before step 13
has no handler and kills the process. Pushes arrive over any socket that has not
reported its close, so also after `shutdown()`.

### LLMFailure

Operators without state. `Failure` is what can go wrong at a provider: no key, a network
failure, an error status with a body, an answer that is not JSON. `chatError` is
the error that `chat()` throws for it, a sequence of causes from the outermost inwards, as
`LLMCallError`, `makeProviderError` and `fetch` nest them; `fetch` itself is external.
`classifyLLMFailure` is the first rule of `Rules` that applies, in the order of
the code. A text is the set of the patterns it matches, so the spellings within one pattern
list are not distinguished. `duringStream` is left out, as no caller passes it.

### LLMCascade

`clock` is the time since `chat()` began; it advances only while a stage is
awaited. A budget timer that is due may still be overtaken by the stage's answer
(`BudgetDue` enables `BudgetExpires`, and does not force it). `call` is the
provider's side of a stage call: the losers of the race go on. A stage fails with any failure its
provider's client can meet, and goes through the classifier; `failure` remembers it for the properties.

### UsageWriter

Extends LLMCascade: `WithWriter` is a step of `chat()` that hands its usage
event, if it emits one, to the process-wide writer, which may be absent, or be
set or cleared at any moment. `write` is the insert the writer's promise chain awaits; `stored`
is what the graph has of the event, which a request that failed may have
reached all the same. The run `cascade` checks chat and writer together, so that
what is said of `chat()` holds whatever the graph does.

### Deployment

Each member of `Call` is one call of `ensureModelDeployed`; a call that comes after
another has failed is a retry. Calls share the cache directory (`dir`,
`content`) and the targets. `pc` is the await a call stands at, or its outcome. Making
the directory and emptying the file are one action with the answer that precedes them:
what a call between the two could see it sees as well before or after. `Basename` says under which
name a file is saved; two files of one name overwrite each other. Two calls
writing one file: it is whole when the one that emptied it last is through. What a listing leaves out and a file
that is answered without a body is a choice of the hub from `Omissible`, up to the empty listing; the order of
the listing is the hub's too. A body that arrives in full is taken for the file.

Servers are external: they may end at any time, listen if the port is free, and list
their model under the repo or the path they were given (vLLM does the latter). An operator starts and stops servers
of his own at any time (`manual`). The probe gets `null` from any server now and then (`Answers`), as from one that
is loading, and a readiness request may fail after any time in `RequestTime`, with a server there or without. `shorted`,
`refused` and `unseen` are history for the properties. Validation of the arguments is in LLMSettings.

### LLMSettings

A settings file is the object `yaml.load` makes of it: a function on the fields
it has. `validateSettings` and what it calls are operators on it, up to
`stageConfigs`, what `createCascadeChat` makes of a resolved configuration.
`checkStage` are the checks that a file and a fallback entry share. Where
a check rejects a value for its form, `malformed` is such a value. An object with a
field that is `undefined` does not come out of YAML and is not told apart from one without it.

`reload()` is synchronous, but the files are not the process's own: `LoadDefault`,
`ListAgents`, one `LoadAgent` per file in any order (the directory's), `Swap`,
and between any two of them an `Edit`. A load that fails goes back to `idle` without
touching `cache`; before the first load this is `createLoader` throwing. `seen` is
a history: what each file has held since the load read the default file.
`validateHFConfig`, the orchestrator's own check of the same block, is beside the schema's.

### ErlangBridge

Extends LLMSettings with the exporter and the importer, two functions on files and records; `null` is
the value of a record's field that the file has not. The round trip is checked on the files that
the run has in force, together with what an agent inherits from them, as a bridged file is loaded like any other.

### DependencyCheck

`pc[o]` is the request or the sleep that organ `o`'s `checkDependencies` awaits. `Answer` is the
Spine's part of a request, with what it knows then; the actions after it are the code that
looks at the answer, by when the Spine may be gone and organs may have left. A
failed request is one that met a Spine that was down; every other failure of it looks
the same to the code. `wasComplete[o]` remembers that, while `o` checked, the Spine was up
and all of `o`'s dependencies were connected together. In Organ the whole check is the
one step `Listen`, whose failure ends the process.

### StartAll

Extends DependencyCheck: a child that is spawned begins its check, one that passed listens
and may connect, and other organs' checks see it then. `main` is where the script stands.
`getTransitiveDeps` is the closure, stated as the least closed set; `SortStep` is one turn of Kahn's loop.
`Healthy` and `TimedOut` are the two ends of `waitForHealth`: as the deadline may come at any
moment, both are always possible once the server answers. `Dies` takes a child at any time;
`Signal` kills the script before it is complete, and afterwards runs `cleanup`. That the order of one level is
alphabetical is left out, as no property depends on it; nor does the model let a process that was there
before answer on a child's port.

### StatuteCascade

A request is one step, at the moment the graph answers it; between two of them any
organ inserts a concept or a binding or updates a concept. An answer with status 200 whose
body cannot be read is an absent concept or an empty list to `readJson`
(`graph-client.js:113`), and `lost` remembers that there was one. Values of fields name who wrote
them and when, so that a chain shows what it was put together from. `mergeChain` is the loop over the chain, as a
recursive function.

## 3. What is checked

| Run | Properties | What it shows |
|---|---|---|
| `live_loop_safety` | `AckedWasServed`, `FirstAttemptInOrder`, `ToolRepliesValid`, `ImplementsContract` | two overlapping cycles, a tool call, a plain message (also pushed) and a poison one, any failure anywhere; replies to tool calls arrive valid |
| `live_loop_live` | `HealthyAcked`, `StopQuiesces` | no starvation behind a poison message; `stop()` quiesces |
| `spine_client` | `OneSocket`, `CloseAllConnections`, `SubscriptionsKept`, `OnlySilentTerminated`, `Reconnects`, `DeadPeerDetected` | all orders of socket events, timers and calls with one `connect()`; nothing throws, a lost connection comes back, a silent peer is given up |
| `organ` | `CleanExit`, `ShutdownReleases`, `KeepsContract`, `EndToEnd`, `SignalEnds` | boot, two requests to stop, crash and one restart at any moment; reconnection and polling together deliver every message |
| `fleet` | `SortRight`, `ReadyWasComplete`, `CompletePasses`, `StartEnds`, `ChildrenEnd` | every boot graph over two organs and the Spine, children that fail, die, connect and leave at any moment; the last attempt of a check counts like the others, every check ends, and so do the start and, after a signal, the children |
| `cascade` | `OneUsageEvent`, `DownFallsBack`, `MistakeNotPassedOn`, `NoStageAfterBudget`, `BudgetSettles`, `EventAccounted` | three stages, no budget or budgets of 0, 1 and 3 ticks, every failure of either client; a provider that is down is passed over, a mistake of the caller is not; a provider that never answers does not hang a call with a budget; its usage event is stored and bound, or the log says why not |
| `cascade_timeout` | `ConnectTimeoutFallsBack`, violated | finding 1 |
| `settings` | `StagesComplete`, `InForceValid`, `DeployableIfValid`, `BridgeKeepsStages`, `ReloadIsCurrent` | every pair of a valid default and an agent's file, then edits during each load; no mixture of files leaves a stage without what it needs, a failed reload changes nothing, a successful one everything, and files that went through the bridge resolve as before |
| `settings_bucket` | `ProbabilisticAgentResolves`, violated | finding 2 |
| `deploy` | `WholeUnlessDisturbed`, `TimeoutJustified`, `ReadyIsOwnUnlessRival`, `Settles` | two deployments that share the model or the target, with an operator at work on the target; a server starts on an incomplete model only if the hub left a file out, two files have one name, or another call's download is broken or unfinished; only another call's server, or an operator's that did not show at the probe, is taken for one's own; every call ends, and none gives up before its deadline or asks after it |
| `deploy_partial` | `StartedOnWhole`, violated | finding 3 |
| `statute` | `EffectiveIsCascade`, `OneMoment`, `OutcomeJustified` | a walk over every graph of the size, whole or with dangling bindings, two edits between any requests, lost answers; a single edit leaves no mixture of two moments, several leave a chain that is connected all the same, and the merge of whatever was read is right |

The type invariants are not among the runs' properties, as a theorem `Typing` proves each of them
(or, in StartAll, `FleetTypes`, a part of the invariant). Every safety property of the passing runs is proved too, for
all values of the constants (section 4); what only the runs show is liveness.

Each property of a passing run has a mutant in `PROJECT.json`: a plausible slip
in the code, written as an operator marked `mutant:` beside the one it would replace, under
which TLC finds the property violated.

### Bounds

* `Cycle`: two activations already give every overlap of two phases; the proofs
  lift the safety properties to any number. Cycles are interchangeable, hence
  the symmetry set of the safety run. The liveness run has one cycle; overlaps
  are not needed to starve a message.
* Three messages and `DrainLimit = 2`: a batch never holds the whole mailbox,
  and one poison message leaves a place free, which `HealthyAcked` needs. With
  `drainLimit` poison messages at the head the mailbox is stuck; nothing in the
  code says otherwise, and the property is stated for fewer.
* One push per message; a second push of the same one does what the first did.
* `Socket`: two names are enough because a closed socket emits nothing and its
  name is used again.
* Delays are in units of `BASE_DELAY` (1000 ms): 1 and 30 are the code's, the
  organ's runs use a shorter cap, which only decides how long a wait is.
  `MAX_MISSED_PONGS` is the code's 3 for the client, 1 in the organ.
* One message, one cycle, one socket and one restart in the organ: the module is about how the
  parts meet, LiveLoop is about the messages, and `SingleSocket` proves that there is no
  second live socket. Two requests to stop: the second is the one that overtakes the first.
* Values in ToolCall: the kinds exhaust what the builders and validators tell apart; the
  run's tool call has a malformed name.
* The cascade's `MaxClock` exceeds the largest budget by two ticks, so that
  every order of timer, answer and check occurs.
* Statuses 400, 429, 500 and 503 are one of each kind a rule tells apart; the bodies match no pattern,
  one that precedes the status rules, one that follows them, or two that compete. The first stage is Anthropic, the
  others are openai-compatible, so both clients meet the first, and one the last stage.
* Two organs and the Spine in StartAll: one organ may leave while the other
  checks; every graph over them occurs, the circular ones too, and one name asked for is in no
  graph. `MaxRetries` is 2, a first and a last attempt, and 30 in the code; the
  proofs hold for any number but 0, with which `checkDependencies` asks nothing and passes, and any fleet.
* StatuteCascade: one category and role and two domains, so that a binding inserted late
  can lead to another statute; two edits, as mixtures need two; one field, as fields do not meet.
* LLMSettings has one agent: agents do not meet each other, only the default. `MaxEdits`
  is per load, so edits go on for ever, and one of them falls between any two
  steps of some load. The disks it starts with are the pairs of any valid default, from nine kinds of
  provider, model and limit with every block, and an agent's file from as many, valid or not.
* Two calls in Deployment: all its hazards are between two. One model and target are fixed because
  they are interchangeable, and calls with neither in common go their own ways. The files of one
  model have names of their own, those of the other share one; the hub may leave out any of the two. The operator serves one model
  on one target, which either call may be asked for, the other or the same. A timeout of one interval has a first and a last request, and a request of two
  passes any deadline. In the violated run the hub leaves nothing out.
* `CHECK_DEADLOCK FALSE` where the system stops: an exited organ without restarts left, a settled
  `chat()`.

### Fairness

* Timers fire: weak fairness of `ReconnectTimer`, `HeartbeatTick`, `BudgetExpires`,
  strong of the drain `Tick`, as the interval cannot be kept from finding the connection up if it
  is up again and again.
* A socket that is closing reports it (`OnClose`), an awaited promise settles
  (`CycleStep`: the code sets no timeout, so this is an assumption on handlers
  and on `fetch`), `onShutdown` and `server.close()` end.
* Requests and healthy handlers that are tried again and again succeed some
  time: strong fairness of `DrainOk`, `AckOk`, `HandlerReturns`, `SendOk`, `OnOpen`. It is the
  weakest assumption under which retrying makes sense, and the only one about the Spine.
* In LiveLoop alone, `ConnectionUp` is weakly fair; in Organ this assumption is
  gone and the client's reconnection takes its place.
* Nothing is assumed of the providers in LLMCascade. The graph client aborts
  its requests (`graph-client.js:94`), so the writer's steps are fair.
* In Deployment requests are answered or fail some time, however late (the probe, the hub client and the readiness wait
  set no timeout: an assumption), and timers fire when they are due. Nothing is assumed of the servers and the operator.
* In StartAll requests are answered or refused (`fetch` is called without a timeout,
  so this is an assumption), timers fire, the script's loop goes on, and an organ that was sent SIGTERM ends, which
  is what `SignalEnds` says of one. Nothing is assumed of the Spine and the organs: they need never listen or connect.
* StatuteCascade has no liveness: every request is aborted after its timeout (`graph-client.js:94`), and there
  are at most eight.

## 4. What is proved

`LiveLoop_proofs`, for all messages, cycles, drain limits and correlation ids that
satisfy the three named assumptions of LiveLoop:

* `Typing`: `TypeOK`.
* `AckSafety`: `AckedWasServed`. The property is not inductive: a
  cycle acknowledges what it collected some steps ago. `IInv` adds that every message in
  `ackedIds[c]` was served, that what a cycle still has to do has been sent and is disjoint from
  what it collected, and that a cycle awaiting a reply has recorded a payload.
* `AttemptOrder`: `FirstAttemptInOrder`. `OrderInv` adds that arrival numbers
  are distinct and that whatever is older than a message of a batch is in the
  batch too, was started, or was acknowledged (and so served, and so started).
* `Refinement`: every step of the loop is a step of `MailboxContract` or leaves
  its `status` unchanged, from `IInv`.
* `RepliesAreValid`: `ToolRepliesValid`. A payload has the fields of its own status and no other's (`Built`, by the
  builders one after the other); the validator looks only at these, and none of the kinds it accepts
  is one that JSON changes, but for the two of `Lossy` (`WireValid`).

`SpineClient_proofs`, for any sockets, filters, delays and `MAX_MISSED_PONGS`,
with `~Reuse`: `Typing`, `SingleSocket`, `ReconnectPending`,
`CloseIsFinal`, `HeartbeatAndFilters`, `TerminateJustified`. Their common invariant says that the
client is in one of three phases, idle, working, disconnected (`Phases`), and
what the open socket was sent (`OpenSocket`); that nothing threw is part of
`SubscriptionsKept`, the property of `HeartbeatAndFilters`. `Working` is the core: all
sockets but `ws` are closed, and the timer is set exactly when `ws` is closed too. Without
`~Reuse` it is false (section 5). Both invariants were model-checked before they were proved.

`Organ_proofs`, for any messages, cycles, sockets and filters, any number of requests to stop, crashes and restarts,
under `OrganAssumption`, which is what the two components assume: `Typing`; `ComponentsInside`, in the organ too
there is one socket, a reconnect pending exactly when it is needed, and nothing acknowledged that was not served; `NothingComesBack` (`ShutdownReleases`), `ExitIsClean` (`CleanExit`) and
`OrganKeepsContract` (`KeepsContract`), the contract of the mailbox over crashes and restarts. The invariant is made of those of the
parts, whose step lemmas are cited and not proved again: every step of the organ is a step of the client, or leaves
it alone, or is `Restart`, which keeps its invariant too, and the same goes for the loop (`ClientMoves`, `LoopMoves`, `RestartClient`,
`RestartLoop`). `ShutdownOrder` and `Requests` add how
far `shutdown()` has come. What rests on the client has the hypothesis `~Reuse`, the way `createOrgan` uses it.

`StartAll_proofs` first proves of DependencyCheck, for any organs, any dependencies and `MaxRetries > 0`, `Typing` and
`BootJustified` (`PassedWasComplete`), from the invariant that an answer not yet looked at that
lists all dependencies was given when all were there (`AnswerWasTrue`), and that a
sleep is entered only with an attempt left (`AttemptLeft`). Of the fleet, for any finite one, any boot graph and set of organs asked for, it proves
`FleetIsChecks`, the fleet implements DependencyCheck, so that what is proved of the checks holds of its children;
`OrderIsRight` (`SortRight`) and `ReadyIsJustified` (`ReadyWasComplete`). `FleetInv` is
`IInv` of DependencyCheck and four more: the types (`FleetTypes`); that the in-degrees count the
requirements not yet sorted and the queue holds the organs for which there are none (`SortInv`), without which
nothing is known of the order, nor of what is left when the queue runs empty; that what is left of the loop is in order after what is done
(`LoopInv`); and that only an organ whose check has passed answers (`ListenInv`), which makes
ready justified although the script itself never looks at dependencies.

`Deployment_proofs`, for any calls, requests, targets, snapshots, basenames, timeouts and durations of requests, whatever the hub leaves
out and the operator does: `Typing`, `StartsOnWholeModels` (`WholeUnlessDisturbed`), `NoEarlyTimeout`
(`TimeoutJustified`) and `ReadyIsOwn` (`ReadyIsOwnUnlessRival`, an action property). `WholeUnlessDisturbed` follows from
an invariant about files: a directory is some call's doing (`MadeByDownload`), a download
leaves out no file it was given (`NoneLeftOut`), and a name that does not hold its file was opened last by
a call that has not come further or was not given a file (`OpenedByWriter`). From these `IncompleteIsAmiss` finds
the call to blame. `NoEarlyTimeout` needs that a sleep begins at a refusal by the deadline (`Clock`), `ReadyIsOwn` that a
call beside an operator's server has not been shown it (`NotShown`).
The invariant was model-checked before it was proved.

`LLMCascade_proofs`, for any number of stages, providers, budgets and failures, with the usage writer
running beside `chat()`: `Typing`, `OneEvent` (`OneUsageEvent`), `BudgetIsFinal`
(`NoStageAfterBudget`, an action property), `DownIsPassedOn` (`DownFallsBack`) and `MistakesEnd` (`MistakeNotPassedOn`). `WriterInvisible` brings the composition back to `chat()` alone, whose
invariant `CascadeInv` adds that the stages before the present one have been called and those after it
have not (`InTurn`), without which the last stage called is not known; that time has not passed before the first
call (`FirstInTime`), which has no check of the budget before it; that nothing is
emitted before the outcome is there (`NotYet`); and that the cascade goes on after a failure of an eligible class and gives up
after one that is not (`WhyItGoesOn`). The last two theorems need the classifier too: which rule is the first to apply to every error that
either client can throw, through `readSyscallCode` and `isAbort`, which look down the chain of causes (`WrapCode`, `WrapAbort`: what a wrapper
adds hides nothing below it). `DownIsEligible` and `MistakeIsClosed` say it of each failure, `WhyStep` of each step.

`LLMSettings_proofs`, for any agents, any contents of files and any number of edits during a load: `Typing`, `OnlyValidInForce`
(`InForceValid`), `ReloadReplaces` (`ReloadIsCurrent`, an action property), `EveryStageComplete` (`StagesComplete`),
`EveryBlockDeployable` (`DeployableIfValid`) and `BridgeKeeps` (`BridgeKeepsStages`). The invariant adds
what a load has collected: it is valid (`LoadIsValid`), was on disk during the load, and leaves out no agent that had a file all the
time (`LoadIsCurrent`). The next two are about operators: fields that come together come from one file (`MergedWhole`), so
a stage built from a merged file is `Usable`, and one built from a fallback entry and a usable primary is usable again. The bridge gives back a
part of the file, less what a record leaves `Unsaid` (`BridgedParts`, one step per group of fields); what is `Alike` but for that is valid alike
(`ValidBack`), has the same record (`AlikeExport`), stays alike when merged (`AlikeOver`) and resolves to the same stages (`AlikeStages`). Assumed are:
that YAML has no `undefined` in an object (`SettingsAssumption`), that the markers `undefined`, `malformed` and `null` are none of the values
they stand beside (`StringsAssumption`, `NullAssumption`), and that only a field no check asks for is null. Object spread is an operator of the module,
as the provers know nothing of the one in the standard module TLC.

`StatuteCascade_proofs`, for any graph of the shape `GraphAssumption` states, any number of edits and of lost
answers: `Typing` and `Justification` (`OutcomeJustified`). `WalkInv` adds that what the walk has followed is bound
(`PathBound`: it was when it was read, and nothing is deleted), how far the walk has come (`Progress`), which
layers the chain can have by then (`InOrder`, without which a new link might not be the most specific), and to what its
last statute will be bound once the next is loaded (`Links`).

`NoMixture` (`OneMoment`) compares the walk with the graph before and after a single edit. `MomentInv` says that one of the two
agrees with every answer so far (`Seen`) and will agree with the answers to come (`SameToCome`). An edit changes one answer and
the walk asks nothing twice, so the answer is one already given, and the old graph stays right, or one to come, and the
new graph becomes it (`OneChange`, `AsksNew`).

`MergeIsRight` (`EffectiveIsCascade`) is about `mergeChain`. The chain is in order (`InOrder`), so it has at most one link for each of the five layers
(`ChainIsShort`), and the loop is followed turn by turn (`MergeTurn`), without an induction over its length.

Not proved, only model-checked: liveness under fairness (the `live_loop_live` run, `Reconnects`, `DeadPeerDetected`, `EndToEnd`, `SignalEnds`,
`BudgetSettles`, `EventAccounted`, `CompletePasses`, `StartEnds`, `ChildrenEnd`, `Settles`), which is out of the prover's reach.

## 5. Findings

1. *Connect timeouts* (`cascade_timeout`). `readSyscallCode` accepts codes of the form `E` and
   capitals only; undici's `UND_ERR_CONNECT_TIMEOUT`, for which the timeout rule has a branch, is
   never returned. The failure is classed `unknown`, and the cascade ends instead of
   falling back.
2. *Probabilistic agent of a standalone organ* (`settings_bucket`). An agent's file may leave
   out `llm_required`, which means probabilistic; merged over a default that
   says `false` it becomes standalone, and its provider and model are dropped without an error.
3. *Broken downloads are final* (`deploy_partial`). A download that breaks off leaves the cache directory
   behind; every later call takes it for the model, skips the download, and starts a
   server on what there is.

Noted while modelling, without a run of their own:

* `connect`, `disconnect`, `connect` of the Spine client: the first socket's close event schedules
  a reconnect although the second socket is alive, `ws` is overwritten, and `disconnect()` closes only
  the newest (`spine-client.js:216`; `CloseAllConnections` with `Reuse = TRUE`). `createOrgan` never does this.
* A dependency that connects after the last attempt is found by the request made for the error message
  (`dependency-check.js:88`): the check fails, with an empty list of what is missing.
* `waitForReadiness` takes any 200 (`inference-server-bootstrap.js:118`): of two calls that deploy different
  models to one target both report ready, and one serves the other's. A server that is still loading answers the probe with 503 and is
  taken for absent (`hf-orchestrator.js:171`); a second one is started over it, and the first one's later 200 is
  accepted for it. A server started
  by path is listed under its path, so that a repeated call finds the target occupied by another
  model. A child whose readiness wait timed out is left running, and an engine that is not installed makes `spawn` emit an
  error nobody listens to.
* A readiness request has no timeout (`inference-server-bootstrap.js:117`): one that is refused after several intervals may pass the
  deadline by itself, and a server that came up meanwhile is given up. `TimeoutJustified` therefore counts from the refusal.
* A listing without `siblings` is an empty one (`hf-client.js:73`): nothing is downloaded, and the server is started on a directory that is
  not there. An answer without a body leaves an empty file (line 114). `config.json` and `onnx/config.json` are both saved as `config.json`
  (line 95), the later over the earlier. `WholeUnlessDisturbed` excepts the three.
* A second signal: `shutdown()` returns at once when called again, so `onSignal` exits the
  process while the first call is still at work (`organ-boot.js:197`). `CleanExit` is therefore
  stated for an organ that was asked to stop once; `KeepsContract` holds all the same.
* `LLMCascadeExhausted.attempted` is "one per cascade stage tried" (`llm-errors.js:53`),
  but the stage during which the budget expires is missing (`llm-cascade.js:158`).
* The tool call surface document prescribes the request's `message_id` as the correlation id
  of a reply (`docs/tool-call-surface-v1.md:20`); `correlationIdFor` (`live-loop.js:63`), and with it
  LiveLoop, prefers an id the caller gave.
* `llm-cascade.js:25` finds `cascade_total_timeout_ms` on the resolved configuration; the schema
  rejects the field, and `toLLMClientConfig` would not pass it on.
* `huggingface-autoprovision` is a valid provider (D3), which `llm-client.js:168` does not know:
  its error is classed `unknown` and ends the cascade.
* An answer of the graph whose body cannot be read is null (`graph-client.js:113`), and null is an absent
  concept: a walk goes on without "Layer 0 — Constitution (always)" (`statute-cascade.js:109`), and nothing is
  locked. In the same way a row whose `data` is not JSON makes a layer without constraints.
* "Each organ must be healthy before the next starts" (`start-all.js:10`) does not hold after a timeout (line 229), and
  `/health` answers 200 also when the organ's own status is not ok. What the property `ReadyWasComplete` says
  rests on the organs' own checks alone.
* In `start-all.js`: an organ asked for that is in no graph, and one without a port, are skipped without failing
  the start; a missing directory makes `spawn` emit an error nobody listens to, which ends the script and leaves the children;
  so does a signal before the handlers are installed (line 246); a process left over on a port
  answers for the new organ; `--timeout` does not reach Vectr, whose override wins (line 223).
* A record of the bridge cannot say `fallback: []` or `llm_required: true`: after a round trip the agent inherits the default's
  fallback list, or its bucket, instead. `deriveFileKindFromFilename` takes the last `-organ-` of a file name for
  the separator, the loader the organ's own name, so the two disagree on agents whose names contain it.
* A tool that returns nothing: `success(tool, undefined)` has a field `data` that JSON drops, so that the reply is valid for
  the organ and invalid for the requester; a time that is not finite arrives as null. A tool handler that
  throws, and a reply that cannot be sent, are only logged (`live-loop.js:121`): the request is acknowledged and the requester hears nothing.
  The published schema also types fields that the status does not use, the validator does not.
* `verify-liveness.js` has one mailbox name for all its runs and counts any pong in it: one of an earlier run, or one to a ping whose
  own answer was lost, is counted and ends the polling early, and an organ is reported silent that is not.

## 6. What is not modelled, and the plan

Not modelled, and why:

* Health and introspection endpoints: they read, and change nothing.
* Liveness verification: a script without state of its own that acts on the fleet from outside. What can go
  wrong in it was found by reading (section 5); a model would be a composition of StartAll with
  the live loop of every organ, beyond what TLC explores in minutes.
* Operations scripts: shell scripts over files.
* Of the parts that are `partly` modelled, the notes in `PROJECT.json` name what is left out: texts, headers, prices and
  tags, translation of requests for the providers, operations that only read.

The plan: the modules are complete in what they were planned for, and every safety property that a run checks is proved. What could
still be added are the safety halves of the liveness properties, as `OneReconnect` is one of `Reconnects`: invariants that say of every
state that what is waited for is under way (a budget that is running has its timer, an organ in its check has an attempt left,
a child that was started is one that the script will end), which the prover can reach where the liveness itself is not.
