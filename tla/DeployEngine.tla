---------------------------- MODULE DeployEngine ----------------------------
(***************************************************************************)
(* The deploy engine of the control plane (internal/deploy/deploy.go, with *)
(* events.go and state.go) and the HTTP handlers that feed it              *)
(* (internal/server/controlplane.go): POST /api/deploy passes the          *)
(* foundation gate, Start prepares under `prep` and claims the single      *)
(* flight under `mu`, a goroutine executes the run one service at a time,  *)
(* POST .../cancel and the run deadline cancel its context, and state.json *)
(* keeps the last action of every service.                                 *)
(*                                                                         *)
(* A deployer is reduced to what every one of them does to the host:       *)
(* render the compose file, `docker compose down`, `docker compose up`,    *)
(* wait until ready; a removal is `down` and RemoveAll of the runtime      *)
(* directory.  The values of a service's configuration variables are one   *)
(* Version; ServiceHash is injective on them.  Part of a Version is written *)
(* into the compose file (image, ports, environment), the rest into files   *)
(* the containers mount and read when they start.                          *)
(***************************************************************************)
EXTENDS Naturals, FiniteSets

CONSTANTS
  Service,      \* the registered services
  Deps,         \* service -> its direct dependencies
  Rank,         \* service -> its position in the registry
  Foundation,   \* the services that gate all others
  Version,      \* values the variables of one service can have
  Valid,        \* those that pass Validate
  ComposeOf,    \* service -> version (or None) -> what its compose file says
  Configs,      \* the configurations an operator saves
  None,         \* absence: no file, no containers, no record
  Request,      \* concurrent POST /api/deploy handlers
  Canceller,    \* concurrent POST /api/deploys/{id}/cancel handlers
  Selections,   \* <<selection, remove>> pairs that are posted
  Faults,       \* which of the faults below the environment may cause
  MaxRuns,      \* bound: runs of one life of the process
  MaxHistory    \* maxRunHistory

FaultKinds == {"fail", "docker", "statefile", "crash", "dies", "upgrade"}

\* Dependencies are registered before their dependents (registry.go), which is
\* what makes registry order a deploy order.
ASSUME RegistryAssumption ==
  /\ Deps \in [Service -> SUBSET Service]
  /\ Rank \in [Service -> Nat]
  /\ \A s, t \in Service : Rank[s] = Rank[t] => s = t
  /\ \A s \in Service : \A d \in Deps[s] : Rank[d] < Rank[s]

\* The registry is a finite list: a selection has a first and a last service.
ASSUME FiniteRegistryAssumption ==
  \A S \in SUBSET Service : S # {} =>
    /\ \E s \in S : \A t \in S : Rank[s] <= Rank[t]
    /\ \E s \in S : \A t \in S : Rank[t] <= Rank[s]

ASSUME ConstantsAssumption ==
  /\ Foundation \subseteq Service
  /\ Valid \subseteq Version
  /\ None \notin Version /\ None \notin Request
  /\ Configs \subseteq [Service -> Version]
  /\ None \notin Configs
  /\ Selections \subseteq ((SUBSET Service) \ {{}}) \X BOOLEAN
  /\ Faults \subseteq FaultKinds
  /\ MaxRuns \in Nat
  /\ MaxHistory \in Nat \ {0}

VARIABLES
  config,     \* the managed labprovider.env; None: not saved, or outdated
  history,    \* state.json
  file,       \* the compose file in a service's runtime directory
  ctr,        \* a service's containers; None: there are none
  up,         \* services with a running container
  prep,       \* holder of Engine.prep
  req,        \* the request handlers
  nextID, retained,         \* Engine.nextID and the keys of Engine.runs
  pc, job, todo, ctx,       \* the runs: control, Run fields, remaining, context
  canc,       \* the cancel handlers
  acked,      \* auxiliary: runs whose context a cancel reached with work left
  late,       \* auxiliary: steps a run started with a cancelled context
  cut         \* auxiliary: services whose last step ended without its record

hostVars == <<file, ctr, up>>
runVars == <<pc, job, todo, ctx>>
auxVars == <<acked, late, cut>>
vars == <<config, history, hostVars, prep, req, nextID, retained, runVars, canc, auxVars>>

RunId == 1 .. MaxRuns
NoJob == [sel |-> {}, remove |-> FALSE, services |-> {}, skipped |-> {}, env |-> None]
Jobs == [sel : SUBSET Service, remove : BOOLEAN, services : SUBSET Service,
         skipped : SUBSET Service, env : Configs \cup {None}]
Record == [action : {"deploy", "remove"}, ok : BOOLEAN, hash : Version \cup {None}]
Composes == {ComposeOf[s][v] : s \in Service, v \in Version \cup {None}}
\* Containers: the compose configuration they were created from, the version whose
\* mounted files they read when they last started, and, auxiliary, whether a failing
\* `down` has left them there since.
Container == [compose : Composes, read : Version \cup {None}, spared : BOOLEAN]
ASSUME NoneIsNoContainer == None \notin Container
\* What the Docker list told: whether it answered, and the services it saw running.
View == [ok : BOOLEAN, live : SUBSET Service]
NoView == [ok |-> FALSE, live |-> {}]
IdleReq == [pc |-> "idle", sel |-> {}, remove |-> FALSE, view |-> NoView, env |-> None, kept |-> {}]

\* Where the run's goroutine is inside svc.Deploy or svc.Remove.
InDeployer == {"render", "down", "up", "ready", "rdown", "rfiles"}
InStep == InDeployer \cup {"returned", "failing", "record"}
Live == {"spawned", "loop", "succeed", "fail"} \cup InStep
Over == {"absent", "ok", "failed"}
-----------------------------------------------------------------------------
\* Engine.Resolve: the selection with its transitive dependencies.
Closed(S) == \A s \in S : Deps[s] \subseteq S
Resolve(sel) ==
  {s \in Service : \A T \in SUBSET Service : sel \subseteq T /\ Closed(T) => s \in T}

\* Mutant: a removal is not reversed.
Head_Unreversed(S, remove) == CHOOSE s \in S : \A t \in S : Rank[s] <= Rank[t]

\* The next service of a run: registry order, reversed for a removal.
Head(S, remove) ==
  CHOOSE s \in S : \A t \in S : IF remove THEN Rank[t] <= Rank[s] ELSE Rank[s] <= Rank[t]
Current(i) == Head(todo[i], job[i].remove)

\* ready: the history says deployed and Docker, when it answered, says running.
Ready(s, view) ==
  /\ history[s] # None
  /\ history[s].action = "deploy" /\ history[s].ok
  /\ ~view.ok \/ s \in view.live

\* handleDeploy's gate, against the Docker view taken before it.
GateOpen(sel, remove, view) ==
  remove \/ sel \subseteq Foundation \/ \A s \in Foundation : Ready(s, view)

\* skipDeployedDeps: what is left of the resolved set.
Kept(sel, view, env) ==
  {s \in Resolve(sel) : s \in sel \/ ~(Ready(s, view) /\ history[s].hash = env[s])}

Validates(env, S) == \A s \in S : env[s] \in Valid

\* Mutant: the newest runs are dropped, not the oldest.
Prune_Newest(ids) == {i \in ids : Cardinality({j \in ids : j < i}) < MaxHistory}

\* pruneRuns: the newest MaxHistory of the retained runs.
Prune(ids) == {i \in ids : Cardinality({j \in ids : j > i}) < MaxHistory}

\* Mutant: a claimed run whose goroutine has not been scheduled looks idle.
Busy_OnceScheduled == nextID > 0 /\ pc[nextID] \in Live \ {"spawned"}

\* e.current is the newest run: the claim below is the only place that sets it.
Busy == nextID > 0 /\ pc[nextID] \in Live

\* Mutant: Start does not take the preparation lock.
PrepIsFree_Ignored == TRUE

PrepIsFree == prep = None

\* Mutant: the early return of ErrBusy does not unlock prep.
PrepAfterClaim_Leaked(r) == IF Busy THEN r ELSE None

\* The deferred unlock.
PrepAfterClaim(r) == None

\* Mutant: a deployer reads the managed file again instead of the run's env.
RenderedVersion_Reloaded(i) == config[Current(i)]

\* What a deployer renders: the environment its run was started with.
RenderedVersion(i) == job[i].env[Current(i)]

\* Mutant: the hash is taken from the managed file at the end of the step.
RecordedHash_Reloaded(i) == IF job[i].remove THEN None ELSE config[Current(i)]

RecordedHash(i) == IF job[i].remove THEN None ELSE job[i].env[Current(i)]

\* Mutant: the verb of the run is spelled as the button is.
Verb_Capital(i) == IF job[i].remove THEN "Remove" ELSE "Deploy"

Verb(i) == IF job[i].remove THEN "remove" ELSE "deploy"

\* Mutant: only the error of the deployer ends the loop.
StopBeforeNext_Never(i) == FALSE

\* After a step without error, a dead context ends the loop all the same.
StopBeforeNext(i) == ctx[i] = "cancelled"

ErrorExit == "fail"
-----------------------------------------------------------------------------
Init ==
  /\ config = None
  /\ history = [s \in Service |-> None]
  /\ file = [s \in Service |-> None]
  /\ ctr = [s \in Service |-> None]
  /\ up = {}
  /\ prep = None
  /\ req = [r \in Request |-> IdleReq]
  /\ nextID = 0
  /\ retained = {}
  /\ pc = [i \in RunId |-> "absent"]
  /\ job = [i \in RunId |-> NoJob]
  /\ todo = [i \in RunId |-> {}]
  /\ ctx = [i \in RunId |-> "none"]
  /\ canc = [c \in Canceller |-> 0]
  /\ acked = {} /\ late = [i \in RunId |-> 0] /\ cut = {}

-----------------------------------------------------------------------------
(* The operator, and the world outside the engine.                         *)

\* handleConfigPut: values that do not validate are saved all the same.
SaveConfig(c) ==
  /\ config # c
  /\ config' = c
  /\ UNCHANGED <<history, hostVars, prep, req, nextID, retained, runVars, canc, auxVars>>

\* A container stops on its own.
ContainerDies(s) ==
  /\ "dies" \in Faults /\ s \in up
  /\ up' = up \ {s}
  /\ UNCHANGED <<config, history, file, ctr, prep, req, nextID, retained, runVars, canc, auxVars>>

\* Existing containers start: as they were created, with the files they mount as
\* these are now.
Restarted(s) == [ctr[s] EXCEPT !.read = file[s], !.spared = FALSE]

\* handleServiceRestart: every container of the project is restarted, running or
\* not, whether a run is at work on the service or not.  (Without the files it mounts a
\* container stops and does not start again: ContainerDies.)
ServiceRestart(s) ==
  /\ ctr[s] # None /\ file[s] # None
  /\ ctr' = [ctr EXCEPT ![s] = Restarted(s)]
  /\ up' = up \cup {s}
  /\ UNCHANGED <<config, history, file, prep, req, nextID, retained, runVars, canc, auxVars>>
-----------------------------------------------------------------------------
(* POST /api/deploy.                                                       *)

\* Decode the request and ask Docker what runs.
Open(r, sel, remove) ==
  /\ req[r].pc = "idle"
  /\ nextID + Cardinality({q \in Request : req[q].pc # "idle"}) < MaxRuns
  /\ \E view \in {[ok |-> TRUE, live |-> up]} \cup (IF "docker" \in Faults THEN {NoView} ELSE {}) :
       req' = [req EXCEPT ![r] = [IdleReq EXCEPT !.pc = "gate", !.sel = sel,
                                                 !.remove = remove, !.view = view]]
  /\ UNCHANGED <<config, history, hostVars, prep, nextID, retained, runVars, canc, auxVars>>

\* The foundation gate reads state.json; a refusal answers 409.
Gate(r) ==
  /\ req[r].pc = "gate"
  /\ req' = [req EXCEPT ![r] =
       IF GateOpen(req[r].sel, req[r].remove, req[r].view) THEN [@ EXCEPT !.pc = "start"] ELSE IdleReq]
  /\ UNCHANGED <<config, history, hostVars, prep, nextID, retained, runVars, canc, auxVars>>

\* Start takes prep, resolves the selection and loads the configuration.
Load(r) ==
  /\ req[r].pc = "start" /\ PrepIsFree
  /\ IF config = None
       THEN req' = [req EXCEPT ![r] = IdleReq] /\ prep' = None
       ELSE req' = [req EXCEPT ![r].pc = "skip", ![r].env = config] /\ prep' = r
  /\ UNCHANGED <<config, history, hostVars, nextID, retained, runVars, canc, auxVars>>

\* MaterializeSecrets may fail on the disk; otherwise the set that will run is
\* decided against a snapshot of state.json, and validated (never for a removal).
Decide(r) ==
  LET kept == IF req[r].remove THEN Resolve(req[r].sel)
              ELSE Kept(req[r].sel, req[r].view, req[r].env)
  IN
  /\ req[r].pc = "skip"
  /\ \/ /\ req[r].remove \/ Validates(req[r].env, kept)
        /\ req' = [req EXCEPT ![r].pc = "claim", ![r].kept = kept]
        /\ UNCHANGED prep
     \/ /\ \/ "fail" \in Faults
           \/ ~req[r].remove /\ ~Validates(req[r].env, kept)
        /\ req' = [req EXCEPT ![r] = IdleReq]
        /\ prep' = None
  /\ UNCHANGED <<config, history, hostVars, nextID, retained, runVars, canc, auxVars>>

\* The single-flight claim under e.mu, which also starts the goroutine.
Claim(r) ==
  LET id == nextID + 1
      q == req[r]
  IN
  /\ q.pc = "claim"
  /\ Busy \/ id <= MaxRuns
  /\ req' = [req EXCEPT ![r] = IdleReq]
  /\ prep' = PrepAfterClaim(r)
  /\ IF Busy
       THEN UNCHANGED <<nextID, retained, runVars>>
       ELSE /\ nextID' = id
            /\ retained' = Prune(retained \cup {id})
            /\ pc' = [pc EXCEPT ![id] = "spawned"]
            /\ job' = [job EXCEPT ![id] =
                 [sel |-> q.sel, remove |-> q.remove, services |-> q.kept,
                  skipped |-> Resolve(q.sel) \ q.kept, env |-> q.env]]
            /\ todo' = [todo EXCEPT ![id] = q.kept]
            /\ UNCHANGED ctx
  /\ UNCHANGED <<config, history, hostVars, canc, auxVars>>
-----------------------------------------------------------------------------
(* Engine.execute.                                                         *)

\* The run's context exists, and a cancel can reach it, only from here on.
SetCancel(i) ==
  /\ pc[i] = "spawned"
  /\ ctx' = [ctx EXCEPT ![i] = "live"]
  /\ pc' = [pc EXCEPT ![i] = "loop"]
  /\ UNCHANGED <<config, history, hostVars, prep, req, nextID, retained, job, todo, canc, auxVars>>

\* The head of the loop does not look at the context.
StepStart(i) ==
  /\ pc[i] = "loop" /\ todo[i] # {}
  /\ pc' = [pc EXCEPT ![i] = IF job[i].remove THEN "rdown" ELSE "render"]
  /\ late' = IF ctx[i] = "cancelled" THEN [late EXCEPT ![i] = @ + 1] ELSE late
  /\ UNCHANGED <<config, history, hostVars, prep, req, nextID, retained, job, todo, ctx, canc, acked, cut>>

LoopEnd(i) ==
  /\ pc[i] = "loop" /\ todo[i] = {}
  /\ pc' = [pc EXCEPT ![i] = "succeed"]
  /\ UNCHANGED <<config, history, hostVars, prep, req, nextID, retained, job, todo, ctx, canc, auxVars>>

\* A step of the deployer, from one control point to another.
DeployerStep(i, from, to) ==
  /\ pc[i] = from
  /\ pc' = [pc EXCEPT ![i] = to]
  /\ UNCHANGED <<config, history, prep, req, nextID, retained, job, todo, ctx, canc, auxVars>>

\* Anything in a deployer may return an error; a cancelled context is one.
DeployerFails(i) ==
  /\ "fail" \in Faults \/ ctx[i] = "cancelled"
  /\ \E from \in InDeployer : DeployerStep(i, from, "failing")
  /\ UNCHANGED hostVars

Render(i) ==
  /\ DeployerStep(i, "render", "down")
  /\ file' = [file EXCEPT ![Current(i)] = RenderedVersion(i)]
  /\ UNCHANGED <<ctr, up>>

\* Compose.Down: nothing to do without a compose file, and an error of
\* `docker compose down` - a cancelled context makes one - is only logged: the
\* containers are still there (stopped already: ContainerDies may follow).
DownEffect(i, s) ==
  /\ \/ /\ file[s] = None
        /\ UNCHANGED <<ctr, up>>
     \/ /\ file[s] # None /\ ctx[i] # "cancelled"
        /\ ctr' = [ctr EXCEPT ![s] = None]
        /\ up' = up \ {s}
     \/ /\ file[s] # None /\ (ctx[i] = "cancelled" \/ "fail" \in Faults)
        /\ ctr' = IF ctr[s] = None THEN ctr ELSE [ctr EXCEPT ![s].spared = TRUE]
        /\ UNCHANGED up
  /\ UNCHANGED file

Down(i) == DeployerStep(i, "down", "up") /\ DownEffect(i, Current(i))

\* What compose compares before it recreates a container.
SameCompose(s) == ctr[s] # None /\ ctr[s].compose = ComposeOf[s][file[s]]

\* `docker compose up -d`: a running container of the same compose configuration is
\* left alone, a stopped one is started, anything else is created anew.
UpEffect(s) ==
  /\ ctr' = [ctr EXCEPT ![s] = IF ~SameCompose(s) THEN [compose |-> ComposeOf[s][file[s]], read |-> file[s],
                                                        spared |-> FALSE]
                               ELSE IF s \in up THEN @ ELSE Restarted(s)]
  /\ up' = up \cup {s}
  /\ UNCHANGED file

\* When it fails, containers may exist all the same.
Up(i) ==
  /\ \/ DeployerStep(i, "up", "ready") /\ ctx[i] # "cancelled"
     \/ DeployerStep(i, "up", "failing") /\ ("fail" \in Faults \/ ctx[i] = "cancelled")
  /\ UpEffect(Current(i))

\* The readiness waits succeed; some do not look at the context.
BecomesReady(i) == DeployerStep(i, "ready", "returned") /\ UNCHANGED hostVars

RemoveDown(i) == DeployerStep(i, "rdown", "rfiles") /\ DownEffect(i, Current(i))

RemoveFiles(i) ==
  /\ DeployerStep(i, "rfiles", "returned")
  /\ file' = [file EXCEPT ![Current(i)] = None]
  /\ UNCHANGED <<ctr, up>>

Deployer(i) ==
  \/ DeployerFails(i) \/ Render(i) \/ Down(i) \/ Up(i) \/ BecomesReady(i)
  \/ RemoveDown(i) \/ RemoveFiles(i)

\* recordResult: a write that fails is only logged.
Write(s, rec) ==
  \/ history' = [history EXCEPT ![s] = rec] /\ cut' = cut \ {s}
  \/ "statefile" \in Faults /\ UNCHANGED history /\ cut' = cut \cup {s}

\* An error: recorded without a hash, and the loop is left.
RecordFailed(i) ==
  /\ pc[i] = "failing"
  /\ Write(Current(i), [action |-> Verb(i), ok |-> FALSE, hash |-> None])
  /\ pc' = [pc EXCEPT ![i] = ErrorExit]
  /\ UNCHANGED <<config, hostVars, prep, req, nextID, retained, job, todo, ctx, canc, acked, late>>

\* No error but a dead context: the loop is left with nothing recorded.
CheckContext(i) ==
  /\ pc[i] = "returned"
  /\ IF StopBeforeNext(i)
       THEN pc' = [pc EXCEPT ![i] = "fail"] /\ cut' = cut \cup {Current(i)}
       ELSE pc' = [pc EXCEPT ![i] = "record"] /\ UNCHANGED cut
  /\ UNCHANGED <<config, history, hostVars, prep, req, nextID, retained, job, todo, ctx, canc, acked, late>>

RecordOk(i) ==
  /\ pc[i] = "record"
  /\ Write(Current(i), [action |-> Verb(i), ok |-> TRUE, hash |-> RecordedHash(i)])
  /\ pc' = [pc EXCEPT ![i] = "loop"]
  /\ todo' = [todo EXCEPT ![i] = @ \ {Current(i)}]
  /\ UNCHANGED <<config, hostVars, prep, req, nextID, retained, job, ctx, canc, acked, late>>

\* Run.finish: from here on Done answers true, and nothing reads the fields of
\* the run again but the event stream.
Finish(i) ==
  /\ pc[i] \in {"succeed", "fail"}
  /\ pc' = [pc EXCEPT ![i] = IF @ = "succeed" THEN "ok" ELSE "failed"]
  /\ job' = [job EXCEPT ![i] = NoJob]
  /\ todo' = [todo EXCEPT ![i] = {}]
  /\ ctx' = [ctx EXCEPT ![i] = "none"]
  /\ late' = [late EXCEPT ![i] = 0]
  /\ UNCHANGED <<config, history, hostVars, prep, req, nextID, retained, canc, acked, cut>>
-----------------------------------------------------------------------------
(* Cancellation and the run deadline.                                      *)

\* Engine.Cancel finds the run and sees that it is not done ...
FindRun(c, i) ==
  /\ canc[c] = 0
  /\ i \in retained /\ pc[i] \in Live
  /\ canc' = [canc EXCEPT ![c] = i]
  /\ UNCHANGED <<config, history, hostVars, prep, req, nextID, retained, runVars, auxVars>>

\* There is a step to start, or one whose context is still to be checked.
WorkLeft(i) == pc[i] \in Live \ {"record", "succeed", "fail"} /\ todo[i] # {}

\* Mutant: the context is not wired to the deployers' commands.
CancelContext_Unwired(i) == UNCHANGED ctx

CancelContext(i) ==
  ctx' = IF ctx[i] = "live" THEN [ctx EXCEPT ![i] = "cancelled"] ELSE ctx

\* ... and calls cancelRun, which does nothing when there is no context yet.
FireCancel(c) ==
  /\ canc[c] # 0
  /\ canc' = [canc EXCEPT ![c] = 0]
  /\ CancelContext(canc[c])
  /\ acked' = IF WorkLeft(canc[c]) /\ ctx[canc[c]] # "none" THEN acked \cup {canc[c]} ELSE acked
  /\ UNCHANGED <<config, history, hostVars, prep, req, nextID, retained, pc, job, todo, late, cut>>

\* maxRunDuration elapses.
Deadline(i) ==
  /\ ctx[i] = "live"
  /\ CancelContext(i)
  /\ UNCHANGED <<config, history, hostVars, prep, req, nextID, retained, pc, job, todo, canc, auxVars>>
-----------------------------------------------------------------------------
(* The process.                                                            *)

\* The control plane stops and starts again: the runs and their ids are gone,
\* the files and the containers stay.  An upgrade can bring an example with
\* variables the saved file lacks.
Crash ==
  /\ "crash" \in Faults
  /\ config' \in {config} \cup (IF "upgrade" \in Faults THEN {None} ELSE {})
  /\ cut' = cut \cup {Current(i) : i \in {j \in RunId : pc[j] \in InStep}}
  /\ prep' = None
  /\ req' = [r \in Request |-> IdleReq]
  /\ nextID' = 0
  /\ retained' = {}
  /\ pc' = [i \in RunId |-> "absent"]
  /\ job' = [i \in RunId |-> NoJob]
  /\ todo' = [i \in RunId |-> {}]
  /\ ctx' = [i \in RunId |-> "none"]
  /\ canc' = [c \in Canceller |-> 0]
  /\ acked' = {} /\ late' = [i \in RunId |-> 0]
  /\ UNCHANGED <<history, hostVars>>

\* state.json is unreadable; load starts from an empty history.
LoseHistory ==
  /\ "statefile" \in Faults
  /\ history' = [s \in Service |-> None]
  /\ UNCHANGED <<config, hostVars, prep, req, nextID, retained, runVars, canc, auxVars>>
-----------------------------------------------------------------------------
Handler(r) == Gate(r) \/ Load(r) \/ Decide(r) \/ Claim(r)

Execute(i) ==
  \/ SetCancel(i) \/ StepStart(i) \/ LoopEnd(i)
  \/ RecordFailed(i) \/ CheckContext(i) \/ RecordOk(i) \/ Finish(i)

Operator ==
  \/ \E c \in Configs : SaveConfig(c)
  \/ \E r \in Request, p \in Selections : Open(r, p[1], p[2])
  \/ \E c \in Canceller, i \in RunId : FindRun(c, i)
  \/ \E s \in Service : ServiceRestart(s)

Next ==
  \/ Operator
  \/ \E r \in Request : Handler(r)
  \/ \E i \in RunId : Execute(i) \/ Deployer(i) \/ Deadline(i)
  \/ \E c \in Canceller : FireCancel(c)
  \/ \E s \in Service : ContainerDies(s)
  \/ Crash \/ LoseHistory

Spec == Init /\ [][Next]_vars

\* The goroutines of the process are scheduled; a deployer may hang for as long
\* as its context is alive, and returns once it is cancelled; the deadline comes.
\* sync.Mutex does not starve a waiter, hence the strong fairness of Load.
Fairness ==
  /\ \A r \in Request : WF_vars(Handler(r)) /\ SF_vars(Load(r))
  /\ \A i \in RunId :
       /\ WF_vars(Execute(i))
       /\ WF_vars(Deployer(i) /\ ctx[i] = "cancelled")
       /\ WF_vars(Deadline(i))
  /\ \A c \in Canceller : WF_vars(FireCancel(c))

LiveSpec == Spec /\ Fairness
-----------------------------------------------------------------------------
AtWorkOn(s) == \E i \in RunId : pc[i] \in InStep /\ Current(i) = s
Finished(i) == job[i].services \ todo[i]

TypeOK ==
  /\ config \in Configs \cup {None}
  /\ history \in [Service -> Record \cup {None}]
  /\ file \in [Service -> Version \cup {None}]
  /\ ctr \in [Service -> Container \cup {None}]
  /\ up \subseteq Service
  /\ prep \in Request \cup {None}
  /\ req \in [Request -> [pc : {"idle", "gate", "start", "skip", "claim"},
                         sel : SUBSET Service, remove : BOOLEAN,
                         view : View, env : Configs \cup {None}, kept : SUBSET Service]]
  /\ nextID \in 0 .. MaxRuns
  /\ retained \subseteq RunId
  /\ pc \in [RunId -> Live \cup Over]
  /\ job \in [RunId -> Jobs]
  /\ todo \in [RunId -> SUBSET Service]
  /\ ctx \in [RunId -> {"none", "live", "cancelled"}]
  /\ canc \in [Canceller -> 0 .. MaxRuns]
  /\ acked \subseteq RunId /\ late \in [RunId -> Nat] /\ cut \subseteq Service

\* deploy.go "single-flight": however the handlers interleave, at most one run
\* is unfinished.
SingleFlight == \A i, j \in RunId : pc[i] \in Live /\ pc[j] \in Live => i = j

\* deploy.go:335-337, "the operator can cancel it": the unfinished run is the one
\* `current` names and pruneRuns has not dropped it, so Cancel and the event
\* stream can still find it.
LiveRunIsFound == \A i \in RunId : pc[i] \in Live => i = nextID /\ i \in retained

\* Start's preparation is serialized: a handler between Load and Claim holds prep.
PreparationIsExclusive ==
  \A r \in Request : req[r].pc \in {"skip", "claim"} => prep = r

\* The service has this version on disk, and containers made from a compose file that
\* says the same; they have read its files too, unless a swallowed `down` left them
\* running, and `up` after it.
OnVersion(s, v) ==
  /\ file[s] = v
  /\ ctr[s] # None
  /\ ctr[s].compose = ComposeOf[s][v]
  /\ ctr[s].read = v \/ ctr[s].spared

\* deploy.go:379-380 and the error exits of the loop: whatever fails or is
\* cancelled, a run has put every service it has left behind on its own
\* configuration (removed its runtime directory), and nobody else has touched
\* them since, the operator's restarts included: a step builds on dependencies that
\* are still as the run made them.  What a failing `down` that nobody sees can leave
\* old is the mounted files a running container has read, nothing else.
ProgressIsOnHost ==
  \A i \in RunId : pc[i] \in Live => \A s \in Finished(i) :
    IF job[i].remove THEN file[s] = None ELSE OnVersion(s, job[i].env[s])

\* deploy.go:68 "registration order IS the --all deploy order": no deployer runs
\* before the dependencies of its service, which the run has deployed or the
\* skip decision has left out; a removal takes dependents down first.
DependenciesFirst ==
  \A i \in RunId : pc[i] \in InStep =>
    IF job[i].remove
      THEN \A t \in todo[i] : Current(i) \notin Deps[t]
      ELSE Deps[Current(i)] \subseteq Finished(i) \cup job[i].skipped

\* deploy.go:373-374, the hash "means 'the config this service is successfully
\* running'": outside of its own step, a service with a successful deploy on
\* record has that configuration on disk and in its containers, and one with a
\* successful removal has no runtime files - except where the last step was cut
\* off before its record was written, and for the mounted files of a container that
\* a swallowed `down` left running (compose.go:79-89): it may have read older ones.
RecordMatchesHost ==
  \A s \in Service \ cut :
    history[s] # None /\ history[s].ok /\ ~AtWorkOn(s) =>
      IF history[s].action = "deploy" THEN OnVersion(s, history[s].hash)
      ELSE file[s] = None

\* deploy.go:379-380 "stop before starting the next service": once its context is
\* cancelled a run starts at most one more step - the one whose head of loop
\* the cancel overtook.
AtMostOneLateStep == \A i \in RunId : late[i] <= 1

\* deploy.go:273-274 "Cancel stops a running deploy": a run whose context a cancel
\* reached while it had steps left never reports success.  (A cancel that arrives
\* before execute has made the context reaches nothing, and is acknowledged too.)
CancelStops == AtMostOneLateStep /\ \A i \in acked : pc[i] # "ok"

\* A run that is about to report deploy-done has left no service of its request
\* out but those already deployed, and state.json says so of every one of them,
\* as far as it could be written, and the host has what it says.
SuccessIsComplete ==
  /\ ProgressIsOnHost
  /\ \A i \in RunId : pc[i] = "succeed" =>
    /\ todo[i] = {}
    /\ Resolve(job[i].sel) = job[i].services \cup job[i].skipped
    /\ \A s \in job[i].services \ cut :
         history[s] # None => history[s].action = Verb(i) /\ history[s].ok

\* What the engine promises of runs is the abstract single flight of DeployRuns.
RunStatus ==
  [i \in RunId |-> IF pc[i] \in Live THEN "running" ELSE pc[i]]
Runs == INSTANCE DeployRuns WITH status <- RunStatus
RefinesRuns == Runs!Spec
RefinesLiveRuns == Runs!LiveSpec

\* Every request is answered, whoever holds prep, and however long a deployer
\* hangs: deploy.go:335-337.
RequestsAreAnswered == \A r \in Request : req[r].pc = "gate" ~> req[r].pc = "idle"
-----------------------------------------------------------------------------
(* What a page of the repository says, and the code does not keep.          *)

\* deploy.html:132 the operator confirms the removal of the services selected.
RemovesOnlySelected ==
  \A i \in RunId : pc[i] \in {"rdown", "rfiles"} => Current(i) \in job[i].sel
=============================================================================
