------------------------- MODULE DeployEngineProofs -------------------------
(***************************************************************************)
(* Type correctness and the single flight of the deploy engine, and what   *)
(* its runs leave on the host and in state.json, for every registry, any   *)
(* number of handlers, and every combination of faults.                    *)
(***************************************************************************)
EXTENDS DeployEngine, FiniteSetTheorems, TLAPS

\* A run inside a step has a service left: Current(i) is well defined.
StepHasService == \A i \in RunId : pc[i] \in InStep => todo[i] # {}

\* A handler past Load, and the run it starts, has an environment.
EnvIsLoaded ==
  /\ \A i \in RunId : pc[i] \in Live => job[i].env \in Configs
  /\ \A r \in Request : req[r].pc \in {"skip", "claim"} => req[r].env \in Configs

TypeInv == TypeOK /\ StepHasService /\ EnvIsLoaded

\* What a handler's record may be.
Requests == [pc : {"idle", "gate", "start", "skip", "claim"},
             sel : SUBSET Service, remove : BOOLEAN, view : View,
             env : Configs \cup {None}, kept : SUBSET Service]

\* The engine's head of loop finds a service of the run, in either direction.
LEMMA HeadInSet ==
  ASSUME NEW S \in SUBSET Service, S # {}, NEW remove \in BOOLEAN
  PROVE  Head(S, remove) \in S
<1>1. \E s \in S : \A t \in S : IF remove THEN Rank[t] <= Rank[s] ELSE Rank[s] <= Rank[t]
  BY FiniteRegistryAssumption
<1> QED BY <1>1 DEF Head

LEMMA CurrentIsService ==
  ASSUME TypeInv, NEW i \in RunId, pc[i] \in InStep
  PROVE  Current(i) \in todo[i] /\ Current(i) \in Service
<1>1. todo[i] \in SUBSET Service /\ todo[i] # {} /\ job[i].remove \in BOOLEAN
  BY DEF TypeInv, TypeOK, StepHasService, Jobs
<1> QED BY <1>1, HeadInSet DEF Current

\* The selection with its dependencies is made of registered services.
LEMMA ResolveIsServices == \A sel : Resolve(sel) \subseteq Service
  BY DEF Resolve

LEMMA InitTypeInv == Init => TypeInv
  BY ConstantsAssumption DEF Init, TypeInv, TypeOK, StepHasService, EnvIsLoaded, NoJob, Jobs, IdleReq, NoView, View, Live, Over, InStep, InDeployer
-----------------------------------------------------------------------------
(* Every action preserves the types.                                       *)

\* A deployer step moves the run between control points inside the deployer
\* or out of it, and touches no field of the run.
LEMMA DeployerStepTypeInv ==
  ASSUME TypeInv, NEW i \in RunId, NEW from \in InDeployer,
         NEW to \in InStep, DeployerStep(i, from, to),
         file' \in [Service -> Version \cup {None}],
         ctr' \in [Service -> Container \cup {None}],
         up' \subseteq Service
  PROVE  TypeInv'
  BY DEF DeployerStep, TypeInv, TypeOK, StepHasService, EnvIsLoaded, auxVars, Live, Over, InStep, InDeployer

\* Containers that start, that a failing `down` leaves, or that are created anew.
LEMMA ContainerFields ==
  ASSUME NEW c \in Container, NEW v \in Version \cup {None}
  PROVE  /\ [c EXCEPT !.read = v, !.spared = FALSE] \in Container
         /\ [c EXCEPT !.read = v, !.spared = FALSE].compose = c.compose
         /\ [c EXCEPT !.read = v, !.spared = FALSE].read = v
         /\ [c EXCEPT !.spared = TRUE] \in Container
         /\ [c EXCEPT !.spared = TRUE].spared = TRUE
  BY DEF Container

LEMMA StartedTypes ==
  ASSUME TypeInv, NEW s \in Service
  PROVE  /\ ctr[s] # None => /\ Restarted(s) \in Container
                             /\ Restarted(s).compose = ctr[s].compose /\ Restarted(s).read = file[s]
         /\ [compose |-> ComposeOf[s][file[s]], read |-> file[s], spared |-> FALSE] \in Container
<1>1. file[s] \in Version \cup {None} /\ ctr[s] \in Container \cup {None}
  BY DEF TypeInv, TypeOK
<1>2. ComposeOf[s][file[s]] \in Composes
  BY <1>1 DEF Composes
<1>3. ctr[s] # None => ctr[s] \in Container
  BY <1>1
<1>4. [compose |-> ComposeOf[s][file[s]], read |-> file[s], spared |-> FALSE] \in Container
  BY <1>1, <1>2 DEF Container
<1>5. ASSUME ctr[s] # None
      PROVE  /\ Restarted(s) \in Container
             /\ Restarted(s).compose = ctr[s].compose /\ Restarted(s).read = file[s]
  BY ONLY <1>1, <1>3, <1>5, ContainerFields, Zenon DEF Restarted
<1> QED BY <1>4, <1>5

LEMMA DownEffectTypes ==
  ASSUME TypeInv, NEW i \in RunId, NEW s \in Service, DownEffect(i, s)
  PROVE  /\ file' \in [Service -> Version \cup {None}]
         /\ ctr' \in [Service -> Container \cup {None}]
         /\ up' \subseteq Service
<1>1. file' = file /\ up' \subseteq Service
  BY DEF DownEffect, TypeInv, TypeOK
<1>2. ctr \in [Service -> Container \cup {None}]
  BY DEF TypeInv, TypeOK
<1>3. ctr[s] # None => [ctr[s] EXCEPT !.spared = TRUE] \in Container
  BY <1>2, ContainerFields
<1>4. \/ ctr' = ctr \/ ctr' = [ctr EXCEPT ![s] = None]
      \/ ctr[s] # None /\ ctr' = [ctr EXCEPT ![s] = [ctr[s] EXCEPT !.spared = TRUE]]
  BY <1>2 DEF DownEffect
<1>5. ctr' \in [Service -> Container \cup {None}]
  BY <1>2, <1>3, <1>4
<1> QED BY <1>1, <1>5 DEF TypeInv, TypeOK

LEMMA DeployerTypeInv ==
  ASSUME TypeInv, NEW i \in RunId, Deployer(i)
  PROVE  TypeInv'
<1> DEFINE s == Current(i)
<1>1. CASE DeployerFails(i)
  <2>1. PICK from \in InDeployer : DeployerStep(i, from, "failing")
    BY <1>1 DEF DeployerFails
  <2> QED BY <1>1, <2>1, DeployerStepTypeInv DEF DeployerFails, hostVars, TypeInv, TypeOK, InStep
<1>2. ASSUME NEW from \in InDeployer, NEW to \in InStep, DeployerStep(i, from, to)
      PROVE  /\ s \in Service
             /\ RenderedVersion(i) \in Version
  <2>1. pc[i] \in InStep
    BY <1>2 DEF DeployerStep, InStep
  <2>2. s \in Service
    BY <2>1, CurrentIsService
  <2>3. job[i].env \in [Service -> Version]
    BY <2>1, ConstantsAssumption DEF TypeInv, EnvIsLoaded, Live
  <2> QED BY <2>2, <2>3 DEF RenderedVersion
<1>3. CASE Render(i)
  <2>1. DeployerStep(i, "render", "down") /\ "render" \in InDeployer /\ "down" \in InStep
    BY <1>3 DEF Render, InDeployer, InStep
  <2>2. RenderedVersion(i) \in Version
    BY <2>1, <1>2
  <2> QED BY <1>3, <2>1, <2>2, DeployerStepTypeInv DEF Render, TypeInv, TypeOK
<1>4. CASE Down(i)
  BY <1>4, <1>2, DownEffectTypes, DeployerStepTypeInv DEF Down, InDeployer, InStep
<1>5. CASE Up(i)
  <2>1. PICK to \in {"ready", "failing"} : DeployerStep(i, "up", to)
    BY <1>5 DEF Up
  <2>2. "up" \in InDeployer /\ to \in InStep
    BY <2>1 DEF InDeployer, InStep
  <2>3. s \in Service
    BY <2>1, <2>2, <1>2
  <2>4. ctr \in [Service -> Container \cup {None}]
    BY DEF TypeInv, TypeOK
  <2>5. ctr' \in [Service -> Container \cup {None}] /\ file' = file /\ up' = up \cup {s}
    BY <1>5, <2>3, <2>4, StartedTypes DEF Up, UpEffect, SameCompose
  <2> QED BY <2>1, <2>2, <2>3, <2>5, DeployerStepTypeInv DEF TypeInv, TypeOK
<1>6. CASE BecomesReady(i)
  BY <1>6, DeployerStepTypeInv DEF BecomesReady, hostVars, TypeInv, TypeOK, InDeployer, InStep
<1>7. CASE RemoveDown(i)
  BY <1>7, <1>2, DownEffectTypes, DeployerStepTypeInv DEF RemoveDown, InDeployer, InStep
<1>8. CASE RemoveFiles(i)
  BY <1>8, DeployerStepTypeInv DEF RemoveFiles, TypeInv, TypeOK, InDeployer, InStep
<1> QED BY <1>1, <1>3, <1>4, <1>5, <1>6, <1>7, <1>8 DEF Deployer

\* The operator and the world outside.
LEMMA OutsideTypeInv ==
  ASSUME TypeInv,
         Operator \/ (\E s \in Service : ContainerDies(s)) \/ LoseHistory
  PROVE  TypeInv'
<1> USE DEF TypeInv, TypeOK, StepHasService, EnvIsLoaded, hostVars, runVars, auxVars
<1>1. ASSUME NEW c \in Configs, SaveConfig(c)
      PROVE  TypeInv'
  BY <1>1 DEF SaveConfig
<1>2. ASSUME NEW r \in Request, NEW p \in Selections, Open(r, p[1], p[2])
      PROVE  TypeInv'
  <2>1. p[1] \in SUBSET Service /\ p[2] \in BOOLEAN
    BY ConstantsAssumption
  <2>2. PICK view \in {[ok |-> TRUE, live |-> up], NoView} :
          req' = [req EXCEPT ![r] = [IdleReq EXCEPT !.pc = "gate", !.sel = p[1],
                                                    !.remove = p[2], !.view = view]]
    BY <1>2 DEF Open
  <2>3. view \in View
    <3>1. [ok |-> TRUE, live |-> up] \in View
      BY DEF View
    <3>2. NoView \in View
      BY DEF View, NoView
    <3> QED BY <2>2, <3>1, <3>2
  <2>4. [IdleReq EXCEPT !.pc = "gate", !.sel = p[1], !.remove = p[2], !.view = view] \in Requests
    BY <2>1, <2>3 DEF IdleReq, Requests
  <2>5. req' \in [Request -> Requests]
    BY <2>2, <2>4 DEF Requests
  <2>6. \A q \in Request : req'[q].pc \in {"skip", "claim"} => q # r /\ req'[q] = req[q]
    BY <2>2, <2>5 DEF Requests, IdleReq
  <2> QED BY <1>2, <2>5, <2>6 DEF Open, Requests
<1>3. ASSUME NEW c \in Canceller, NEW i \in RunId, FindRun(c, i)
      PROVE  TypeInv'
  BY <1>3 DEF FindRun, RunId
<1>4. ASSUME NEW s \in Service, ServiceRestart(s)
      PROVE  TypeInv'
  <2>1. ctr' \in [Service -> Container \cup {None}]
    BY <1>4, StartedTypes DEF ServiceRestart
  <2> QED BY <1>4, <2>1 DEF ServiceRestart
<1>5. ASSUME NEW s \in Service, ContainerDies(s)
      PROVE  TypeInv'
  BY <1>5 DEF ContainerDies
<1>6. CASE LoseHistory
  BY <1>6 DEF LoseHistory
<1> QED BY <1>1, <1>2, <1>3, <1>4, <1>5, <1>6 DEF Operator

(* The request handlers.                                                   *)

\* A handler's step writes a well-formed record for itself; a handler past Load
\* keeps its environment.
LEMMA HandlerStepTypeInv ==
  ASSUME TypeInv, NEW r \in Request, NEW q \in Requests,
         req' = [req EXCEPT ![r] = q],
         q.pc \in {"skip", "claim"} => q.env \in Configs,
         prep' \in Request \cup {None},
         UNCHANGED <<config, history, hostVars, nextID, retained, runVars, canc, auxVars>>
  PROVE  TypeInv'
<1>1. req' \in [Request -> Requests] /\ req'[r] = q
  BY DEF TypeInv, TypeOK, Requests
<1>2. \A x \in Request : x # r => req'[x] = req[x]
  BY DEF TypeInv, TypeOK
<1> QED BY <1>1, <1>2 DEF TypeInv, TypeOK, StepHasService, EnvIsLoaded, Requests, hostVars, runVars, auxVars

LEMMA HandlerTypeInv ==
  ASSUME TypeInv, NEW r \in Request, Handler(r)
  PROVE  TypeInv'
<1>0. /\ IdleReq \in Requests /\ IdleReq.pc = "idle"
      /\ req \in [Request -> Requests] /\ req[r] \in Requests
      /\ prep \in Request \cup {None} /\ config \in Configs \cup {None}
  BY DEF IdleReq, NoView, View, Requests, TypeInv, TypeOK
<1>1. CASE Gate(r)
  <2>1. PICK q \in {[req[r] EXCEPT !.pc = "start"], IdleReq} : req' = [req EXCEPT ![r] = q]
    BY <1>1, <1>0 DEF Gate
  <2>2. q \in Requests /\ q.pc \in {"start", "idle"}
    BY <2>1, <1>0 DEF Requests
  <2> QED BY <1>1, <1>0, <2>1, <2>2, HandlerStepTypeInv DEF Gate
<1>2. CASE Load(r)
  <2>1. CASE config = None
    BY <1>2, <1>0, <2>1, HandlerStepTypeInv DEF Load
  <2>2. CASE config # None
    <3> DEFINE q == [req[r] EXCEPT !.pc = "skip", !.env = config]
    <3>1. q \in Requests /\ q.env \in Configs
      BY <1>0, <2>2 DEF Requests
    <3>2. req' = [req EXCEPT ![r] = q] /\ prep' = r
      BY <1>2, <1>0, <2>2 DEF Load
    <3> HIDE DEF q
    <3> QED BY <1>2, <3>1, <3>2, HandlerStepTypeInv DEF Load
  <2> QED BY <2>1, <2>2
<1>3. CASE Decide(r)
  <2> DEFINE kept == IF req[r].remove THEN Resolve(req[r].sel)
                     ELSE Kept(req[r].sel, req[r].view, req[r].env)
             q == [req[r] EXCEPT !.pc = "claim", !.kept = kept]
  <2>1. kept \in SUBSET Service
    BY ResolveIsServices DEF Kept
  <2>2. req[r].env \in Configs
    BY <1>3 DEF Decide, TypeInv, EnvIsLoaded
  <2>3. q \in Requests /\ q.env \in Configs
    <3> HIDE DEF kept
    <3> QED BY <1>0, <2>1, <2>2 DEF Requests
  <2>4. CASE req' = [req EXCEPT ![r] = IdleReq] /\ prep' = None
    BY <1>3, <1>0, <2>4, HandlerStepTypeInv DEF Decide
  <2>5. CASE req' = [req EXCEPT ![r] = q] /\ UNCHANGED prep
    <3> HIDE DEF q
    <3> QED BY <1>3, <1>0, <2>3, <2>5, HandlerStepTypeInv DEF Decide
  <2>6. req' = [req EXCEPT ![r] = [@ EXCEPT !.pc = "claim", !.kept = kept]] => req' = [req EXCEPT ![r] = q]
    BY <1>0
  <2> QED BY <1>3, <1>0, <2>4, <2>5, <2>6 DEF Decide
<1>4. CASE Claim(r)
  <2>1. CASE Busy
    BY <1>4, <1>0, <2>1, HandlerStepTypeInv DEF Claim, PrepAfterClaim, runVars
  <2>2. CASE ~Busy
    <3> DEFINE id == nextID + 1
               q == req[r]
               j == [sel |-> q.sel, remove |-> q.remove, services |-> q.kept,
                     skipped |-> Resolve(q.sel) \ q.kept, env |-> q.env]
    <3>1. /\ id \in RunId
          /\ q.env \in Configs
      BY <1>4, <2>2, <1>0, ConstantsAssumption DEF Claim, TypeInv, TypeOK, EnvIsLoaded, RunId
    <3>2. j \in Jobs /\ j.env \in Configs /\ q.kept \in SUBSET Service
      BY <1>0, <3>1, ResolveIsServices DEF Jobs, Requests
    <3>3. /\ pc' = [pc EXCEPT ![id] = "spawned"]
          /\ job' = [job EXCEPT ![id] = j]
          /\ todo' = [todo EXCEPT ![id] = q.kept]
          /\ ctx' = ctx /\ nextID' = id /\ retained' = Prune(retained \cup {id})
          /\ req' = [req EXCEPT ![r] = IdleReq] /\ prep' = None
      BY <1>4, <2>2 DEF Claim, PrepAfterClaim
    <3>4. retained' \subseteq RunId
      BY <3>1, <3>3 DEF Prune, TypeInv, TypeOK
    <3> HIDE DEF j, id
    <3>5. TypeOK'
      <4>1. pc' \in [RunId -> Live \cup Over] /\ job' \in [RunId -> Jobs] /\ todo' \in [RunId -> SUBSET Service]
        BY <3>1, <3>2, <3>3 DEF TypeInv, TypeOK, Live
      <4>2. req' \in [Request -> Requests] /\ nextID' \in 0 .. MaxRuns
        BY <1>0, <3>1, <3>3 DEF RunId
      <4> QED BY <1>4, <4>1, <4>2, <3>3, <3>4 DEF Claim, TypeInv, TypeOK, hostVars, auxVars, Requests
    <3>6. StepHasService'
      BY <3>1, <3>2, <3>3 DEF TypeInv, TypeOK, StepHasService, InStep, InDeployer
    <3>7. EnvIsLoaded'
      BY <1>0, <3>1, <3>2, <3>3 DEF TypeInv, TypeOK, EnvIsLoaded, Live, InStep, InDeployer, Requests
    <3> QED BY <3>5, <3>6, <3>7 DEF TypeInv
  <2> QED BY <2>1, <2>2
<1> QED BY <1>1, <1>2, <1>3, <1>4 DEF Handler

(* The goroutine of a run, its context, and the process.                   *)

LEMMA WriteTypes ==
  ASSUME TypeInv, NEW s \in Service, NEW rec \in Record, Write(s, rec)
  PROVE  history' \in [Service -> Record \cup {None}] /\ cut' \subseteq Service
  BY DEF Write, TypeInv, TypeOK

LEMMA ExecuteTypeInv ==
  ASSUME TypeInv, NEW i \in RunId, Execute(i)
  PROVE  TypeInv'
<1>0. TypeInv
  OBVIOUS
<1> USE DEF TypeInv, TypeOK, StepHasService, EnvIsLoaded, hostVars, auxVars
<1>1. CASE SetCancel(i)
  BY <1>1 DEF SetCancel, Live, Over, InStep, InDeployer
<1>2. CASE StepStart(i)
  BY <1>2 DEF StepStart, Live, Over, InStep, InDeployer
<1>3. CASE LoopEnd(i)
  BY <1>3 DEF LoopEnd, Live, Over, InStep, InDeployer
<1>4. pc[i] \in {"failing", "returned", "record"} => Current(i) \in Service
  BY CurrentIsService DEF InStep
<1>5. CASE RecordFailed(i)
  <2>1. [action |-> Verb(i), ok |-> FALSE, hash |-> None] \in Record
    BY DEF Verb, Record
  <2>2. history' \in [Service -> Record \cup {None}] /\ cut' \subseteq Service
    BY <1>4, <1>5, <2>1, WriteTypes DEF RecordFailed
  <2> QED BY <1>5, <2>2 DEF RecordFailed, ErrorExit, Live, Over, InStep, InDeployer
<1>6. CASE CheckContext(i)
  BY <1>4, <1>6 DEF CheckContext, Live, Over, InStep, InDeployer
<1>7. CASE RecordOk(i)
  <2>1. job[i].env \in [Service -> Version] /\ Current(i) \in Service
    BY <1>4, <1>7, ConstantsAssumption DEF RecordOk, Live, InStep
  <2>2. [action |-> Verb(i), ok |-> TRUE, hash |-> RecordedHash(i)] \in Record
    BY <2>1 DEF Verb, Record, RecordedHash
  <2>3. history' \in [Service -> Record \cup {None}] /\ cut' \subseteq Service
    BY <1>7, <2>1, <2>2, WriteTypes DEF RecordOk
  <2> QED BY <1>7, <2>3 DEF RecordOk, Live, Over, InStep, InDeployer
<1>8. CASE Finish(i)
  <2>1. NoJob \in Jobs
    BY DEF NoJob, Jobs
  <2> QED BY <1>8, <2>1 DEF Finish, Live, Over, InStep, InDeployer
<1> QED BY <1>1, <1>2, <1>3, <1>5, <1>6, <1>7, <1>8 DEF Execute

LEMMA CancelTypeInv ==
  ASSUME TypeInv, (\E c \in Canceller : FireCancel(c)) \/ (\E i \in RunId : Deadline(i))
  PROVE  TypeInv'
<1> USE DEF TypeInv, TypeOK, StepHasService, EnvIsLoaded, hostVars, auxVars, CancelContext
<1>1. ASSUME NEW c \in Canceller, FireCancel(c)
      PROVE  TypeInv'
  <2>1. canc[c] \in RunId
    BY <1>1, ConstantsAssumption DEF FireCancel, RunId
  <2> QED BY <1>1, <2>1, ConstantsAssumption DEF FireCancel
<1>2. ASSUME NEW i \in RunId, Deadline(i)
      PROVE  TypeInv'
  BY <1>2 DEF Deadline
<1> QED BY <1>1, <1>2

LEMMA CrashTypeInv ==
  ASSUME TypeInv, Crash
  PROVE  TypeInv'
<1>1. {Current(i) : i \in {j \in RunId : pc[j] \in InStep}} \subseteq Service
  BY CurrentIsService
<1>2. IdleReq \in Requests /\ NoJob \in Jobs
  BY DEF IdleReq, NoView, View, Requests, NoJob, Jobs
<1>3. TypeOK'
  BY <1>1, <1>2, ConstantsAssumption DEF Crash, TypeInv, TypeOK, Requests, hostVars, Live, Over
<1>4. StepHasService' /\ EnvIsLoaded'
  BY DEF Crash, StepHasService, EnvIsLoaded, Live, InStep, InDeployer, IdleReq
<1> QED BY <1>3, <1>4 DEF TypeInv

LEMMA NextTypeInv == TypeInv /\ [Next]_vars => TypeInv'
<1> SUFFICES ASSUME TypeInv, [Next]_vars PROVE TypeInv'
  OBVIOUS
<1>1. CASE UNCHANGED vars
  BY <1>1 DEF vars, hostVars, runVars, auxVars, TypeInv, TypeOK, StepHasService, EnvIsLoaded
<1>2. CASE Next
  BY <1>2, OutsideTypeInv, HandlerTypeInv, ExecuteTypeInv, DeployerTypeInv, CancelTypeInv, CrashTypeInv
  DEF Next
<1> QED BY <1>1, <1>2

\* In every reachable state each variable of the engine has its type: a record
\* written by a run, whatever failed, is one skipDeployedDeps can read.
THEOREM TypeCorrect == Spec => []TypeOK
<1>1. TypeInv => TypeOK
  BY DEF TypeInv
<1> QED BY <1>1, InitTypeInv, NextTypeInv, PTL DEF Spec
-----------------------------------------------------------------------------
(* The single flight.  What makes it hold is that the claim is one step    *)
(* under e.mu: every unfinished run is the newest one, so a claim that     *)
(* finds the newest run finished finds them all finished.                  *)

FlightInv ==
  /\ LiveRunIsFound
  /\ retained \subseteq 1 .. nextID
  /\ \A i \in RunId : pc[i] = "absent" <=> i > nextID

\* A step of a run's own goroutine: an unfinished run goes on or finishes.
RunStep(i) ==
  /\ pc[i] \in Live
  /\ \E p \in Live \cup {"ok", "failed"} : pc' = [pc EXCEPT ![i] = p]
  /\ UNCHANGED <<nextID, retained>>

LEMMA RunSteps ==
  ASSUME TypeInv, NEW i \in RunId, Execute(i) \/ Deployer(i)
  PROVE  RunStep(i)
<1>1. ASSUME Execute(i) PROVE RunStep(i)
  BY <1>1 DEF Execute, SetCancel, StepStart, LoopEnd, RecordFailed, ErrorExit, CheckContext, RecordOk, Finish,
              RunStep, Live, InStep, InDeployer
<1>2. ASSUME Deployer(i) PROVE RunStep(i)
  <2>1. PICK from \in InDeployer, to \in InStep : DeployerStep(i, from, to)
    BY <1>2 DEF Deployer, DeployerFails, Render, Down, Up, BecomesReady, RemoveDown, RemoveFiles, InStep, InDeployer
  <2> QED BY <2>1 DEF DeployerStep, RunStep, Live, InStep
<1> QED BY <1>1, <1>2

\* What a step of the system does to the runs.
LEMMA StepsOfRuns ==
  ASSUME TypeInv, [Next]_vars
  PROVE  \/ UNCHANGED <<pc, nextID, retained>>
         \/ \E i \in RunId : RunStep(i)
         \/ \E r \in Request : Claim(r) /\ ~Busy
         \/ Crash
<1>1. CASE UNCHANGED vars
  BY <1>1 DEF vars, runVars
<1>2. CASE Operator
  BY <1>2 DEF Operator, SaveConfig, Open, FindRun, ServiceRestart, runVars
<1>3. ASSUME NEW r \in Request, Handler(r), ~(Claim(r) /\ ~Busy)
      PROVE  UNCHANGED <<pc, nextID, retained>>
  BY <1>3 DEF Handler, Gate, Load, Decide, Claim, runVars
<1>4. ASSUME NEW i \in RunId, Execute(i) \/ Deployer(i)
      PROVE  RunStep(i)
  BY <1>4, RunSteps
<1>5. ASSUME (\E i \in RunId : Deadline(i)) \/ (\E c \in Canceller : FireCancel(c))
      PROVE  UNCHANGED <<pc, nextID, retained>>
  BY <1>5 DEF Deadline, FireCancel
<1>6. ASSUME (\E s \in Service : ContainerDies(s)) \/ LoseHistory
      PROVE  UNCHANGED <<pc, nextID, retained>>
  BY <1>6 DEF ContainerDies, LoseHistory, runVars
<1> QED BY <1>1, <1>2, <1>3, <1>4, <1>5, <1>6 DEF Next

\* The run just claimed has the highest id, and is not the one pruneRuns drops.
LEMMA PruneKeepsNewest ==
  ASSUME NEW ids, NEW id \in ids, ids \subseteq Nat, \A j \in ids : j <= id
  PROVE  id \in Prune(ids) /\ Prune(ids) \subseteq ids
<1>1. {j \in ids : j > id} = {}
  <2>1. \A j \in ids : j \in Nat /\ id \in Nat /\ j <= id
    OBVIOUS
  <2>2. \A j \in ids : ~(j > id)
    BY <2>1
  <2> QED BY <2>2
<1>2. Cardinality({j \in ids : j > id}) = 0
  BY <1>1, FS_EmptySet
<1> QED BY <1>2, ConstantsAssumption DEF Prune

\* A claim that finds the single flight free.
LEMMA ClaimFlight ==
  ASSUME TypeInv, FlightInv, NEW r \in Request, Claim(r), ~Busy
  PROVE  /\ nextID' = nextID + 1 /\ nextID + 1 \in RunId
         /\ pc' = [pc EXCEPT ![nextID + 1] = "spawned"]
         /\ \A i \in RunId : pc[i] \notin Live
         /\ nextID + 1 \in retained' /\ retained' \subseteq 1 .. nextID + 1
<1>1. /\ nextID \in 0 .. MaxRuns /\ MaxRuns \in Nat
      /\ nextID + 1 \in RunId
      /\ nextID' = nextID + 1
      /\ pc' = [pc EXCEPT ![nextID + 1] = "spawned"]
      /\ retained' = Prune(retained \cup {nextID + 1})
  BY ConstantsAssumption DEF Claim, TypeInv, TypeOK, RunId
<1>2. \A i \in RunId : pc[i] \notin Live
  BY <1>1 DEF FlightInv, LiveRunIsFound, Busy, RunId
<1>3. /\ retained \cup {nextID + 1} \subseteq Nat
      /\ \A j \in retained \cup {nextID + 1} : j <= nextID + 1
      /\ retained \cup {nextID + 1} \subseteq 1 .. nextID + 1
  BY <1>1 DEF FlightInv
<1>4. nextID + 1 \in retained' /\ retained' \subseteq retained \cup {nextID + 1}
  BY <1>1, <1>3, PruneKeepsNewest
<1> QED BY <1>1, <1>2, <1>3, <1>4

LEMMA InitFlight == Init => FlightInv
  BY ConstantsAssumption DEF Init, FlightInv, LiveRunIsFound, RunId, Live, InStep, InDeployer

LEMMA NextFlight == TypeInv /\ FlightInv /\ [Next]_vars => FlightInv'
<1> SUFFICES ASSUME TypeInv, FlightInv, [Next]_vars PROVE FlightInv'
  OBVIOUS
<1>1. CASE UNCHANGED <<pc, nextID, retained>>
  BY <1>1 DEF FlightInv, LiveRunIsFound
<1>2. ASSUME NEW i \in RunId, RunStep(i)
      PROVE  FlightInv'
  BY <1>2 DEF RunStep, FlightInv, LiveRunIsFound, TypeInv, TypeOK, Live, InStep, InDeployer
<1>3. ASSUME NEW r \in Request, Claim(r), ~Busy
      PROVE  FlightInv'
  <2>1. LiveRunIsFound'
    BY <1>3, ClaimFlight DEF LiveRunIsFound, TypeInv, TypeOK
  <2>2. \A i \in RunId : pc'[i] = "absent" <=> i > nextID'
    <3>1. nextID \in Nat /\ nextID + 1 \in RunId /\ nextID' = nextID + 1 /\ pc' = [pc EXCEPT ![nextID + 1] = "spawned"]
      BY <1>3, ClaimFlight, ConstantsAssumption DEF TypeInv, TypeOK
    <3>2. \A i \in RunId : pc'[i] = IF i = nextID + 1 THEN "spawned" ELSE pc[i]
      BY <3>1 DEF TypeInv, TypeOK
    <3>3. \A i \in RunId : i \in Nat
      BY DEF RunId
    <3> QED BY <3>1, <3>2, <3>3 DEF FlightInv
  <2> QED BY <1>3, <2>1, <2>2, ClaimFlight DEF FlightInv
<1>4. CASE Crash
  BY <1>4, ConstantsAssumption DEF Crash, FlightInv, LiveRunIsFound, RunId, Live, InStep, InDeployer
<1> QED BY <1>1, <1>2, <1>3, <1>4, StepsOfRuns

\* deploy.go, "single-flight deploy loop": at most one run is unfinished, however
\* many handlers prepare, claim and cancel at once.
THEOREM SingleFlightHolds == Spec => []SingleFlight
<1>1. FlightInv => SingleFlight
  BY DEF FlightInv, LiveRunIsFound, SingleFlight
<1> QED BY <1>1, InitTypeInv, NextTypeInv, InitFlight, NextFlight, PTL DEF Spec

\* The unfinished run can always be found by its id: no amount of pruning takes
\* the cancel button or the event stream away from it.
THEOREM LiveRunIsFoundHolds == Spec => []LiveRunIsFound
<1>1. FlightInv => LiveRunIsFound
  BY DEF FlightInv
<1> QED BY <1>1, InitTypeInv, NextTypeInv, InitFlight, NextFlight, PTL DEF Spec

\* The engine implements the abstract single flight: runs begin in order, one at
\* a time, end once, and never change their result.
THEOREM EngineRefinesRuns == Spec => RefinesRuns
<1>1. Init => Runs!Init
  BY DEF Init, Runs!Init, RunStatus, RunId, Live, InStep, InDeployer
<1>2. TypeInv /\ FlightInv /\ [Next]_vars => [Runs!Next]_RunStatus
  <2> SUFFICES ASSUME TypeInv, FlightInv, [Next]_vars PROVE [Runs!Next]_RunStatus
    OBVIOUS
  <2>1. CASE UNCHANGED <<pc, nextID, retained>>
    BY <2>1 DEF RunStatus
  <2>2. ASSUME NEW i \in RunId, RunStep(i)
        PROVE  [Runs!Next]_RunStatus
    <3>1. PICK p \in Live \cup {"ok", "failed"} : pc' = [pc EXCEPT ![i] = p]
      BY <2>2 DEF RunStep
    <3>2. CASE p \in Live
      BY <2>2, <3>1, <3>2 DEF RunStep, RunStatus, TypeInv, TypeOK
    <3>3. CASE p \in {"ok", "failed"}
      <4>1. p \notin Live
        BY <3>3 DEF Live, InStep, InDeployer
      <4>2. RunStatus[i] = "running" /\ RunStatus' = [RunStatus EXCEPT ![i] = p]
        BY <2>2, <3>1, <4>1 DEF RunStep, RunStatus, TypeInv, TypeOK
      <4>3. Runs!End(i)
        BY <3>3, <4>2 DEF Runs!End
      <4> QED BY <4>3 DEF Runs!Next, RunId
    <3> QED BY <3>2, <3>3
  <2>3. ASSUME NEW r \in Request, Claim(r), ~Busy
        PROVE  [Runs!Next]_RunStatus
    <3> DEFINE id == nextID + 1
    <3>1. id \in RunId /\ pc' = [pc EXCEPT ![id] = "spawned"] /\ \A i \in RunId : pc[i] \notin Live
      BY <2>3, ClaimFlight
    <3>2. RunStatus' = [RunStatus EXCEPT ![id] = "running"]
      BY <3>1 DEF RunStatus, TypeInv, TypeOK, Live
    <3>3. RunStatus[id] = "absent"
      BY <3>1, ConstantsAssumption DEF FlightInv, RunStatus, TypeInv, TypeOK, RunId
    <3>4. \A j \in 1 .. id - 1 : RunStatus[j] \in {"ok", "failed"}
      <4> SUFFICES ASSUME NEW j \in 1 .. id - 1 PROVE RunStatus[j] \in {"ok", "failed"}
        OBVIOUS
      <4>1. j \in RunId /\ ~(j > nextID)
        BY ConstantsAssumption DEF TypeInv, TypeOK, RunId
      <4>2. pc[j] # "absent" /\ pc[j] \notin Live
        BY <3>1, <4>1 DEF FlightInv
      <4> QED BY <4>1, <4>2 DEF RunStatus, TypeInv, TypeOK, Over
    <3>5. Runs!Begin(id)
      BY <3>2, <3>3, <3>4 DEF Runs!Begin
    <3> QED BY <3>1, <3>5 DEF Runs!Next, RunId
  <2>4. CASE Crash
    <3>1. Runs!Restart
      BY <2>4 DEF Crash, Runs!Restart, RunStatus, RunId, Live, InStep, InDeployer
    <3> QED BY <3>1 DEF Runs!Next
  <2> QED BY <2>1, <2>2, <2>3, <2>4, StepsOfRuns
<1> QED BY <1>1, <1>2, InitTypeInv, NextTypeInv, InitFlight, NextFlight, PTL DEF Spec, RefinesRuns, Runs!Spec
-----------------------------------------------------------------------------
(* The preparation lock.                                                   *)

LEMMA NextPreparation == TypeInv /\ PreparationIsExclusive /\ [Next]_vars => PreparationIsExclusive'
<1> SUFFICES ASSUME TypeInv, PreparationIsExclusive, [Next]_vars PROVE PreparationIsExclusive'
  OBVIOUS
<1> USE DEF PreparationIsExclusive
<1>1. req \in [Request -> Requests]
  BY DEF TypeInv, TypeOK, Requests
<1>2. CASE UNCHANGED <<req, prep>>
  BY <1>2
<1>3. ASSUME NEW r \in Request, NEW p \in Selections, Open(r, p[1], p[2])
      PROVE  PreparationIsExclusive'
  BY <1>1, <1>3 DEF Open, IdleReq
<1>4. ASSUME NEW r \in Request, Handler(r)
      PROVE  PreparationIsExclusive'
  <2>1. CASE Gate(r)
    BY <1>1, <2>1 DEF Gate, IdleReq, Requests
  <2>2. CASE Load(r)
    BY <1>1, <2>2, ConstantsAssumption DEF Load, PrepIsFree, IdleReq, Requests
  <2>3. CASE Decide(r)
    BY <1>1, <2>3 DEF Decide, IdleReq, Requests
  <2>4. CASE Claim(r)
    BY <1>1, <2>4 DEF Claim, PrepAfterClaim, IdleReq, Requests
  <2> QED BY <1>4, <2>1, <2>2, <2>3, <2>4 DEF Handler
<1>5. CASE Crash
  BY <1>5 DEF Crash, IdleReq
<1>6. ASSUME NEW i \in RunId, Execute(i) \/ Deployer(i)
      PROVE  UNCHANGED <<req, prep>>
  BY <1>6 DEF Execute, SetCancel, StepStart, LoopEnd, RecordFailed, CheckContext, RecordOk, Finish, Deployer,
              DeployerFails, Render, Down, Up, BecomesReady, RemoveDown, RemoveFiles, DeployerStep
<1>7. UNCHANGED vars => UNCHANGED <<req, prep>>
  BY DEF vars
<1> QED BY <1>2, <1>3, <1>4, <1>5, <1>6, <1>7
        DEF Next, Operator, SaveConfig, FindRun, ServiceRestart, Deadline, FireCancel, ContainerDies, LoseHistory

\* deploy.go:58-68: between Load and the claim a handler owns the preparation.
\* Without it two first deploys would both find a secret absent and write it.
THEOREM PreparationIsExclusiveHolds == Spec => []PreparationIsExclusive
<1>1. Init => PreparationIsExclusive
  BY DEF Init, PreparationIsExclusive, IdleReq
<1> QED BY <1>1, InitTypeInv, NextTypeInv, NextPreparation, PTL DEF Spec
-----------------------------------------------------------------------------
(***************************************************************************)
(* What the deploy engine leaves on the host and in state.json.  Only one  *)
(* run is unfinished, and inside a step it touches one service, the next   *)
(* of its list.  The inductive invariant says of that run what its         *)
(* services are, what the step has done to the host so far, and what the   *)
(* services behind it look like; of a cancelled run, where it can be.      *)
(***************************************************************************)

\* What run i leaves behind of service s.
OnOwn(i, s) ==
  IF job[i].remove THEN file[s] = None ELSE OnVersion(s, job[i].env[s])

\* What `up` finds after `down`: no container, one a failing `down` has left, or one
\* restarted since.
Excused(s, v) == ctr[s] # None => ctr[s].spared \/ ctr[s].read = v

\* What a record says of a service is so.
OnRecord(s) ==
  IF history[s].action = "deploy" THEN OnVersion(s, history[s].hash) ELSE file[s] = None

\* Of a run: what it was asked, what its step has done, and what it has done before.
JobOK(i) ==
  /\ todo[i] \subseteq job[i].services
  /\ job[i].services \cup job[i].skipped = Resolve(job[i].sel)
  /\ pc[i] = "succeed" => todo[i] = {}
StepOK(i) ==
  /\ pc[i] \in {"render", "down", "up", "ready"} => ~job[i].remove
  /\ pc[i] \in {"rdown", "rfiles"} => job[i].remove
  /\ pc[i] \in {"down", "up", "ready"} => file[Current(i)] = job[i].env[Current(i)]
  /\ pc[i] = "up" => Excused(Current(i), job[i].env[Current(i)])
  /\ pc[i] = "ready" => OnVersion(Current(i), job[i].env[Current(i)])
  /\ pc[i] \in {"returned", "record"} => OnOwn(i, Current(i))
DoneOK(i) ==
  \A s \in Finished(i) :
    /\ OnOwn(i, s)
    /\ s \notin cut /\ history[s] # None => history[s].action = Verb(i) /\ history[s].ok
RunsInv == \A i \in RunId : pc[i] \in Live => JobOK(i) /\ StepOK(i) /\ DoneOK(i)

\* A run whose cancel was acknowledged, or that has started a late step, is on
\* its way to "failed".
Doomed(i) == ctx[i] = "cancelled" /\ pc[i] \in (InStep \ {"record"}) \cup {"fail"}
CancelOK(i) ==
  /\ ctx[i] # "none" => pc[i] \in Live \ {"spawned"}
  /\ late[i] # 0 => late[i] = 1 /\ Doomed(i)
  /\ i \in acked => \/ pc[i] = "failed" \/ Doomed(i)
                    \/ ctx[i] = "cancelled" /\ pc[i] = "loop" /\ todo[i] # {}
CancelInv == \A i \in RunId : CancelOK(i)

KeptInv == \A r \in Request : req[r].pc = "claim" => req[r].kept \subseteq Resolve(req[r].sel)

HostInv == RunsInv /\ CancelInv /\ RecordMatchesHost /\ KeptInv
IInv == TypeInv /\ FlightInv /\ HostInv
-----------------------------------------------------------------------------
LEMMA InitHost == Init => HostInv
<1> SUFFICES ASSUME Init PROVE HostInv
  OBVIOUS
<1>1. RunsInv
  BY DEF Init, RunsInv, Live, InStep, InDeployer
<1>2. CancelInv
  BY DEF Init, CancelInv, CancelOK
<1>3. RecordMatchesHost /\ KeptInv
  BY DEF Init, RecordMatchesHost, KeptInv, IdleReq
<1> QED BY <1>1, <1>2, <1>3 DEF HostInv

\* The unfinished run is alone: what it works on is what is worked on.
LEMMA Alone ==
  ASSUME IInv, NEW i \in RunId, pc[i] \in Live
  PROVE  /\ \A j \in RunId \ {i} : pc[j] \notin Live
         /\ \A s : AtWorkOn(s) <=> pc[i] \in InStep /\ Current(i) = s
<1>1. \A j \in RunId \ {i} : pc[j] \notin Live
  BY DEF IInv, FlightInv, LiveRunIsFound
<1> QED BY <1>1 DEF AtWorkOn, Live

\* A step of the run that is alone: only what it says of itself is left to show.
LEMMA RunStepHost ==
  ASSUME IInv, NEW i \in RunId, RunStep(i), UNCHANGED <<req, acked>>,
         \A j \in RunId \ {i} : ctx'[j] = ctx[j] /\ late'[j] = late[j],
         pc'[i] \in Live => (JobOK(i) /\ StepOK(i) /\ DoneOK(i))',
         CancelOK(i)', RecordMatchesHost'
  PROVE  HostInv'
<1>1. \A j \in RunId \ {i} : pc[j] \notin Live /\ pc'[j] = pc[j]
  BY Alone DEF RunStep, IInv, TypeInv, TypeOK
<1>2. RunsInv'
  BY <1>1 DEF RunsInv
<1>3. CancelInv'
  <2> SUFFICES ASSUME NEW j \in RunId \ {i} PROVE CancelOK(j)'
    BY DEF CancelInv
  <2>1. pc[j] # "loop"
    BY <1>1 DEF Live
  <2> QED BY <1>1, <2>1 DEF IInv, HostInv, CancelInv, CancelOK, Doomed
<1>4. KeptInv'
  BY DEF IInv, HostInv, KeptInv
<1> QED BY <1>2, <1>3, <1>4 DEF HostInv

\* What is worked on after it.
LEMMA AloneAfter ==
  ASSUME IInv, NEW i \in RunId, RunStep(i)
  PROVE  \A s : AtWorkOn(s)' <=> pc'[i] \in InStep /\ Current(i)' = s
<1>1. \A j \in RunId \ {i} : pc[j] \notin Live /\ pc'[j] = pc[j]
  BY Alone DEF RunStep, IInv, TypeInv, TypeOK
<1> QED BY <1>1 DEF AtWorkOn, Live
-----------------------------------------------------------------------------
(* The deployer.                                                           *)

LEMMA DownKeepsOthers ==
  ASSUME TypeInv, NEW i \in RunId, NEW s \in Service, DownEffect(i, s)
  PROVE  file' = file /\ \A t \in Service \ {s} : ctr'[t] = ctr[t]
  BY DEF DownEffect, TypeInv, TypeOK

\* A service that keeps its files and containers keeps what is said of them.
LEMMA SameHost ==
  ASSUME NEW s, file'[s] = file[s], ctr'[s] = ctr[s]
  PROVE  /\ \A i \in RunId : UNCHANGED job => (OnOwn(i, s)' <=> OnOwn(i, s))
         /\ history'[s] = history[s] => (OnRecord(s)' <=> OnRecord(s))
  BY DEF OnVersion, OnOwn, OnRecord

\* A deployer's step touches one service, and no field of its run.
LEMMA DeployerEffect ==
  ASSUME IInv, NEW i \in RunId, Deployer(i)
  PROVE  /\ pc[i] \in InDeployer /\ pc'[i] \in InStep \ {"record"} /\ Current(i) \in Service
         /\ UNCHANGED <<history, req, job, todo, ctx, acked, late, cut>>
         /\ \A s \in Service \ {Current(i)} : file'[s] = file[s] /\ ctr'[s] = ctr[s]
         /\ StepOK(i)'
<1>1. PICK from \in InDeployer, to \in InStep \ {"record"} : DeployerStep(i, from, to)
  BY DEF Deployer, DeployerFails, Render, Down, Up, BecomesReady, RemoveDown, RemoveFiles, InStep, InDeployer
<1>2. /\ pc[i] \in InDeployer /\ pc'[i] \in InStep \ {"record"}
      /\ UNCHANGED <<history, req, job, todo, ctx, acked, late, cut>>
  BY <1>1 DEF DeployerStep, auxVars, IInv, TypeInv, TypeOK
<1>3. pc[i] \in InStep /\ pc[i] \in Live
  BY <1>2 DEF InStep, Live
<1>4. Current(i) \in Service /\ Current(i)' = Current(i)
  BY <1>2, <1>3, CurrentIsService DEF Current, IInv
<1>5. StepOK(i) /\ file \in [Service -> Version \cup {None}] /\ ctr \in [Service -> Container \cup {None}]
  BY <1>3 DEF IInv, HostInv, RunsInv, TypeInv, TypeOK
<1> DEFINE s == Current(i)
<1> SUFFICES (\A t \in Service \ {s} : file'[t] = file[t] /\ ctr'[t] = ctr[t]) /\ StepOK(i)'
  BY <1>2, <1>4
<1>6. ASSUME NEW p, NEW q, DeployerStep(i, p, q) PROVE pc[i] = p /\ pc'[i] = q
  BY <1>6 DEF DeployerStep, IInv, TypeInv, TypeOK
<1>7. CASE DeployerFails(i)
  <2>1. pc'[i] = "failing" /\ UNCHANGED <<file, ctr>>
    BY <1>6, <1>7 DEF DeployerFails, hostVars
  <2> QED BY <2>1 DEF StepOK
<1>8. CASE Render(i)
  <2>1. pc[i] = "render" /\ pc'[i] = "down"
    BY <1>6, <1>8 DEF Render
  <2>2. file' = [file EXCEPT ![s] = job[i].env[s]] /\ ctr' = ctr
    BY <1>8 DEF Render, RenderedVersion
  <2> QED BY <1>2, <1>4, <1>5, <2>1, <2>2 DEF StepOK
<1>9. CASE Down(i)
  <2>1. pc[i] = "down" /\ pc'[i] = "up"
    BY <1>6, <1>9 DEF Down
  <2>2. file' = file /\ \A t \in Service \ {s} : ctr'[t] = ctr[t]
    BY <1>4, <1>9, DownKeepsOthers DEF Down, IInv
  <2>3. file[s] = job[i].env[s] /\ file[s] # None
    <3>1. job[i].env \in [Service -> Version]
      BY <1>3, ConstantsAssumption DEF IInv, TypeInv, EnvIsLoaded
    <3> QED BY <1>4, <1>5, <2>1, <3>1, ConstantsAssumption DEF StepOK
  <2>4. ctr'[s] # None => ctr'[s].spared = TRUE
    <3>1. \/ ctr' = [ctr EXCEPT ![s] = None]
          \/ ctr[s] = None /\ ctr' = ctr
          \/ ctr[s] # None /\ ctr' = [ctr EXCEPT ![s] = [ctr[s] EXCEPT !.spared = TRUE]]
      BY <1>5, <1>9, <2>3 DEF Down, DownEffect
    <3>2. ctr[s] # None => ctr[s] \in Container
      BY <1>4, <1>5
    <3> QED BY <1>4, <1>5, <3>1, <3>2, ContainerFields
  <2> QED BY <1>2, <1>4, <1>5, <2>1, <2>2, <2>4 DEF StepOK, Excused
<1>10. CASE Up(i)
  <2>1. pc[i] = "up" /\ pc'[i] \in {"ready", "failing"}
    BY <1>6, <1>10 DEF Up
  <2>2. file' = file /\ \A t \in Service \ {s} : ctr'[t] = ctr[t]
    BY <1>4, <1>5, <1>10 DEF Up, UpEffect
  <2>3. file[s] = job[i].env[s] /\ Excused(s, file[s])
    BY <1>5, <2>1 DEF StepOK
  <2>4. ctr'[s] = IF ~SameCompose(s) THEN [compose |-> ComposeOf[s][file[s]], read |-> file[s], spared |-> FALSE]
                  ELSE IF s \in up THEN ctr[s] ELSE Restarted(s)
    BY <1>4, <1>5, <1>10 DEF Up, UpEffect
  <2>5. file'[s] = file[s] /\ ctr'[s] # None /\ ctr'[s].compose = ComposeOf[s][file[s]]
        /\ (ctr'[s].read = file[s] \/ ctr'[s].spared)
    <3>1. CASE ~SameCompose(s)
      <4>1. [compose |-> ComposeOf[s][file[s]], read |-> file[s], spared |-> FALSE] # None
        BY <1>4, StartedTypes, NoneIsNoContainer DEF IInv
      <4> QED BY <2>2, <2>4, <3>1, <4>1
    <3>2. CASE SameCompose(s) /\ s \in up
      BY <2>2, <2>3, <2>4, <3>2 DEF SameCompose, Excused
    <3>3. CASE SameCompose(s) /\ s \notin up
      <4>1. ctr[s] \in Container /\ ctr[s] # None /\ ctr[s].compose = ComposeOf[s][file[s]]
        BY <1>4, <1>5, <3>3 DEF SameCompose
      <4>2. Restarted(s) # None
        BY <1>4, <4>1, StartedTypes, NoneIsNoContainer DEF IInv
      <4>3. Restarted(s).compose = ctr[s].compose /\ Restarted(s).read = file[s]
        BY <1>4, <4>1, StartedTypes DEF IInv
      <4> QED BY <2>2, <2>4, <3>3, <4>1, <4>2, <4>3
    <3> QED BY <3>1, <3>2, <3>3
  <2> QED BY <1>2, <1>4, <1>5, <2>1, <2>2, <2>3, <2>5 DEF StepOK, OnVersion
<1>11. CASE BecomesReady(i)
  <2>1. pc[i] = "ready" /\ pc'[i] = "returned" /\ UNCHANGED <<file, ctr>>
    BY <1>6, <1>11 DEF BecomesReady, hostVars
  <2> QED BY <1>2, <1>4, <1>5, <2>1 DEF StepOK, OnOwn, OnVersion
<1>12. CASE RemoveDown(i)
  <2>1. pc[i] = "rdown" /\ pc'[i] = "rfiles"
    BY <1>6, <1>12 DEF RemoveDown
  <2>2. file' = file /\ \A t \in Service \ {s} : ctr'[t] = ctr[t]
    BY <1>4, <1>12, DownKeepsOthers DEF RemoveDown, IInv
  <2> QED BY <1>2, <1>4, <1>5, <2>1, <2>2 DEF StepOK
<1>13. CASE RemoveFiles(i)
  <2>1. pc[i] = "rfiles" /\ pc'[i] = "returned"
    BY <1>6, <1>13 DEF RemoveFiles
  <2>2. file' = [file EXCEPT ![s] = None] /\ ctr' = ctr
    BY <1>13 DEF RemoveFiles
  <2> QED BY <1>2, <1>4, <1>5, <2>1, <2>2 DEF StepOK, OnOwn
<1> QED BY <1>7, <1>8, <1>9, <1>10, <1>11, <1>12, <1>13 DEF Deployer

LEMMA DeployerHost ==
  ASSUME IInv, NEW i \in RunId, Deployer(i)
  PROVE  HostInv'
<1> DEFINE s == Current(i)
<1>1. /\ pc[i] \in InDeployer /\ pc'[i] \in InStep \ {"record"} /\ s \in Service
      /\ UNCHANGED <<history, req, job, todo, ctx, acked, late, cut>>
      /\ \A t \in Service \ {s} : file'[t] = file[t] /\ ctr'[t] = ctr[t]
      /\ StepOK(i)'
  BY DeployerEffect
<1>2. RunStep(i) /\ pc[i] \in InStep /\ pc[i] \in Live
  BY <1>1, RunSteps DEF IInv, InStep, Live
<1>3. JobOK(i) /\ DoneOK(i) /\ CancelOK(i)
  BY <1>2 DEF IInv, HostInv, RunsInv, CancelInv
<1>4. Current(i)' = s /\ s \in todo[i]
  BY <1>1, <1>2, CurrentIsService DEF Current, IInv
<1>5. JobOK(i)'
  BY <1>1, <1>3 DEF JobOK, InStep, InDeployer
<1>6. DoneOK(i)'
  <2> SUFFICES ASSUME NEW t \in Finished(i) PROVE OnOwn(i, t)' /\ (t \notin cut /\ history[t] # None => history[t].action = Verb(i)' /\ history[t].ok)
    BY <1>1 DEF DoneOK, Finished
  <2>1. t \in Service /\ t # s
    BY <1>2, <1>4 DEF Finished, IInv, TypeInv, TypeOK, Jobs
  <2>2. file'[t] = file[t] /\ ctr'[t] = ctr[t]
    BY <1>1, <2>1
  <2> QED BY <1>1, <1>3, <2>2, SameHost DEF DoneOK, Verb
<1>7. CancelOK(i)'
  BY <1>1, <1>3 DEF CancelOK, Doomed, Live, InStep, InDeployer
<1>8. RecordMatchesHost'
  <2> SUFFICES ASSUME NEW t \in Service \ cut, history[t] # None, history[t].ok, ~AtWorkOn(t)'
               PROVE  OnRecord(t)'
    BY <1>1 DEF RecordMatchesHost, OnRecord
  <2>1. t # s
    BY <1>1, <1>2, <1>4, AloneAfter
  <2>2. ~AtWorkOn(t)
    BY <1>2, <2>1, Alone
  <2>3. file'[t] = file[t] /\ ctr'[t] = ctr[t]
    BY <1>1, <2>1
  <2>4. OnRecord(t)
    BY <2>2 DEF IInv, HostInv, RecordMatchesHost, OnRecord
  <2> QED BY <1>1, <2>3, <2>4, SameHost
<1> QED BY <1>1, <1>2, <1>5, <1>6, <1>7, <1>8, RunStepHost
-----------------------------------------------------------------------------
(* The goroutine of the run.                                               *)

\* Steps outside the deployer that leave the host and its records alone.
LEMMA QuietStepHost ==
  ASSUME IInv, NEW i \in RunId, RunStep(i), UNCHANGED <<req, acked, history, file, ctr, cut>>,
         \A j \in RunId \ {i} : ctx'[j] = ctx[j] /\ late'[j] = late[j],
         pc[i] \notin InStep,
         pc'[i] \in Live => UNCHANGED <<job, todo>> /\ StepOK(i)' /\ (pc'[i] = "succeed" => todo[i] = {}),
         CancelOK(i)'
  PROVE  HostInv'
<1>1. pc[i] \in Live /\ JobOK(i) /\ DoneOK(i)
  BY DEF RunStep, IInv, HostInv, RunsInv
<1>2. pc'[i] \in Live => (JobOK(i) /\ StepOK(i) /\ DoneOK(i))'
  BY <1>1 DEF JobOK, DoneOK, OnOwn, OnVersion, Finished, Verb
<1>3. \A s : ~AtWorkOn(s)
  BY <1>1, Alone
<1>4. RecordMatchesHost'
  BY <1>3 DEF IInv, HostInv, RecordMatchesHost, OnVersion
<1> QED BY <1>2, <1>4, RunStepHost

\* What Write leaves of the record of a service.
LEMMA WriteEffect ==
  ASSUME TypeInv, NEW s \in Service, NEW rec, Write(s, rec)
  PROVE  /\ \A t \in Service \ {s} : history'[t] = history[t] /\ (t \in cut' <=> t \in cut)
         /\ s \in cut' \/ history'[s] = rec
  BY DEF Write, TypeInv, TypeOK

LEMMA ExecuteHost ==
  ASSUME IInv, NEW i \in RunId, Execute(i)
  PROVE  HostInv'
<1> DEFINE s == Current(i)
<1>1. RunStep(i) /\ pc[i] \in Live
  BY RunSteps DEF IInv, RunStep
<1>2. JobOK(i) /\ StepOK(i) /\ DoneOK(i) /\ CancelOK(i)
  BY <1>1 DEF IInv, HostInv, RunsInv, CancelInv
<1>3. pc[i] \in InStep => s \in Service /\ s \in todo[i]
  BY CurrentIsService DEF IInv
<1>4. /\ pc \in [RunId -> Live \cup Over] /\ late \in [RunId -> Nat] /\ ctx \in [RunId -> {"none", "live", "cancelled"}]
      /\ todo \in [RunId -> SUBSET Service] /\ job \in [RunId -> Jobs]
  BY DEF IInv, TypeInv, TypeOK
<1>5. CASE SetCancel(i)
  <2>1. /\ pc[i] = "spawned" /\ pc'[i] = "loop" /\ ctx' = [ctx EXCEPT ![i] = "live"]
        /\ UNCHANGED <<req, acked, history, file, ctr, cut, late, job, todo>>
    BY <1>4, <1>5 DEF SetCancel, hostVars, auxVars
  <2>2. CancelOK(i)'
    BY <1>2, <1>4, <2>1 DEF CancelOK, Doomed, Live, InStep, InDeployer
  <2>3. StepOK(i)'
    BY <2>1 DEF StepOK
  <2> QED BY <1>1, <1>4, <2>1, <2>2, <2>3, QuietStepHost DEF InStep, InDeployer
<1>6. CASE StepStart(i)
  <2>1. /\ pc[i] = "loop" /\ pc'[i] = IF job[i].remove THEN "rdown" ELSE "render"
        /\ late' = (IF ctx[i] = "cancelled" THEN [late EXCEPT ![i] = @ + 1] ELSE late)
        /\ UNCHANGED <<req, acked, history, file, ctr, cut, ctx, job, todo>>
    BY <1>4, <1>6 DEF StepStart, hostVars
  <2>2. CancelOK(i)'
    <3>1. late[i] = 0
      BY <1>2, <1>4, <2>1 DEF CancelOK, Doomed, InStep, InDeployer
    <3>2. ctx[i] # "cancelled" => late'[i] = 0 /\ i \notin acked
      BY <1>2, <2>1, <3>1 DEF CancelOK, Doomed
    <3>3. ctx[i] = "cancelled" => late'[i] = 1 /\ Doomed(i)'
      BY <1>4, <2>1, <3>1 DEF Doomed, InStep, InDeployer
    <3>4. pc'[i] \in Live \ {"spawned"}
      BY <2>1 DEF Live, InStep, InDeployer
    <3> QED BY <2>1, <3>2, <3>3, <3>4 DEF CancelOK
  <2>3. StepOK(i)'
    BY <2>1 DEF StepOK
  <2>4. \A j \in RunId \ {i} : late'[j] = late[j]
    BY <1>4, <2>1
  <2>5. pc'[i] # "succeed" /\ pc[i] \notin InStep
    BY <2>1 DEF InStep, InDeployer
  <2> QED BY <1>1, <2>1, <2>2, <2>3, <2>4, <2>5, QuietStepHost
<1>7. CASE LoopEnd(i)
  <2>1. /\ pc[i] = "loop" /\ todo[i] = {} /\ pc'[i] = "succeed"
        /\ UNCHANGED <<req, acked, history, file, ctr, cut, ctx, late, job, todo>>
    BY <1>4, <1>7 DEF LoopEnd, hostVars, auxVars
  <2>2. CancelOK(i)'
    BY <1>2, <2>1 DEF CancelOK, Doomed, Live, InStep, InDeployer
  <2>3. StepOK(i)'
    BY <2>1 DEF StepOK
  <2> QED BY <1>1, <2>1, <2>2, <2>3, QuietStepHost DEF InStep, InDeployer
<1>8. CASE Finish(i)
  <2>1. /\ pc[i] \in {"succeed", "fail"} /\ pc'[i] = (IF pc[i] = "succeed" THEN "ok" ELSE "failed")
        /\ ctx' = [ctx EXCEPT ![i] = "none"] /\ late' = [late EXCEPT ![i] = 0]
        /\ UNCHANGED <<req, acked, history, file, ctr, cut>>
    BY <1>4, <1>8 DEF Finish, hostVars
  <2>2. CancelOK(i)'
    BY <1>2, <1>4, <2>1 DEF CancelOK, Doomed, Live, InStep, InDeployer
  <2>3. pc'[i] \notin Live /\ pc[i] \notin InStep
    BY <2>1 DEF Live, InStep, InDeployer
  <2> QED BY <1>1, <1>4, <2>1, <2>2, <2>3, QuietStepHost
<1>9. CASE RecordFailed(i)
  <2>1. /\ pc[i] = "failing" /\ pc'[i] = "fail"
        /\ Write(s, [action |-> Verb(i), ok |-> FALSE, hash |-> None])
        /\ UNCHANGED <<req, acked, file, ctr, ctx, late, job, todo>>
    BY <1>4, <1>9 DEF RecordFailed, ErrorExit, hostVars
  <2>2. s \in Service /\ s \in todo[i] /\ pc[i] \in InStep
    BY <1>3, <2>1 DEF InStep
  <2>3. /\ \A t \in Service \ {s} : history'[t] = history[t] /\ (t \in cut' <=> t \in cut)
        /\ s \in cut' \/ (history'[s].ok = FALSE /\ history'[s] = [action |-> Verb(i), ok |-> FALSE, hash |-> None])
    BY <2>1, <2>2, WriteEffect DEF IInv
  <2>4. CancelOK(i)'
    BY <1>2, <2>1 DEF CancelOK, Doomed, Live, InStep, InDeployer
  <2>5. (JobOK(i) /\ StepOK(i) /\ DoneOK(i))'
    <3>1. JobOK(i)' /\ StepOK(i)'
      BY <1>2, <2>1 DEF JobOK, StepOK
    <3>2. \A t \in Finished(i) : t \in Service \ {s}
      BY <1>4, <2>2 DEF Finished, Jobs
    <3> QED BY <1>2, <2>1, <2>3, <3>1, <3>2 DEF DoneOK, Finished, OnOwn, OnVersion, Verb
  <2>6. RecordMatchesHost'
    <3> SUFFICES ASSUME NEW t \in Service, t \notin cut', history'[t] # None, history'[t].ok
                 PROVE  OnRecord(t)'
      BY DEF RecordMatchesHost, OnRecord
    <3>1. t # s /\ ~AtWorkOn(t)
      BY <1>1, <2>2, <2>3, Alone
    <3>2. OnRecord(t)
      BY <2>3, <3>1 DEF IInv, HostInv, RecordMatchesHost, OnRecord
    <3> QED BY <2>1, <2>3, <3>1, <3>2, SameHost
  <2> QED BY <1>1, <2>1, <2>4, <2>5, <2>6, RunStepHost
<1>10. CASE CheckContext(i)
  <2>1. /\ pc[i] = "returned" /\ UNCHANGED <<req, acked, history, file, ctr, ctx, late, job, todo>>
        /\ \/ pc'[i] = "fail" /\ cut' = cut \cup {s}
           \/ pc'[i] = "record" /\ cut' = cut /\ ctx[i] # "cancelled"
    BY <1>4, <1>10 DEF CheckContext, StopBeforeNext, hostVars
  <2>2. s \in Service /\ s \in todo[i] /\ pc[i] \in InStep /\ cut \subseteq cut'
    BY <1>3, <2>1 DEF InStep
  <2>3. CancelOK(i)'
    BY <1>2, <2>1 DEF CancelOK, Doomed, Live, InStep, InDeployer
  <2>4. Current(i)' = s
    BY <2>1 DEF Current
  <2>5. (JobOK(i) /\ StepOK(i) /\ DoneOK(i))'
    <3>1. JobOK(i)'
      BY <1>2, <2>1 DEF JobOK
    <3>2. StepOK(i)'
      BY <1>2, <2>1, <2>4 DEF StepOK, OnOwn, OnVersion
    <3> QED BY <1>2, <2>1, <2>2, <3>1, <3>2 DEF DoneOK, Finished, OnOwn, OnVersion, Verb
  <2>6. RecordMatchesHost'
    <3> SUFFICES ASSUME NEW t \in Service, t \notin cut', history[t] # None, history[t].ok, ~AtWorkOn(t)'
                 PROVE  OnRecord(t)'
      BY <2>1 DEF RecordMatchesHost, OnRecord
    <3>1. t \notin cut /\ t # s
      <4>1. CASE pc'[i] = "fail"
        BY <2>1, <2>2, <4>1
      <4>2. CASE pc'[i] = "record"
        BY <1>1, <2>1, <2>4, <4>2, AloneAfter DEF InStep
      <4> QED BY <2>1, <2>2, <4>1, <4>2
    <3>2. ~AtWorkOn(t)
      BY <1>1, <3>1, Alone
    <3>3. OnRecord(t)
      BY <3>1, <3>2 DEF IInv, HostInv, RecordMatchesHost, OnRecord
    <3> QED BY <2>1, <3>3, SameHost
  <2> QED BY <1>1, <2>1, <2>3, <2>5, <2>6, RunStepHost
<1>11. CASE RecordOk(i)
  <2>1. /\ pc[i] = "record" /\ pc'[i] = "loop"
        /\ Write(s, [action |-> Verb(i), ok |-> TRUE, hash |-> RecordedHash(i)])
        /\ todo' = [todo EXCEPT ![i] = @ \ {s}]
        /\ UNCHANGED <<req, acked, file, ctr, ctx, late, job>>
    BY <1>4, <1>11 DEF RecordOk, hostVars
  <2>2. s \in Service /\ s \in todo[i] /\ pc[i] \in InStep
    BY <1>3, <2>1 DEF InStep
  <2>3. /\ \A t \in Service \ {s} : history'[t] = history[t] /\ (t \in cut' <=> t \in cut)
        /\ s \in cut' \/ history'[s] = [action |-> Verb(i), ok |-> TRUE, hash |-> RecordedHash(i)]
    BY <2>1, <2>2, WriteEffect DEF IInv
  <2>4. CancelOK(i)'
    BY <1>2, <2>1 DEF CancelOK, Doomed, Live, InStep, InDeployer
  <2>5. OnOwn(i, s)
    BY <1>2, <2>1 DEF StepOK
  <2>6. (JobOK(i) /\ StepOK(i) /\ DoneOK(i))'
    <3>1. JobOK(i)' /\ StepOK(i)'
      BY <1>2, <1>4, <2>1 DEF JobOK, StepOK
    <3>2. DoneOK(i)'
      <4> SUFFICES ASSUME NEW t \in (Finished(i))'
                   PROVE  /\ OnOwn(i, t)'
                          /\ t \notin cut' /\ history'[t] # None => history'[t].action = Verb(i)' /\ history'[t].ok
        BY DEF DoneOK
      <4>1. t \in Finished(i) \cup {s} /\ t \in Service
        BY <1>4, <2>1, <2>2 DEF Finished, Jobs
      <4>2. OnOwn(i, t)'
        BY <1>2, <2>1, <2>5, <4>1, SameHost DEF DoneOK
      <4>3. CASE t = s
        BY <2>1, <2>3, <4>2, <4>3 DEF Verb
      <4>4. CASE t # s
        BY <1>2, <2>1, <2>3, <4>1, <4>2, <4>4 DEF DoneOK, Verb
      <4> QED BY <4>3, <4>4
    <3> QED BY <3>1, <3>2
  <2>7. RecordMatchesHost'
    <3> SUFFICES ASSUME NEW t \in Service, t \notin cut', history'[t] # None, history'[t].ok
                 PROVE  OnRecord(t)'
      BY DEF RecordMatchesHost, OnRecord
    <3>1. CASE t = s
      BY <2>1, <2>3, <2>5, <3>1 DEF OnRecord, OnOwn, OnVersion, Verb, RecordedHash
    <3>2. CASE t # s
      <4>1. ~AtWorkOn(t)
        BY <1>1, <3>2, Alone
      <4>2. OnRecord(t)
        BY <2>3, <3>2, <4>1 DEF IInv, HostInv, RecordMatchesHost, OnRecord
      <4> QED BY <2>1, <2>3, <3>2, <4>2, SameHost
    <3> QED BY <3>1, <3>2
  <2> QED BY <1>1, <2>1, <2>4, <2>6, <2>7, RunStepHost
<1> QED BY <1>5, <1>6, <1>7, <1>8, <1>9, <1>10, <1>11 DEF Execute
-----------------------------------------------------------------------------
(* Everything that is not a step of the run.                               *)

\* Steps that touch no run, no file, no container and no record.
LEMMA ElsewhereHost ==
  ASSUME IInv, UNCHANGED <<history, file, ctr, pc, job, todo, ctx, acked, late, cut>>, KeptInv'
  PROVE  HostInv'
<1>1. RunsInv'
  BY DEF IInv, HostInv, RunsInv, JobOK, StepOK, DoneOK, OnOwn, OnVersion, Excused, Finished, Current, Verb
<1>2. CancelInv'
  BY DEF IInv, HostInv, CancelInv, CancelOK, Doomed
<1>3. RecordMatchesHost'
  BY DEF IInv, HostInv, RecordMatchesHost, OnVersion, AtWorkOn, Current
<1> QED BY <1>1, <1>2, <1>3 DEF HostInv

\* The set a handler decides on is made of what its selection needs.
LEMMA DecidedIsResolved ==
  ASSUME TypeInv, KeptInv, NEW r \in Request, Gate(r) \/ Load(r) \/ Decide(r)
  PROVE  KeptInv'
<1> USE DEF KeptInv
<1>1. req \in [Request -> Requests]
  BY DEF TypeInv, TypeOK, Requests
<1>2. CASE Gate(r)
  BY <1>1, <1>2 DEF Gate, IdleReq, Requests
<1>3. CASE Load(r)
  BY <1>1, <1>3 DEF Load, IdleReq, Requests
<1>4. CASE Decide(r)
  <2> DEFINE kept == IF req[r].remove THEN Resolve(req[r].sel) ELSE Kept(req[r].sel, req[r].view, req[r].env)
  <2>1. kept \subseteq Resolve(req[r].sel)
    BY DEF Kept
  <2>2. \/ req' = [req EXCEPT ![r].pc = "claim", ![r].kept = kept]
        \/ req' = [req EXCEPT ![r] = IdleReq]
    BY <1>4 DEF Decide
  <2> HIDE DEF kept
  <2>3. CASE req' = [req EXCEPT ![r] = IdleReq]
    BY <1>1, <2>3 DEF IdleReq, Requests
  <2>4. CASE req' = [req EXCEPT ![r].pc = "claim", ![r].kept = kept]
    <3>1. req'[r].kept = kept /\ req'[r].sel = req[r].sel /\ \A q \in Request \ {r} : req'[q] = req[q]
      BY <1>1, <2>4 DEF Requests
    <3> QED BY <2>1, <3>1
  <2> QED BY <2>2, <2>3, <2>4
<1> QED BY <1>2, <1>3, <1>4

\* A claimed run owes all of its services, and no cancel has reached it.
LEMMA ClaimHost ==
  ASSUME IInv, NEW r \in Request, Claim(r), ~Busy
  PROVE  HostInv'
<1> DEFINE id == nextID + 1
           new == [sel |-> req[r].sel, remove |-> req[r].remove, services |-> req[r].kept,
                   skipped |-> Resolve(req[r].sel) \ req[r].kept, env |-> req[r].env]
<1>1. id \in RunId /\ pc' = [pc EXCEPT ![id] = "spawned"] /\ \A i \in RunId : pc[i] \notin Live
  BY ClaimFlight DEF IInv
<1>2. /\ req[r].pc = "claim" /\ req' = [req EXCEPT ![r] = IdleReq]
      /\ job' = [job EXCEPT ![id] = new] /\ todo' = [todo EXCEPT ![id] = req[r].kept]
      /\ UNCHANGED <<history, file, ctr, ctx, acked, late, cut>>
  BY DEF Claim, hostVars, auxVars
<1>3. /\ pc \in [RunId -> Live \cup Over] /\ job \in [RunId -> Jobs] /\ todo \in [RunId -> SUBSET Service]
      /\ req \in [Request -> Requests] /\ ctx \in [RunId -> {"none", "live", "cancelled"}] /\ late \in [RunId -> Nat]
  BY DEF IInv, TypeInv, TypeOK, Requests
<1>4. req[r].kept \subseteq Resolve(req[r].sel)
  BY <1>2 DEF IInv, HostInv, KeptInv
<1>5. pc[id] = "absent"
  BY <1>1, ConstantsAssumption DEF IInv, FlightInv, TypeInv, TypeOK, RunId
<1>6. RunsInv'
  <2> SUFFICES ASSUME NEW i \in RunId, pc'[i] \in Live PROVE (JobOK(i) /\ StepOK(i) /\ DoneOK(i))'
    BY DEF RunsInv
  <2>1. i = id /\ pc'[i] = "spawned"
    BY <1>1, <1>3
  <2>2. job'[i] = new /\ todo'[i] = req[r].kept
    BY <1>1, <1>2, <1>3, <2>1
  <2>3. new.services = req[r].kept /\ new.skipped = Resolve(req[r].sel) \ req[r].kept /\ new.sel = req[r].sel
    OBVIOUS
  <2>4. JobOK(i)'
    BY <1>4, <2>1, <2>2, <2>3 DEF JobOK, Resolve, Closed
  <2>5. StepOK(i)'
    BY <2>1 DEF StepOK
  <2>6. (Finished(i))' = {}
    BY <2>2, <2>3 DEF Finished
  <2> QED BY <2>4, <2>5, <2>6 DEF DoneOK
<1>7. CancelInv'
  <2> SUFFICES ASSUME NEW i \in RunId PROVE CancelOK(i)'
    BY DEF CancelInv
  <2>1. CancelOK(i)
    BY DEF IInv, HostInv, CancelInv
  <2>2. CASE i = id
    <3>1. ctx[i] = "none" /\ late[i] = 0 /\ i \notin acked
      BY <1>5, <2>1, <2>2 DEF CancelOK, Doomed, Live, InStep, InDeployer
    <3> QED BY <1>2, <3>1 DEF CancelOK
  <2>3. CASE i # id
    BY <1>1, <1>2, <1>3, <2>1, <2>3 DEF CancelOK, Doomed, Live
  <2> QED BY <2>2, <2>3
<1>8. \A s : ~AtWorkOn(s)
  BY <1>1 DEF AtWorkOn, Live
<1>9. RecordMatchesHost'
  BY <1>2, <1>8 DEF IInv, HostInv, RecordMatchesHost, OnVersion
<1>10. KeptInv'
  BY <1>2, <1>3 DEF IInv, HostInv, KeptInv, IdleReq, Requests
<1> QED BY <1>6, <1>7, <1>9, <1>10 DEF HostInv

\* A cancelled context, by the operator or by the deadline.
LEMMA CancelHost ==
  ASSUME IInv, (\E c \in Canceller : FireCancel(c)) \/ (\E i \in RunId : Deadline(i))
  PROVE  HostInv'
<1>1. PICK i \in RunId :
        /\ CancelContext(i)
        /\ acked' = acked \/ (acked' = acked \cup {i} /\ WorkLeft(i) /\ ctx[i] # "none")
        /\ UNCHANGED <<history, req, file, ctr, pc, job, todo, late, cut>>
  BY DEF FireCancel, Deadline, hostVars, auxVars, IInv, TypeInv, TypeOK, RunId
<1>2. ctx \in [RunId -> {"none", "live", "cancelled"}]
  BY DEF IInv, TypeInv, TypeOK
<1>3. \A j \in RunId : /\ ctx'[j] = "none" <=> ctx[j] = "none"
                       /\ ctx[j] = "cancelled" => ctx'[j] = "cancelled"
  BY <1>1, <1>2 DEF CancelContext
<1>4. ctx[i] # "none" => ctx'[i] = "cancelled"
  BY <1>1, <1>2 DEF CancelContext
<1>5. RunsInv'
  BY <1>1 DEF IInv, HostInv, RunsInv, JobOK, StepOK, DoneOK, OnOwn, OnVersion, Excused, Finished, Current, Verb
<1>6. CancelInv'
  <2> SUFFICES ASSUME NEW j \in RunId PROVE CancelOK(j)'
    BY DEF CancelInv
  <2>1. CancelOK(j)
    BY DEF IInv, HostInv, CancelInv
  <2>2. j \in acked' /\ j \notin acked => j = i /\ WorkLeft(i) /\ ctx'[i] = "cancelled" /\ pc[i] # "spawned"
    BY <1>1, <1>4, <2>1 DEF CancelOK
  <2>3. WorkLeft(i) /\ pc[i] # "spawned" => todo[i] # {} /\ (pc[i] = "loop" \/ pc[i] \in InStep \ {"record"})
    BY DEF WorkLeft, Live
  <2> QED BY <1>1, <1>3, <2>1, <2>2, <2>3 DEF CancelOK, Doomed
<1>7. RecordMatchesHost' /\ KeptInv'
  BY <1>1 DEF IInv, HostInv, RecordMatchesHost, OnVersion, KeptInv, AtWorkOn, Current
<1> QED BY <1>5, <1>6, <1>7 DEF HostInv

\* A crash leaves the service of the step without its record.
LEMMA CrashHost ==
  ASSUME IInv, Crash
  PROVE  HostInv'
<1>1. /\ cut' = cut \cup {Current(i) : i \in {j \in RunId : pc[j] \in InStep}}
      /\ \A i \in RunId : pc'[i] = "absent" /\ ctx'[i] = "none" /\ late'[i] = 0
      /\ acked' = {} /\ \A r \in Request : req'[r] = IdleReq
      /\ UNCHANGED <<history, file, ctr>>
  BY DEF Crash, hostVars
<1>2. RunsInv'
  BY <1>1 DEF RunsInv, Live, InStep, InDeployer
<1>3. CancelInv'
  BY <1>1 DEF CancelInv, CancelOK
<1>4. KeptInv'
  BY <1>1 DEF KeptInv, IdleReq
<1>5. \A s : AtWorkOn(s) => s \in cut'
  BY <1>1 DEF AtWorkOn
<1>6. RecordMatchesHost'
  BY <1>1, <1>5 DEF IInv, HostInv, RecordMatchesHost, OnVersion
<1> QED BY <1>2, <1>3, <1>4, <1>6 DEF HostInv

LEMMA LoseHistoryHost ==
  ASSUME IInv, LoseHistory
  PROVE  HostInv'
<1>1. /\ \A s \in Service : history'[s] = None
      /\ UNCHANGED <<req, file, ctr, pc, job, todo, ctx, acked, late, cut>>
  BY DEF LoseHistory, hostVars, runVars, auxVars
<1>2. \A i \in RunId : Finished(i) \subseteq Service
  BY DEF IInv, TypeInv, TypeOK, Jobs, Finished
<1>3. RunsInv'
  BY <1>1, <1>2 DEF IInv, HostInv, RunsInv, JobOK, StepOK, DoneOK, OnOwn, OnVersion, Excused, Finished, Current
<1>4. CancelInv'
  BY <1>1 DEF IInv, HostInv, CancelInv, CancelOK, Doomed
<1>5. RecordMatchesHost' /\ KeptInv'
  BY <1>1 DEF IInv, HostInv, RecordMatchesHost, KeptInv
<1> QED BY <1>3, <1>4, <1>5 DEF HostInv

\* An operator's restart: the containers read the files that are there.
LEMMA RestartHost ==
  ASSUME IInv, NEW s \in Service, ServiceRestart(s)
  PROVE  HostInv'
<1>1. /\ ctr[s] # None /\ ctr' = [ctr EXCEPT ![s] = Restarted(s)]
      /\ UNCHANGED <<history, file, pc, job, todo, ctx, acked, late, cut, req>>
  BY DEF ServiceRestart, runVars, auxVars
<1>2. ctr \in [Service -> Container \cup {None}]
  BY DEF IInv, TypeInv, TypeOK
<1>3. /\ Restarted(s) # None
      /\ Restarted(s).compose = ctr[s].compose /\ Restarted(s).read = file[s]
  BY <1>1, <1>2, StartedTypes, NoneIsNoContainer DEF IInv
<1>4. ASSUME NEW t \in Service, NEW v
      PROVE  /\ OnVersion(t, v) => /\ file'[t] = v /\ ctr'[t] # None
                                   /\ ctr'[t].compose = ComposeOf[t][v]
                                   /\ ctr'[t].read = v \/ ctr'[t].spared
             /\ Excused(t, v) /\ file[t] = v =>
                  (ctr'[t] # None => ctr'[t].spared \/ ctr'[t].read = v)
  <2>1. CASE t = s
    BY <1>1, <1>2, <1>3, <2>1 DEF OnVersion, Excused
  <2>2. CASE t # s
    BY <1>1, <1>2, <2>2 DEF OnVersion, Excused
  <2> QED BY <2>1, <2>2
<1>5. \A i \in RunId, t \in Service : OnOwn(i, t) => OnOwn(i, t)'
  BY <1>1, <1>4 DEF OnOwn, OnVersion
<1>6. \A t \in Service : OnRecord(t) => OnRecord(t)'
  BY <1>1, <1>4 DEF OnRecord, OnVersion
<1>7. RunsInv'
  <2> SUFFICES ASSUME NEW i \in RunId, pc[i] \in Live PROVE (JobOK(i) /\ StepOK(i) /\ DoneOK(i))'
    BY <1>1 DEF RunsInv
  <2>1. JobOK(i) /\ StepOK(i) /\ DoneOK(i)
    BY DEF IInv, HostInv, RunsInv
  <2>2. pc[i] \in InStep => Current(i) \in Service
    BY CurrentIsService DEF IInv
  <2>3. Current(i)' = Current(i)
    BY <1>1 DEF Current
  <2>4. JobOK(i)'
    BY <1>1, <2>1 DEF JobOK
  <2>5. pc[i] = "up" => Excused(Current(i), job[i].env[Current(i)])'
    BY <1>1, <1>4, <2>1, <2>2, <2>3 DEF StepOK, Excused, InStep, InDeployer
  <2>6. pc[i] = "ready" => OnVersion(Current(i), job[i].env[Current(i)])'
    BY <1>1, <1>4, <2>1, <2>2, <2>3 DEF StepOK, OnVersion, InStep, InDeployer
  <2>7. pc[i] \in {"returned", "record"} => OnOwn(i, Current(i))'
    BY <1>1, <1>5, <2>1, <2>2, <2>3 DEF StepOK, OnOwn, InStep
  <2>8. StepOK(i)'
    BY <1>1, <2>1, <2>3, <2>5, <2>6, <2>7 DEF StepOK
  <2>9. Finished(i) \subseteq Service
    BY DEF IInv, TypeInv, TypeOK, Jobs, Finished
  <2>10. DoneOK(i)'
    BY <1>1, <1>5, <2>1, <2>9 DEF DoneOK, Finished, Verb
  <2> QED BY <2>4, <2>8, <2>10
<1>8. CancelInv' /\ KeptInv'
  BY <1>1 DEF IInv, HostInv, CancelInv, CancelOK, Doomed, KeptInv
<1>9. RecordMatchesHost'
  BY <1>1, <1>6 DEF IInv, HostInv, RecordMatchesHost, OnRecord, AtWorkOn, Current
<1> QED BY <1>7, <1>8, <1>9 DEF HostInv

\* What the operator does beside it, and the containers that die.
Outside ==
  \/ \E c \in Configs : SaveConfig(c)
  \/ \E r \in Request, p \in Selections : Open(r, p[1], p[2])
  \/ \E c \in Canceller, i \in RunId : FindRun(c, i)
  \/ \E s \in Service : ContainerDies(s)

LEMMA NextHost == IInv /\ [Next]_vars => HostInv'
<1> SUFFICES ASSUME IInv, [Next]_vars PROVE HostInv'
  OBVIOUS
<1>1. CASE UNCHANGED <<history, file, ctr, pc, job, todo, ctx, acked, late, cut, req>>
  BY <1>1, ElsewhereHost DEF IInv, HostInv, KeptInv
<1>2. ASSUME Outside \/ UNCHANGED vars
      PROVE  UNCHANGED <<history, file, ctr, pc, job, todo, ctx, acked, late, cut>>
  BY <1>2 DEF Outside, SaveConfig, Open, FindRun, ContainerDies, vars, hostVars, runVars, auxVars
<1>3. ASSUME Outside \/ UNCHANGED vars
      PROVE  HostInv'
  <2>1. KeptInv'
    <3>1. CASE UNCHANGED req
      BY <3>1 DEF IInv, HostInv, KeptInv
    <3>2. ASSUME NEW r \in Request, NEW p \in Selections, Open(r, p[1], p[2])
          PROVE  KeptInv'
      <4>1. \A q \in Request : req'[q].pc = "claim" => req'[q] = req[q]
        BY <3>2 DEF Open, IdleReq, IInv, TypeInv, TypeOK
      <4> QED BY <4>1 DEF IInv, HostInv, KeptInv
    <3> QED BY <1>3, <3>1, <3>2 DEF Outside, SaveConfig, FindRun, ContainerDies, vars
  <2> QED BY <1>2, <1>3, <2>1, ElsewhereHost
<1>4. ASSUME NEW r \in Request, Handler(r) PROVE HostInv'
  <2>1. CASE Gate(r) \/ Load(r) \/ Decide(r)
    <3>1. UNCHANGED <<history, file, ctr, pc, job, todo, ctx, acked, late, cut>>
      BY <2>1 DEF Gate, Load, Decide, hostVars, runVars, auxVars
    <3> QED BY <2>1, <3>1, DecidedIsResolved, ElsewhereHost DEF IInv, HostInv
  <2>2. CASE Claim(r) /\ Busy
    <3>1. /\ UNCHANGED <<history, file, ctr, pc, job, todo, ctx, acked, late, cut>>
          /\ req' = [req EXCEPT ![r] = IdleReq]
      BY <2>2 DEF Claim, hostVars, runVars, auxVars
    <3>2. KeptInv'
      BY <3>1 DEF IInv, HostInv, KeptInv, IdleReq, TypeInv, TypeOK
    <3> QED BY <3>1, <3>2, ElsewhereHost
  <2>3. CASE Claim(r) /\ ~Busy
    BY <2>3, ClaimHost
  <2> QED BY <1>4, <2>1, <2>2, <2>3 DEF Handler
<1>5. ASSUME NEW i \in RunId, Execute(i) \/ Deployer(i) PROVE HostInv'
  BY <1>5, ExecuteHost, DeployerHost
<1>6. ASSUME Operator \/ (\E s \in Service : ContainerDies(s)) PROVE HostInv'
  BY <1>3, <1>6, RestartHost DEF Operator, Outside
<1> QED BY <1>3, <1>4, <1>5, <1>6, CancelHost, CrashHost, LoseHistoryHost DEF Next
-----------------------------------------------------------------------------
(* The theorems.                                                           *)

LEMMA HostInvariant == Spec => []IInv
<1>1. Init => IInv
  BY InitTypeInv, InitFlight, InitHost DEF IInv
<1>2. IInv /\ [Next]_vars => IInv'
  BY NextTypeInv, NextFlight, NextHost DEF IInv
<1> QED BY <1>1, <1>2, PTL DEF Spec

\* deploy.go:373-374: a success on record means that the service has that
\* configuration on disk and in its containers (or no runtime files, after a
\* removal), in whatever order requests, failures, cancels and crashes come - the
\* services of the steps that were cut off excepted.
THEOREM RecordMatchesHostHolds == Spec => []RecordMatchesHost
<1>1. IInv => RecordMatchesHost
  BY DEF IInv, HostInv
<1> QED BY <1>1, HostInvariant, PTL

\* deploy.go:273-274 and 379-380: a cancel that reached a run with work left is
\* never answered by a success, and is followed by at most one more step.
THEOREM CancelStopsHolds == Spec => []CancelStops
<1>1. IInv => CancelStops
  <2> SUFFICES ASSUME CancelInv, TypeOK PROVE CancelStops
    BY DEF IInv, HostInv, TypeInv
  <2>1. ASSUME NEW i \in RunId
        PROVE  late[i] <= 1 /\ (i \in acked => pc[i] # "ok")
    BY DEF CancelInv, CancelOK, Doomed, TypeOK, Live, InStep, InDeployer
  <2> QED BY <2>1 DEF CancelStops, AtMostOneLateStep, TypeOK
<1> QED BY <1>1, HostInvariant, PTL

\* deploy.go:353-398: when a run is about to report deploy-done, its request is
\* complete, the host has every service of it as the run made it, and state.json,
\* as far as it could be written, says so.
THEOREM SuccessIsCompleteHolds == Spec => []SuccessIsComplete
<1>1. IInv => SuccessIsComplete
  <2> SUFFICES ASSUME IInv PROVE SuccessIsComplete
    OBVIOUS
  <2>1. ASSUME NEW i \in RunId, pc[i] \in Live
        PROVE  JobOK(i) /\ DoneOK(i)
    BY <2>1 DEF IInv, HostInv, RunsInv
  <2>2. ProgressIsOnHost
    BY <2>1 DEF ProgressIsOnHost, DoneOK, OnOwn
  <2>3. ASSUME NEW i \in RunId, pc[i] = "succeed"
        PROVE  /\ todo[i] = {}
               /\ Resolve(job[i].sel) = job[i].services \cup job[i].skipped
               /\ \A s \in job[i].services \ cut :
                    history[s] # None => history[s].action = Verb(i) /\ history[s].ok
    <3>1. JobOK(i) /\ DoneOK(i)
      BY <2>1, <2>3 DEF Live
    <3> QED BY <2>3, <3>1 DEF JobOK, DoneOK, Finished
  <2> QED BY <2>2, <2>3 DEF SuccessIsComplete
<1> QED BY <1>1, HostInvariant, PTL

\* A selection with its dependencies is closed under dependencies.
LEMMA ResolveIsClosed ==
  ASSUME NEW sel, NEW s \in Resolve(sel)
  PROVE  Deps[s] \subseteq Resolve(sel)
<1>1. Deps[s] \subseteq Service
  BY RegistryAssumption DEF Resolve
<1> QED BY <1>1 DEF Resolve, Closed

\* The next service of a run is first in its order.
LEMMA HeadIsFirst ==
  ASSUME NEW S \in SUBSET Service, NEW remove \in BOOLEAN, NEW t \in S
  PROVE  IF remove THEN Rank[t] <= Rank[Head(S, remove)] ELSE Rank[Head(S, remove)] <= Rank[t]
<1>1. \E s \in S : \A u \in S : IF remove THEN Rank[u] <= Rank[s] ELSE Rank[s] <= Rank[u]
  BY FiniteRegistryAssumption
<1> QED BY <1>1 DEF Head

\* deploy.go:68, "registration order IS the --all deploy order": when a deployer
\* runs, each dependency of its service is behind it or was left out as deployed;
\* when a removal runs, nothing that is still to be removed depends on its service.
THEOREM DependenciesFirstHolds == Spec => []DependenciesFirst
<1>1. IInv => DependenciesFirst
  <2> SUFFICES ASSUME IInv, NEW i \in RunId, pc[i] \in InStep
               PROVE  IF job[i].remove THEN \A t \in todo[i] : Current(i) \notin Deps[t]
                      ELSE Deps[Current(i)] \subseteq Finished(i) \cup job[i].skipped
    BY DEF DependenciesFirst
  <2> DEFINE s == Current(i)
  <2>1. s \in todo[i] /\ s \in Service
    BY CurrentIsService DEF IInv
  <2>2. todo[i] \in SUBSET Service /\ job[i].remove \in BOOLEAN /\ JobOK(i)
    BY DEF IInv, HostInv, RunsInv, TypeInv, TypeOK, Jobs, Live
  <2>3. \A t \in todo[i] : IF job[i].remove THEN Rank[t] <= Rank[s] ELSE Rank[s] <= Rank[t]
    BY <2>2, HeadIsFirst DEF Current
  <2>4. \A t \in Service : Rank[t] \in Nat /\ \A d \in Deps[t] : d \in Service /\ Rank[d] < Rank[t]
    BY RegistryAssumption
  <2> HIDE DEF s
  <2>5. CASE job[i].remove
    <3>1. \A t \in todo[i] : s \notin Deps[t]
      BY <2>1, <2>2, <2>3, <2>4, <2>5
    <3> QED BY <2>5, <3>1 DEF s
  <2>6. CASE ~job[i].remove
    <3>1. Deps[s] \subseteq job[i].services \cup job[i].skipped
      BY <2>1, <2>2, ResolveIsClosed DEF JobOK
    <3>2. \A d \in Deps[s] : d \notin todo[i]
      BY <2>1, <2>2, <2>3, <2>4, <2>6
    <3>3. Deps[s] \subseteq Finished(i) \cup job[i].skipped
      BY <3>1, <3>2 DEF Finished
    <3> QED BY <2>6, <3>3 DEF s
  <2> QED BY <2>5, <2>6
<1> QED BY <1>1, HostInvariant, PTL
=============================================================================
