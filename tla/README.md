# labprovider: specifications, checks and proofs

labprovider turns one Linux host into a lab: a *control plane* (a Go program with a web
page) deploys some twenty services as Docker Compose projects, and *dns-sync* (a second Go
program) keeps the lab's DNS server equal to what NetBox and the control plane's
configuration ask for. This directory holds TLA+ modules of the parts whose correctness
depends on the order in which things happen, the TLC runs that check them on small
instances, and theorems proved with TLAPS for every value of the constants.

Paths below are relative to the repository; `S/` stands for
`services/control-plane/internal/` and `D/` for `services/dns-sync/`.

## 1. The system

| Component | State | Operations | What makes it correct |
|---|---|---|---|
| Deploy engine (`S/deploy/deploy.go`, `registry.go`) | `prep`, `mu`, `nextID`, `current`, `runs` | Start (resolve, load, secrets, skip, validate, claim), execute, Cancel, the one-hour deadline, pruneRuns | one run at a time; dependencies first; a run leaves behind only services that are on its configuration; requests are answered although a deployer hangs |
| Run log (`S/deploy/events.go`, `handleDeployEvents`, `deploy.html`) | events, subscriber channels, `done` | emit, finish, Subscribe, Unsubscribe, stream, reconnect | the page shows the log from its start with no gap and no repetition, up to the end; no send on a closed channel; no subscriber kept for nobody |
| History (`S/deploy/state.go`) | `state.json` | Record, Snapshot | what it says of a service is so on the host |
| Deploy API (`S/server/controlplane.go`) | none of its own | gate, deploy, cancel, restart, configuration and seed saves | the gate and the skip decision rest on the same facts |
| Generated secrets (`S/envfile/generate.go`) | one file per secret | LookupSecret, MaterializeSecrets | a database never meets another password than the one it was made with |
| Configuration (`S/envfile/envfile.go`, `schema.go`, `validate.go`, `hash.go`) | `labprovider.env` | Save, Load, Validate, ServiceHash | saved whole or not at all; a hash that changes when a service's variables do |
| Deployers of the foundation: CA, Technitium (`S/deploy/ca.go`, `stepca.go`, `technitium*.go`) | `ca.json`, the certificate store, certificates and bundles, the server's data, the host's `resolv.conf` | Deploy, Remove, and the wipes their messages advise | one CA in one store; success means a service that clients can use; the operator's resolver configuration is never lost |
| Deployers of NetBox and dns-sync (`S/deploy/netbox*.go`, `dnssync.go`) | pepper, database, tokens in NetBox and in files | Deploy with import and tokens, Remove | readers hold a token that is accepted; imports do not undo each other |
| Zitadel deployer (`S/deploy/zitadel.go`) | PAT, organisations, OIDC clients, credential files | Deploy with provisioning per tenant, Remove | one organisation per tenant; a credential file names the client that exists |
| The other thirteen deployers (`S/deploy/*.go`) | compose file, rendered files, data directory, seeded objects | Deploy, Remove | can be repeated after any interruption; a refusal leaves the old stack running; removal keeps data |
| Built-in names (`S/deploy/dnssync.go`, `main.go`) | the live file of names | refresh on save and on deployment | dns-sync never retires a name because it read a bad file |
| dns-sync (`D/cmd/dns-sync`, `D/internal/*`) | the last good set of names | read NetBox by pages, list zones, diff, apply | deletes only what is gone; converges |
| dns-seed (`D/cmd/dns-seed`) | none | ensure prefixes and addresses | repeatable |
| Operator accounts (`S/auth`, `S/server/auth.go`, `setuptoken.go`) | the account file, sessions in memory, the setup token | setup, login, logout, change, delete | one first account; an account's sessions end with its password |
| Depot transfers (`S/fetch/fetch.go`) | current job, part file | Start, Cancel, Status, resume, verify, rename | the final name holds exactly the bytes asked for |
| certsrv emulator (`S/msca`, `main.go` mscaManager) | listener, table of issued certificates | rebind on save, submit, collect, stop | what runs is what is configured; a certificate can be collected |
| CSR signing (`S/deploy/sign.go`) | a directory per request | sign | each request gets its own certificate |
| Panels, logs, disk cache, backup | caches only | read | none that depends on order |

How they meet. An HTTP handler of the deploy API takes a list of running containers from
Docker, passes the foundation gate against `state.json` and calls `Engine.Start`. Start
holds `prep` while it loads the configuration, materialises secrets and decides what can
be skipped (against `state.json` again and the list taken before), then claims the single
flight under `mu` and starts a goroutine. That goroutine runs one deployer after another
and emits events into the run's log, which any number of stream handlers read through
channels of their own; after every service it rewrites `state.json`. A configuration save
may happen at any time; after it, `OnConfigSaved` rewrites the file of built-in names, as
the deployment of dns-sync does. dns-sync is a separate process that reads this file,
NetBox and Technitium in turn, and writes Technitium.

What is hard: requests racing for the claim and reading state that a run is about to
change; cancels and the deadline arriving at any point of a step; deployers that ignore
their context; errors of `docker compose down` that are only logged; the control plane
dying inside a step; a slow browser, a lost connection, a reused run id; two writers of
one temporary file; a list read by offset while it shrinks; calls whose answer is lost.
`PROJECT.json` lists each of these hazards at its line, with the property that covers it.

## 2. The modules

| Module | Models | Lines it stands beside |
|---|---|---|
| `DeployEngine` | the engine, the handlers that feed it, state.json, what a deployer does to the host, the process's life | `deploy.go`, `state.go`, `compose.go`, `controlplane.go` |
| `DeployRuns` | the abstract specification of the engine: numbered runs, one at a time, each ends once | - |
| `RunLog` | one run's log, its subscribers, the stream handlers, the browsers | `events.go`, `controlplane.go`, `deploy.html` |
| `Secrets` | one generated secret from request to database | `generate.go`, `deploy.go` |
| `DnsReconcile` | savers and deployment writing the live file; NetBox, Technitium and their editors; the pass of dns-sync | `dnssync.go`, `main.go`, `D/internal/*` |
| `DepotFetch` | one transfer at a time into the depot, the file servers, the page's three handlers | `fetch.go`, `server/depot.go` |
| `OperatorAuth` | the account file, sessions, the setup token, requests that interleave | `auth/*.go`, `server/auth.go`, `setuptoken.go` |
| `DeploymentRun` | what every deployer below shares: one deployment at a time, its next statement, how it ends, the budget of disturbances | `deploy.go` execute |
| `CADeploy`, `TechnitiumDeploy` (which extends it) | the foundation: the CA and the DNS server that lives on its certificates, on one host | `ca.go`, `stepca.go`, `technitium.go`, `technitium_api.go` |
| `NetboxDeploy` | NetBox and its reader dns-sync | `netbox.go`, `netbox_api.go`, `dnssync.go`, `D/cmd/dns-seed` |
| `ServiceDeployers`, `ZitadelDeploy`, `Services` (which composes them) | the fourteen other deployers | `compose.go`, `render.go`, `traefik.go`, `harbor.go`, `lldap.go`, `zitadel.go`, ... |
| `CertsrvListener` | mscaManager's second listener, the certsrv handler, CSR signing | `main.go`, `msca/certsrv.go`, `sign.go` |
| `DeployEngineProofs`, `RunLogProofs`, `DnsReconcileProofs`, `TechnitiumDeployProofs` (with `CADeploy`), `NetboxDeployProofs`, `ServicesProofs` | theorems about the module they are named after | - |
| `CredentialsProofs` | theorems about `OperatorAuth` and about `Secrets`; it extends both, which have no name in common | - |
| `BackgroundProofs` | theorems about `DepotFetch` and about `CertsrvListener`, the goroutines that outlive the request that started them | - |
| `MC*` | instances for TLC | - |

### DeployEngine

A request handler is at `gate`, `start` (waiting for `prep`), `skip` (holding `prep`, the
configuration loaded) or `claim`. Each of these is a separate action because other
goroutines run in between: `Open` takes Docker's list, `Gate` reads `state.json`, `Load`
takes `prep` and reads the configuration, `Decide` is the skip decision and Validate,
`Claim` the critical section under `mu` with pruneRuns. A run's `pc` follows `execute`:
`spawned` (before `setCancel`), `loop` (the head of the loop, which does not look at the
context), the deployer's steps, `returned` (the check of the context after a success),
`record` or `failing`, and the end. `job` holds the fields of the Run; `todo` the services
that are left; `ctx` its context.

A deployer is reduced to what all of them do to the host: render the compose file, down,
up, wait; a removal is down and the removal of the runtime directory. `file` is the version on
disk, `ctr` the containers (the compose configuration they were created from, the version
whose mounted files they read when they started) and `up` the services that run. `ComposeOf`
says which part of a version the compose file carries. `DownEffect` has the code's two
surprises: without a compose file nothing is taken down, and an error is logged and
swallowed. `UpEffect` has docker's: a running container whose compose configuration is
unchanged is left as it is. Any step of a deployer may
fail; every step may be overtaken by a cancel; a deployer may ignore its context.

A configuration is a function from services to versions, because everything the engine
does with one is to compare a service's hash, validate a service's variables and hand them
to its deployer. Some versions do not validate, and saving them is allowed.

Three auxiliary variables remember what no state shows: `acked` (a cancel was
acknowledged while work was left), `late` (steps started with a dead context) and `cut`
(services whose last step ended without its record; see *The host* below).

### RunLog

An event is a triple of the process's life, its number and whether it is the result. A
connection holds the handler's program counter, its replay, its channel and the bytes in
flight; the browser is `waiting` (EventSource will connect), `open`, `finished` or
`failed` (a 404 is final). Emit is one action because it holds `Run.mu` throughout, and so
is Subscribe; finish is two, because it takes the lock twice. Drops, stalls and restarts
may come anywhere. A restart forgets the runs; a later run may get the same id.

### Secrets

One variable and its file, requests that prepare under `prep`, a run, and the database
that keeps what initdb was given. The write of the file may fail, leaving nothing or a
part, and the process may die at any point.

### DnsReconcile

Names, addresses and rows are small numbers. The live file's content is a set of names or
one of three contents that are not: absent, truncated, torn. A writer is a save (saved, then
the file loaded anew, then refreshed: no lock orders two of them) or the deployment.
`OpenTmp`, `WriteTmp` and `Rename` are the three system calls of RefreshBuiltinRecordsFile, `RefreshFails`
its silent and its logged ways out; a descriptor follows its file through another writer's
rename, and what is written over a longer text leaves a tail, which parses or does not. The pass is `rows` (one action per page),
`builtins`, `zones`, `records` (one per zone), `apply` (one per call). `kept` and
`shifted` are history variables of the reading of rows.

### DepotFetch

A file is a sequence of blocks, each marked with the version it came from; a part file made
of two attempts can so hold blocks of two versions. A response fixes the version it serves,
its status (200, 206, 416) and whether its end is marked (a length or a chunked body): a
body without either looks complete when the connection is cut. `Respond` is the check of
the status and the choice of appending or truncating, `ReadBlock` (which counts) and `WriteBlock` the two halves of io.Copy, `Verify` and
`Rename` the end; `CancelLook` and `CancelFire` are the two halves of the cancel handler,
which may fire on a job that has ended since. A crash keeps the part file.

### OperatorAuth

A request is a handler with a program counter between its accesses to shared state: the
account file under its mutex (`Load`, `Create`, `Write`), the bcrypt comparison that holds
nothing (`Compare`), the session table (`DeleteUser`, `Issue`), the setup token (`Check`,
`Spend`), the semaphore of the login limiter (`Acquire`, `GiveUp`). A session records the
password it was opened with, which the code does not, so that the property can ask.

### The foundation: CADeploy and TechnitiumDeploy

One deployment at a time; every statement that changes the host is an action, and a
deployment may be cut between any two (`CutShort`: a cancel, the deadline, a crash). CA
state is `caJSON` (its store and its duration, or torn), the root certificate (a number,
new at every first start), the store with the roots whose certificates it holds, and the
container with what it loaded when it started. Technitium's is the certificate and the
bundle made from it (with the root that signed them and whether the chain is complete),
what the server loaded, its data (which generation, which administrator), the two tokens in
files, and `resolv.conf` with its copy. `os.WriteFile` is two actions wherever the file between
them matters: it truncates, then writes. A restart of the machine starts containers again
and makes a missing file to be mounted into a directory, as Docker does.

### NetboxDeploy

A token is its number, its use and the pepper it was hashed with. `ReplaceToken` is the
retirement of old tokens, the creation and the file; each probe may be left without an
answer. The import is the sequence of objects `ensureSeedPrefix` and
`ensureSeedIPAddress` look up and create, and dns-seed's `netbox-import` is the same over
another client. dns-sync is started with the token in the file and keeps it, also through a
deployment whose `down` failed unseen; the server's pepper is in its compose file, so that
`up` replaces one left running with another pepper. NetBox numbers
its tokens without an end; the model reuses the numbers nobody remembers, and `MaxToken`
bounds how many can be remembered at once. `Fresh`, in the guard of the two actions that
make a token, is that bound; the instance never reaches it.

### ServiceDeployers, ZitadelDeploy, Services

Each of the thirteen deployers of `ServiceDeployers` *is* the sequence of its statements,
in the order of its `Deploy`; the statements are shared actions (`Guard`, `Vars`,
`CAReady`, `IssueCert`, `OpenFile`, `WriteFile`, `Build`, `Down`, `Prepare`, `FindPort`,
`Bind`, `Up`, `Wait`, `Login`, `Dial`, `Ensure`, `SetPassword`, `Clear`, `Forget`). A
behaviour follows one service: deployers share nothing but the engine. A file is the
version of the configuration it was rendered from, missing, or torn between truncation and
write. A container is the compose file it was created from and the versions of the files it
read when it started. `Down` has the three ways of `compose.go:79-89` to leave a container:
no compose file, one that does not parse, docker failing. Zitadel adds what an interrupted
first start leaves, the PAT, and per tenant the organisation, the parts of it and the file
of its client; the path of a file is made of `ZITADEL_FQDN` and the sanitised tenant, so two
tenants can share one, and an edit of the name (`Renames`) leaves the files behind.

### CertsrvListener

`CloseOld` and `Rebind` are the two halves of Reconcile under its mutex; `CheckClosed`,
`Listen` and `Serve` what net/http does in the goroutine Reconcile starts and does not wait
for. A server that is closed before its goroutine has bound the port binds it and lets go
at once; the moment in between is the race `robbed` remembers. A certificate is the client
it was signed for, a directory of SignCSR what is in it, a table what its ids give.

## 3. The runs

Every run is complete (no depth bound, no state constraint). States are distinct states.

| Run | Instance | Shows |
|---|---|---|
| `engine_host` | CA and DNS server, one request, one canceller, two configurations that differ in mounted files, faults fail, crash, statefile, upgrade; 1 run per life of the process, lives unbounded; 3 637 762 states | types; success is complete and what a run has done is on the host; a cancel stops it after one step at most, and never ends in success; records match the host |
| `engine_requests` | CA and DNS server, 2 requests, 3 configurations (one invalid) that differ in the compose file, faults dies and docker, 2 runs, fairness; 172 722 states | the live run is the only one and can be found, dependencies first, refinement of `DeployRuns` with its liveness, requests are answered |
| `engine_removes` | as small as the disagreement needs; ends in a violation | a removal takes unselected dependencies down (section 6) |
| `runlog` | 1 browser, 2 connections, 3 events, 2 lives, 2 lost connections, channel and wire of capacity 1, fairness; 171 251 states | types; the pane; the channels of who is registered; every page reaches the end |
| `secrets` | 3 requests, 3 values drawn, 1 chosen; 895 states up to symmetry | the database opens; no rotation |
| `dns` | 2 rows at one per page, 2 names (1 core), two savers and a deployment, any two of: a save, a second save, a refresh that fails, edit, fault, deployment, crash of either process; fairness; 558 699 states | types; core names are never retired; deletions are of what was gone; convergence |
| `fetch` | 1 destination, 1 URL, 2 versions of two blocks, a canceller, a replaced file, a fault, crashes at any time; fairness; 1 066 728 states | what gets the final name and what is reported of it; quiet failures; cancels end |
| `auth` | 2 requests, 2 browsers, 2 accounts, 2 passwords, one verification at a time; restarts and failing writes at any time; 433 357 states up to symmetry | slots; a set-up that stays possible, with the token only; no account lost; sessions |
| `foundation` | CA and Technitium, any two disturbances of sixteen kinds; fairness; 207 531 states | store and bundle match, the host keeps resolving, success is usable, healing |
| `netbox` | 3 addresses, seed files with a name twice and an address twice, any two disturbances of twelve kinds; fairness; 798 978 states | the inventory, the tokens, healing |
| `services` | all fourteen services, any three disturbances of twelve kinds; fairness; 784 134 states | success is whole, tenants are served, the host is respected, healing |
| `certsrv` | 2 savers, 2 clients, a table of 2, any four of: 2 saves, 3 requests, a restart; fairness; 505 242 states | an answered save is in force; what is issued is collected, by its owner; what is saved is served |

**Why the bounds are enough.** The properties of the engine relate one run to the run
before it, to one racing request and to one cancel, on a service and its dependency; two
services in one chain give every such relation, and the restart makes the history older
than the run without a second run in one life. Channels of capacity one make the overflow
that takes 256 events in the code happen at the second; three events are a first, a lost
and a last. A second connection leaves one handler behind that has not noticed yet. In
DnsReconcile a page of one row makes every removal shift a boundary; one fault and one edit
put one disturbance into any place of a pass, and the next pass runs undisturbed; two savers
with a save each race through every interleaving of save, load, write and rename.
`MaxHistory = 1` makes the pruning of runs happen at the second. Two versions of two blocks
let a part file hold one block of each. In the deployers, `Disturbance`, `MaxOf` and
`MaxAll` bound what goes wrong or changes *between and during* any number of deployments:
two strokes give every pair (a cut and then a wipe, an edit and then a removal), three in
`services` give a cut, a removal and a redeployment that meets what both left. Four strokes
in `certsrv` are two savers that race at start-up with a request under way. A bound that
ends behaviour stands in a guard and is named in the module.

**Deadlock** is checked in every run but two: in RunLog a run whose log is complete and
whose pages are finished has nothing left to do, and in CertsrvListener the requests run
out. Elsewhere the operator can always save or deploy, and the passes of dns-sync never end.

**Fairness.** DeployEngine: goroutines are scheduled (weak fairness of a handler, of
`execute`, of a cancel that has found its run); `sync.Mutex` hands the lock to a waiter
after a millisecond of starvation (strong fairness of `Load`, and of `CloseOld` in
CertsrvListener); the timer of the deadline fires. A deployer has **no** fairness while its
context lives - it may hang - and returns once the context is cancelled, as everything it
waits for is given that context; no fairness for the operator, for faults or for crashes.
RunLog: goroutines and browsers are scheduled, and the run ends, which `RefinesLiveRuns`
establishes. DnsReconcile: the loop ticks and its calls return (each has a timeout); a
writer that has begun finishes; no save, deployment, edit or fault need ever come.
DepotFetch: the goroutine is scheduled, but a server need not send anything, so a transfer
need not end unless it is cancelled. In the deployers' runs the statements of a deployment
go on (each has a timeout and the engine a deadline), and the operator of the properties
`RetriesHeal` deploys again what did not end well and does what
the last message says: strong fairness of each such reaction, because other operations come
in between. That is no claim about operators; it is what the properties are conditional on.

## 4. The properties

Each is stated in its module beside the comment or document it answers to. The ones that
took thought:

* **The host** (`RecordMatchesHost`, and `ProgressIsOnHost` in `SuccessIsComplete`). Outside its own step, a service
  with a success on record has the configuration of that record on disk, and containers made
  from a compose file that says the same. This holds through cancels, crashes
  and configuration saves during the run, *except* for a service whose last step ended
  without its record: the process died in it, a deployer ignored a cancelled context (the
  loop then leaves without recording), or `state.json` could not be written. `cut` is this
  set exactly, so the property also says that nothing else can part the two. The containers
  have read the mounted files of that configuration too, unless a `down` that failed
  unseen left them running and `up` left them as they were (`spared`): then they may have read
  older ones, under a record with the new hash (section 6).
* **CancelStops** (with `AtMostOneLateStep`). The loop does not look at the context at its head; the
  only late step is the one the cancel overtook there, and a run whose context a cancel
  reached while it had steps left never reports success.
* **RefinesRuns / RefinesLiveRuns.** All of the engine's locking amounts to the seven lines
  of `DeployRuns`.
* **PaneIsPrefix.** Number, life and content of what a page shows, against the run's log,
  across dropped channels, lost connections and restarts that reuse the run's id.
* **DatabaseOpens.** What the next deployment will take the password to be is what the
  database has, unless the operator edits it.
* **NeverRetiresCore.** Whatever two writers do to the temporary file, and whatever a
  restarted dns-sync reads, no pass decides to delete a name that every configuration
  publishes.
* **DeletesWereGone.** Reading a list by offset while it shrinks can miss a row; `shifted`
  names the one situation in which a record that is still asked for is deleted, and
  `Converges` says that it comes back.
* **Converges** also says who may view what: every zone is granted to the dashboard in the end
  unless a call failed or the process restarted between the zone's creation and its grant, as
  no later pass repeats it.
* **BundlesAreSound** (`VerifiedIsWanted`, `SingleSourceIsWhole`, `ProgressIsOnDisk`). With a checksum, what gets the final name is
  the version asked for, whatever its part file was made of. What the page shows is on disk, but
  for the block that is counted and not yet written. Without one it is whole if one
  version was all that any attempt since the last rename was offered, and every body marked
  its end. `QuietFailureIsExplained` names the two ways a transfer fails for good without
  any fault.
* **SessionsFollowPassword.** A session of another password than the account's was issued
  after the change by a request that had verified the old one before it, or the change is
  about to end it.
* **StoreAndBundleMatch, RetriesHeal of the foundation.** The guard on PostgreSQL's store and the two
  messages that advise a wipe never let the records of two CAs meet, and following the
  messages ends. `RetriesHeal` names the five things that outlast every
  redeployment of Technitium.
* **HostKeepsResolving** (with `StopsOnlyWithImage`, `RemovalGivesBack`, `KeepsAFile`). A file the operator wrote is in
  place or in the copy in every state, but for one cut: a copy that was truncated and not
  written is kept by the next deployment, which removes the file. A removal that meets no
  error brings such a file back. It need not be the newest: section 6 has the edits that are dropped.
* **TokensAreSound** (with `NetboxSuccessIsUsable`, `TokensDoNotAccumulate`). dns-sync runs with a token NetBox rejects
  only after an unanswered probe made a deployment replace a good token, or the operator
  wiped the pepper or the database.
* **SuccessIsWhole, HostIsRespected.** After a deployment that ended well the service
  runs one whole configuration, also after the machine restarts; and what still runs after a
  removal is explained by a `down` that did nothing and said nothing.
* **HarborStaysLocal** (in `HostIsRespected`). Harbor's compose file is generated with its cleartext port on every
  interface, and edited: no cut and no shape of the generated file lets the stack start in
  between.
* **SeedIsComplete** (in `SuccessIsWhole`), **TenantsAreServed.** Provisioning one call at
  a time, cut anywhere and repeated, ends complete; the exceptions are named in the
  properties: a client without a file was cut, its answer lost, or its file is under another `ZITADEL_FQDN`.
* **AnsweredSaveIsInForce, SavedIsServed.** Goroutines of closed servers may be anywhere on
  their way to the port: once a save is answered nothing serves with older credentials, and
  in the end what is saved is served, but for one race (`robbed`).

The runs name conjunctions: a property that a cfg lists may join several named parts that
speak of one subject, and the parts carry the comments.
Every property of a passing run has a mutant: a plausible slip in one definition, next to
that definition, under which TLC finds the property violated by the same run.

## 5. The theorems

`DeployEngineProofs`, from RegistryAssumption, FiniteRegistryAssumption and
ConstantsAssumption, for any set of services, requests, configurations and any number of
runs: `TypeCorrect` (under the strengthening that the services of a live run are a subset
of the registry and its environment is loaded), `SingleFlightHolds`,
`LiveRunIsFoundHolds`, `PreparationIsExclusiveHolds` and `EngineRefinesRuns`. The
inductive invariant behind the single flight says that only the newest run can be live and
that ids above `nextID` are absent; `SingleFlight` alone is not inductive because `Claim`
looks at `current` only. That pruning keeps the newest run needs the cardinality of a set
of larger ids, which is empty. Refinement maps `pc` to running, ok, failed or absent, and
every action to `Begin`, `End`, `Restart` or a stutter.

In the same module, from the same assumptions: `RecordMatchesHostHolds`,
`SuccessIsCompleteHolds`, `CancelStopsHolds` and `DependenciesFirstHolds`. None of the four
is inductive. What carries them is that the unfinished run is alone (`Alone`, from the single
flight), so that a step changes the files, containers and record of one service, the next of
that run's list. The invariant then says three things of the run: `JobOK`, its services and
those skipped are the resolved selection; `StepOK`, what the deployer has done at each of its
control points (rendered, so the file is the run's; up, so the containers are made from a
compose file that says the same, and have read the run's files or were spared); `DoneOK`,
what the services behind it look like, on the host and in their records. A cancelled run is
followed by `CancelOK`: an acknowledged cancel finds it at the head of the loop with work
left, or `Doomed`, inside a step that can only end in failure. That the order of the
registry puts dependencies first needs that a resolved selection is closed under
dependencies and that the next service is the first, or in a removal the last, in rank.

`RunLogProofs`, for any number of browsers, connections and events and any capacity:
`TypeCorrect`, `PaneIsPrefixHolds`, `RegisteredChannelsAreOpenHolds` and
`NoSubscriptionIsLeakedHolds`, which together are `SubscriptionsAreSoundHolds`. The pane is what a browser has read of a stream of which
the rest is on the wire, then in the handler's replay, then in its channel; the inductive
invariant says that this concatenation is a prefix of the log, all of it while the
connection is registered. Its four parts (pane to wire, wire to replay or channel, channel
to log, registered means up to date) are separate conjuncts, and the lemma `FlowEmit`
shows emit keeps them.

`CredentialsProofs`, on `Secrets`: `SecretsTypeCorrect`, `DatabaseOpensHolds`,
`NeverRotatedHolds`. The invariant follows the value: while
nothing was edited, a run's value and the database's are what LookupSecret returns, and a request that draws does so alone and before either exists.

`DnsReconcileProofs`, from DnsAssumption, for any rows, addresses, services, writers and
page size: `TypeCorrect`, `NeverRetiresCoreHolds`, `DeletesWereGoneHolds`. The types need
that a writer past loading holds a configuration. `NeverRetiresCore` follows a pass: from
the moment it has read the built-in names it wants the core ones, whichever of live file,
last good set and environment they came from. `DeletesWereGone` needs where in the pass a
row is accounted for. As long as no row was removed under the listing, a row present
throughout is among those read if its position is at most the offset; after the last page it
is among all of them; then its record is wanted; then it is not among the deletions. The
step over a page is an argument on cardinalities: a row of position up to the next offset
is on this page or before it, and only a removal lowers a position.

`BackgroundProofs`, on `DepotFetch`, from DepotAssumption, for any number of URLs, destinations and cancelling
handlers and contents of any size: `BundlesAreSoundHolds`, `QuietFailureIsExplainedHolds`. The
invariant follows the part file: each of its blocks is of a version offered to its
destination since the last rename, and while a transfer writes, it is as long as the bytes
received less the block in hand; what is received is all of the source once the copy has ended under a marked end. A file of
the right length with blocks of one version is that version; this makes the bundle of a sole
source whole, and makes a checksum that fails without a fault the work of another version.

`CredentialsProofs`, on `OperatorAuth`, from AuthAssumption, for any number of requests, browsers, accounts,
passwords and slots: `SlotsAreHeldHolds`, `SetupIsSoundHolds`, `SessionsFollowPasswordHolds`
and `OperatorsStayHolds`. The invariant says what a request knows at each of its points: a
password it has verified and that was the account's when it looked, a token it has compared,
a slot it holds. The slots are a cardinality, which acquiring and releasing change by one.

`BackgroundProofs`, on `CertsrvListener`, from CertsrvAssumption, for any number of savers, clients and servers:
`AnsweredSaveIsInForceHolds`, `IssuedIsCollectedHolds`. Three invariants, of the
servers and who may still hold the port, of the table whose ids are its positions, and of
what each client was told.

`TechnitiumDeployProofs`, from CAAssumption, TechnitiumAssumption and DisturbanceAssumption,
for any number of roots, passwords and generations of the server's data and any budget of
disturbances: `StoreAndBundleMatchHolds`, `HostKeepsResolvingHolds`, `SuccessIsUsableHolds`. A
deployment may stop after any statement and the next one starts from what it left, so the
invariant has two kinds of parts: what holds of files, store and containers wherever one
stopped (the store has the records of one root at most; a bundle newer than its sources was
built from them; a file of the operator's is in place or in the copy, or a cut has emptied one of
the two), and what the
deployment under way has established at each of its statements. `StoreMatchesRoot` alone
is not inductive: a start on PostgreSQL is safe because the guard has seen an empty store, and stays so
because no other statement of that deployment gives it records. CAAssumption asks for more than five
roots: a root is new when no file, container or record is of it, five things can hold one,
and the lemma that a new one exists is a pigeonhole over them.

`NetboxDeployProofs`, from NetboxAssumption and DisturbanceAssumption, for any addresses,
names, seed files, number of peppers and tokens and any budget: `Invariant`,
`InventoryIsKeptHolds`, `TokensAreSoundHolds`. The invariant has a part for each thing a deployment builds on.
`PepperInv`: a server that is up runs with a whole pepper, and while a deployment uses it, with
the one in the file. `InventoryInv`: what is left to create is part of the seed file, and a
record of the file is still to come or has its object. `TokenInv`: a number is one token's, and
a token whose number is in a file, in dns-sync or in the deployment's hands has the use that goes with it; so
retiring the tokens of one use cannot hit the other's. `CountInv`: the seeding tokens are
counted against the cuts, unanswered probes and refused deletions that explain them, plus
one while a deployment is logged in. `QuietInv` holds as long as no probe went unanswered and
nothing was wiped: the token in dns-sync's file is of the pepper on disk, the container has that
token, and a deployment that replaces it found the file empty. Without the last clause
the explanation of a rejected token is not inductive: it is the one fact that ties the
decision to replace to the retirement three statements later.

`ServicesProofs`, from SimpleAssumption, DisturbanceAssumption and ZitadelAssumption, for any tenants, lists
of tenants and labels and any budget: `HostIsRespectedHolds`, `SuccessIsWholeHolds`,
`TenantsAreServedHolds`. A deployment is the
sequence of the statements it has left, put together from parts with `\o`; what is true
of the host depends on the part it stands in. So the proof first shows of each of the fourteen programs
that it is early checks and files, the compose file, then building, `down`, `up`, the wait,
and only provisioning after that (`Renders`, `Declares`, `Builds`, `Starts`, `Waits`,
`Provisions`; `HarborRenders` for Harbor, whose compose file is generated between `down` and
`up`), and that dropping the head moves it to the same part or to the next (`Moves`).
`HostInv` says what each part has achieved; `FilesInv` that a file the service mounts is
still to be written or has this deployment's configuration; `DownWorks` names the only ways a
`down` does nothing and says nothing. What is provisioned has three invariants: `SeedInv`
(an object is still to be made or is there), `OrderInv` (a tenant's statements come in one
block that begins with its organisation, and a file is opened directly before it is written), and
`ServedInv` (each part of a tenant is in one organisation, or is still to be made in the one
at hand). `SeedIsComplete` without `OrderInv` is not inductive: a deployment about to look
for another tenant's organisation must have nothing left to do in this one. `TenantsAreServed` is
in `TenantInv`, whose other parts are what a tenant's file depends on: `PATInv` (the token is
that of a whole instance, a deployment past `readZitadelPAT` has it, and without it there are
no files unless it was lost), `CurInv` (a part is due in an organisation of its tenant, and a
file for a client that exists), `AppInv` (a client without a file is about to get one, or was
cut or lost, or `ZITADEL_FQDN` was edited), and `ClientInv`, which says of a file that no other tenant has what it may name at any time, and not
only after success. A file that names an organisation no longer there stays explained because
`FreeOrgs` gives no remembered number away: that is the model's form of Zitadel's ids never coming back.

Every safety invariant and every action property that a passing run checks is so a theorem.
Out of reach of the provers and left to TLC: liveness (`RequestsAreAnswered`,
`RefinesLiveRuns`, `WatchersSeeTheEnd`, `Converges`, `CancelEnds`, `SavedIsServed`, the three
`RetriesHeal`), anything with ENABLED, and induction over data.

## 6. Where the code and its own words part

One run is expected to end in a violation: `engine_removes`. The page asks to confirm the
removal of the services selected (`deploy.html:132`); Start expands a removal with the
dependencies of what was selected, and takes the CA down with the depot.

The rest was met while modelling. The models do what the code does, and the properties name
these as their exceptions where they touch them.

*Engine.* A cancel that finds the run before `execute` has created the context is
acknowledged and reaches nothing (`deploy.go:273-274`, "reports the run as failed"). A
dependency "is skipped when it last deployed successfully" (`deploy.go:151-153`), but the
decision is taken before the claim and a removal that ends in between is not seen.
The hash in `state.json` "means 'the config this service is successfully running'"
(`deploy.go:373-374`), but where `down` fails, which is only logged (`compose.go:79-89`), and
only mounted files have changed, `up -d` leaves the container running and the new hash is recorded over
files it has not read; from then on the skip decision takes the service for deployed.
`state.go:11-13` says that nothing gates on the history but display, and both the skip
decision and the foundation gate do.

*Names and dns-sync.* Names saved in the wizard are published "on the next reconcile without
a dns-sync redeploy" (`main.go:30-32`), but a deployment of dns-sync that was under way
writes the names of its older environment over them; of two saves that race, the one that
loaded first may write last, as no lock orders save, load and write
(`controlplane.go:153-161`, `main.go:34-47`, `:148-151`); a refresh that fails is logged and not repeated; and
a crash between the save and the refresh is not made good at the next start (`alone` in
`Converges` remembers each of them). The temporary
file of the live names has a fixed name, so that with two writers a reader can see a partial
file, or a name nobody configured (the tail of a longer line), which `dnssync.go:231-233`
excludes (`NeverRetiresCore` shows that the core names survive it). The permission the comment at `technitium.go:303-305` of dns-sync speaks of is granted
only by the pass that created the zone: if that call fails no later pass repeats it. The
verification of a dns-sync deployment (`dnssync.go:124-131`) passes on the records of an
earlier life of the zone although NetBox rejects the token it runs with, after the database
was wiped and NetBox's deployment was cut before its tokens.

*Accounts.* Two submissions of `/setup` can both pass and create two accounts, where
`auth.go:197` says "exactly one account, once". A login that verified the old password may
issue its session after the change has ended the others (`session.go:73-74`).

*Transfers.* The bytes the page shows are counted before they are written. A part file is known by its destination only: without a checksum a bundle can be
made of two versions and get its final name (`fetch.go:39-41`). A part file that is complete
but was not renamed is answered 416 at every attempt, and nothing shortens it.

*Foundation.* "Remove ... to rebuild, then redeploy every certificate-consuming service"
(`ca.go:61`) does not do for Technitium: a certificate is reused for its names and key
whatever root signed it (`stepca.go:103`, `:175-205`), so a redeployment keeps the old
root's and its own probe fails until it expires. The copy of `resolv.conf` is taken "so removing
Technitium can put back what was there" (`technitium.go:728-730`), but one that was cut while
it was written is as good as any to the next deployment, which then removes the operator's file for
good; and a file the operator writes over the managed one while a copy exists is removed by the next
deployment without being copied. `docker compose pull` (`compose.go:91-93`) asks the registry although the
image is there: a deployment that was cut after `down`, on a host whose `resolv.conf` names the
server that is now stopped, fails at the pull at every retry. A first deployment of the CA that was cut
is refused from then on, until the directory is removed.

*NetBox.* Of a file that names an address twice, the deployer takes the first record and
dns-seed the least name. A token that is replaced is not seen by the running dns-sync. A
probe without an answer counts as a rejection. The seeding tokens are deleted by means of
one of them (`netbox.go:98-100`), so some may stay. A pepper cut short (under 50 characters)
is refused until it is deleted. A superuser's password changed in the configuration only
makes every deployment fail. Changing HOST_IP leaves the old address with the canonical name.

*Services.* With SFTP_BACKUP_* set, every SFTPGo deployment fails unless the host maps the
name to the loopback: the API is dialled by name (`sftp.go:117-126`), and its port is
"published on `127.0.0.1` only" (`docs/SERVICES.md`). `Compose.Down` swallows errors
(`compose.go:79-89`), so `up` can leave a container with old files and a removal can report
success over containers that run, and delete the compose file the next removal would need; a removal whose run is cancelled skips `docker down` and
still deletes the runtime directory, and later removals find nothing to stop
(`OPERATIONS.md:153`, "stops its containers"). `deploy.go:410-413` calls keeping data out of
the runtime directory "the one contract every deployer has to keep"; depot, KMIP and Harbor
check it. Creating a Zitadel application does not tolerate 409 (`zitadel.go:347`), where
`:274` says that every step does; the file of a client lies in a directory named by `ZITADEL_FQDN` (`zitadel.go:409-415`), so that
after an edit of that variable every deployment meets the client, finds no file and is refused;
a client file cut between its creation and its write stays
empty; the recovery advised at `zitadel.go:160-162` leaves the old client files, so that
success reports credentials of an instance that is gone; tenants whose sanitised names agree
share one file; a search answered with an error makes a second organisation, and a failed
search for the user skips the grant silently. The administrators of LLDAP and SFTPGo and
Authentik's token are those of the first start, and Keycloak's realm is imported then only.

*Process.* A rebind of the certsrv listener can lose the port to the goroutine of the server
it closed, and nothing tries again until the next save (`main.go:264-298`, against "takes
effect without a control-plane restart", `:248-252`). Every save, of whatever variable,
replaces the certsrv handler: certificates issued and not yet collected are gone, and an id
told before the save can name another client's certificate after it. `main` returns as soon
as the HTTP server's Shutdown begins (`main.go:191-201`), so requests under way are not
waited for. `server.go:186-187` says that a panic in one panel cannot affect another, and no
goroutine recovers one.

## 7. What is not modelled

Rendering of templates and pages, parsing and formatting of `.env`, the schema's
variables one by one, the panels (read-only clients that keep nothing), the disk usage cache
(every field under one mutex), the backup stream (an archive of files that may change while
they are read), the installation scripts, dns-sync's dry run, dns-seed's `set-forwarder`,
certsrv's CA chain and its encoding, and the contents of the services themselves. Timeouts
are steps that may fail, not clocks. A directory variable that is edited (`ZITADEL_DIR`) is a new
installation, which the model does not follow; of a value of a generated secret that is typed and
cleared again, `DatabaseOpens` says nothing once the database exists.

## 8. The plan

1. Compositions: `RunLog` and `Secrets` with the runs of `DeployEngine` in place of their own
   abstractions of a run, through `DeployRuns`; the deployers' modules as the `Deployer`
   of `DeployEngine`.
2. `Validate` and `Resolve` as operators checked against reference definitions.
