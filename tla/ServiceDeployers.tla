-------------------------- MODULE ServiceDeployers --------------------------
(***************************************************************************)
(* The deployers of the services behind the foundation (deploy/traefik.go, *)
(* keycloak.go, authentik.go, samba.go, s3.go, depot.go, sftp.go,          *)
(* mailpit.go, kmip.go, chrony.go, rsyslog.go, lldap.go, harbor.go) over   *)
(* the compose wrapper they share (compose.go).                            *)
(*                                                                         *)
(* A deployer is the sequence of its statements; a behaviour follows one   *)
(* service, `svc`.  Its containers are a main one, which mounts the        *)
(* rendered files, and for Harbor a scanner that prepare may declare.  A   *)
(* container reads its files when it starts, and is restarted with the     *)
(* machine.                                                                *)
(***************************************************************************)
EXTENDS DeploymentRun, SequencesExt

CONSTANTS Simple,  \* the services of this module that a run looks at
          Nested   \* those whose data directory may be configured inside the runtime directory
ASSUME SimpleAssumption ==
    /\ Nested \subseteq Simple
    /\ Simple \subseteq {"traefik", "keycloak", "authentik", "samba", "s3", "depot", "sftp",
                         "mailpit", "kmip", "chrony", "rsyslog", "lldap", "harbor"}

VARIABLES svc,    \* the service this behaviour is about
          conf,   \* its configuration
          todo,   \* the statements the deployment under way has left
          files,  \* the files it renders: a version, 0 when missing
          comp,   \* the compose file: Harbor's scanner declared, its port bound to the loopback
          main,   \* the main container: the compose file it was created from and what it read
          extra,  \* the scanner's container runs
          data,   \* the persistent directory holds the service's data
          objs,   \* and, in it, the objects seeded: a version, 0 when missing
          baked   \* and the administrator's credential it was initialised with
svcVars == <<svc, conf, todo, files, comp, main, extra, data, objs, baked>>
dvars == <<runVars, svcVars>>
-----------------------------------------------------------------------------
Torn == 3
File(f) == <<<<"open", f>>, <<"write", f>>>>
Cycle == <<<<"down">>, <<"up">>, <<"wait">>>>
Restart == File("compose") \o Cycle

\* Each deployer: its guards, what it renders, its stack, what it seeds.
TraefikSteps == <<<<"ca">>, <<"vars">>, <<"cert">>>> \o File("usersfile") \o File("traefik.yml")
                \o File("dynamic.yml") \o Restart
KeycloakSteps == <<<<"ca">>, <<"vars">>>> \o File("realm") \o Restart
AuthentikSteps == <<<<"ca">>, <<"vars">>>> \o File("blueprint") \o Restart \o <<<<"login">>>>
SambaSteps == File("smb.conf") \o File("compose") \o <<<<"build">>>> \o Cycle
S3Steps == Restart
DepotSteps == <<<<"guard">>>> \o File("htpasswd") \o File("nginx.conf") \o Restart
BackupUserSteps == IF conf.backup = "none" THEN <<>>
                   ELSE <<<<"dial">>, <<"login">>, <<"ensure", "backup user">>>>
SFTPSteps == <<<<"vars">>>> \o Restart \o BackupUserSteps
MailpitSteps == Restart
KMIPSteps == <<<<"guard">>, <<"ca">>, <<"cert">>>> \o File("client_ca.crt") \o File("server.conf")
             \o File("compose") \o <<<<"build">>>> \o Cycle
ChronySteps == File("chrony.conf") \o File("compose") \o <<<<"build">>>> \o Cycle
RsyslogSteps == File("rsyslog.conf") \o File("compose") \o <<<<"build">>, <<"vars">>>> \o Cycle
\* Harbor's compose file is generated and then edited, after the stack it replaces is down.
Generated == <<<<"open", "compose">>, <<"prepare">>, <<"find port">>, <<"open", "compose">>, <<"bind">>>>
\* Mutant: the old stack is down before the deployment can be refused.
HarborSteps_DownFirst ==
    <<<<"down">>, <<"guard">>, <<"ca">>>> \o File("harbor.yml") \o File("override")
    \o Generated \o <<<<"up">>, <<"wait">>>>
HarborSteps ==
    <<<<"guard">>, <<"ca">>>> \o File("harbor.yml") \o File("override") \o <<<<"down">>>>
    \o Generated \o <<<<"up">>, <<"wait">>>>
\* seedVCenterDirectory: groups, users, passwords, memberships.
LLDAPSeed == <<<<"ensure", "admins">>, <<"ensure", "readers">>, <<"ensure", "bind user">>, <<"ensure", "admin user">>,
               <<"set", "bind user">>, <<"set", "admin user">>,
               <<"ensure", "bind in readers">>, <<"ensure", "admin in admins">>>>
LLDAPSteps == <<<<"cert">>>> \o Restart \o <<<<"login">>>> \o LLDAPSeed

Steps == [traefik |-> TraefikSteps, keycloak |-> KeycloakSteps, authentik |-> AuthentikSteps,
          samba |-> SambaSteps, s3 |-> S3Steps, depot |-> DepotSteps, sftp |-> SFTPSteps, mailpit |-> MailpitSteps,
          kmip |-> KMIPSteps, chrony |-> ChronySteps, rsyslog |-> RsyslogSteps, harbor |-> HarborSteps,
          lldap |-> LLDAPSteps]
\* Every service is removed alike; the depot deletes its htpasswd file as well.
RemoveSteps == <<<<"down">>, <<"clear">>>> \o (IF svc = "depot" THEN <<<<"forget">>>> ELSE <<>>)
-----------------------------------------------------------------------------
\* What the files outside the runtime directory are, what the main container
\* mounts, what is seeded into the data, whose data directory is guarded.
Outer == {"htpasswd", "client_ca.crt"}
Mounted == [traefik |-> {"usersfile", "traefik.yml", "dynamic.yml"}, keycloak |-> {"realm"},
            authentik |-> {"blueprint"}, samba |-> {"smb.conf"}, s3 |-> {}, depot |-> {"htpasswd", "nginx.conf"},
            sftp |-> {}, mailpit |-> {}, kmip |-> {"client_ca.crt", "server.conf"}, chrony |-> {"chrony.conf"},
            rsyslog |-> {"rsyslog.conf"}, harbor |-> {"harbor.yml"}, lldap |-> {}, zitadel |-> {}]
Rendered == Mounted[svc] \cup {"compose"} \cup (IF svc = "harbor" THEN {"override"} ELSE {})
Seeded == CASE svc = "keycloak" -> {"realm"}
            [] svc = "sftp"     -> {"backup user"}
            [] svc = "lldap"    -> {LLDAPSeed[i][2] : i \in DOMAIN LLDAPSeed}
            [] OTHER            -> {}
Passwords == {"bind user", "admin user"}
Guarded == {"depot", "kmip", "harbor"}
HasLogin == {"authentik", "sftp", "lldap"}

NotRunning == [env |-> 0, read |-> [f \in Mounted[svc] |-> 0], open |-> FALSE]
NoCompose == [extra |-> FALSE, bound |-> TRUE]
Created == [env |-> files["compose"], read |-> [f \in Mounted[svc] |-> files[f]], open |-> ~comp.bound]

DeployersInit(services) ==
    /\ RunInit(services) /\ svc \in services
    /\ conf \in [v : {1}, e : {1}, cred : {1}, valid : {TRUE}, inside : IF svc \in Nested THEN BOOLEAN ELSE {FALSE},
                 extra : IF svc = "harbor" THEN BOOLEAN ELSE {FALSE},
                 backup : IF svc = "sftp" THEN {"none", "name", "loopback"} ELSE {"none"},
                 tenants : IF svc = "zitadel" THEN {1, 2} ELSE {1}, fqdn : {1}]
    /\ todo = <<>> /\ files = [f \in Rendered |-> 0] /\ comp = NoCompose
    /\ main = NotRunning /\ extra = FALSE
    /\ data = FALSE /\ objs = [o \in Seeded |-> 0] /\ baked = 0
-----------------------------------------------------------------------------
\* How a statement ends: the next one is due, or the deployment ends.
Now(k) == todo # <<>> /\ Head(todo)[1] = k
What == Head(todo)[2]
Outcome == CASE at = "deploy" -> "ok" [] at = "remove" -> "removed" [] at = "cancelled" -> "failed"
Then(rest) ==
    /\ todo' = rest /\ UNCHANGED <<budget, svc, conf>>
    /\ IF rest = <<>> THEN Ends(svc, Outcome) ELSE UNCHANGED <<op, at, verdict>>
Done == Then(Tail(todo))
Stops(v) == todo' = <<>> /\ Ends(svc, v) /\ UNCHANGED <<svc, conf>>
Fails(v) == Stops(v) /\ UNCHANGED budget
Outside(v) == Spend("outside") /\ Stops(v)
HostKept == UNCHANGED <<files, comp, main, extra, data, objs, baked>>

Deploys(steps) == Begins(svc, "deploy") /\ todo' = steps /\ UNCHANGED <<verdict, budget, svc, conf>> /\ HostKept
Removes ==
    /\ Idle /\ Spend("remove") /\ op' = svc /\ at' = "remove" /\ todo' = RemoveSteps
    /\ UNCHANGED <<verdict, svc, conf>> /\ HostKept
Cut == CutShort /\ todo' = <<>> /\ UNCHANGED <<svc, conf>> /\ HostKept

\* Guards and what comes before the stack is touched.
Guard == /\ Now("guard") /\ HostKept
         /\ IF conf.inside THEN Fails("config") ELSE Done
Vars  == /\ Now("vars") /\ HostKept
         /\ IF conf.valid THEN Done ELSE Fails("config")
CAReady   == Now("ca") /\ HostKept /\ (Done \/ Outside("not ready"))
IssueCert == Now("cert") /\ HostKept /\ (Done \/ Outside("not ready"))
Build     == Now("build") /\ HostKept /\ (Done \/ Outside("not ready"))

\* Writing a file truncates it first.
VersionOf(f) == IF f = "compose" THEN conf.e ELSE conf.v
OpenFile ==
    /\ Now("open") /\ Done /\ files' = [files EXCEPT ![What] = Torn]
    /\ UNCHANGED <<comp, main, extra, data, objs, baked>>
WriteFile ==
    /\ Now("write") /\ Done /\ files' = [files EXCEPT ![What] = VersionOf(What)]
    /\ UNCHANGED <<comp, main, extra, data, objs, baked>>
-----------------------------------------------------------------------------
\* Compose.Down stops what the compose file declares.  Without the file it does
\* nothing, and an error of docker's is not an error of its own.
Parses == \A f \in {"compose", "override"} \cap DOMAIN files : files[f] # Torn
\* Mutant: an old stack is not taken down.
Downed_Not == <<main, extra>>
Downed == IF files["compose"] = 0 \/ ~Parses THEN <<main, extra>>
          ELSE <<NotRunning, IF comp.extra THEN FALSE ELSE extra>>
Down ==
    /\ Now("down") /\ UNCHANGED <<files, comp, data, objs, baked>>
    /\ \/ Done /\ main' = Downed[1] /\ extra' = Downed[2]
       \/ \* docker fails
          /\ Spend("docker") /\ todo' = Tail(todo) /\ UNCHANGED <<op, at, verdict, svc, conf, main, extra>>
       \/ \* the run was cancelled: docker is not run, and a removal goes on
          /\ at = "remove" /\ Spend("cancel") /\ at' = "cancelled" /\ todo' = Tail(todo)
          /\ UNCHANGED <<op, verdict, svc, conf, main, extra>>

\* goharbor/prepare generates the compose file, with the port on every interface.
Prepare ==
    /\ Now("prepare") /\ UNCHANGED <<main, extra, data, objs, baked>>
    /\ \/ /\ Done /\ files' = [files EXCEPT !["compose"] = conf.e]
          /\ comp' = [extra |-> conf.extra, bound |-> FALSE]
       \/ Outside("failed") /\ UNCHANGED <<files, comp>>
\* bindLoopbackPublish: a generated file without the port it looks for is an
\* error, before anything is written.
PortMissing == Stops("shape")
FindPort == Now("find port") /\ HostKept /\ (Done \/ (Spend("shape") /\ PortMissing))
Bind ==
    /\ Now("bind") /\ Done /\ files' = [files EXCEPT !["compose"] = conf.e]
    /\ comp' = [comp EXCEPT !.bound = TRUE] /\ UNCHANGED <<main, extra, data, objs, baked>>

\* docker compose up: what runs already from the same compose file (and for
\* Harbor the same env files) stays as it is.
\* The first start on an empty data directory takes the credential and the realm.
Unchanged == IF svc = "harbor" THEN main = Created ELSE main.env = files["compose"]
Up ==
    /\ Now("up") /\ UNCHANGED <<files, comp>>
    /\ \/ /\ Done /\ data' = TRUE /\ extra' = (extra \/ comp.extra)
          /\ main' = IF Unchanged THEN main ELSE Created
          /\ baked' = IF data THEN baked ELSE conf.cred
          /\ objs' = IF svc = "keycloak" /\ ~data THEN [objs EXCEPT !["realm"] = conf.v] ELSE objs
       \/ Outside("failed") /\ UNCHANGED <<main, extra, data, objs, baked>>
Wait == Now("wait") /\ HostKept /\ (Done \/ Outside("failed"))
-----------------------------------------------------------------------------
\* Provisioning.  The token of Authentik and the administrators of SFTPGo and
\* LLDAP are those of the first start.
Login ==
    /\ Now("login") /\ HostKept
    /\ IF baked = conf.cred THEN Done \/ Outside("failed") ELSE Fails("login")
\* The SFTPGo API is asked for by name, at the port that is on the loopback only.
Dial ==
    /\ Now("dial") /\ HostKept
    /\ IF conf.backup = "loopback" THEN Done ELSE Fails("unreachable")
Ensured(o) == IF objs[o] = 0 THEN conf.v ELSE objs[o]
Ensure ==
    /\ Now("ensure") /\ UNCHANGED <<files, comp, main, extra, data, baked>>
    /\ \/ Done /\ objs' = [objs EXCEPT ![What] = Ensured(What)]
       \/ Outside("failed") /\ UNCHANGED objs
SetTo(o) == conf.v
SetPassword ==
    /\ Now("set") /\ UNCHANGED <<files, comp, main, extra, data, baked>>
    /\ \/ Done /\ objs' = [objs EXCEPT ![What] = SetTo(What)]
       \/ Outside("failed") /\ UNCHANGED objs

\* os.RemoveAll of the runtime directory, and of data that is kept inside.
Clear ==
    /\ Now("clear") /\ Done /\ comp' = NoCompose /\ UNCHANGED <<main, extra>>
    /\ files' = [f \in DOMAIN files |-> IF f \in Outer THEN files[f] ELSE 0]
    /\ IF conf.inside THEN data' = FALSE /\ objs' = [o \in DOMAIN objs |-> 0] /\ baked' = 0
                      ELSE UNCHANGED <<data, objs, baked>>
Forget ==
    /\ Now("forget") /\ Done /\ files' = [files EXCEPT !["htpasswd"] = 0]
    /\ UNCHANGED <<comp, main, extra, data, objs, baked>>

DeployerStep ==
    \/ Guard \/ Vars \/ CAReady \/ IssueCert \/ Build \/ OpenFile \/ WriteFile \/ Down \/ Prepare \/ FindPort
    \/ Bind
    \/ Up \/ Wait \/ Login \/ Dial \/ Ensure \/ SetPassword \/ Clear \/ Forget
-----------------------------------------------------------------------------
\* The machine restarts, and a container that runs reads its files again.
\* Traefik watches one of them.
Reread(names) == [main EXCEPT !.read = [f \in DOMAIN @ |-> IF f \in names THEN files[f] ELSE @[f]]]
Reboot ==
    /\ Spend("reboot") /\ main.env # 0 /\ main' = Reread(Mounted[svc])
    /\ UNCHANGED <<op, at, verdict, svc, conf, todo, files, comp, extra, data, objs, baked>>
Watch ==
    /\ svc = "traefik" /\ main.env # 0 /\ main' = Reread({"dynamic.yml"}) /\ main' # main
    /\ UNCHANGED <<runVars, svc, conf, todo, files, comp, extra, data, objs, baked>>

\* The operator's edits, between deployments.
Changed == verdict' = [verdict EXCEPT ![svc] = IF @ = "ok" THEN "changed" ELSE @]
Settings ==
    \/ conf' = [conf EXCEPT !.v = 3 - @]
    \/ conf' = [conf EXCEPT !.v = 3 - @, !.e = 3 - @]
    \/ svc \in HasLogin /\ conf' = [conf EXCEPT !.cred = 3 - @]
    \/ svc = "harbor" /\ conf' = [conf EXCEPT !.extra = ~@]
    \/ conf' = [conf EXCEPT !.valid = ~@]
    \/ svc = "zitadel" /\ conf' = [conf EXCEPT !.tenants = 3 - @]
\* ZITADEL_FQDN, with what is rendered from it; the files kept under the old name stay there.
Renames == svc = "zitadel" /\ conf' = [conf EXCEPT !.fqdn = 3 - @, !.v = 3 - @, !.e = 3 - @]
Configures ==
    /\ Idle /\ Changed /\ UNCHANGED <<op, at, svc, todo>> /\ HostKept
    /\ (Spend("settings") /\ Settings) \/ (Spend("rename") /\ Renames)
=============================================================================
