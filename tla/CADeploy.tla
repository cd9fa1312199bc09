------------------------------ MODULE CADeploy ------------------------------
(***************************************************************************)
(* The deployment and the removal of step-ca (deploy/ca.go), and the       *)
(* operator who follows the messages it ends with.                         *)
(*                                                                         *)
(* The CA directory, the certificate store in PostgreSQL and the container *)
(* are three places that change one after the other: a deployment may be   *)
(* cut between any two statements (an error, a cancellation, the process   *)
(* killed), the container writes its first ca.json and root on its own     *)
(* time, and the operator wipes one place or the other.  A root is a       *)
(* number; a new one is made whenever the container starts on an empty     *)
(* directory.                                                              *)
(***************************************************************************)
EXTENDS DeploymentRun

CONSTANT Roots       \* enough to tell the roots in use apart

\* One more than the places that can name a root when a new one is made: the
\* store, the last container, a certificate, a bundle and a web service.
ASSUME CAAssumption == Roots \in Nat /\ Roots > 5

Root == 1 .. Roots

VARIABLES caJSON,    \* config/ca.json: its db backend and whether the duration is set
          root,      \* certs/root_ca.crt: a root, 0 when missing
          rootIsDir, \* ... or the directory docker made in its place
          hadConfig, \* the local of that name
          ca,        \* the step-ca container and the configuration it started with
          store,     \* the roots that have certificate records in PostgreSQL
          role       \* the panel's read-only role may select from the tables
caVars == <<caJSON, root, rootIsDir, hadConfig, ca, store, role>>
-----------------------------------------------------------------------------
NoConfig == [db |-> "absent", dur |-> FALSE]
Down     == [state |-> "down", db |-> "absent", dur |-> FALSE, root |-> 0]

Service == {"ca", "technitium"}
Refusal == {"config", "dir", "badger", "store"}
Verdict == Refusal \cup {"none", "ok", "failed", "removed", "wiped", "not ready", "certificate", "login"}

CAInit ==
    /\ caJSON = NoConfig /\ root = 0 /\ rootIsDir = FALSE /\ hadConfig = FALSE
    /\ ca = Down /\ store = {} /\ role = FALSE

Cut == CutShort /\ UNCHANGED caVars
-----------------------------------------------------------------------------
\* What the health endpoint answers to a client that trusts the root on disk.
CAServes == ca.state = "up" /\ root # 0 /\ ca.root = root
\* The container can still come to serve.
CAStarting == ca.state = "starting" /\ caJSON.db # "torn" /\ (caJSON.db = "absent" => ~rootIsDir)
Starts == [ca EXCEPT !.state = "starting"]

\* The guards of Deploy: on the configuration, on a root certificate that is a
\* directory, on a ca.json that does not name PostgreSQL (one that cannot be
\* parsed counts as badger).
DBType == IF caJSON.db = "postgresql" THEN "postgresql" ELSE "badger"
Guard(valid) ==
    IF ~valid THEN "config"
    ELSE IF rootIsDir THEN "dir"
    ELSE IF caJSON.db # "absent" /\ DBType # "postgresql" THEN "badger"
    ELSE "none"

CADeployBegins(valid) ==
    /\ Idle
    /\ valid \/ "config" \in Disturbance
    /\ IF Guard(valid) = "none"
         THEN Begins("ca", "render") /\ UNCHANGED verdict
         ELSE Ends("ca", Guard(valid))
    /\ IF valid THEN UNCHANGED budget ELSE Spend("config")
    /\ hadConfig' = (caJSON.db # "absent")
    /\ UNCHANGED <<caJSON, root, rootIsDir, ca, store, role>>

\* Directories, password file, .pgpass, ownership, compose file: all before the
\* containers are touched.
CARender == Step("ca", "render", "down") /\ UNCHANGED caVars

\* A `compose down` that fails is logged and swallowed, in a deployment and in a
\* removal: the containers stay.  They stay, too, when an earlier removal whose `down`
\* failed has deleted the compose file.
LacksFile == at = "remove" /\ Spent({"docker"}) /\ UNCHANGED budget
CADown ==
    /\ op = "ca" /\ at \in {"down", "remove"}
    /\ at' = IF at = "down" THEN "up" ELSE "removed"
    /\ \/ ca' = Down /\ UNCHANGED budget
       \/ (Spend("docker") \/ LacksFile) /\ UNCHANGED ca
    /\ UNCHANGED <<op, verdict, caJSON, root, rootIsDir, hadConfig, store, role>>
\* `up -d` leaves a container that is there as it is, unless its compose file changed.
CAUp ==
    /\ Step("ca", "up", "wait") /\ ca' \in {Starts} \cup (IF ca = Down THEN {} ELSE {ca})
    /\ UNCHANGED <<caJSON, root, rootIsDir, hadConfig, store, role>>

\* The container on its own time: on an empty directory it makes a CA with the
\* default store; otherwise it runs what ca.json says.  Its first start on
\* PostgreSQL creates the tables.  A new root is none of those still in use.
NewRoot(used) == CHOOSE r \in Root : r \notin used
ContainerStarts(used) ==
    /\ CAStarting
    /\ \/ /\ caJSON.db = "absent" /\ ~rootIsDir
          /\ root' = NewRoot(used) /\ caJSON' = [db |-> "badger", dur |-> FALSE]
          /\ ca' = [state |-> "up", db |-> "badger", dur |-> FALSE, root |-> root']
       \/ /\ caJSON.db # "absent" /\ root # 0
          /\ ca' = [state |-> "up", db |-> caJSON.db, dur |-> caJSON.dur, root |-> root]
          /\ UNCHANGED <<root, caJSON>>
    /\ UNCHANGED <<op, at, verdict, rootIsDir, hadConfig, store, role, budget>>

\* waitCAPostgres and waitCAInit; they give up when the container cannot serve.
AfterWait == IF at = "wait" THEN "duration" ELSE IF hadConfig THEN "role" ELSE "aside"
CAWait ==
    /\ op = "ca" /\ at \in {"wait", "wait again"}
    /\ \/ CAServes /\ at' = AfterWait /\ UNCHANGED <<op, verdict>>
       \/ ~CAServes /\ ~CAStarting /\ Ends("ca", "failed")
    /\ UNCHANGED <<caVars, budget>>

\* The provisioner's duration is edited in ca.json by a one-shot container; the
\* running one does not see it.
CADuration ==
    /\ Step("ca", "duration", IF hadConfig THEN "restart" ELSE "guard store")
    /\ caJSON' = [caJSON EXCEPT !.dur = TRUE]
    /\ UNCHANGED <<root, rootIsDir, hadConfig, ca, store, role>>

\* Mutant: only the table's absence is looked at, not its rows.
StoreIsFree_NoCount == TRUE
\* A new root is not bound to a store that holds another root's records.
StoreIsFree == store = {}
CAGuardStore ==
    /\ On("ca", "guard store")
    /\ IF StoreIsFree THEN at' = "patch" /\ UNCHANGED <<op, verdict>> ELSE Ends("ca", "store")
    /\ UNCHANGED <<caVars, budget>>

\* ca.json is rewritten in place: truncated, then written.
CAPatchOpens ==
    /\ Step("ca", "patch", "patching") /\ caJSON' = [caJSON EXCEPT !.db = "torn"]
    /\ UNCHANGED <<root, rootIsDir, hadConfig, ca, store, role>>
CAPatch ==
    /\ Step("ca", "patching", "restart") /\ caJSON' = [caJSON EXCEPT !.db = "postgresql"]
    /\ UNCHANGED <<root, rootIsDir, hadConfig, ca, store, role>>

\* Mutant: the restart after the rewrite is forgotten.
CARestart_Forgotten == Step("ca", "restart", "wait again") /\ UNCHANGED caVars
CARestart ==
    /\ Step("ca", "restart", "wait again") /\ ca' = Starts
    /\ UNCHANGED <<caJSON, root, rootIsDir, hadConfig, store, role>>
CAMoveAside == Step("ca", "aside", "role") /\ UNCHANGED caVars
CARole ==
    /\ On("ca", "role") /\ role' = TRUE /\ Ends("ca", "ok")
    /\ UNCHANGED <<caJSON, root, rootIsDir, hadConfig, ca, store, budget>>

\* Remove: the containers and the compose file; the data stays.
CARemoveBegins ==
    /\ Begins("ca", "remove") /\ Spend("remove ca") /\ UNCHANGED <<verdict, caVars>>
CARemoveEnds ==
    /\ On("ca", "removed") /\ Ends("ca", "removed") /\ UNCHANGED <<caVars, budget>>

CAStep == \/ CARender \/ CADown \/ CAUp \/ CAWait \/ CADuration \/ CAGuardStore
          \/ CAPatchOpens \/ CAPatch \/ CARestart \/ CAMoveAside \/ CARole \/ CARemoveEnds
-----------------------------------------------------------------------------
\* The operator and the machine, between deployments.
WipeCA ==
    /\ caJSON' = NoConfig /\ root' = 0 /\ rootIsDir' = FALSE
    /\ verdict' = [verdict EXCEPT !["ca"] = "wiped"]
    /\ UNCHANGED <<op, at, hadConfig, ca, store, role>>
WipeStore ==
    /\ store' = {} /\ role' = FALSE
    /\ verdict' = [verdict EXCEPT !["ca"] = "wiped"]
    /\ UNCHANGED <<op, at, caJSON, root, rootIsDir, hadConfig, ca>>

WipesAtWill == Idle /\ Spend("wipe") /\ (WipeCA \/ WipeStore)

\* What the last message told to do: remove the directory, or wipe the store.
ObeysWipeCA    == Idle /\ verdict["ca"] \in {"badger", "dir"} /\ WipeCA /\ UNCHANGED budget
ObeysWipeStore == Idle /\ verdict["ca"] = "store" /\ WipeStore /\ UNCHANGED budget
\* ... or, for the store, put back the directory the records belong to.
Restores ==
    /\ Idle /\ verdict["ca"] = "store" /\ Spend("restore")
    /\ \E r \in store : root' = r
    /\ caJSON' = [db |-> "postgresql", dur |-> TRUE] /\ rootIsDir' = FALSE
    /\ verdict' = [verdict EXCEPT !["ca"] = "wiped"]
    /\ UNCHANGED <<op, at, hadConfig, ca, store, role>>

\* The host restarts its containers: a container that mounts the root makes a
\* directory of the file that is not there, and step-ca starts on what it finds.
Reboot ==
    /\ Idle /\ Spend("reboot")
    /\ ca' = IF ca = Down THEN Down ELSE Starts
    /\ rootIsDir' \in IF root = 0 THEN {rootIsDir, TRUE} ELSE {FALSE}
    /\ UNCHANGED <<op, at, verdict, caJSON, root, hadConfig, store, role>>

RedeploysCA == verdict["ca"] \in {"none", "config", "failed", "wiped"} /\ CADeployBegins(TRUE)

CANext == \/ CAStep \/ Cut
          \/ \E valid \in BOOLEAN : CADeployBegins(valid)
          \/ CARemoveBegins \/ WipesAtWill \/ ObeysWipeCA \/ ObeysWipeStore
          \/ Restores \/ Reboot
=============================================================================
