----------------------- MODULE TechnitiumDeployProofs -----------------------
(***************************************************************************)
(* What the deployments of step-ca and Technitium leave behind, for every  *)
(* budget of cuts, wipes, reboots and reconfigurations: a certificate      *)
(* store of one CA, a bundle of the certificate beside it, a host that     *)
(* resolves, and a success that is one.                                    *)
(*                                                                         *)
(* A deployment may stop after any statement, and the next one starts from *)
(* what it left.  The invariant therefore has two kinds of parts: what     *)
(* holds of the files, the store and the containers wherever the last      *)
(* deployment stopped, and what the deployment under way has established   *)
(* at each of its statements.                                              *)
(***************************************************************************)
EXTENDS TechnitiumDeploy, TLAPS

At(s, points) == op = s /\ at \in points

\* The statements of a Technitium deployment, from the last back to those a fact holds at.
Pointing    == {"backup", "backup write", "unlink", "point", "point write"}
Granted     == Pointing \cup {"dash token"}
Known       == Granted \cup {"grants"}
Synced      == Known \cup {"dashboard"}
Scoped      == Synced \cup {"sync token"}
Secured     == Scoped \cup {"dhcp", "dhcp enable"}
Bundled     == {"pull", "down", "preflight", "up", "login", "forwarder", "settings"}
WithPw      == Bundled \cup {"pfx", "pfx write"}
Certified   == WithPw \cup {"append", "chain"}
OnCA        == Certified \cup Secured \cup {"https", "cert", "issue"}
-----------------------------------------------------------------------------
\* Wherever a deployment stopped: the store has the records of one root at most,
\* and of no other root than the one a ca.json on PostgreSQL stands beside.
StoreInv ==
    /\ caJSON.db = "absent" => root = 0
    /\ caJSON.db = "postgresql" => store \subseteq {root}
    /\ \A r, q \in store : r = q
    /\ StoreMatchesRoot

\* What a CA deployment has established at its statements.
CARunInv ==
    /\ op = "ca" /\ at \notin {"remove", "removed"} /\ hadConfig => caJSON.db = "postgresql"
    /\ At("ca", {"duration", "guard store", "patch", "patching"}) => caJSON.db # "absent"
    /\ At("ca", {"guard store", "patch", "patching"}) => ~hadConfig /\ caJSON.dur
    /\ At("ca", {"patch", "patching"}) => store = {}
    /\ At("ca", {"restart", "wait again"}) => caJSON.db = "postgresql" /\ caJSON.dur
    /\ At("ca", {"wait again"}) /\ ca.state = "up" => ca.db = "postgresql" /\ ca.dur
    /\ At("ca", {"aside", "role"}) => CAServes /\ ca.db = "postgresql" /\ ca.dur

\* Wherever a deployment stopped, a bundle newer than its sources was built from
\* them, unless it is torn, the certificate has run out or the password is gone.
BundleInv ==
    /\ pfxNewer /\ pfx.state = "whole" =>
         (cert.valid => pfx.cert = cert) /\ (pfxPw # 0 => pfx.pw = pfxPw)
    /\ At("technitium", OnCA) => CAServes
    /\ At("technitium", {"issue", "append"}) => ~pfxNewer
    /\ At("technitium", Certified) => cert.valid
    /\ At("technitium", WithPw) => pfxPw # 0
    /\ At("technitium", Bundled \cup {"pfx write"}) => pfxNewer /\ pfx.state # "absent"

\* The operator's resolver, in place or in the copy, and where it is known to be; an
\* empty copy is one that is being written, or that a cut has left.
WasCut == Spent({"cut"})
ResolverInv ==
    /\ resolv \in Own \cup {"none", "managed", "torn"} /\ backup \in Own \cup {"none", "torn"}
    /\ backup = "torn" => At("technitium", {"backup write"}) \/ WasCut
    /\ \/ resolv \in Own \/ backup \in Own
       \/ WasCut /\ (resolv = "torn" \/ backup = "torn")
    /\ At("technitium", {"backup write"}) => backup = "torn" /\ resolv \notin {"none", "managed"}
    /\ At("technitium", {"unlink", "point", "point write"}) => backup # "none"
    /\ At("technitium", {"restore write"}) => backup # "none" /\ resolv = "torn"
    /\ At("technitium", {"forget"}) => resolv = backup /\ backup # "none"
    /\ At("technitium", {"down"}) => image

\* What is left of the budget is a number, and no more than there was.
BudgetOK ==
    budget.left \in [Disturbance -> Nat] /\ \A d \in Disturbance : budget.left[d] <= MaxOf[d]

\* What a Technitium deployment has set up in the server at its statements.
ServerInv ==
    /\ At("technitium", Secured) => ServesTLS
    /\ At("technitium", Scoped) /\ dhcp => data.scope = "on"
    /\ At("technitium", Synced) => syncTok = data.gen
    /\ At("technitium", Known) => data.dashboard
    /\ At("technitium", Granted) => data.granted
    /\ At("technitium", Pointing) => dashTok = data.gen

IInv == TypeOK /\ BudgetOK /\ StoreInv /\ CARunInv /\ BundleInv /\ ResolverInv /\ ServerInv
-----------------------------------------------------------------------------
\* The type invariant by owner: the engine's run, the CA, Technitium.
RunType ==
    /\ op \in Service \cup {"none"} /\ verdict \in [Service -> Verdict]
    /\ (at = "idle" <=> Idle)
CAType ==
    /\ caJSON \in [db : {"absent", "badger", "postgresql", "torn"}, dur : BOOLEAN]
    /\ root \in Root \cup {0} /\ (rootIsDir => root = 0) /\ rootIsDir \in BOOLEAN /\ hadConfig \in BOOLEAN /\ role \in BOOLEAN
    /\ ca \in [state : {"down", "starting", "up"}, db : {"absent", "badger", "postgresql"},
               dur : BOOLEAN, root : Root \cup {0}]
    /\ store \subseteq Root
BundleType ==
    /\ cert \in Cert /\ pfxPw \in Password \cup {0} /\ pfxNewer \in BOOLEAN
    /\ pfx \in [state : {"absent", "torn", "whole"}, cert : Cert, pw : Password \cup {0}]
ServerType ==
    /\ tls \in Cert /\ image \in BOOLEAN /\ dns \in BOOLEAN /\ dhcp \in BOOLEAN /\ adminPw \in Password
    /\ data \in [gen : 1 .. MaxData, admin : Password \cup {0}, dashboard : BOOLEAN,
                 granted : BOOLEAN, scope : {"none", "off", "on"}]
    /\ syncTok \in 0 .. MaxData /\ dashTok \in 0 .. MaxData
ResolverType ==
    /\ resolv \in Own \cup {"none", "managed", "systemd", "torn"}
    /\ backup \in Own \cup {"none", "systemd", "torn"}

LEMMA TypeParts == TypeOK <=> RunType /\ CAType /\ BundleType /\ ServerType /\ ResolverType
BY DEF TypeOK, RunType, CAType, BundleType, ServerType, ResolverType
-----------------------------------------------------------------------------
\* The run of the engine keeps its type: every statement goes on or ends.
LEMMA CARunType ==
  ASSUME RunType, CANext
  PROVE  RunType'
<1> USE DEF RunType, Idle, Ends, Service, Verdict, Refusal
<1>1. CASE CAStep
  BY <1>1 DEF CAStep, CARender, CADown, CAUp, CAWait, CADuration, CAGuardStore, CAPatchOpens, CAPatch, CARestart,
              CAMoveAside, CARole, CARemoveEnds, Step, On, Goes, AfterWait, caVars
<1>2. CASE Cut
  BY <1>2 DEF Cut, CutShort
<1>3. ASSUME NEW valid \in BOOLEAN, CADeployBegins(valid)
      PROVE  RunType'
  BY <1>3 DEF CADeployBegins, Guard, Begins
<1>4. CASE CARemoveBegins
  BY <1>4 DEF CARemoveBegins, Begins
<1>5. CASE WipesAtWill \/ ObeysWipeCA \/ ObeysWipeStore \/ Restores \/ Reboot
  BY <1>5 DEF WipesAtWill, ObeysWipeCA, ObeysWipeStore, Restores, Reboot, WipeCA, WipeStore
<1> QED BY <1>1, <1>2, <1>3, <1>4, <1>5 DEF CANext

LEMMA TechRunType ==
  ASSUME RunType, TechStep
  PROVE  RunType'
BY DEF RunType, TechStep, RequireCAReady, ReuseCert, RemoveCert, Issue, AppendIntermediate, PfxPassword, KeepPfx,
       OpenPfx, WritePfx, Pull, StopDown, Preflight, Up, AdminToken, Forwarder, Settings, WaitHTTPS, DHCPSet,
       DHCPEnable, DHCPDisable, SyncToken, DashboardUser, DashboardGrants, DashboardToken, KeepBackup, OpenBackup, BackupResolver,
       UnlinkResolver, OpenResolver, PointResolver, OpenRestore, RestoreResolver, NothingToRestore, ForgetBackup,
       Does, TechEnds, Step, On, Goes, Ends, Idle, Service, Verdict, Refusal

LEMMA NextRunType ==
  ASSUME RunType, [Next]_vars
  PROVE  RunType'
<1>1. CASE Container \/ TechRemoveBegins
  BY <1>1 DEF RunType, Container, ContainerStarts, TechRemoveBegins, Begins, Idle, Service
<1>2. ASSUME NEW valid \in BOOLEAN, TechDeployBegins(valid)
      PROVE  RunType'
  BY <1>2 DEF RunType, TechDeployBegins, Begins, TechEnds, Ends, Idle, Service, Verdict, Refusal
<1>3. CASE Between
  BY <1>3 DEF RunType, Between, Idle, Service, Verdict, Refusal
<1>4. CASE UNCHANGED vars
  BY <1>4 DEF RunType, vars, runVars, Idle
<1> QED BY <1>1, <1>2, <1>3, <1>4, CARunType, TechRunType DEF Next
-----------------------------------------------------------------------------
\* A first start finds no root on disk, so five places at most name one.
LEMMA NewRootIsRoot ==
  ASSUME TypeOK, StoreInv, caJSON.db = "absent"
  PROVE  NewRoot(RootsInUse) \in Root
<1>1. root = 0
  BY DEF StoreInv
<1>2. PICK s \in Root \cup {0} : store \subseteq {s}
  BY DEF StoreInv, TypeOK
<1>3. {1, 2, 3, 4, 5, 6} \subseteq Root
  BY CAAssumption DEF Root
<1>4. \E r \in {1, 2, 3, 4, 5, 6} : r \notin {s, ca.root, cert.root, pfx.cert.root, tls.root}
  BY SMT
<1>5. \E r \in Root : r \notin RootsInUse
  BY <1>1, <1>2, <1>3, <1>4 DEF RootsInUse
<1> QED BY <1>5 DEF NewRoot

LEMMA CAStepCAType ==
  ASSUME CAType, CAStep
  PROVE  CAType'
<1>1. CASE CARender
  BY <1>1 DEF CAType, CARender, caVars
<1>2. CASE CADown
  <2>1. UNCHANGED <<caJSON, root, rootIsDir, hadConfig, store, role>>
    BY <1>2 DEF CADown
  <2>2. ca' = Down \/ ca' = ca
    BY <1>2 DEF CADown
  <2>3. CASE ca' = Down
    BY <2>1, <2>3 DEF CAType, Down
  <2>4. CASE ca' = ca
    BY <2>1, <2>4 DEF CAType
  <2> QED BY <2>2, <2>3, <2>4
<1>3. CASE CAUp
  BY <1>3 DEF CAType, CAUp, Starts
<1>4. CASE CAWait
  BY <1>4 DEF CAType, CAWait, caVars
<1>5. CASE CADuration
  BY <1>5 DEF CAType, CADuration
<1>6. CASE CAGuardStore
  BY <1>6 DEF CAType, CAGuardStore, caVars
<1>7. CASE CAPatchOpens
  BY <1>7 DEF CAType, CAPatchOpens
<1>8. CASE CAPatch
  BY <1>8 DEF CAType, CAPatch
<1>9. CASE CARestart
  BY <1>9 DEF CAType, CARestart, Starts
<1>10. CASE CAMoveAside
  BY <1>10 DEF CAType, CAMoveAside, caVars
<1>11. CASE CARole
  BY <1>11 DEF CAType, CARole
<1>12. CASE CARemoveEnds
  BY <1>12 DEF CAType, CARemoveEnds, caVars
<1> QED BY <1>1, <1>2, <1>3, <1>4, <1>5, <1>6, <1>7, <1>8, <1>9, <1>10, <1>11, <1>12 DEF CAStep

LEMMA CANextCAType ==
  ASSUME CAType, CANext
  PROVE  CAType'
<1>1. CASE Cut
  BY <1>1 DEF CAType, Cut, caVars
<1>2. ASSUME NEW valid \in BOOLEAN, CADeployBegins(valid)
      PROVE  CAType'
  BY <1>2 DEF CAType, CADeployBegins
<1>3. CASE CARemoveBegins
  BY <1>3 DEF CAType, CARemoveBegins, caVars
<1>4. CASE WipeCA
  BY <1>4 DEF CAType, WipeCA, NoConfig
<1>5. CASE WipeStore
  BY <1>5 DEF CAType, WipeStore
<1>6. CASE Restores
  BY <1>6 DEF CAType, Restores, Root
<1>7. CASE Reboot
  BY <1>7 DEF CAType, Reboot, Starts, Down
<1> QED BY <1>1, <1>2, <1>3, <1>4, <1>5, <1>6, <1>7, CAStepCAType
        DEF CANext, WipesAtWill, ObeysWipeCA, ObeysWipeStore

LEMMA TechStepCA == TechStep => Issue \/ UNCHANGED caVars
BY DEF TechStep, RequireCAReady, ReuseCert, RemoveCert, AppendIntermediate, PfxPassword, KeepPfx,
       OpenPfx, WritePfx, Pull, StopDown, Preflight, Up, AdminToken, Forwarder, Settings, WaitHTTPS, DHCPSet,
       DHCPEnable, DHCPDisable, SyncToken, DashboardUser, DashboardGrants, DashboardToken, KeepBackup, OpenBackup, BackupResolver,
       UnlinkResolver, OpenResolver, PointResolver, OpenRestore, RestoreResolver, NothingToRestore, ForgetBackup

LEMMA SameCAType ==
  ASSUME CAType, UNCHANGED caVars
  PROVE  CAType'
BY DEF CAType, caVars

LEMMA NextCAType ==
  ASSUME TypeOK, StoreInv, BundleInv, [Next]_vars
  PROVE  CAType'
<1>0. CAType /\ BundleType
  BY TypeParts
<1>1. CASE Container
  <2>1. NewRoot(RootsInUse) \in Root \/ caJSON.db # "absent"
    BY NewRootIsRoot
  <2>2. CASE caJSON.db = "absent"
    <3>1. /\ root' \in Root /\ caJSON' = [db |-> "badger", dur |-> FALSE]
          /\ ca' = [state |-> "up", db |-> "badger", dur |-> FALSE, root |-> root']
          /\ UNCHANGED <<rootIsDir, hadConfig, store, role>>
      BY <1>1, <2>1, <2>2 DEF Container, ContainerStarts
    <3>2. rootIsDir = FALSE
      BY <1>0, <1>1, <2>2 DEF Container, ContainerStarts, CAType
    <3> QED BY <1>0, <3>1, <3>2 DEF CAType
  <2>3. CASE caJSON.db # "absent"
    <3>1. /\ ca' = [state |-> "up", db |-> caJSON.db, dur |-> caJSON.dur, root |-> root]
          /\ UNCHANGED <<root, caJSON, rootIsDir, hadConfig, store, role>>
      BY <1>1, <2>3 DEF Container, ContainerStarts
    <3>2. caJSON.db # "torn"
      BY <1>1 DEF Container, ContainerStarts, CAStarting
    <3> QED BY <1>0, <2>3, <3>1, <3>2 DEF CAType
  <2> QED BY <2>2, <2>3
<1>2. CASE Issue
  <2>1. At("technitium", OnCA)
    BY <1>2 DEF Issue, On, At, OnCA
  <2>2. ca.root \in Root
    BY <1>0, <2>1 DEF BundleInv, CAServes, CAType
  <2>3. store' \subseteq Root
    BY <1>0, <1>2, <2>2 DEF Issue, CAType, TechEnds, Ends
  <2> QED BY <1>0, <1>2, <2>3 DEF Issue, CAType
<1>3. CASE UNCHANGED caVars
  BY <1>0, <1>3, SameCAType
<1>4. TechStep => Issue \/ UNCHANGED caVars
  BY TechStepCA
<1> QED BY <1>0, <1>1, <1>2, <1>3, <1>4, CANextCAType DEF Next, TechDeployBegins, TechRemoveBegins, Between, vars
-----------------------------------------------------------------------------
\* What each part of Technitium's state is changed by.
LEMMA TechSteps ==
  ASSUME [Next]_vars
  PROVE  /\ \/ UNCHANGED certVars
            \/ RemoveCert \/ Issue \/ AppendIntermediate \/ PfxPassword \/ OpenPfx \/ WritePfx
            \/ Between /\ (Expire \/ LosePassword)
         /\ \/ UNCHANGED <<serverVars, tokenVars, envVars>>
            \/ Pull \/ StopDown \/ Up \/ AdminToken \/ Settings \/ DHCPSet \/ DHCPEnable \/ DHCPDisable \/ SyncToken
            \/ DashboardUser \/ DashboardGrants \/ DashboardToken
            \/ Between /\ (NewTag \/ WipeData \/ Reconfigure)
         /\ \/ UNCHANGED hostVars
            \/ OpenBackup \/ BackupResolver \/ UnlinkResolver \/ OpenResolver \/ PointResolver
            \/ OpenRestore \/ RestoreResolver \/ NothingToRestore \/ ForgetBackup
            \/ Between /\ EditResolver
BY DEF Next, Container, TechDeployBegins, TechRemoveBegins, Between, Expire, LosePassword, NewTag, WipeData, EditResolver,
       Reconfigure, TechStep, RequireCAReady, ReuseCert, RemoveCert, Issue, AppendIntermediate, PfxPassword, KeepPfx,
       OpenPfx, WritePfx, Pull, StopDown, Preflight, Up, AdminToken, Forwarder, Settings, WaitHTTPS, DHCPSet,
       DHCPEnable, DHCPDisable, SyncToken, DashboardUser, DashboardGrants, DashboardToken, KeepBackup, OpenBackup, BackupResolver,
       UnlinkResolver, OpenResolver, PointResolver, OpenRestore, RestoreResolver, NothingToRestore, ForgetBackup,
       vars, techVars, certVars, serverVars, tokenVars, envVars, hostVars

LEMMA NextBundleType ==
  ASSUME BundleType, CAType, [Next]_vars
  PROVE  BundleType'
<1>1. CASE UNCHANGED certVars
  BY <1>1 DEF BundleType, Cert, certVars
<1>2. CASE RemoveCert
  BY <1>2 DEF BundleType, Cert, RemoveCert, NoCert
<1>3. CASE Issue
  <2>1. cert' \in Cert
    <3>1. CASE ca.state = "up" /\ ca.dur
      <4>1. PICK full \in BOOLEAN : cert' = [root |-> ca.root, full |-> full, valid |-> TRUE]
        BY <1>3, <3>1 DEF Issue
      <4>2. ca.root \in Root \cup {0}
        BY DEF CAType
      <4> QED BY <4>1, <4>2 DEF Cert
    <3>2. CASE ~(ca.state = "up" /\ ca.dur)
      BY <1>3, <3>2 DEF Issue, BundleType
    <3> QED BY <3>1, <3>2
  <2>2. UNCHANGED <<pfxPw, pfx, pfxNewer>>
    BY <1>3 DEF Issue
  <2> QED BY <2>1, <2>2 DEF BundleType
<1>4. CASE AppendIntermediate
  BY <1>4 DEF BundleType, Cert, AppendIntermediate
<1>5. CASE PfxPassword
  <2>1. UNCHANGED <<cert, pfx>>
    BY <1>5 DEF PfxPassword
  <2>2. pfxPw' \in Password \cup {0}
    BY <1>5 DEF PfxPassword, BundleType, Password
  <2>3. pfxNewer' \in BOOLEAN
    BY <1>5 DEF PfxPassword, BundleType
  <2> QED BY <2>1, <2>2, <2>3 DEF BundleType
<1>6. CASE OpenPfx
  BY <1>6 DEF BundleType, Cert, OpenPfx
<1>7. CASE WritePfx
  BY <1>7 DEF BundleType, Cert, WritePfx
<1>8. CASE Expire
  BY <1>8 DEF BundleType, Cert, Expire
<1>9. CASE LosePassword
  BY <1>9 DEF BundleType, Cert, LosePassword
<1> QED BY <1>1, <1>2, <1>3, <1>4, <1>5, <1>6, <1>7, <1>8, <1>9, TechSteps

LEMMA NextServerType ==
  ASSUME ServerType, BundleType, [Next]_vars
  PROVE  ServerType'
<1>0. data.gen \in 1 .. MaxData /\ data.gen \in 0 .. MaxData
  BY TechnitiumAssumption DEF ServerType
<1>1. CASE UNCHANGED <<serverVars, tokenVars, envVars>>
  BY <1>1 DEF ServerType, serverVars, tokenVars, envVars
<1>2. CASE Pull
  BY <1>2 DEF ServerType, Pull, tokenVars, envVars
<1>3. CASE StopDown
  <2>1. UNCHANGED <<image, data, dhcp, adminPw, syncTok, dashTok>>
    BY <1>3 DEF StopDown, tokenVars, envVars
  <2>2. (dns' = FALSE /\ tls' = NoCert) \/ UNCHANGED <<dns, tls>>
    BY <1>3 DEF StopDown
  <2>3. CASE dns' = FALSE /\ tls' = NoCert
    BY <2>1, <2>3 DEF ServerType, NoCert, Cert
  <2>4. CASE UNCHANGED <<dns, tls>>
    BY <2>1, <2>4 DEF ServerType
  <2> QED BY <2>2, <2>3, <2>4
<1>4. CASE Up
  BY <1>4 DEF ServerType, Up, tokenVars, envVars
<1>5. CASE AdminToken
  BY <1>5 DEF ServerType, AdminToken, tokenVars, envVars
<1>6. CASE Settings
  BY <1>6 DEF ServerType, Settings, BundleType, NoCert, Cert, tokenVars, envVars
<1>7. CASE DHCPSet
  BY <1>7 DEF ServerType, DHCPSet, tokenVars, envVars
<1>8. CASE DHCPEnable
  BY <1>8 DEF ServerType, DHCPEnable, tokenVars, envVars
<1>9. CASE DHCPDisable
  BY <1>9 DEF ServerType, DHCPDisable, Disabled, tokenVars, envVars
<1>10. CASE SyncToken
  BY <1>0, <1>10 DEF ServerType, SyncToken, serverVars, envVars
<1>11. CASE DashboardUser
  BY <1>11 DEF ServerType, DashboardUser, tokenVars, envVars
<1>12. CASE DashboardGrants
  BY <1>12 DEF ServerType, DashboardGrants, tokenVars, envVars
<1>13. CASE DashboardToken
  <2>1. UNCHANGED <<image, dns, tls, data, dhcp, adminPw, syncTok>>
    BY <1>13 DEF DashboardToken, serverVars, envVars
  <2>2. dashTok' \in {dashTok, data.gen}
    BY <1>13 DEF DashboardToken
  <2> QED BY <1>0, <2>1, <2>2 DEF ServerType
<1>14. CASE NewTag
  BY <1>14 DEF ServerType, NewTag, tokenVars, envVars
<1>15. CASE WipeData
  <2>1. data.gen + 1 \in 1 .. MaxData
    BY <1>0, <1>15, TechnitiumAssumption DEF WipeData
  <2>2. UNCHANGED <<image, dhcp, adminPw, syncTok, dashTok>>
    BY <1>15 DEF WipeData, tokenVars, envVars
  <2>3. dns' = FALSE /\ tls' = NoCert /\ data' = NewData(data.gen + 1)
    BY <1>15 DEF WipeData
  <2> QED BY <2>1, <2>2, <2>3 DEF ServerType, NewData, NoCert, Cert
<1>16. CASE Reconfigure
  <2>1. UNCHANGED <<serverVars, tokenVars>>
    BY <1>16 DEF Reconfigure
  <2>2. dhcp' \in BOOLEAN
    BY <1>16 DEF Reconfigure, ServerType
  <2>3. adminPw' \in Password
    BY <1>16 DEF Reconfigure, ServerType, Password
  <2> QED BY <2>1, <2>2, <2>3 DEF ServerType, serverVars, tokenVars
<1> QED BY <1>1, <1>2, <1>3, <1>4, <1>5, <1>6, <1>7, <1>8, <1>9, <1>10, <1>11, <1>12, <1>13, <1>14, <1>15, <1>16, TechSteps
-----------------------------------------------------------------------------
\* A step that is none of its statements leaves the Technitium deployment where
\* it is, with all it has done, or has it begin.
LEMMA Elsewhere ==
  ASSUME [Next]_vars
  PROVE  \/ TechStep
         \/ op' # "technitium"
         \/ op' = "technitium" /\ at' \in {"ca ready", "remove"}
         \/ op = "technitium" /\ UNCHANGED <<op, at, techVars>> /\ (Container \/ UNCHANGED vars)
BY DEF Next, CANext, CAStep, CARender, CADown, CAUp, CAWait, CADuration, CAGuardStore, CAPatchOpens, CAPatch,
       CARestart, CAMoveAside, CARole, CARemoveEnds, Cut, CutShort, CADeployBegins, CARemoveBegins, WipesAtWill,
       ObeysWipeCA, ObeysWipeStore, Restores, Reboot, WipeCA, WipeStore, Container, ContainerStarts, TechDeployBegins,
       TechRemoveBegins, Between, TechEnds, Begins, Step, On, Goes, Ends, Idle, vars, runVars

\* What is spent is spent from a number, and stays spent.
LEMMA SpendCounts ==
  ASSUME BudgetOK, NEW d, Spend(d)
  PROVE  BudgetOK' /\ (WasCut => WasCut') /\ (d = "cut" => WasCut') /\ budget' # budget
<1>1. /\ d \in Disturbance /\ budget.left[d] \in Nat /\ budget.left[d] > 0
      /\ budget'.left = [budget.left EXCEPT ![d] = @ - 1]
      /\ budget.left \in [Disturbance -> Nat] /\ \A e \in Disturbance : budget.left[e] <= MaxOf[e]
  BY DEF Spend, BudgetOK
<1>2. /\ budget'.left[d] = budget.left[d] - 1 /\ \A e \in Disturbance \ {d} : budget'.left[e] = budget.left[e]
      /\ budget'.left \in [Disturbance -> Nat]
  BY <1>1
<1>3. MaxOf \in [Disturbance -> Nat]
  BY DisturbanceAssumption
<1>4. BudgetOK'
  BY <1>1, <1>2, <1>3 DEF BudgetOK
<1>5. WasCut => WasCut'
  BY <1>1, <1>2, <1>3 DEF WasCut, Spent
<1>6. d = "cut" => WasCut'
  BY <1>1, <1>2, <1>3 DEF WasCut, Spent
<1>7. budget' # budget
  BY <1>1, <1>2
<1> QED BY <1>4, <1>5, <1>6, <1>7

\* Every step spends something or nothing.
LEMMA NextSpends ==
  ASSUME [Next]_vars
  PROVE  UNCHANGED budget \/ \E d \in Disturbance : Spend(d)
<1>0. ASSUME NEW d, Spend(d) PROVE d \in Disturbance
  BY <1>0 DEF Spend
<1>1. CASE CAStep
  BY <1>0, <1>1 DEF CAStep, CARender, CADown, LacksFile, CAUp, CAWait, CADuration, CAGuardStore, CAPatchOpens, CAPatch,
     CARestart, CAMoveAside, CARole, CARemoveEnds, Step, Goes
<1>2. CASE CANext /\ ~CAStep
  BY <1>0, <1>2 DEF CANext, Cut, CutShort, CADeployBegins, CARemoveBegins, WipesAtWill, ObeysWipeCA, ObeysWipeStore,
     Restores, Reboot
<1>3. CASE Container \/ TechRemoveBegins \/ Between \/ UNCHANGED vars
  BY <1>0, <1>3 DEF Container, ContainerStarts, TechRemoveBegins, Between, Expire, LosePassword, NewTag, WipeData,
     EditResolver, Reconfigure, vars, runVars
<1>4. ASSUME NEW valid \in BOOLEAN, TechDeployBegins(valid)
      PROVE  UNCHANGED budget \/ \E d \in Disturbance : Spend(d)
  BY <1>0, <1>4 DEF TechDeployBegins
<1>5. CASE TechStep
  BY <1>0, <1>5 DEF TechStep, RequireCAReady, ReuseCert, RemoveCert, Issue, AppendIntermediate, PfxPassword, KeepPfx,
       OpenPfx, WritePfx, Pull, StopDown, LacksFile, Preflight, Up, AdminToken, Forwarder, Settings, WaitHTTPS, DHCPSet,
       DHCPEnable, DHCPDisable, SyncToken, DashboardUser, DashboardGrants, DashboardToken, KeepBackup, OpenBackup,
       BackupResolver, UnlinkResolver, OpenResolver, PointResolver, OpenRestore, RestoreResolver, NothingToRestore,
       ForgetBackup, Does, Step, Goes
<1> QED BY <1>1, <1>2, <1>3, <1>4, <1>5 DEF Next

LEMMA NextBudget ==
  ASSUME BudgetOK, [Next]_vars
  PROVE  BudgetOK' /\ (WasCut => WasCut')
<1>1. CASE UNCHANGED budget
  BY <1>1 DEF BudgetOK, WasCut, Spent
<1>2. CASE \E d \in Disturbance : Spend(d)
  BY <1>2, SpendCounts
<1> QED BY <1>1, <1>2, NextSpends

\* A step that is none of its statements and does not leave Technitium's deployment cuts it.
LEMMA CutsTechnitium ==
  ASSUME [Next]_vars, op = "technitium", ~TechStep
  PROVE  \/ CutShort /\ UNCHANGED hostVars
         \/ UNCHANGED <<op, at, techVars>>
BY DEF Next, CANext, CAStep, CARender, CADown, CAUp, CAWait, CADuration, CAGuardStore, CAPatchOpens, CAPatch,
       CARestart, CAMoveAside, CARole, CARemoveEnds, Cut, CADeployBegins, CARemoveBegins, WipesAtWill,
       ObeysWipeCA, ObeysWipeStore, Restores, Reboot, Container, ContainerStarts, TechDeployBegins,
       TechRemoveBegins, Between, Begins, Step, On, Idle, vars, runVars, techVars

\* What is in place or in the copy is the operator's: the file is removed only when the
\* copy is there, and the copy only when it is back in place.
LEMMA TechStepResolver ==
  ASSUME ResolverInv, WasCut => WasCut', TechStep
  PROVE  ResolverInv'
<1> USE DEF At, Does, TechEnds, Step, On, Goes, Ends, Idle
<1>1. CASE KeepBackup
  <2>1. UNCHANGED <<resolv, backup>> /\ at' = "unlink" /\ at = "backup" /\ (backup # "none" \/ resolv \in {"none", "managed"})
    BY <1>1 DEF KeepBackup, MustCopy, techVars, hostVars
  <2>2. backup # "none"
    BY <2>1, TechnitiumAssumption DEF ResolverInv
  <2> QED BY <2>1, <2>2 DEF ResolverInv
<1>2. CASE OpenBackup
  <2>1. /\ UNCHANGED resolv /\ backup = "none" /\ backup' = "torn" /\ resolv \notin {"none", "managed"}
        /\ op' = "technitium" /\ at' = "backup write"
    BY <1>2 DEF OpenBackup, MustCopy
  <2>2. resolv \in Own \/ (WasCut' /\ resolv = "torn")
    BY <2>1, TechnitiumAssumption DEF ResolverInv
  <2> QED BY <2>1, <2>2 DEF ResolverInv
<1>3. CASE BackupResolver
  <2>1. UNCHANGED resolv /\ backup' = resolv /\ at' = "unlink"
    BY <1>3 DEF BackupResolver
  <2>2. /\ resolv \in Own \cup {"torn"} /\ resolv # "none"
        /\ resolv = "torn" => WasCut'
    BY <1>3, TechnitiumAssumption DEF BackupResolver, ResolverInv
  <2>3. resolv \notin Own => resolv = "torn"
    BY <2>2
  <2> QED BY <2>1, <2>2, <2>3, TechnitiumAssumption DEF ResolverInv
<1>4. CASE UnlinkResolver \/ OpenResolver \/ PointResolver
  <2>1. /\ UNCHANGED backup /\ resolv' \in {"none", "managed", "torn"}
        /\ at' \in {"point", "point write", "idle"} /\ at \in {"unlink", "point", "point write"} /\ op = "technitium"
    BY <1>4 DEF UnlinkResolver, OpenResolver, PointResolver
  <2>2. backup \in Own \/ (backup = "torn" /\ WasCut')
    BY <2>1 DEF ResolverInv
  <2> QED BY <2>1, <2>2 DEF ResolverInv
<1>5. CASE OpenRestore
  <2>1. UNCHANGED backup /\ resolv = "managed" /\ backup # "none" /\ op = "technitium" /\ at = "restore"
    BY <1>5 DEF OpenRestore, Ours
  <2>2. \/ resolv' = "torn" /\ at' = "restore write"
        \/ UNCHANGED resolv /\ at' = "idle"
    BY <1>5 DEF OpenRestore
  <2>3. backup \in Own \/ (backup = "torn" /\ WasCut')
    BY <2>1 DEF ResolverInv
  <2> QED BY <2>1, <2>2, <2>3 DEF ResolverInv
<1>6. CASE RestoreResolver
  <2>1. UNCHANGED backup /\ resolv = "torn" /\ backup # "none" /\ op = "technitium" /\ at = "restore write"
    BY <1>6 DEF RestoreResolver, ResolverInv
  <2>2. \/ resolv' = backup /\ at' = "forget"
        \/ UNCHANGED resolv /\ at' = "idle"
    BY <1>6 DEF RestoreResolver
  <2>3. backup \in Own \/ (backup = "torn" /\ WasCut')
    BY <2>1 DEF ResolverInv
  <2> QED BY <2>1, <2>2, <2>3 DEF ResolverInv
<1>7. CASE NothingToRestore
  <2>1. ~(resolv = "managed" /\ backup # "none") /\ op = "technitium" /\ at = "restore"
    BY <1>7 DEF NothingToRestore, Ours
  <2>2. resolv # "managed"
    BY <2>1, TechnitiumAssumption DEF ResolverInv
  <2>3. UNCHANGED <<resolv, backup>> /\ at' = "idle"
    BY <1>7, <2>2 DEF NothingToRestore, Ours
  <2> QED BY <2>1, <2>3 DEF ResolverInv
<1>8. CASE ForgetBackup
  <2>1. UNCHANGED resolv /\ backup' = "none" /\ at' = "idle" /\ resolv = backup /\ backup # "none" /\ at = "forget"
    BY <1>8 DEF ForgetBackup, ResolverInv
  <2>2. resolv \in Own \/ (resolv = "torn" /\ WasCut')
    BY <2>1 DEF ResolverInv
  <2> QED BY <2>1, <2>2 DEF ResolverInv
<1>9. CASE Pull
  <2>1. UNCHANGED <<resolv, backup>> /\ ((at' = "down" /\ image') \/ at' = "idle") /\ at = "pull"
    BY <1>9 DEF Pull, hostVars
  <2> QED BY <2>1 DEF ResolverInv
<1> DEFINE Watched == {"backup write", "unlink", "point", "point write", "restore write", "forget", "down"}
<1>10. TechStep => \/ KeepBackup \/ OpenBackup \/ BackupResolver \/ UnlinkResolver \/ OpenResolver \/ PointResolver
                   \/ OpenRestore \/ RestoreResolver \/ NothingToRestore \/ ForgetBackup \/ Pull
                   \/ UNCHANGED hostVars /\ at' \notin Watched /\ at # "backup write"
  BY DEF TechStep, RequireCAReady, ReuseCert, RemoveCert, Issue, AppendIntermediate, PfxPassword, KeepPfx,
         OpenPfx, WritePfx, StopDown, Preflight, Up, AdminToken, Forwarder, Settings, WaitHTTPS, DHCPSet, DHCPEnable,
         DHCPDisable, SyncToken, DashboardUser, DashboardGrants, DashboardToken, techVars
<1>11. CASE UNCHANGED hostVars /\ at' \notin Watched /\ at # "backup write"
  BY <1>11 DEF ResolverInv, hostVars
<1> QED BY <1>1, <1>2, <1>3, <1>4, <1>5, <1>6, <1>7, <1>8, <1>9, <1>10, <1>11

LEMMA NextResolver ==
  ASSUME BudgetOK, ResolverInv, [Next]_vars
  PROVE  ResolverInv' /\ ResolverType'
<1>0. WasCut => WasCut'
  BY NextBudget
<1>1. CASE TechStep
  BY <1>0, <1>1, TechStepResolver DEF ResolverInv, ResolverType
<1>2. CASE ~TechStep /\ op = "technitium"
  <2>1. CASE UNCHANGED <<op, at, techVars>>
    <3>1. UNCHANGED <<op, at, image, resolv, backup>>
      BY <2>1 DEF techVars, hostVars, serverVars
    <3> QED BY <1>0, <3>1 DEF ResolverInv, At, ResolverType
  <2>2. CASE CutShort /\ UNCHANGED hostVars
    <3>1. op' = "none" /\ UNCHANGED <<resolv, backup>> /\ WasCut'
      BY <2>2, SpendCounts DEF CutShort, Ends, hostVars
    <3> QED BY <3>1 DEF ResolverInv, At, ResolverType
  <2> QED BY <1>2, <2>1, <2>2, CutsTechnitium
<1>3. CASE ~TechStep /\ op # "technitium"
  <2>1. UNCHANGED hostVars \/ (Between /\ EditResolver)
    BY <1>3, TechSteps DEF TechStep
  <2>2. UNCHANGED backup /\ (UNCHANGED resolv \/ resolv' \in Own)
    BY <2>1 DEF EditResolver, hostVars
  <2>3. op' # "technitium" \/ at' \in {"ca ready", "remove"}
    BY <1>3, Elsewhere
  <2>4. backup = "torn" => WasCut'
    BY <1>0, <1>3 DEF ResolverInv, At
  <2> QED BY <1>0, <2>2, <2>3, <2>4 DEF ResolverInv, At, ResolverType
<1> QED BY <1>1, <1>2, <1>3
-----------------------------------------------------------------------------
\* What the CA's files, its store and its container are changed by.
LEMMA CASteps ==
  ASSUME [Next]_vars
  PROVE  \/ UNCHANGED <<caJSON, root, store, ca>>
         \/ CADown \/ CAUp \/ CADuration \/ CAPatchOpens \/ CAPatch \/ CARestart
         \/ (Idle /\ (WipeCA \/ WipeStore)) \/ Restores \/ Reboot \/ Container \/ Issue
<1>1. TechStep => Issue \/ UNCHANGED caVars
  BY TechStepCA
<1>2. CAStep => \/ UNCHANGED caVars \/ CADown \/ CAUp \/ CADuration \/ CAPatchOpens \/ CAPatch \/ CARestart
                \/ UNCHANGED <<caJSON, root, store, ca>>
  BY DEF CAStep, CARender, CAWait, CAGuardStore, CAMoveAside, CARole, CARemoveEnds
<1>3. WipesAtWill \/ ObeysWipeCA \/ ObeysWipeStore => Idle /\ (WipeCA \/ WipeStore)
  BY DEF WipesAtWill, ObeysWipeCA, ObeysWipeStore
<1>4. CANext => \/ UNCHANGED <<caJSON, root, store, ca>> \/ CAStep \/ WipesAtWill \/ ObeysWipeCA \/ ObeysWipeStore
                \/ Restores \/ Reboot
  BY DEF CANext, Cut, CADeployBegins, CARemoveBegins, caVars
<1>5. UNCHANGED caVars => UNCHANGED <<caJSON, root, store, ca>>
  BY DEF caVars
<1>6. UNCHANGED vars => UNCHANGED <<caJSON, root, store, ca>>
  BY DEF vars, caVars
<1>7. TechRemoveBegins \/ Between \/ (\E valid \in BOOLEAN : TechDeployBegins(valid)) => UNCHANGED caVars
  BY DEF TechDeployBegins, TechRemoveBegins, Between
<1>8. Next => CANext \/ Container \/ TechStep \/ UNCHANGED caVars
  BY <1>7 DEF Next
<1> QED BY <1>1, <1>2, <1>3, <1>4, <1>5, <1>6, <1>8

LEMMA ElsewhereCA ==
  ASSUME [Next]_vars
  PROVE  \/ CAStep
         \/ op' # "ca" \/ at' = "remove"
         \/ op' = "ca" /\ \E valid \in BOOLEAN : CADeployBegins(valid)
         \/ op = "ca" /\ UNCHANGED <<op, at>> /\ (Container \/ UNCHANGED vars)
BY DEF Next, CANext, Cut, CutShort, CARemoveBegins, WipesAtWill,
       ObeysWipeCA, ObeysWipeStore, Restores, Reboot, WipeCA, WipeStore, Container, ContainerStarts, TechDeployBegins,
       TechRemoveBegins, Between, TechStep, Issue, RequireCAReady, ReuseCert, RemoveCert, AppendIntermediate, PfxPassword, KeepPfx,
       OpenPfx, WritePfx, Pull, StopDown, Preflight, Up, AdminToken, Forwarder, Settings, WaitHTTPS, DHCPSet,
       DHCPEnable, DHCPDisable, SyncToken, DashboardUser, DashboardGrants, DashboardToken, KeepBackup, OpenBackup, BackupResolver,
       UnlinkResolver, OpenResolver, PointResolver, OpenRestore, RestoreResolver, NothingToRestore, ForgetBackup,
       Does, TechEnds, Begins, Step, On, Goes, Ends, Idle, vars, runVars

\* What the container has loaded after its start.
LEMMA ContainerLoads ==
  ASSUME StoreInv, Container
  PROVE  /\ ca.state = "starting" /\ ca'.state = "up"
         /\ UNCHANGED <<op, at, store, hadConfig>>
         /\ \/ caJSON.db = "absent" /\ caJSON'.db = "badger" /\ ca'.db = "badger"
            \/ /\ caJSON.db # "absent" /\ UNCHANGED <<caJSON, root>>
               /\ ca' = [state |-> "up", db |-> caJSON.db, dur |-> caJSON.dur, root |-> root]
BY DEF Container, ContainerStarts, CAStarting

\* The store has the records of one CA: a ca.json comes to name PostgreSQL when the store
\* is empty, or with the root whose records are there, and a certificate is only
\* asked of a CA that answers under the root on disk.
LEMMA NextStore ==
  ASSUME TypeOK, StoreInv, CARunInv, BundleInv, [Next]_vars
  PROVE  StoreInv'
<1> USE DEF StoreInv, StoreMatchesRoot
<1>0. CAType
  BY TypeParts
<1>1. CASE UNCHANGED <<caJSON, root, store, ca>>
  BY <1>1
<1>2. CASE CADown
  <2>1. (ca'.state = "down" \/ UNCHANGED ca) /\ UNCHANGED <<caJSON, root, store>>
    BY <1>2 DEF CADown, Down
  <2> QED BY <2>1
<1>3. CASE CAUp \/ CARestart \/ Reboot
  <2>1. (ca'.state \in {"starting", "down"} \/ UNCHANGED ca) /\ UNCHANGED <<caJSON, root, store>>
    <3>1. Starts.state = "starting" /\ Down.state = "down"
      BY <1>0 DEF Starts, Down, CAType
    <3>2. CASE CAUp \/ CARestart
      BY <3>1, <3>2 DEF CAUp, CARestart
    <3>3. CASE Reboot
      BY <3>1, <3>3 DEF Reboot
    <3> QED BY <1>3, <3>2, <3>3
  <2> QED BY <2>1
<1>4. CASE CADuration
  <2>1. caJSON'.db = caJSON.db /\ UNCHANGED <<ca, root, store>>
    BY <1>0, <1>4 DEF CADuration, CAType
  <2> QED BY <2>1
<1>5. CASE CAPatchOpens
  <2>1. caJSON'.db = "torn" /\ UNCHANGED <<ca, root, store>>
    BY <1>0, <1>5 DEF CAPatchOpens, CAType
  <2> QED BY <2>1
<1>6. CASE CAPatch
  <2>1. caJSON'.db = "postgresql" /\ UNCHANGED <<ca, root, store>> /\ store = {}
    BY <1>0, <1>6 DEF CAPatch, CAType, CARunInv, At, Step, On
  <2> QED BY <2>1
<1>7. CASE WipeCA
  BY <1>7 DEF WipeCA, NoConfig
<1>8. CASE WipeStore
  BY <1>8 DEF WipeStore
<1>9. CASE Restores
  <2>1. PICK r \in store : root' = r
    BY <1>9 DEF Restores
  <2>2. caJSON'.db = "postgresql" /\ UNCHANGED <<ca, store>>
    BY <1>9 DEF Restores
  <2>3. store \subseteq {r}
    BY <2>1
  <2> QED BY <2>1, <2>2, <2>3
<1>10. CASE Container
  BY <1>10, ContainerLoads
<1>11. CASE Issue
  <2>1. UNCHANGED <<caJSON, root, ca>>
    BY <1>11 DEF Issue
  <2>2. CAServes
    BY <1>11 DEF Issue, On, BundleInv, At, OnCA
  <2>3. CASE store' = store
    BY <2>1, <2>3
  <2>4. CASE ca.db = "postgresql" /\ store' = store \cup {ca.root}
    BY <2>1, <2>2, <2>4 DEF CAServes
  <2> QED BY <1>11, <2>3, <2>4 DEF Issue
<1> QED BY <1>1, <1>2, <1>3, <1>4, <1>5, <1>6, <1>7, <1>8, <1>9, <1>10, <1>11, CASteps

\* What a CA deployment has established: a ca.json on PostgreSQL is guarded, patched
\* or found, and the container that answers again has loaded it.
LEMMA CAStepRun ==
  ASSUME CAType, StoreInv, CARunInv, CAStep
  PROVE  CARunInv'
<1> USE DEF CARunInv, At, Step, On, Goes, Ends
<1>0. CASE CARender
  BY <1>0 DEF CARender, caVars, CAServes
<1>1. CASE CARemoveEnds
  BY <1>1 DEF CARemoveEnds
<1>2. CASE CADown
  BY <1>2 DEF CADown
<1>3. CASE CAUp
  BY <1>3 DEF CAUp
<1>4. CASE CAWait
  BY <1>4 DEF CAWait, AfterWait, caVars, CAServes, StoreInv
<1>5. CASE CADuration
  <2>1. caJSON'.db = caJSON.db /\ caJSON'.dur /\ UNCHANGED hadConfig
    BY <1>5 DEF CADuration, CAType
  <2>2. op = "ca" /\ op' = "ca" /\ at = "duration" /\ at' = IF hadConfig THEN "restart" ELSE "guard store"
    BY <1>5 DEF CADuration
  <2> QED BY <2>1, <2>2
<1>6. CASE CAGuardStore
  BY <1>6 DEF CAGuardStore, StoreIsFree, caVars
<1>7. CASE CAPatchOpens
  <2>1. caJSON'.dur = caJSON.dur /\ UNCHANGED <<hadConfig, store>>
    BY <1>7 DEF CAPatchOpens, CAType
  <2>2. caJSON'.db = "torn"
    BY <1>7 DEF CAPatchOpens, CAType
  <2> QED BY <1>7, <2>1, <2>2 DEF CAPatchOpens
<1>8. CASE CAPatch
  <2>1. caJSON'.dur = caJSON.dur /\ caJSON'.db = "postgresql" /\ UNCHANGED <<hadConfig, store>>
    BY <1>8 DEF CAPatch, CAType
  <2> QED BY <1>8, <2>1 DEF CAPatch
<1>9. CASE CARestart
  <2>1. Starts.state = "starting"
    BY DEF Starts, CAType
  <2> QED BY <1>9, <2>1 DEF CARestart
<1>10. CASE CAMoveAside
  BY <1>10 DEF CAMoveAside, caVars, CAServes
<1>11. CASE CARole
  BY <1>11 DEF CARole
<1> QED BY <1>0, <1>1, <1>2, <1>3, <1>4, <1>5, <1>6, <1>7, <1>8, <1>9, <1>10, <1>11 DEF CAStep

LEMMA NextCARun ==
  ASSUME TypeOK, StoreInv, CARunInv, [Next]_vars
  PROVE  CARunInv'
<1>0. CAType
  BY TypeParts
<1>1. CASE CAStep
  BY <1>0, <1>1, CAStepRun
<1>2. CASE op' # "ca" \/ at' = "remove"
  BY <1>2 DEF CARunInv, At
<1>3. ASSUME op' = "ca", NEW valid \in BOOLEAN, CADeployBegins(valid)
      PROVE  CARunInv'
  <2>1. at' = "render" /\ UNCHANGED <<caJSON, store, ca>> /\ hadConfig' = (caJSON.db # "absent")
    BY <1>3 DEF CADeployBegins, Idle, Begins, Ends
  <2>2. hadConfig' => caJSON.db = "postgresql"
    BY <1>3, <2>1 DEF CADeployBegins, Idle, Ends, Guard, DBType
  <2> QED BY <2>1, <2>2 DEF CARunInv, At
<1>4. CASE op = "ca" /\ Container
  <2>1. ca.state = "starting" /\ UNCHANGED <<op, at, store, hadConfig>>
    BY <1>4, ContainerLoads
  <2>2. CASE caJSON.db = "absent"
    BY <2>1, <2>2 DEF CARunInv, At, CAServes
  <2>3. CASE caJSON.db # "absent"
    <3>1. UNCHANGED caJSON /\ ca'.db = caJSON.db /\ ca'.dur = caJSON.dur
      BY <1>4, <2>3, ContainerLoads
    <3> QED BY <2>1, <3>1 DEF CARunInv, At, CAServes
  <2> QED BY <2>2, <2>3
<1>5. CASE UNCHANGED vars
  BY <1>5 DEF CARunInv, At, CAServes, vars, runVars, caVars
<1> QED BY <1>1, <1>2, <1>3, <1>4, <1>5, ElsewhereCA
-----------------------------------------------------------------------------
\* While a Technitium deployment is past its first check, the CA stays what it is.
LEMMA CAStays ==
  ASSUME TypeOK, StoreInv, BundleInv, At("technitium", OnCA), [Next]_vars
  PROVE  UNCHANGED <<caJSON, root, ca>>
<1>1. ca.state = "up" /\ op = "technitium"
  BY DEF BundleInv, CAServes, At
<1>2. ~Container
  BY <1>1, ContainerLoads
<1> QED BY <1>1, <1>2, CASteps DEF At, CADown, CAUp, CADuration, CAPatchOpens, CAPatch, CARestart, WipeCA, WipeStore, Restores, Reboot, Idle, Step, On, Issue

\* Where a Technitium deployment goes on: the CA is asked once, before everything.
LEMMA TechStepFlow ==
  ASSUME TechStep
  PROVE  \/ At("technitium", OnCA)
         \/ op' # "technitium" \/ at' \in {"restore", "restore write", "forget"}
         \/ UNCHANGED <<caVars, techVars>> /\ at' = "cert" /\ CAServes
BY DEF TechStep, RequireCAReady, CAReady, ReuseCert, RemoveCert, Issue, AppendIntermediate, PfxPassword, KeepPfx,
       OpenPfx, WritePfx, Pull, StopDown, Preflight, Up, AdminToken, Forwarder, Settings, WaitHTTPS, DHCPSet,
       DHCPEnable, DHCPDisable, SyncToken, DashboardUser, DashboardGrants, DashboardToken, KeepBackup, OpenBackup, BackupResolver,
       UnlinkResolver, OpenResolver, PointResolver, OpenRestore, RestoreResolver, NothingToRestore, ForgetBackup, Does, TechEnds, Step, On, Goes, Ends,
       At, OnCA, Certified, WithPw, Bundled, Secured, Scoped, Synced, Known, Granted, Pointing

LEMMA TechStepBundle ==
  ASSUME TypeOK, StoreInv, BundleInv, TechStep
  PROVE  BundleInv'
<1> USE DEF Bundled, WithPw, Certified
<1>0. BundleType
  BY TypeParts
<1>1. (At("technitium", OnCA) => CAServes)'
  <2>1. CASE At("technitium", OnCA)
    BY <2>1, CAStays DEF BundleInv, CAServes, Next
  <2>2. CASE op' # "technitium" \/ at' \in {"restore", "restore write", "forget"}
    BY <2>2 DEF At, OnCA, Secured, Scoped, Synced, Known, Granted, Pointing
  <2>3. CASE UNCHANGED <<caVars, techVars>> /\ CAServes
    BY <2>3 DEF CAServes, caVars
  <2> QED BY <2>1, <2>2, <2>3, TechStepFlow
<1> USE DEF At, Does, TechEnds, Step, On, Goes, Ends
<1>2. CASE ReuseCert
  BY <1>1, <1>2 DEF BundleInv, ReuseCert, CertMatches, techVars, certVars
<1>3. CASE RemoveCert
  BY <1>1, <1>3 DEF BundleInv, RemoveCert
<1>4. CASE Issue
  <2>1. ~pfxNewer' /\ at' \in {"append", "idle"} /\ (at' = "append" => cert'.valid)
    BY <1>4 DEF BundleInv, Issue
  <2> QED BY <1>1, <2>1 DEF BundleInv
<1>5. CASE AppendIntermediate
  <2>1. ~pfxNewer' /\ at' = "chain" /\ cert'.valid
    BY <1>0, <1>5 DEF BundleInv, AppendIntermediate, BundleType, Cert
  <2> QED BY <1>1, <2>1 DEF BundleInv
<1>6. CASE PfxPassword
  <2>1. at' = "pfx" /\ UNCHANGED <<cert, pfx>> /\ cert.valid
    BY <1>6 DEF BundleInv, PfxPassword
  <2>2. CASE pfxPw = 0
    BY <1>1, <1>6, <2>1, <2>2 DEF BundleInv, PfxPassword
  <2>3. CASE pfxPw # 0
    BY <1>1, <1>6, <2>1, <2>3 DEF BundleInv, PfxPassword
  <2> QED BY <2>2, <2>3
<1>7. CASE KeepPfx
  BY <1>1, <1>7 DEF BundleInv, KeepPfx, Fresh, techVars, certVars
<1>8. CASE OpenPfx
  <2>1. at' = "pfx write" /\ pfx'.state = "torn" /\ pfxNewer' /\ UNCHANGED <<cert, pfxPw>> /\ cert.valid /\ pfxPw # 0
    BY <1>0, <1>8 DEF BundleInv, OpenPfx, BundleType
  <2> QED BY <1>1, <2>1 DEF BundleInv
<1>9. CASE WritePfx
  BY <1>1, <1>9 DEF BundleInv, WritePfx
<1>10. TechStep => \/ ReuseCert \/ RemoveCert \/ Issue \/ AppendIntermediate \/ PfxPassword \/ KeepPfx \/ OpenPfx \/ WritePfx
                   \/ UNCHANGED certVars /\ op = "technitium" /\ at \in Bundled /\ at' \notin {"issue", "append"}
                   \/ UNCHANGED certVars /\ at' \notin Certified \cup {"issue"}
  BY DEF TechStep, RequireCAReady, Pull, StopDown, Preflight, Up, AdminToken, Forwarder, Settings, WaitHTTPS, DHCPSet,
         DHCPEnable, DHCPDisable, SyncToken, DashboardUser, DashboardGrants, DashboardToken, KeepBackup, OpenBackup, BackupResolver,
         UnlinkResolver, OpenResolver, PointResolver, OpenRestore, RestoreResolver, NothingToRestore, ForgetBackup, techVars
<1>11. CASE UNCHANGED certVars /\ op = "technitium" /\ at \in Bundled /\ at' \notin {"issue", "append"}
  BY <1>1, <1>11 DEF BundleInv, certVars
<1>12. CASE UNCHANGED certVars /\ at' \notin Certified \cup {"issue"}
  BY <1>1, <1>12 DEF BundleInv, certVars
<1> QED BY <1>2, <1>3, <1>4, <1>5, <1>6, <1>7, <1>8, <1>9, <1>10, <1>11, <1>12

\* A bundle that is newer than what it was built from matches it: the password is replaced,
\* and the certificate removed, before another is made.
LEMMA NextBundle ==
  ASSUME TypeOK, StoreInv, BundleInv, [Next]_vars
  PROVE  BundleInv'
<1>1. CASE TechStep
  BY <1>1, TechStepBundle
<1>2. CASE op = "technitium" /\ UNCHANGED <<op, at, techVars>>
  <2>1. (At("technitium", OnCA) => CAServes)'
    <3>1. CASE At("technitium", OnCA)
      BY <3>1, CAStays DEF BundleInv, CAServes
    <3>2. CASE ~At("technitium", OnCA)
      BY <1>2, <3>2 DEF At
    <3> QED BY <3>1, <3>2
  <2>2. UNCHANGED <<op, at, cert, pfxPw, pfx, pfxNewer>>
    BY <1>2 DEF techVars, certVars
  <2> QED BY <2>1, <2>2 DEF BundleInv, At
<1>3. CASE ~TechStep /\ (op' # "technitium" \/ at' \in {"ca ready", "remove"})
  <2>1. CASE UNCHANGED certVars
    <3>1. UNCHANGED <<cert, pfxPw, pfx, pfxNewer>>
      BY <2>1 DEF certVars
    <3> QED BY <1>3, <3>1 DEF BundleInv, At, OnCA, Certified, WithPw, Bundled, Secured, Scoped, Synced, Known, Granted, Pointing
  <2>2. CASE Expire
    <3>1. ~cert'.valid /\ UNCHANGED <<pfxPw, pfx, pfxNewer>>
      BY <2>2, TypeParts DEF Expire, BundleType, Cert
    <3> QED BY <1>3, <3>1 DEF BundleInv, At, OnCA, Certified, WithPw, Bundled, Secured, Scoped, Synced, Known, Granted, Pointing
  <2>3. CASE LosePassword
    <3>1. pfxPw' = 0 /\ UNCHANGED <<cert, pfx, pfxNewer>>
      BY <2>3 DEF LosePassword
    <3> QED BY <1>3, <3>1 DEF BundleInv, At, OnCA, Certified, WithPw, Bundled, Secured, Scoped, Synced, Known, Granted, Pointing
  <2> QED BY <1>3, <2>1, <2>2, <2>3, TechSteps DEF TechStep
<1> QED BY <1>1, <1>2, <1>3, Elsewhere
-----------------------------------------------------------------------------
\* The server's own settings are made one after the other and stay to the end.
LEMMA TechStepServer ==
  ASSUME TypeOK, StoreInv, BundleInv, ServerInv, TechStep
  PROVE  ServerInv'
<1> USE DEF Secured, Scoped, Synced, Known, Granted, Pointing
<1>0. ServerType
  BY TypeParts
<1>1. At("technitium", Secured \cup {"https"}) => UNCHANGED root
  BY CAStays DEF At, OnCA, Next
<1> USE DEF At, Does, TechEnds, Step, On, Goes, Ends
<1>2. CASE WaitHTTPS
  BY <1>1, <1>2 DEF WaitHTTPS, ServerInv, ServesTLS, techVars, serverVars
<1>3. CASE DHCPSet
  BY <1>1, <1>3 DEF DHCPSet, ServerInv, ServesTLS
<1>4. CASE DHCPEnable
  <2>1. data'.scope = "on" /\ at' = "sync token" /\ UNCHANGED <<tls, root>> /\ ServesTLS
    BY <1>0, <1>1, <1>4 DEF DHCPEnable, ServerInv, ServerType
  <2> QED BY <2>1 DEF ServerInv, ServesTLS
<1>5. CASE DHCPDisable
  BY <1>1, <1>5 DEF DHCPDisable, ServerInv, ServesTLS, envVars
<1>6. CASE SyncToken
  <2>1. syncTok' = data.gen
    BY <1>6 DEF SyncToken, Accepted
  <2> QED BY <1>1, <1>6, <2>1 DEF SyncToken, ServerInv, ServesTLS, serverVars, envVars
<1>7. CASE DashboardUser
  <2>1. data'.scope = data.scope /\ data'.gen = data.gen /\ data'.dashboard
    BY <1>0, <1>7 DEF DashboardUser, ServerType
  <2> QED BY <1>1, <1>7, <2>1 DEF DashboardUser, ServerInv, ServesTLS, tokenVars, envVars
<1>8. CASE DashboardGrants
  <2>1. data'.scope = data.scope /\ data'.gen = data.gen /\ data'.dashboard = data.dashboard /\ data'.granted
    BY <1>0, <1>8 DEF DashboardGrants, ServerType
  <2> QED BY <1>1, <1>8, <2>1 DEF DashboardGrants, ServerInv, ServesTLS, tokenVars, envVars
<1>9. CASE DashboardToken
  BY <1>1, <1>9 DEF DashboardToken, Reads, Accepted, ServerInv, ServesTLS, serverVars, envVars
<1>10. CASE KeepBackup \/ OpenBackup \/ BackupResolver \/ UnlinkResolver \/ OpenResolver
  <2>1. UNCHANGED <<op, serverVars, tokenVars, envVars>> /\ {at, at'} \subseteq Pointing /\ op = "technitium"
    BY <1>10 DEF KeepBackup, OpenBackup, BackupResolver, UnlinkResolver, OpenResolver, techVars
  <2> QED BY <1>1, <2>1 DEF ServerInv, ServesTLS, serverVars, tokenVars, envVars
<1>11. TechStep => \/ WaitHTTPS \/ DHCPSet \/ DHCPEnable \/ DHCPDisable \/ SyncToken \/ DashboardUser \/ DashboardGrants
                   \/ DashboardToken \/ KeepBackup \/ OpenBackup \/ BackupResolver \/ UnlinkResolver \/ OpenResolver
                   \/ at' \notin Secured
  BY DEF TechStep, RequireCAReady, ReuseCert, RemoveCert, Issue, AppendIntermediate, PfxPassword, KeepPfx, OpenPfx, WritePfx,
         Pull, StopDown, Preflight, Up, AdminToken, Forwarder, Settings, PointResolver, OpenRestore, RestoreResolver,
         NothingToRestore, ForgetBackup
<1>12. CASE at' \notin Secured
  BY <1>12 DEF ServerInv
<1> QED BY <1>2, <1>3, <1>4, <1>5, <1>6, <1>7, <1>8, <1>9, <1>10, <1>11, <1>12

LEMMA NextServer ==
  ASSUME TypeOK, StoreInv, BundleInv, ServerInv, [Next]_vars
  PROVE  ServerInv'
<1>1. CASE TechStep
  BY <1>1, TechStepServer
<1>2. CASE op = "technitium" /\ UNCHANGED <<op, at, techVars>>
  <2>1. At("technitium", Secured) => UNCHANGED root
    BY CAStays DEF At, OnCA
  <2>2. UNCHANGED <<op, at, tls, data, syncTok, dashTok, dhcp>>
    BY <1>2 DEF techVars, serverVars, tokenVars, envVars
  <2> QED BY <2>1, <2>2 DEF ServerInv, At, ServesTLS
<1>3. CASE op' # "technitium" \/ at' \in {"ca ready", "remove"}
  BY <1>3 DEF ServerInv, At, Secured, Scoped, Synced, Known, Granted, Pointing
<1> QED BY <1>1, <1>2, <1>3, Elsewhere
-----------------------------------------------------------------------------
LEMMA InitIInv == Init => IInv
<1> SUFFICES ASSUME Init
             PROVE  IInv
  OBVIOUS
<1>1. op = "none" /\ at = "idle" /\ verdict = [s \in Service |-> "none"] /\ store = {} /\ caJSON = NoConfig /\ root = 0 /\ ca = Down
      /\ rootIsDir = FALSE /\ hadConfig = FALSE /\ role = FALSE
  BY DEF Init, RunInit, CAInit
<1>2. RunType /\ CAType
  BY <1>1 DEF RunType, CAType, NoConfig, Down, Idle, Service, Verdict
<1>3. BundleType
  BY DEF Init, BundleType, NoCert, NoPfx, Cert, Password
<1>4. ServerType
  <2>1. 1 \in 1 .. MaxData /\ 0 \in 0 .. MaxData
    BY TechnitiumAssumption
  <2>2. /\ image = FALSE /\ dns = FALSE /\ dhcp = FALSE /\ tls = NoCert /\ data = NewData(1)
        /\ syncTok = 0 /\ dashTok = 0 /\ adminPw = 1
    BY DEF Init
  <2>3. tls \in Cert
    BY <2>2 DEF NoCert, Cert
  <2>4. data \in [gen : 1 .. MaxData, admin : Password \cup {0}, dashboard : BOOLEAN,
                  granted : BOOLEAN, scope : {"none", "off", "on"}]
    BY <2>1, <2>2 DEF NewData
  <2>5. image \in BOOLEAN /\ dns \in BOOLEAN /\ dhcp \in BOOLEAN
    BY <2>2
  <2>6. adminPw \in Password /\ syncTok \in 0 .. MaxData /\ dashTok \in 0 .. MaxData
    BY <2>1, <2>2 DEF Password
  <2> QED BY <2>3, <2>4, <2>5, <2>6, Zenon DEF ServerType
<1>5. resolv \in Own /\ backup = "none" /\ pfxNewer = FALSE
  BY DEF Init
<1>6. StoreInv /\ CARunInv
  BY <1>1 DEF StoreInv, StoreMatchesRoot, CARunInv, At, NoConfig, Down
<1>7. BundleInv /\ ServerInv /\ ResolverInv
  BY <1>1, <1>5 DEF BundleInv, ServerInv, ResolverInv, At
<1>8. BudgetOK
  BY DisturbanceAssumption DEF Init, RunInit, BudgetOK
<1> QED BY <1>2, <1>3, <1>4, <1>5, <1>6, <1>7, <1>8, TypeParts DEF IInv, ResolverType

LEMMA NextIInv == IInv /\ [Next]_vars => IInv'
<1> SUFFICES ASSUME IInv, [Next]_vars
             PROVE  IInv'
  OBVIOUS
<1>1. RunType /\ CAType /\ BundleType /\ ServerType
  BY TypeParts DEF IInv
<1>2. RunType' /\ CAType' /\ BundleType' /\ ServerType' /\ ResolverType'
  BY <1>1, NextRunType, NextCAType, NextBundleType, NextServerType, NextResolver DEF IInv
<1>3. TypeOK'
  BY <1>2 DEF TypeOK, RunType, CAType, BundleType, ServerType, ResolverType
<1> QED BY <1>3, NextBudget, NextStore, NextCARun, NextBundle, NextResolver, NextServer DEF IInv

LEMMA Invariant == Spec => []IInv
BY InitIInv, NextIInv, PTL DEF Spec

\* How a deployment ends: well only at its last statement, removed only at the removal's.
LEMMA TechStepEnds ==
  ASSUME RunType, TechStep, op' = "none"
  PROVE  /\ verdict'["technitium"] = "ok" => PointResolver
         /\ verdict'["technitium"] = "removed" =>
              \/ NothingToRestore \/ ForgetBackup
              \/ (OpenRestore \/ RestoreResolver) /\ Spend("outside")
<1>1. \/ TechEnds("not ready") \/ TechEnds("failed") \/ TechEnds("login") \/ TechEnds("certificate")
      \/ PointResolver \/ NothingToRestore \/ ForgetBackup
      \/ (OpenRestore \/ RestoreResolver) /\ Spend("outside") /\ TechEnds("removed")
  BY DEF TechStep, RequireCAReady, ReuseCert, RemoveCert, Issue, AppendIntermediate, PfxPassword, KeepPfx,
         OpenPfx, WritePfx, Pull, StopDown, Preflight, Up, AdminToken, Forwarder, Settings, WaitHTTPS, DHCPSet, DHCPEnable,
         DHCPDisable, SyncToken, DashboardUser, DashboardGrants, DashboardToken, KeepBackup, OpenBackup, BackupResolver,
         UnlinkResolver, OpenResolver, OpenRestore, RestoreResolver, Does, Step, On, Goes
<1>2. ASSUME NEW v, TechEnds(v)
      PROVE  verdict'["technitium"] = v
  BY <1>2 DEF TechEnds, Ends, RunType, Service
<1>3. PointResolver => TechEnds("ok") \/ TechEnds("failed")
  BY DEF PointResolver
<1>4. NothingToRestore \/ ForgetBackup => TechEnds("removed")
  BY DEF NothingToRestore, ForgetBackup, On
<1> QED BY <1>1, <1>2, <1>3, <1>4

LEMMA CAStepEnds ==
  ASSUME RunType, CAStep, op' = "none", verdict'["ca"] = "ok"
  PROVE  CARole
BY DEF RunType, Service, CAStep, CARender, CADown, CAUp, CAWait, CADuration, CAGuardStore, CAPatchOpens, CAPatch,
       CARestart, CAMoveAside, CARemoveEnds, Step, On, Goes, Ends

\* What is under way ends by a statement of its own, or is cut and has failed.
LEMMA EndsBy ==
  ASSUME RunType, [Next]_vars, op # "none", op' = "none"
  PROVE  \/ op = "ca" /\ CAStep
         \/ op = "technitium" /\ TechStep
         \/ verdict'[op] = "failed"
<1>1. Cut => verdict'[op] = "failed"
  BY DEF Cut, CutShort, Idle, Ends, RunType
<1>2. CAStep => op = "ca"
  BY DEF CAStep, CARender, CADown, CAUp, CAWait, CADuration, CAGuardStore, CAPatchOpens, CAPatch, CARestart,
         CAMoveAside, CARole, CARemoveEnds, Step, On
<1>3. TechStep => op = "technitium"
  BY DEF TechStep, RequireCAReady, ReuseCert, RemoveCert, Issue, AppendIntermediate, PfxPassword, KeepPfx,
         OpenPfx, WritePfx, Pull, StopDown, Preflight, Up, AdminToken, Forwarder, Settings, WaitHTTPS, DHCPSet, DHCPEnable,
         DHCPDisable, SyncToken, DashboardUser, DashboardGrants, DashboardToken, KeepBackup, OpenBackup, BackupResolver,
         UnlinkResolver, OpenResolver, PointResolver, OpenRestore, RestoreResolver, NothingToRestore, ForgetBackup,
         Does, Step, On
<1>4. ~CADeployBegins(TRUE) /\ ~CADeployBegins(FALSE) /\ ~TechDeployBegins(TRUE) /\ ~TechDeployBegins(FALSE)
  BY DEF CADeployBegins, TechDeployBegins, Idle
<1>5. ~(WipesAtWill \/ ObeysWipeCA \/ ObeysWipeStore \/ Restores \/ Reboot \/ CARemoveBegins \/ TechRemoveBegins \/ Between)
  BY DEF WipesAtWill, ObeysWipeCA, ObeysWipeStore, Restores, Reboot, CARemoveBegins, TechRemoveBegins, Between, Begins, Idle
<1>6. ~Container /\ ~UNCHANGED vars
  BY DEF Container, ContainerStarts, vars, runVars
<1> QED BY <1>1, <1>2, <1>3, <1>4, <1>5, <1>6 DEF Next, CANext
-----------------------------------------------------------------------------
\* ca.go:320, technitium.go:212: a store has the records of the root the running CA answers
\* under, and the bundle the server loads is of the certificate and the password it is
\* given.  A root or a bundle that stayed behind would be served to clients that trust another.
THEOREM StoreAndBundleMatchHolds == Spec => []StoreAndBundleMatch
<1>1. IInv => StoreAndBundleMatch
  <2> SUFFICES ASSUME IInv
               PROVE  StoreAndBundleMatch
    OBVIOUS
  <2>1. TypeOK /\ StoreMatchesRoot /\ BundleType
    BY TypeParts DEF IInv, StoreInv
  <2>2. BundleIsCurrent
    BY <2>1 DEF IInv, BundleInv, BundleType, BundleIsCurrent, At, On, Bundled, WithPw, Certified
  <2> QED BY <2>1, <2>2 DEF StoreAndBundleMatch
<1> QED BY <1>1, Invariant, PTL

\* A step that stops the server in a deployment follows the pull.
LEMMA StopHasImage ==
  ASSUME IInv, [Next]_vars, op = "technitium", at # "remove", dns, ~dns'
  PROVE  image
<1>1. CASE StopDown
  BY <1>1 DEF StopDown, Does, Step, On, IInv, ResolverInv, At
<1>2. ~(TechRemoveBegins \/ Between)
  BY DEF TechRemoveBegins, Between, Begins, Idle
<1>3. ~UNCHANGED <<serverVars, tokenVars, envVars>>
  BY DEF serverVars
<1>4. ~(Pull \/ Up \/ AdminToken \/ Settings \/ DHCPSet \/ DHCPEnable \/ DHCPDisable \/ SyncToken
        \/ DashboardUser \/ DashboardGrants \/ DashboardToken)
  BY DEF Pull, Up, AdminToken, Settings, DHCPSet, DHCPEnable, DHCPDisable, SyncToken, DashboardUser, DashboardGrants,
         DashboardToken, serverVars
<1> QED BY <1>1, <1>2, <1>3, <1>4, TechSteps

\* A removal ends with a file of the operator's in place, when a file is in place that was
\* not cut while it was written.
LEMMA RemovalReturns ==
  ASSUME IInv, [Next]_vars, op = "technitium", op' = "none", verdict'["technitium"] = "removed",
         UNCHANGED budget, resolv \notin {"none", "torn"}
  PROVE  resolv' \in Own
<1>1. TechStep
  BY EndsBy, TypeParts DEF IInv
<1>2. ~Spend("outside")
  BY SpendCounts DEF IInv
<1>3. NothingToRestore \/ ForgetBackup
  BY <1>1, <1>2, TechStepEnds, TypeParts DEF IInv
<1>4. CASE ForgetBackup
  BY <1>4 DEF ForgetBackup, IInv, ResolverInv, On, At
<1>5. CASE NothingToRestore
  <2>1. ~Ours
    BY <1>5, TechnitiumAssumption DEF NothingToRestore, Ours, IInv, ResolverInv
  <2> QED BY <1>5, <2>1 DEF NothingToRestore, Ours, IInv, ResolverInv
<1> QED BY <1>3, <1>4, <1>5

\* technitium.go:70-73, 743-753, 784-799: names can be resolved on the host: the server is only
\* stopped for an image that is there, and a resolv.conf of the operator's is in place or in
\* the copy, whatever is cut between the copy, the removal and the restore, but for the copy
\* that was emptied and not written.
THEOREM HostKeepsResolvingHolds == Spec => HostKeepsResolving
<1>1. IInv /\ [Next]_vars => [(op = "technitium" /\ at # "remove" /\ dns /\ ~dns') => image]_vars
  BY StopHasImage
<1>2. IInv /\ [Next]_vars =>
        [op = "technitium" /\ op' = "none" /\ verdict'["technitium"] = "removed"
           /\ UNCHANGED budget /\ resolv \notin {"none", "torn"} => resolv' \in Own]_vars
  BY RemovalReturns
<1>3. IInv => KeepsAFile
  BY DEF IInv, ResolverInv, KeepsAFile, WasCut
<1> QED BY <1>1, <1>2, <1>3, Invariant, PTL DEF Spec, HostKeepsResolving, StopsOnlyWithImage, RemovalGivesBack

LEMMA CASuccess ==
  ASSUME IInv, [Next]_vars, op = "ca", op' = "none", verdict'["ca"] = "ok"
  PROVE  CAServes' /\ ca'.db = "postgresql" /\ ca'.dur /\ role'
<1>1. CARole
  BY EndsBy, CAStepEnds, TypeParts DEF IInv
<1> QED BY <1>1 DEF CARole, On, IInv, CARunInv, At, CAServes

LEMMA TechnitiumSuccess ==
  ASSUME IInv, [Next]_vars, op = "technitium", op' = "none", verdict'["technitium"] = "ok"
  PROVE  /\ ServesTLS' /\ {syncTok', dashTok'} = {data'.gen} /\ data'.dashboard /\ data'.granted
         /\ (dhcp => data.scope = "on") /\ dns' /\ resolv' = "managed"
<1>1. PointResolver /\ TechStep
  BY EndsBy, TechStepEnds, TypeParts DEF IInv
<1>2. At("technitium", Pointing) /\ At("technitium", OnCA)
  BY <1>1 DEF PointResolver, On, At, Pointing, OnCA, Secured, Scoped, Synced, Known, Granted
<1>3. UNCHANGED <<root, dns, tls, data, syncTok, dashTok>>
  BY <1>1, <1>2, CAStays DEF PointResolver, IInv, serverVars, tokenVars
<1>4. ServesTLS /\ (dhcp => data.scope = "on") /\ syncTok = data.gen /\ dashTok = data.gen /\ data.dashboard /\ data.granted
  BY <1>2 DEF IInv, ServerInv, At, Pointing, Secured, Scoped, Synced, Known, Granted
<1>5. dns /\ resolv' = "managed"
  BY <1>1, TypeParts DEF PointResolver, TechEnds, Ends, IInv, RunType, Service
<1> QED BY <1>3, <1>4, <1>5 DEF ServesTLS

\* A deployment of the CA or of Technitium that reports success leaves what is built on it:
\* the reported end is reached through every check, and nothing that ran beside it
\* undid one.
THEOREM SuccessIsUsableHolds == Spec => SuccessIsUsable
<1>1. IInv /\ [Next]_vars =>
        [op = "ca" /\ op' = "none" /\ verdict'["ca"] = "ok" => CAServes' /\ ca'.db = "postgresql" /\ ca'.dur /\ role']_vars
  BY CASuccess
<1>2. IInv /\ [Next]_vars =>
        [op = "technitium" /\ op' = "none" /\ verdict'["technitium"] = "ok"
           => /\ ServesTLS' /\ {syncTok', dashTok'} = {data'.gen} /\ data'.dashboard /\ data'.granted
              /\ (dhcp => data.scope = "on") /\ dns' /\ resolv' = "managed"]_vars
  BY TechnitiumSuccess
<1> QED BY <1>1, <1>2, Invariant, PTL DEF Spec, SuccessIsUsable, CASuccessIsService, TechnitiumSuccessIsUsable
=============================================================================
