-------------------------- MODULE TechnitiumDeploy --------------------------
(***************************************************************************)
(* The deployment and the removal of Technitium (deploy/technitium.go,     *)
(* technitium_api.go) on top of the CA it takes its certificate from       *)
(* (deploy/stepca.go), with everything it changes outside its container:   *)
(* the certificate and the PKCS#12 bundle built from it, the accounts,     *)
(* tokens and DHCP scope inside the DNS server, the token files two other  *)
(* parts read, and the resolver of the host.                               *)
(*                                                                         *)
(* What the server keeps in its data directory has a generation: a token   *)
(* is the generation it was made in, and is valid while that one lasts.    *)
(***************************************************************************)
EXTENDS CADeploy

CONSTANTS MaxData,   \* generations of the server's data
          Own        \* contents of resolv.conf the operator may write

ASSUME TechnitiumAssumption ==
    MaxData \in Nat \ {0} /\ Own \cap {"none", "managed", "systemd", "torn"} = {}

VARIABLES cert,      \* technitium.crt and its key
          pfxPw,     \* technitium-pfx-password, 0 when missing
          pfx,       \* technitium.pfx: what it was built from
          pfxNewer,  \* it is newer than the certificate, the key and the password
          image,     \* the image of the configured tag is on the host
          dns,       \* the DNS server answers on 127.0.0.1:53
          tls,       \* the certificate its web service has loaded
          data,      \* its accounts, grants and DHCP scope
          syncTok, dashTok,  \* the two token files
          dhcp,      \* DHCP_ENABLE
          adminPw,   \* TECHNITIUM_ADMIN_PASSWORD
          resolv, backup     \* /etc/resolv.conf and its copy; "torn": opened, not written
certVars  == <<cert, pfxPw, pfx, pfxNewer>>
serverVars == <<image, dns, tls, data>>
tokenVars == <<syncTok, dashTok>>
hostVars  == <<resolv, backup>>
envVars   == <<dhcp, adminPw>>
techVars  == <<certVars, serverVars, tokenVars, hostVars, envVars>>
vars      == <<runVars, caVars, techVars>>
-----------------------------------------------------------------------------
NoCert == [root |-> 0, full |-> FALSE, valid |-> FALSE]
NoPfx  == [state |-> "absent", cert |-> NoCert, pw |-> 0]
NewData(g) == [gen |-> g, admin |-> 0, dashboard |-> FALSE, granted |-> FALSE, scope |-> "none"]

Init ==
    /\ RunInit(Service) /\ CAInit
    /\ cert = NoCert /\ pfxPw = 0 /\ pfx = NoPfx /\ pfxNewer = FALSE
    /\ image = FALSE /\ dns = FALSE /\ tls = NoCert /\ data = NewData(1)
    /\ syncTok = 0 /\ dashTok = 0
    /\ dhcp = FALSE /\ adminPw = 1
    /\ resolv \in Own /\ backup = "none"

TechEnds(v) == Ends("technitium", v)
Does(s, t) == Step("technitium", s, t)

\* The guards before anything is touched: directories, the DHCP scope, and the
\* CA, whose files must be there and which must answer under the root on disk.
CAReady == caJSON.db # "absent" /\ CAServes
TechDeployBegins(valid) ==
    /\ Idle /\ UNCHANGED <<caVars, techVars>>
    /\ IF valid THEN Begins("technitium", "ca ready") /\ UNCHANGED <<verdict, budget>>
                ELSE Spend("config") /\ TechEnds("config")
RequireCAReady ==
    /\ On("technitium", "ca ready") /\ UNCHANGED <<caVars, techVars>>
    /\ \/ CAReady /\ Goes("cert")
       \/ ~CAReady /\ ~CAStarting /\ TechEnds("not ready") /\ UNCHANGED budget
-----------------------------------------------------------------------------
\* IssueCert: a pair in order for the name is kept; otherwise both files are
\* removed and a new pair is asked for, which a CA refuses that runs with the
\* shorter default duration.
CertMatches == cert.root # 0 /\ cert.valid
ReuseCert ==
    /\ Does("cert", "chain") /\ CertMatches /\ UNCHANGED <<caVars, techVars>>
RemoveCert ==
    /\ Does("cert", "issue") /\ ~CertMatches
    /\ cert' = NoCert /\ pfxNewer' = FALSE
    /\ UNCHANGED <<caVars, pfxPw, pfx, serverVars, tokenVars, hostVars, envVars>>
Issue ==
    /\ On("technitium", "issue")
    /\ IF ca.state = "up" /\ ca.dur
         THEN /\ \E full \in BOOLEAN : cert' = [root |-> ca.root, full |-> full, valid |-> TRUE]
              /\ store' = IF ca.db = "postgresql" THEN store \cup {ca.root} ELSE store
              /\ Goes("append")
         ELSE TechEnds("failed") /\ UNCHANGED <<cert, store, budget>>
    /\ UNCHANGED <<caJSON, root, rootIsDir, hadConfig, ca, role,
                   pfxPw, pfx, pfxNewer, serverVars, tokenVars, hostVars, envVars>>
\* The chain is completed in a statement of its own.
AppendIntermediate ==
    /\ Does("append", "chain") /\ cert' = [cert EXCEPT !.full = TRUE]
    /\ UNCHANGED <<caVars, pfxPw, pfx, pfxNewer, serverVars, tokenVars, hostVars, envVars>>

\* The bundle: a missing password is made first; the bundle is kept when it is
\* newer than the certificate, the key and the password, and written anew
\* (truncated, then filled) when it is not.
PfxPassword ==
    /\ Does("chain", "pfx")
    /\ IF pfxPw = 0 THEN pfxPw' = (IF pfx.pw = 1 THEN 2 ELSE 1) /\ pfxNewer' = FALSE ELSE UNCHANGED <<pfxPw, pfxNewer>>
    /\ UNCHANGED <<caVars, cert, pfx, serverVars, tokenVars, hostVars, envVars>>
Fresh == pfx.state # "absent" /\ pfxNewer
KeepPfx == Does("pfx", "pull") /\ Fresh /\ UNCHANGED <<caVars, techVars>>
OpenPfx ==
    /\ Does("pfx", "pfx write") /\ ~Fresh
    /\ pfx' = [pfx EXCEPT !.state = "torn"] /\ pfxNewer' = TRUE
    /\ UNCHANGED <<caVars, cert, pfxPw, serverVars, tokenVars, hostVars, envVars>>
WritePfx ==
    /\ Does("pfx write", "pull")
    /\ pfx' = [state |-> "whole", cert |-> cert, pw |-> pfxPw]
    /\ UNCHANGED <<caVars, cert, pfxPw, pfxNewer, serverVars, tokenVars, hostVars, envVars>>
-----------------------------------------------------------------------------
\* `docker compose pull` asks the registry whether the image is there or not, through
\* the resolver of the host, which may be the very server that is about to be stopped
\* (and is, when resolv.conf names none: the default is 127.0.0.1).
ResolverAnswers == resolv \in {"managed", "none", "torn"} => dns
\* Mutant: a pull that fails is a warning.
Pull_Warned ==
    /\ Does("pull", "down")
    /\ image' \in {image, image \/ ResolverAnswers}
    /\ UNCHANGED <<caVars, certVars, dns, tls, data, tokenVars, hostVars, envVars>>
Pull ==
    /\ On("technitium", "pull")
    /\ \/ ResolverAnswers /\ image' = TRUE /\ Goes("down")
       \/ (Spend("outside") \/ (~ResolverAnswers /\ UNCHANGED budget))
          /\ TechEnds("failed") /\ UNCHANGED image
    /\ UNCHANGED <<caVars, certVars, dns, tls, data, tokenVars, hostVars, envVars>>
\* Of a deployment or of a removal; a failing `compose down` is swallowed.
StopDown ==
    /\ op = "technitium" /\ at \in {"down", "remove"}
    /\ at' = IF at = "down" THEN "preflight" ELSE "restore"
    /\ \/ dns' = FALSE /\ tls' = NoCert /\ UNCHANGED budget
       \/ (Spend("docker") \/ LacksFile) /\ UNCHANGED <<dns, tls>>
    /\ UNCHANGED <<op, verdict, caVars, certVars, image, data, tokenVars, hostVars, envVars>>
\* Somebody may hold port 53 (or 67), the container that was not stopped among them:
\* nothing is started then.
Preflight ==
    /\ On("technitium", "preflight") /\ UNCHANGED <<caVars, techVars>>
    /\ \/ ~dns /\ Goes("up")
       \/ (Spend("outside") \/ (dns /\ UNCHANGED budget)) /\ TechEnds("failed")
\* Up, and the wait for any answer on port 53.
Up ==
    /\ Does("up", "login") /\ dns' = TRUE
    /\ UNCHANGED <<caVars, certVars, image, tls, data, tokenVars, hostVars, envVars>>

\* Mutant: only the first-boot password is tried.
AdminToken_FirstBoot ==
    /\ On("technitium", "login")
    /\ \/ data.admin = 0 /\ Goes("forwarder") /\ data' = [data EXCEPT !.admin = adminPw]
       \/ data.admin # 0 /\ TechEnds("login") /\ UNCHANGED <<data, budget>>
    /\ UNCHANGED <<caVars, certVars, image, dns, tls, tokenVars, hostVars, envVars>>
\* The configured password, or the first-boot one, which is rotated at once;
\* the answer to the rotation may be lost.
AdminToken ==
    /\ On("technitium", "login")
    /\ \/ data.admin = adminPw /\ Goes("forwarder") /\ UNCHANGED data
       \/ data.admin = 0 /\ Goes("login") /\ data' = [data EXCEPT !.admin = adminPw]
       \/ data.admin \notin {0, adminPw} /\ TechEnds("login") /\ UNCHANGED <<data, budget>>
    /\ UNCHANGED <<caVars, certVars, image, dns, tls, tokenVars, hostVars, envVars>>

\* The upstream forwarder is set, and must answer anything at all.
Forwarder ==
    /\ On("technitium", "forwarder") /\ UNCHANGED <<caVars, techVars>>
    /\ Goes("settings") \/ (Spend("outside") /\ TechEnds("failed"))
\* The web service's TLS: the server takes the settings in any case and loads the bundle when it can be opened with the password sent.
Opens == pfx.state = "whole" /\ pfx.pw = pfxPw
Settings ==
    /\ Does("settings", "https") /\ tls' = IF Opens THEN pfx.cert ELSE NoCert
    /\ UNCHANGED <<caVars, certVars, image, dns, data, tokenVars, hostVars, envVars>>
\* A client that knows the root only needs the whole chain, under that root.
ServesTLS == tls.full /\ tls.valid /\ tls.root = root
WaitHTTPS ==
    /\ On("technitium", "https") /\ UNCHANGED <<caVars, techVars>>
    /\ IF ServesTLS THEN Goes("dhcp") ELSE TechEnds("certificate") /\ UNCHANGED budget
-----------------------------------------------------------------------------
\* DHCP: upsert and enable, or disable the scope when there is one; not being
\* able to list the scopes does not fail the deployment.
DHCPSet ==
    /\ Does("dhcp", "dhcp enable") /\ dhcp
    /\ data' = [data EXCEPT !.scope = IF @ = "none" THEN "off" ELSE @]
    /\ UNCHANGED <<caVars, certVars, image, dns, tls, tokenVars, hostVars, envVars>>
DHCPEnable ==
    /\ Does("dhcp enable", "sync token") /\ data' = [data EXCEPT !.scope = "on"]
    /\ UNCHANGED <<caVars, certVars, image, dns, tls, tokenVars, hostVars, envVars>>
Disabled(s) == IF s = "on" THEN "off" ELSE s
DHCPDisable ==
    /\ On("technitium", "dhcp") /\ ~dhcp /\ at' = "sync token" /\ UNCHANGED <<op, verdict>>
    /\ \/ data' = [data EXCEPT !.scope = Disabled(@)] /\ UNCHANGED budget
       \/ Spend("unlisted") /\ UNCHANGED data
    /\ UNCHANGED <<caVars, certVars, image, dns, tls, tokenVars, hostVars, envVars>>

\* The token of dns-sync: kept while the server accepts it.
Accepted(t) == t = data.gen
SyncToken ==
    /\ Does("sync token", "dashboard")
    /\ syncTok' = IF Accepted(syncTok) THEN syncTok ELSE data.gen
    /\ UNCHANGED <<caVars, certVars, serverVars, dashTok, hostVars, envVars>>

\* The dashboard's user and its grants, then its token, which must be able to
\* read the settings before it is written.
DashboardUser ==
    /\ Does("dashboard", "grants") /\ data' = [data EXCEPT !.dashboard = TRUE]
    /\ UNCHANGED <<caVars, certVars, image, dns, tls, tokenVars, hostVars, envVars>>
DashboardGrants ==
    /\ Does("grants", "dash token") /\ data' = [data EXCEPT !.granted = TRUE]
    /\ UNCHANGED <<caVars, certVars, image, dns, tls, tokenVars, hostVars, envVars>>
Reads(t) == Accepted(t) /\ data.dashboard /\ data.granted
DashboardToken ==
    /\ On("technitium", "dash token")
    /\ IF Reads(dashTok) THEN Goes("backup") /\ UNCHANGED dashTok
       ELSE IF Reads(data.gen) THEN Goes("backup") /\ dashTok' = data.gen
       ELSE TechEnds("failed") /\ UNCHANGED <<dashTok, budget>>
    /\ UNCHANGED <<caVars, certVars, serverVars, syncTok, hostVars, envVars>>
-----------------------------------------------------------------------------
\* writeTechnitiumResolvConf: the operator's file is copied when there is no copy; the
\* file (or symlink) is removed; the new one is written.  os.WriteFile opens a file with
\* O_TRUNC before it writes it; a copy that was cut there is kept as any other.
MustCopy == backup = "none" /\ resolv \notin {"none", "managed"}
KeepBackup == Does("backup", "unlink") /\ ~MustCopy /\ UNCHANGED <<caVars, techVars>>
OpenBackup ==
    /\ Does("backup", "backup write") /\ MustCopy /\ backup' = "torn"
    /\ UNCHANGED <<caVars, certVars, serverVars, tokenVars, resolv, envVars>>
BackupResolver ==
    /\ Does("backup write", "unlink") /\ backup' = resolv
    /\ UNCHANGED <<caVars, certVars, serverVars, tokenVars, resolv, envVars>>
UnlinkResolver ==
    /\ Does("unlink", "point") /\ resolv' = "none"
    /\ UNCHANGED <<caVars, certVars, serverVars, tokenVars, backup, envVars>>
OpenResolver ==
    /\ Does("point", "point write") /\ resolv' = "torn"
    /\ UNCHANGED <<caVars, certVars, serverVars, tokenVars, backup, envVars>>
\* ... and verified: the deployment ends well when the server answers.
PointResolver ==
    /\ On("technitium", "point write") /\ resolv' = "managed"
    /\ TechEnds(IF dns THEN "ok" ELSE "failed") /\ UNCHANGED budget
    /\ UNCHANGED <<caVars, certVars, serverVars, tokenVars, backup, envVars>>

\* Remove, with restoreHostResolver: only a file labprovider wrote is replaced,
\* by the copy, which is deleted afterwards, or by systemd-resolved's file.
TechRemoveBegins ==
    /\ Begins("technitium", "remove") /\ Spend("remove")
    /\ UNCHANGED <<verdict, caVars, techVars>>
Ours == resolv = "managed"
OpenRestore ==
    /\ On("technitium", "restore") /\ Ours /\ backup # "none"
    /\ \/ resolv' = "torn" /\ Goes("restore write")
       \/ Spend("outside") /\ TechEnds("removed") /\ UNCHANGED resolv
    /\ UNCHANGED <<caVars, certVars, serverVars, tokenVars, backup, envVars>>
\* A copy that cannot be written back is a notice; the removal ends well.
RestoreResolver ==
    /\ On("technitium", "restore write")
    /\ \/ resolv' = backup /\ Goes("forget")
       \/ Spend("outside") /\ TechEnds("removed") /\ UNCHANGED resolv
    /\ UNCHANGED <<caVars, certVars, serverVars, tokenVars, backup, envVars>>
NothingToRestore ==
    /\ On("technitium", "restore") /\ ~(Ours /\ backup # "none")
    /\ resolv' \in (IF Ours THEN {"systemd"} ELSE {}) \cup {resolv} /\ TechEnds("removed")
    /\ UNCHANGED <<caVars, certVars, serverVars, tokenVars, backup, envVars, budget>>
ForgetBackup ==
    /\ On("technitium", "forget") /\ backup' = "none" /\ TechEnds("removed")
    /\ UNCHANGED <<caVars, certVars, serverVars, tokenVars, resolv, envVars, budget>>

TechStep ==
    \/ RequireCAReady \/ ReuseCert \/ RemoveCert \/ Issue \/ AppendIntermediate
    \/ PfxPassword \/ KeepPfx \/ OpenPfx \/ WritePfx \/ Pull \/ StopDown \/ Preflight \/ Up
    \/ AdminToken \/ Forwarder \/ Settings \/ WaitHTTPS \/ DHCPSet \/ DHCPEnable \/ DHCPDisable \/ SyncToken
    \/ DashboardUser \/ DashboardGrants \/ DashboardToken
    \/ KeepBackup \/ OpenBackup \/ BackupResolver \/ UnlinkResolver \/ OpenResolver \/ PointResolver
    \/ OpenRestore \/ RestoreResolver \/ NothingToRestore \/ ForgetBackup
-----------------------------------------------------------------------------
\* What happens to Technitium between deployments.
Expire ==
    /\ Spend("expire") /\ cert.root # 0 /\ cert' = [cert EXCEPT !.valid = FALSE]
    /\ UNCHANGED <<pfxPw, pfx, pfxNewer, serverVars, tokenVars, hostVars, envVars>>
LosePassword ==
    /\ Spend("password file") /\ pfxPw # 0 /\ pfxPw' = 0
    /\ UNCHANGED <<cert, pfx, pfxNewer, serverVars, tokenVars, hostVars, envVars>>
NewTag ==
    /\ Spend("image") /\ image' = FALSE
    /\ UNCHANGED <<certVars, dns, tls, data, tokenVars, hostVars, envVars>>
WipeData ==
    /\ Spend("data") /\ data.gen < MaxData /\ dns' = FALSE /\ tls' = NoCert /\ data' = NewData(data.gen + 1)
    /\ UNCHANGED <<certVars, image, tokenVars, hostVars, envVars>>
EditResolver ==
    /\ Spend("resolver") /\ \E c \in Own \ {resolv} : resolv' = c
    /\ UNCHANGED <<certVars, serverVars, tokenVars, backup, envVars>>
Reconfigure ==
    /\ Spend("settings") /\ ((dhcp' = ~dhcp /\ UNCHANGED adminPw) \/ (adminPw' = 3 - adminPw /\ UNCHANGED dhcp))
    /\ UNCHANGED <<certVars, serverVars, tokenVars, hostVars>>
Between ==
    /\ Idle /\ UNCHANGED <<op, at, caVars>>
    /\ verdict' = [verdict EXCEPT !["technitium"] = IF @ = "ok" THEN "wiped" ELSE @]
    /\ Expire \/ LosePassword \/ NewTag \/ WipeData \/ EditResolver \/ Reconfigure

RedeploysTechnitium ==
    verdict["technitium"] \notin {"ok", "removed"} /\ verdict["ca"] = "ok" /\ TechDeployBegins(TRUE)

RootsInUse == store \cup {root, ca.root, cert.root, pfx.cert.root, tls.root}
Container == ContainerStarts(RootsInUse) /\ UNCHANGED techVars

Next == \/ CANext /\ UNCHANGED techVars
        \/ Container
        \/ (\E valid \in BOOLEAN : TechDeployBegins(valid)) \/ TechStep \/ TechRemoveBegins \/ Between
Spec == Init /\ [][Next]_vars

\* The deployment's own statements go on; the operator follows the CA's message
\* and deploys again whatever did not end well.
Fairness ==
    /\ WF_vars(CAStep /\ UNCHANGED techVars) /\ WF_vars(Container)
    /\ WF_vars(TechStep)
    /\ SF_vars(ObeysWipeCA /\ UNCHANGED techVars) /\ SF_vars(ObeysWipeStore /\ UNCHANGED techVars)
    /\ SF_vars(RedeploysCA /\ UNCHANGED techVars)
    /\ SF_vars(RedeploysTechnitium)
FairSpec == Spec /\ Fairness
-----------------------------------------------------------------------------
Password == 1 .. 2
Cert == [root : Root \cup {0}, full : BOOLEAN, valid : BOOLEAN]

\* Every variable keeps its type.
TypeOK ==
    /\ op \in Service \cup {"none"}
    /\ verdict \in [Service -> Verdict] /\ (at = "idle" <=> Idle)
    /\ caJSON \in [db : {"absent", "badger", "postgresql", "torn"}, dur : BOOLEAN]
    /\ root \in Root \cup {0} /\ (rootIsDir => root = 0) /\ {rootIsDir, hadConfig, role} \subseteq BOOLEAN
    /\ ca \in [state : {"down", "starting", "up"}, db : {"absent", "badger", "postgresql"},
               dur : BOOLEAN, root : Root \cup {0}]
    /\ store \subseteq Root
    /\ cert \in Cert /\ tls \in Cert /\ pfxPw \in Password \cup {0}
    /\ pfx \in [state : {"absent", "torn", "whole"}, cert : Cert, pw : Password \cup {0}]
    /\ {pfxNewer, image, dns, dhcp} \subseteq BOOLEAN /\ adminPw \in Password
    /\ data \in [gen : 1 .. MaxData, admin : Password \cup {0}, dashboard : BOOLEAN,
                 granted : BOOLEAN, scope : {"none", "off", "on"}]
    /\ {syncTok, dashTok} \subseteq 0 .. MaxData
    /\ resolv \in Own \cup {"none", "managed", "systemd", "torn"} /\ backup \in Own \cup {"none", "systemd", "torn"}

\* The certificate store never mixes two CAs: a container that works on
\* PostgreSQL is of the root whose records are there, whatever was wiped,
\* restored, cut or restarted before (the guard at ca.go:320).
StoreMatchesRoot ==
    (ca.state = "up" /\ ca.db = "postgresql") => store \subseteq {ca.root}

\* A CA deployment that reports success leaves the CA the rest is built on: on
\* PostgreSQL, answering under the root on disk, with the configured duration
\* loaded (not only written) and the panel's role able to read.
CASuccessIsService ==
    [][op = "ca" /\ op' = "none" /\ verdict'["ca"] = "ok"
         => CAServes' /\ ca'.db = "postgresql" /\ ca'.dur /\ role']_vars

\* When the server is told to load the bundle, the bundle was built from the
\* certificate and the password it is told (technitium.go:212-217), unless the
\* process was killed while writing it.
BundleIsCurrent ==
    On("technitium", "settings") => pfx.state = "torn" \/ (pfx.cert = cert /\ pfx.pw = pfxPw)

\* Two of a kind: what was made under one root, or from one certificate, is
\* never in use beside another.
StoreAndBundleMatch == TypeOK /\ StoreMatchesRoot /\ BundleIsCurrent

\* The running server, which the host may resolve through, is stopped by a
\* deployment only when the image to replace it is there (technitium.go:70-73).
StopsOnlyWithImage == [][(op = "technitium" /\ at # "remove" /\ dns /\ ~dns') => image]_vars

\* A Technitium deployment that reports success leaves what its two readers and
\* its clients use: a chain to the root on disk, both token files accepted by
\* the data the server has now, the scope that was asked for, the resolver.
TechnitiumSuccessIsUsable ==
    [][op = "technitium" /\ op' = "none" /\ verdict'["technitium"] = "ok"
         => /\ ServesTLS' /\ {syncTok', dashTok'} = {data'.gen} /\ data'.dashboard /\ data'.granted
            /\ (dhcp => data.scope = "on") /\ dns' /\ resolv' = "managed"]_vars

\* A removal that meets no error leaves a file of the operator's in place, on a host with
\* systemd-resolved or without (technitium.go:773-783), unless an earlier cut has taken
\* the file or emptied the copy.
RemovalGivesBack ==
    [][op = "technitium" /\ op' = "none" /\ verdict'["technitium"] = "removed"
         /\ UNCHANGED budget /\ resolv \notin {"none", "torn"}
         => resolv' \in Own]_vars

\* A file the operator wrote is in place or in the copy, through every redeployment, edit
\* and removal, and through every cut but one: a copy that was emptied and not written is
\* taken for the copy by the next deployment, which then unlinks the file.
KeepsAFile == {resolv, backup} \cap Own # {} \/ ("torn" \in {resolv, backup} /\ Spent({"cut"}))

\* The host can resolve names, and its operator's way of doing so is not lost.
HostKeepsResolving == StopsOnlyWithImage /\ RemovalGivesBack /\ []KeepsAFile

\* What reports success is what the rest is built on.
SuccessIsUsable == CASuccessIsService /\ TechnitiumSuccessIsUsable

\* Whatever was interrupted, wiped or restarted, an operator who does what the
\* last message says and deploys again gets a CA (the messages at ca.go:61 and
\* ca.go:340 take turns, and the turns end).  Deploying again heals Technitium
\* as well, but for five things that outlast every retry: a certificate of an
\* earlier root, or one cut before its chain was complete (both are reused until
\* they expire), a bundle cut while it was written (it is newer than its
\* sources), an administrator's password that was changed in the configuration
\* only, and a server that is stopped while the host resolves through it: the
\* pull, which asks the registry even when the image is there, fails every time.
OutlastsRetries ==
    \/ cert.root # root \/ ~cert.full
    \/ pfx.state = "torn"
    \/ data.admin \notin {0, adminPw}
    \/ ~ResolverAnswers
RetriesHeal ==
    <>[](/\ verdict["ca"] \in {"ok", "removed"}
         /\ verdict["ca"] = "ok" => verdict["technitium"] \in {"ok", "removed"} \/ OutlastsRetries)
=============================================================================
