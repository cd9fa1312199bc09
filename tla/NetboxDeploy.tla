---------------------------- MODULE NetboxDeploy ----------------------------
(***************************************************************************)
(* The deployments of NetBox (deploy/netbox.go, netbox_api.go) and of      *)
(* dns-sync (deploy/dnssync.go, with its one-shot dns-seed), which reads   *)
(* what the first one leaves: the addresses in IPAM and a token in a file. *)
(*                                                                         *)
(* NetBox keeps a token as a hash made with a pepper that lives in a file  *)
(* of the host: a new pepper turns every token away without deleting one.  *)
(* A token is its number, what it is for and the pepper it was made with.  *)
(* Addresses and names are numbers; Lab is the canonical name of the host. *)
(***************************************************************************)
EXTENDS DeploymentRun, FiniteSets, SequencesExt

CONSTANTS Address,   \* addresses as NetBox keys them, with their mask
          Plain,     \* those without one (/32): nothing is known of their network
          Names,     \* the names a seed record may give are 1 .. Names
          SeedFiles, \* the dns.seed files that may be saved: sequences of records
          MaxPepper, \* peppers made in a run
          MaxToken   \* bound: numbers to tell apart the tokens alive or remembered

ASSUME NetboxAssumption ==
    /\ Address \subseteq Nat \ {0} /\ Plain \subseteq Address
    /\ {Names, MaxPepper, MaxToken} \subseteq Nat \ {0}
    /\ SeedFiles \subseteq Seq([addr : Address, name : 1 .. Names])

Lab == Names + 1
Torn == MaxPepper + 1
NetworkOf(a) == (a + 1) \div 2   \* deriveNetwork, two addresses to a network
Service == {"netbox", "dns-sync"}

VARIABLES secret,  \* secrets/api_token_pepper (0 when missing), and how many were made
          server,  \* the NetBox stack: up, and the pepper it runs with
          db,      \* its database
          file,    \* netbox.token and netbox-readonly.token: a token, 0 when missing or empty
          sync,    \* the dns-sync container, and the token it read when it started
          zone,    \* Technitium serves the lab zone dns-sync has published
          conf,    \* HOST_IP, dns.seed and NETBOX_SUPERUSER_PASSWORD
          loc      \* the locals of the deployment under way
nbVars == <<secret, server, db, file, sync, zone, conf>>
vars == <<runVars, nbVars, loc>>
-----------------------------------------------------------------------------
Inventory == <<"site", "manufacturer", "device type", "device role", "device">>
PanelParts == <<"group", "permission", "user">>
EmptyDB == [tokens |-> {}, objects |-> {}, panel |-> {}, prefixes |-> {},
            ipam |-> [a \in Address |-> 0], superuser |-> 0]
NoSync == [up |-> FALSE, tok |-> 0]
NoLocals == [auth |-> 0, minted |-> 0, use |-> "none", todo |-> <<>>]

Init ==
    /\ RunInit(Service)
    /\ secret = [pepper |-> 0, made |-> 0] /\ server = [up |-> FALSE, pepper |-> 0]
    /\ db = EmptyDB /\ file = [sync |-> 0, dash |-> 0]
    /\ sync = NoSync /\ zone = FALSE
    /\ conf \in [host : Address \ Plain, seed : SeedFiles, password : {1}]
    /\ loc = NoLocals

Finish(v) == Ends(op, v) /\ loc' = NoLocals
Fails(v)  == Finish(v) /\ UNCHANGED budget
Outside   == Spend("outside") /\ Finish("failed")
NB(s, t)  == Step("netbox", s, t)
DS(s, t)  == Step("dns-sync", s, t)
Cut == CutShort /\ loc' = NoLocals /\ UNCHANGED nbVars

\* A token is accepted when it is alive and was made with the server's pepper.
Accepted(id) == server.up /\ \E t \in db.tokens : t.id = id /\ t.pepper = server.pepper
Remembered == {t.id : t \in db.tokens} \cup {file.sync, file.dash, sync.tok, loc.auth, loc.minted}
Fresh == (1 .. MaxToken) \ Remembered
NewId == CHOOSE i \in Fresh : TRUE
NewToken(use) == [id |-> NewId, use |-> use, pepper |-> server.pepper]
-----------------------------------------------------------------------------
\* The guards: allowed hosts, a dns.seed that can be read, the CA.
NetboxBegins(valid) ==
    /\ Idle /\ UNCHANGED <<nbVars, loc>>
    /\ \/ valid /\ Begins("netbox", "pepper") /\ UNCHANGED <<verdict, budget>>
       \/ ~valid /\ Spend("config") /\ Ends("netbox", "config")
       \/ valid /\ Spend("outside") /\ Ends("netbox", "not ready")

\* resolveNetboxPepper: an existing file wins and must be long enough; a new
\* one is opened, then written.
KeepPepper ==
    /\ On("netbox", "pepper") /\ secret.pepper # 0 /\ UNCHANGED nbVars
    /\ IF secret.pepper = Torn THEN Fails("pepper") ELSE Goes("down") /\ UNCHANGED loc
OpenPepper ==
    /\ NB("pepper", "pepper write") /\ secret.pepper = 0 /\ secret' = [secret EXCEPT !.pepper = Torn]
    /\ UNCHANGED <<server, db, file, sync, zone, conf, loc>>
WritePepper ==
    /\ NB("pepper write", "down")
    /\ secret' = [pepper |-> secret.made + 1, made |-> secret.made + 1]
    /\ UNCHANGED <<server, db, file, sync, zone, conf, loc>>

\* A `compose down` that fails is logged and swallowed: what runs goes on running.
StackDown ==
    /\ On("netbox", "down") /\ at' = "up" /\ UNCHANGED <<op, verdict>>
    /\ \/ server' = [server EXCEPT !.up = FALSE] /\ UNCHANGED budget
       \/ Spend("docker") /\ UNCHANGED server
    /\ UNCHANGED <<secret, db, file, sync, zone, conf, loc>>
\* The pepper is in the compose file, so that a server left running with another one is
\* replaced.  The first start on an empty database makes the superuser.
StackUp ==
    /\ NB("up", "wait") /\ server' = [up |-> TRUE, pepper |-> secret.pepper]
    /\ db' = IF db.superuser = 0 THEN [db EXCEPT !.superuser = conf.password] ELSE db
    /\ UNCHANGED <<secret, file, sync, zone, conf, loc>>
WaitReady ==
    /\ On("netbox", "wait") /\ UNCHANGED nbVars
    /\ (Goes("seeding") /\ UNCHANGED loc) \/ Outside

\* provisionToken with the superuser's password.
SeedingToken ==
    /\ On("netbox", "seeding")
    /\ IF db.superuser = conf.password
         THEN /\ Fresh # {} /\ Goes("inventory") /\ loc' = [loc EXCEPT !.auth = NewId]
              /\ db' = [db EXCEPT !.tokens = @ \cup {NewToken("seeding")}]
         ELSE Fails("login") /\ UNCHANGED db
    /\ UNCHANGED <<secret, server, file, sync, zone, conf>>
-----------------------------------------------------------------------------
\* seedNetbox: what is missing is created in the order of the references.
Missing(s, set) == {i \in DOMAIN s : s[i] \notin set}
FirstMissing(s, set) == s[CHOOSE i \in Missing(s, set) : \A j \in Missing(s, set) : i <= j]
SeedInventory ==
    /\ On("netbox", "inventory")
    /\ IF Missing(Inventory, db.objects) = {}
         THEN Goes("host prefix") /\ UNCHANGED db
         ELSE Goes("inventory") /\ db' = [db EXCEPT !.objects = @ \cup {FirstMissing(Inventory, @)}]
    /\ UNCHANGED <<secret, server, file, sync, zone, conf, loc>>
\* The host's own prefix and address; an address that exists takes the name.
HostPrefix ==
    /\ NB("host prefix", "host address") /\ db' = [db EXCEPT !.prefixes = @ \cup {NetworkOf(conf.host)}]
    /\ UNCHANGED <<secret, server, file, sync, zone, conf, loc>>
HostAddress ==
    /\ NB("host address", "services") /\ db' = [db EXCEPT !.ipam[conf.host] = Lab]
    /\ UNCHANGED <<secret, server, file, sync, zone, conf, loc>>
SeedServices ==
    /\ NB("services", "seed") /\ db' = [db EXCEPT !.objects = @ \cup {"services"}]
    /\ loc' = [loc EXCEPT !.todo = conf.seed]
    /\ UNCHANGED <<secret, server, file, sync, zone, conf>>

\* An address that has an object keeps its name.
NameAfter(a, n) == IF db.ipam[a] = 0 THEN n ELSE db.ipam[a]
LacksPrefix(a) == a \notin Plain /\ NetworkOf(a) \notin db.prefixes
\* ensureSeedIPAddress: the record's prefix, then its address; the first record
\* of an address in the file gives it its name.
SeedRecord ==
    /\ On("netbox", "seed")
    /\ IF loc.todo = <<>>
         THEN Goes("token") /\ loc' = [loc EXCEPT !.use = "sync"] /\ UNCHANGED db
         ELSE LET a == Head(loc.todo).addr IN
              IF LacksPrefix(a)
                THEN Goes("seed") /\ db' = [db EXCEPT !.prefixes = @ \cup {NetworkOf(a)}] /\ UNCHANGED loc
                ELSE /\ Goes("seed") /\ loc' = [loc EXCEPT !.todo = Tail(@)]
                     /\ db' = [db EXCEPT !.ipam[a] = NameAfter(a, Head(loc.todo).name)]
    /\ UNCHANGED <<secret, server, file, sync, zone, conf>>
-----------------------------------------------------------------------------
\* The two tokens that go to files, each for its use in turn: dns-sync's, then
\* the dashboard's, whose user has to be there first.
NextUse == IF loc.use = "sync" THEN "dash" ELSE "none"
AfterToken == IF loc.use = "sync" THEN "token" ELSE "retire seeding"
Stored == file[loc.use]
ReadsIPAM == loc.use = "dash" => Missing(PanelParts, db.panel) = {}

\* A stored token that NetBox accepts is kept.  One that it rejects is replaced,
\* and so is one whose probe gets no answer.
\* Mutant: a token that is in its file is not tried.
KeepToken_Untried ==
    /\ NB("token", AfterToken) /\ Stored # 0
    /\ loc' = [loc EXCEPT !.use = NextUse] /\ UNCHANGED nbVars
KeepToken ==
    /\ NB("token", AfterToken) /\ Accepted(Stored) /\ ReadsIPAM
    /\ loc' = [loc EXCEPT !.use = NextUse] /\ UNCHANGED nbVars
ReplaceToken ==
    /\ On("netbox", "token") /\ UNCHANGED <<op, verdict, nbVars, loc>>
    /\ at' = IF loc.use = "sync" THEN "retire" ELSE "panel"
    /\ IF Accepted(Stored) /\ ReadsIPAM THEN Spend("unreachable") ELSE UNCHANGED budget
\* Group, permission on prefixes and addresses, user: ensured in this order.
Panel ==
    /\ On("netbox", "panel")
    /\ IF Missing(PanelParts, db.panel) = {}
         THEN Goes("retire") /\ UNCHANGED db
         ELSE Goes("panel") /\ db' = [db EXCEPT !.panel = @ \cup {FirstMissing(PanelParts, @)}]
    /\ UNCHANGED <<secret, server, file, sync, zone, conf, loc>>

Of(use) == {t \in db.tokens : t.use = use}
Retired(use) == db.tokens \ Of(use)
\* Earlier tokens of the use are deleted, as far as NetBox lets them.
RetireOld ==
    /\ On("netbox", "retire") /\ at' = "mint" /\ UNCHANGED <<op, verdict>>
    /\ \/ db' = [db EXCEPT !.tokens = Retired(loc.use)] /\ UNCHANGED budget
       \/ Spend("unretired") /\ UNCHANGED db
    /\ UNCHANGED <<secret, server, file, sync, zone, conf, loc>>
Mint ==
    /\ NB("mint", "probe") /\ Fresh # {} /\ loc' = [loc EXCEPT !.minted = NewId]
    /\ db' = [db EXCEPT !.tokens = @ \cup {NewToken(loc.use)}]
    /\ UNCHANGED <<secret, server, file, sync, zone, conf>>
Probe ==
    /\ On("netbox", "probe") /\ UNCHANGED nbVars
    /\ \/ Accepted(loc.minted) /\ ReadsIPAM /\ Goes("open") /\ UNCHANGED loc
       \/ Spend("unreachable") /\ Finish("failed")
OpenToken ==
    /\ NB("open", "write") /\ file' = [file EXCEPT ![loc.use] = 0]
    /\ UNCHANGED <<secret, server, db, sync, zone, conf, loc>>
WriteToken ==
    /\ NB("write", AfterToken) /\ file' = [file EXCEPT ![loc.use] = loc.minted]
    /\ loc' = [loc EXCEPT !.minted = 0, !.use = NextUse]
    /\ UNCHANGED <<secret, server, db, sync, zone, conf>>

\* Last, the seeding tokens are deleted with the very token that is one of them:
\* those that come after it in NetBox's list stay.
RetireSeeding ==
    /\ On("netbox", "retire seeding")
    /\ \/ /\ \E gone \in SUBSET Of("seeding") :
               /\ \E t \in gone : t.id = loc.auth
               /\ db' = [db EXCEPT !.tokens = @ \ gone]
          /\ Fails("ok")
       \/ Spend("unretired") /\ Finish("ok") /\ UNCHANGED db
    /\ UNCHANGED <<secret, server, file, sync, zone, conf>>

\* Remove: the stack and its files; the data and the secrets stay, and so does the stack
\* when `down` fails or finds no compose file any more.
NetboxRemoved ==
    /\ Idle /\ Spend("remove") /\ verdict' = [verdict EXCEPT !["netbox"] = "removed"]
    /\ server' \in {server, [server EXCEPT !.up = FALSE]}
    /\ UNCHANGED <<op, at, secret, db, file, sync, zone, conf, loc>>

NetboxStep == \/ KeepPepper \/ OpenPepper \/ WritePepper \/ StackDown \/ StackUp \/ WaitReady
              \/ SeedingToken \/ SeedInventory \/ HostPrefix \/ HostAddress \/ SeedServices \/ SeedRecord
              \/ KeepToken \/ ReplaceToken \/ Panel \/ RetireOld \/ Mint \/ Probe \/ OpenToken \/ WriteToken
              \/ RetireSeeding
-----------------------------------------------------------------------------
\* The deployment of dns-sync: configuration, NetBox and Technitium answering,
\* both token files there and not empty.
SyncBegins(valid) ==
    /\ Idle /\ UNCHANGED <<nbVars, loc>>
    /\ \/ ~valid /\ Spend("config") /\ Ends("dns-sync", "config")
       \/ valid /\ server.up /\ Spend("outside") /\ Ends("dns-sync", "not ready")
       \/ /\ valid /\ ~server.up
          /\ Ends("dns-sync", "not ready") /\ UNCHANGED budget
       \/ /\ valid /\ server.up /\ UNCHANGED budget
          /\ IF file.sync # 0 THEN Begins("dns-sync", "build") /\ UNCHANGED verdict
                              ELSE Ends("dns-sync", "no token")
\* Mutant: dns-seed goes through the file once, addresses first.
ImportOrder_AddressesFirst == <<"import addresses", "import prefixes">>
\* dns-seed goes through the file twice, prefixes first, with the token of the
\* file; of the names a file gives an address the smallest is taken.
ImportOrder == <<"import prefixes", "import addresses">>
BuildImage ==
    /\ On("dns-sync", "build") /\ UNCHANGED nbVars
    /\ \/ Outside
       \/ /\ Goes(IF conf.seed = <<>> THEN "render" ELSE ImportOrder[1])
          /\ loc' = [loc EXCEPT !.todo = conf.seed]

NameIn(s, a) ==
    CHOOSE n \in 1 .. Names : /\ [addr |-> a, name |-> n] \in ToSet(s)
                              /\ \A r \in ToSet(s) : r.addr = a => n <= r.name
Import(pass) ==
    /\ On("dns-sync", ImportOrder[pass]) /\ UNCHANGED <<secret, server, file, sync, zone, conf>>
    /\ IF ~Accepted(file.sync) THEN Fails("failed") /\ UNCHANGED db
       ELSE IF loc.todo = <<>>
         THEN /\ Goes(IF pass = 1 THEN ImportOrder[2] ELSE "render")
              /\ loc' = [loc EXCEPT !.todo = IF pass = 1 THEN conf.seed ELSE <<>>] /\ UNCHANGED db
         ELSE LET a == Head(loc.todo).addr IN
              /\ Goes(at) /\ loc' = [loc EXCEPT !.todo = Tail(@)]
              /\ db' = IF at = "import prefixes"
                         THEN [db EXCEPT !.prefixes = IF a \in Plain THEN @ ELSE @ \cup {NetworkOf(a)}]
                         ELSE [db EXCEPT !.ipam[a] = NameAfter(a, NameIn(conf.seed, a))]
SyncRender == DS("render", "down") /\ UNCHANGED <<nbVars, loc>>
SyncDown ==
    /\ On("dns-sync", "down") /\ at' = "up" /\ UNCHANGED <<op, verdict>>
    /\ \/ sync' = NoSync /\ UNCHANGED budget
       \/ Spend("docker") /\ UNCHANGED sync
    /\ UNCHANGED <<secret, server, db, file, zone, conf, loc>>
\* `up -d` leaves a container that is there as it is, with the token it has read, unless its
\* compose file changed.
SyncUp ==
    /\ DS("up", "verify") /\ sync' \in {[up |-> TRUE, tok |-> 0]} \cup (IF sync.up THEN {sync} ELSE {})
    /\ UNCHANGED <<secret, server, db, file, zone, conf, loc>>
\* The deployment ends well when Technitium has an answer for the lab's names,
\* and fails when it still has none after the wait.
SyncVerify ==
    /\ On("dns-sync", "verify") /\ UNCHANGED nbVars
    /\ \/ zone /\ Fails("ok")
       \/ ~zone /\ sync.tok # 0 /\ ~Accepted(sync.tok) /\ Fails("failed")
       \/ ~zone /\ Outside
SyncRemoved ==
    /\ Idle /\ Spend("remove") /\ verdict' = [verdict EXCEPT !["dns-sync"] = "removed"]
    /\ sync' \in {sync, NoSync}
    /\ UNCHANGED <<op, at, secret, server, db, file, zone, conf, loc>>
SyncStep == \/ BuildImage \/ (\E pass \in 1 .. 2 : Import(pass)) \/ SyncRender \/ SyncDown \/ SyncUp \/ SyncVerify

\* The container reads its token once, when it starts, and is restarted until
\* there is one; each of its passes needs NetBox to accept it.
SyncStarts ==
    /\ sync.up /\ sync.tok = 0 /\ file.sync # 0 /\ sync' = [sync EXCEPT !.tok = file.sync]
    /\ UNCHANGED <<runVars, secret, server, db, file, zone, conf, loc>>
Reconciles ==
    /\ sync.up /\ Accepted(sync.tok) /\ ~zone /\ zone' = TRUE
    /\ UNCHANGED <<runVars, secret, server, db, file, sync, conf, loc>>
-----------------------------------------------------------------------------
\* The operator and the machine, between deployments.
Stale(v) == [v EXCEPT !["netbox"] = IF @ = "ok" THEN "changed" ELSE @]
WipeDB ==
    /\ Spend("wipe db") /\ db' = EmptyDB /\ server' = [server EXCEPT !.up = FALSE]
    /\ UNCHANGED <<secret, file, sync, zone, conf>>
WipePepper ==
    /\ Spend("wipe pepper") /\ secret.made < MaxPepper /\ secret' = [secret EXCEPT !.pepper = 0]
    /\ UNCHANGED <<server, db, file, sync, zone, conf>>
WipeZone ==
    /\ Spend("wipe zone") /\ zone' = FALSE
    /\ UNCHANGED <<secret, server, db, file, sync, conf>>
Reconfigure ==
    /\ Spend("settings") /\ UNCHANGED <<secret, server, db, file, sync, zone>>
    /\ \/ \E h \in Address \ (Plain \cup {conf.host}) : conf' = [conf EXCEPT !.host = h]
       \/ \E s \in SeedFiles \ {conf.seed} : conf' = [conf EXCEPT !.seed = s]
       \/ conf' = [conf EXCEPT !.password = 3 - @]
Between ==
    /\ Idle /\ UNCHANGED <<op, at, loc>> /\ verdict' = Stale(verdict)
    /\ WipeDB \/ WipePepper \/ WipeZone \/ Reconfigure
\* A pepper file that was cut while it was written is deleted.
ObeysPepper ==
    /\ Idle /\ verdict["netbox"] = "pepper" /\ secret' = [secret EXCEPT !.pepper = 0]
    /\ verdict' = [verdict EXCEPT !["netbox"] = "changed"]
    /\ UNCHANGED <<op, at, budget, server, db, file, sync, zone, conf, loc>>
Reboot ==
    /\ Spend("reboot") /\ sync.up /\ sync' = [sync EXCEPT !.tok = 0]
    /\ UNCHANGED <<op, at, verdict, secret, server, db, file, zone, conf, loc>>

RedeploysNetbox == verdict["netbox"] \notin {"ok", "removed", "pepper"} /\ NetboxBegins(TRUE)
RedeploysSync ==
    /\ verdict["dns-sync"] \notin {"ok", "removed"} /\ verdict["netbox"] = "ok"
    /\ SyncBegins(TRUE)

Next == \/ (\E valid \in BOOLEAN : NetboxBegins(valid) \/ SyncBegins(valid))
        \/ NetboxStep \/ NetboxRemoved \/ SyncStep \/ SyncRemoved \/ SyncStarts \/ Reconciles
        \/ Cut \/ Between \/ ObeysPepper \/ Reboot
Spec == Init /\ [][Next]_vars

\* The deployment's statements, the container and its passes go on; the
\* operator deploys again whatever did not end well.
Fairness ==
    /\ WF_vars(NetboxStep) /\ WF_vars(SyncStep) /\ WF_vars(SyncStarts) /\ WF_vars(Reconciles)
    /\ SF_vars(ObeysPepper) /\ SF_vars(RedeploysNetbox) /\ SF_vars(RedeploysSync)
FairSpec == Spec /\ Fairness
-----------------------------------------------------------------------------
Times(d) == IF d \in Disturbance THEN MaxOf[d] - budget.left[d] ELSE 0
Verdict == {"none", "ok", "failed", "removed", "changed", "config", "not ready", "no token", "pepper", "login"}
Use == {"seeding", "sync", "dash"}
Id == 0 .. MaxToken

\* Every variable keeps its type.
TypeOK ==
    /\ op \in Service \cup {"none"} /\ verdict \in [Service -> Verdict] /\ (at = "idle" <=> Idle)
    /\ budget \in [left : [Disturbance -> Nat], all : Nat] /\ \A d \in Disturbance : budget.left[d] <= MaxOf[d]
    /\ secret \in [pepper : 0 .. Torn, made : 0 .. MaxPepper]
    /\ server \in [up : BOOLEAN, pepper : 0 .. MaxPepper]
    /\ db \in [tokens : SUBSET [id : Id \ {0}, use : Use, pepper : 1 .. MaxPepper],
               objects : SUBSET (ToSet(Inventory) \cup {"services"}), panel : SUBSET ToSet(PanelParts),
               prefixes : SUBSET {NetworkOf(a) : a \in Address}, ipam : [Address -> 0 .. Lab], superuser : 0 .. 2]
    /\ file \in [sync : Id, dash : Id] /\ sync \in [up : BOOLEAN, tok : Id]
    /\ zone \in BOOLEAN /\ conf \in [host : Address \ Plain, seed : SeedFiles, password : 1 .. 2]
    /\ loc \in [auth : Id, minted : Id, use : Use \cup {"none"}, todo : Seq([addr : Address, name : 1 .. Names])]
    /\ (Idle => loc = NoLocals)

\* What a successful NetBox deployment put into IPAM stays while nothing is
\* wiped or reconfigured, whatever later imports bring: the host's address has
\* the canonical name, and every seed record an object (netbox.go:317-319).
CanonicalNameIsKept ==
    verdict["netbox"] = "ok" =>
        /\ db.ipam[conf.host] = Lab
        /\ \A r \in ToSet(conf.seed) : db.ipam[r.addr] # 0

\* An address with a mask is never in IPAM without its prefix, wherever an
\* import is cut (the order of netbox.go:240-263 and 320-339, and of dns-seed).
AddressHasPrefix == \A a \in Address \ Plain : db.ipam[a] # 0 => NetworkOf(a) \in db.prefixes

\* What the two importers write together is whole.
InventoryIsKept == TypeOK /\ CanonicalNameIsKept /\ AddressHasPrefix

\* A NetBox deployment that reports success leaves what its two readers use:
\* token files that NetBox accepts now and a dashboard user that may read IPAM.
NetboxSuccessIsUsable ==
    [][op = "netbox" /\ op' = "none" /\ verdict'["netbox"] = "ok"
         => Accepted(file.sync)' /\ Accepted(file.dash)' /\ Missing(PanelParts, db'.panel) = {}]_vars

\* Live credentials do not accumulate over redeployments (netbox.go:98-100): of
\* a use that goes to a file there is one, and a seeding token outlives its
\* deployment only when it was interrupted or NetBox did not delete it.
TokensDoNotAccumulate ==
    /\ \A use \in {"sync", "dash"} :
          Cardinality(Of(use)) <= 1 + Times("unretired")
    /\ Idle => Cardinality(Of("seeding")) <= Times("cut") + Times("unreachable") + Times("unretired")

\* The tokens: what is in the files is accepted, and nothing else is left behind.
\* A dns-sync that runs with a token NetBox rejects is explained: a probe that
\* got no answer made a deployment replace a good token, or the operator wiped
\* the pepper or the database.  Redeployments, cuts and restarts do not do it.
TokensAreSound ==
    /\ NetboxSuccessIsUsable /\ []TokensDoNotAccumulate
    /\ [](server.up /\ sync.tok # 0 /\ ~Accepted(sync.tok)
             => Spent({"unreachable", "wipe pepper", "wipe db"}))

\* Deploying again heals both, but for a superuser's password that was changed
\* in the configuration only (netbox.go:85-88).
RetriesHeal ==
    <>[](\/ db.superuser \notin {0, conf.password}
         \/ /\ verdict["netbox"] \in {"ok", "removed"}
            /\ verdict["netbox"] = "ok" => verdict["dns-sync"] \in {"ok", "removed"})
=============================================================================
