---------------------------- MODULE DnsReconcile ----------------------------
(***************************************************************************)
(* dns-sync: the loop that makes Technitium serve what NetBox and the      *)
(* control plane's configuration ask for, and the file through which a     *)
(* saved configuration reaches it.  Four parties move at the same time:    *)
(*                                                                         *)
(*  - the NetBox and DNS administrators, who edit behind the loop's back;  *)
(*  - the writers of the live file of built-in service names: one handler  *)
(*    per configuration save, and the deployment of dns-sync itself, all   *)
(*    of them through the same temporary file;                             *)
(*  - the dns-sync process, whose pass is a series of separate calls: the  *)
(*    pages of NetBox, the live file, the zones, the records of each zone, *)
(*    then one call per operation;                                         *)
(*  - faults: a call that fails, a call whose answer is lost, a process    *)
(*    that dies.                                                           *)
(*                                                                         *)
(* Names, addresses and rows are numbers (the order is the code's own:     *)
(* NetBox lists rows by address, a PTR takes the lowest name).  Within a   *)
(* phase of Apply the order of the operations is left open.                *)
(***************************************************************************)
EXTENDS Naturals, FiniteSets

CONSTANTS Row,          \* NetBox rows that may exist, in listing order
          AddrOf,       \* the address of a row
          NameOf,       \* the dns_name of a row
          PageSize,     \* rows per NetBox answer
          Service,      \* built-in names the configuration may publish
          Core,         \* those that every configuration publishes
          Scrap,        \* the name that the end of a line leaves of a longer one
          Host,         \* HOST_IPV4
          Saver,        \* handlers that save the configuration
          Deployer,     \* the deployment of dns-sync, as a writer of the file
          MaxSaves, MaxSkips, MaxEdits, MaxFaults, MaxDeploys, MaxCrashes, MaxCpCrashes, MaxAll

ASSUME DnsAssumption ==
    /\ Row \subseteq Nat /\ IsFiniteSet(Row)
    /\ AddrOf \in [Row -> Nat \ {0}] /\ NameOf \in [Row -> Nat]
    /\ PageSize \in Nat \ {0}
    /\ Service \subseteq Nat /\ Core \subseteq Service /\ Core # {}
    /\ Scrap \in Nat \ Service
    /\ Host \in Nat \ {0}
    /\ Deployer \notin Saver
    /\ {MaxSaves, MaxSkips, MaxEdits, MaxFaults, MaxDeploys, MaxCrashes, MaxCpCrashes, MaxAll} \subseteq Nat

VARIABLES netbox,     \* the rows NetBox holds
          config,     \* the names the saved configuration publishes
          writer,     \* one record per writer of the live file
          alone,      \* nothing has come between the last save and its file (history)
          tmp, live,  \* the content of builtin-records.tmp and builtin-records
          static,     \* DNS_SYNC_BUILTIN_RECORDS of the running container
          lastGood,   \* the process's last good set of names, {} when none
          pass,       \* the pass under way
          kept,       \* rows NetBox has held since the pass began (history)
          shifted,    \* a row went from a page the pass had read (history)
          zones, recs,\* what Technitium serves
          granted,    \* zones the dashboard user may view
          budget      \* what the environment may still do
vars == <<netbox, config, writer, alone, tmp, live, static, lastGood, pass, kept, shifted,
          zones, recs, granted, budget>>
cpVars   == <<config, writer, alone, tmp, live, static>>
dnsVars  == <<zones, recs, granted>>

Writer == Saver \cup {Deployer}
Configs == {s \in SUBSET Service : Core \subseteq s}

(***************************************************************************)
(* Records.  Every forward name lives in the one lab zone, every PTR in    *)
(* the reverse zone of its address.                                        *)
(***************************************************************************)
A(n, a)   == [type |-> "A", name |-> n, addr |-> a]
PTR(a, n) == [type |-> "PTR", name |-> n, addr |-> a]
ForwardZone == 0
ZoneOf(r) == IF r.type = "A" THEN ForwardZone ELSE r.addr

Addr == {AddrOf[i] : i \in Row} \cup {Host}
Name == {NameOf[i] : i \in Row} \cup Service \cup {Scrap}
Record == {A(n, a) : n \in Name, a \in Addr} \cup {PTR(a, n) : n \in Name, a \in Addr}
Zone == {ForwardZone} \cup Addr

BuildRecords(rows) ==
    {A(NameOf[i], AddrOf[i]) : i \in rows}
    \cup {PTR(AddrOf[i], NameOf[i]) :
             i \in {j \in rows : \A k \in rows : AddrOf[k] = AddrOf[j] => NameOf[j] <= NameOf[k]}}
Builtins(names) == {A(n, Host) : n \in names}
Zones(rs) == {ZoneOf(r) : r \in rs}

(***************************************************************************)
(* The live file.  A slot holds what a reader makes of its bytes: a set of *)
(* names, or one of three contents that are not a set: no file, a file     *)
(* opened with O_TRUNC and not written yet, and a file two writers wrote   *)
(* over one another so that it does not parse.                             *)
(***************************************************************************)
Texts == {s \in SUBSET (Service \cup {Scrap}) : Core \subseteq s}
NoFile == [kind |-> "absent", names |-> {}]
Truncated == [kind |-> "empty", names |-> {}]
Torn(s) == [kind |-> "torn", names |-> s]
Whole(s) == [kind |-> "whole", names |-> s]
Content == {NoFile, Truncated} \cup {Torn(s) : s \in Texts} \cup {Whole(s) : s \in Texts}

Idle == [at |-> "idle", env |-> {}, fd |-> "none"]
Resting == [at |-> "idle", offset |-> 0, got |-> {}, want |-> {}, seen |-> {}, unread |-> {},
            have |-> {}, ensure |-> {}, granting |-> {}, create |-> {}, delete |-> {}]

Init ==
    /\ netbox \in SUBSET Row
    /\ config \in Configs
    /\ writer = [w \in Writer |-> Idle] /\ alone = TRUE
    /\ tmp = NoFile /\ live = Whole(config)
    /\ static = config /\ lastGood = {}
    /\ pass = Resting /\ kept = {} /\ shifted = FALSE
    /\ zones = {} /\ recs = {} /\ granted = {}
    /\ budget = [saves |-> MaxSaves, skips |-> MaxSkips, edits |-> MaxEdits, faults |-> MaxFaults,
                 deploys |-> MaxDeploys, crashes |-> MaxCrashes, cpCrashes |-> MaxCpCrashes, all |-> MaxAll]

Spend(b) ==
    /\ budget[b] > 0 /\ budget.all > 0
    /\ budget' = [budget EXCEPT ![b] = @ - 1, !.all = @ - 1]

(***************************************************************************)
(* NetBox and Technitium are edited by people and by other tools.          *)
(***************************************************************************)
Rank(i) == Cardinality({j \in netbox : j <= i})

AddRow(i) ==
    /\ i \notin netbox /\ Spend("edits")
    /\ netbox' = netbox \cup {i}
    /\ UNCHANGED <<cpVars, dnsVars, lastGood, pass, kept, shifted>>

RemoveRow(i) ==
    /\ i \in netbox /\ Spend("edits")
    /\ netbox' = netbox \ {i}
    /\ kept' = kept \ {i}
    /\ shifted' = (shifted \/ (pass.at = "rows" /\ Rank(i) <= pass.offset))
    /\ UNCHANGED <<cpVars, dnsVars, lastGood, pass>>

DropRecord(r) ==
    /\ r \in recs /\ Spend("edits")
    /\ recs' = recs \ {r}
    /\ UNCHANGED <<cpVars, netbox, zones, granted, lastGood, pass, kept, shifted>>

DropZone(z) ==
    /\ z \in zones /\ Spend("edits")
    /\ zones' = zones \ {z} /\ granted' = granted \ {z}
    /\ recs' = {r \in recs : ZoneOf(r) # z}
    /\ UNCHANGED <<cpVars, netbox, lastGood, pass, kept, shifted>>

(***************************************************************************)
(* Writing the live file.  os.WriteFile opens the temporary file with      *)
(* O_TRUNC, then writes it; a descriptor follows its file, so a rename by  *)
(* another writer moves it from "tmp" to "live", and a second rename       *)
(* leaves it on a file that has no name.                                   *)
(***************************************************************************)
Goto(w, at) == writer' = [writer EXCEPT ![w].at = at]

OthersRest(w) == \A v \in Writer \ {w} : writer[v].at = "idle"

\* No lock orders two savers: each saves, then loads what is saved, then writes.
SaveConfig(w, s) ==
    /\ writer[w].at = "idle" /\ Spend("saves")
    /\ config' = s
    /\ Goto(w, "saved")
    /\ alone' = OthersRest(w)
    /\ UNCHANGED <<netbox, tmp, live, static, lastGood, pass, kept, shifted, dnsVars>>

\* The handler loads the file anew; the deployment uses the environment of its run.
LoadEnv(w) ==
    /\ IF w = Deployer THEN writer[w].at = "idle" /\ Spend("deploys") /\ alone' = (alone /\ OthersRest(w))
                       ELSE writer[w].at = "saved" /\ UNCHANGED <<alone, budget>>
    /\ writer' = [writer EXCEPT ![w] = [at |-> "loaded", env |-> config, fd |-> "none"]]
    /\ UNCHANGED <<netbox, config, tmp, live, static, lastGood, pass, kept, shifted, dnsVars>>

\* The refresh ends without a file: silently when the saved file cannot be loaded, no
\* HOST_IPV4 can be derived from it, or the directory is not there; with a line in the log
\* when the temporary file cannot be opened, written (the text is shorter than a block:
\* all of it or nothing) or renamed.  The deployment of dns-sync fails.
RefreshFails(w) ==
    /\ writer[w].at \in {"saved", "loaded", "opened", "written"} /\ Spend("skips")
    /\ writer' = [writer EXCEPT ![w] = Idle]
    /\ alone' = (alone /\ w = Deployer)
    /\ UNCHANGED <<netbox, config, tmp, live, static, lastGood, pass, kept, shifted, dnsVars>>

OpenTmp(w) ==
    /\ writer[w].at = "loaded"
    /\ tmp' = Truncated
    /\ writer' = [writer EXCEPT ![w].at = "opened", ![w].fd = "tmp"]
    /\ UNCHANGED <<netbox, config, alone, live, static, lastGood, pass, kept, shifted, dnsVars, budget>>

\* Over bytes another writer put there, a shorter text leaves a tail behind: lines of the
\* other, after what is left of the line it ends in - a name (the end of a longer one, with
\* its address) or something that does not parse.
Written(old, s) ==
    IF old.kind = "empty" \/ old = Whole(s) THEN {Whole(s)}
    ELSE {Torn(s \cup old.names)} \cup {Whole(s \cup tail) : tail \in SUBSET (old.names \cup {Scrap})}

WriteTmp(w) ==
    /\ writer[w].at = "opened"
    /\ \/ writer[w].fd = "tmp"  /\ tmp' \in Written(tmp, writer[w].env) /\ UNCHANGED live
       \/ writer[w].fd = "live" /\ live' \in Written(live, writer[w].env) /\ UNCHANGED tmp
       \/ writer[w].fd = "gone" /\ UNCHANGED <<tmp, live>>
    /\ Goto(w, "written")
    /\ UNCHANGED <<netbox, config, alone, static, lastGood, pass, kept, shifted, dnsVars, budget>>

AfterRename(fd) == IF fd = "tmp" THEN "live" ELSE IF fd = "live" THEN "gone" ELSE fd

RenameFails_Never == FALSE
RenameFails == tmp = NoFile

\* The rename fails when another writer has renamed the file away: the save logs it, the
\* deployment of dns-sync fails.
Rename(w) ==
    /\ writer[w].at = "written"
    /\ IF RenameFails
         THEN UNCHANGED <<tmp, live>> /\ writer' = [writer EXCEPT ![w] = Idle]
         ELSE /\ live' = tmp /\ tmp' = NoFile
              /\ writer' = [v \in Writer |->
                    IF v = w THEN [at |-> IF w = Deployer THEN "renamed" ELSE "idle",
                                   env |-> IF w = Deployer THEN writer[w].env ELSE {}, fd |-> "none"]
                             ELSE [writer[v] EXCEPT !.fd = AfterRename(@)]]
    /\ UNCHANGED <<netbox, config, alone, static, lastGood, pass, kept, shifted, dnsVars, budget>>

\* The control plane dies: the handlers and the deployment are gone where they stand.
CrashControlPlane ==
    /\ \E w \in Writer : writer[w].at # "idle"
    /\ Spend("cpCrashes")
    /\ writer' = [w \in Writer |-> Idle]
    /\ alone' = (alone /\ \A w \in Saver : writer[w].at = "idle")
    /\ UNCHANGED <<netbox, config, tmp, live, static, lastGood, pass, kept, shifted, dnsVars>>

(***************************************************************************)
(* The dns-sync process.                                                   *)
(***************************************************************************)
Restart == pass' = Resting /\ lastGood' = {} /\ kept' = {} /\ shifted' = FALSE
GiveUp  == pass' = Resting /\ kept' = {} /\ shifted' = FALSE

\* compose down, then up with the environment of the run.
Redeploy ==
    /\ writer[Deployer].at = "renamed"
    /\ static' = writer[Deployer].env
    /\ writer' = [writer EXCEPT ![Deployer] = Idle]
    /\ Restart
    /\ UNCHANGED <<netbox, config, alone, tmp, live, dnsVars, budget>>

CrashDnsSync ==
    /\ Spend("crashes") /\ Restart
    /\ UNCHANGED <<cpVars, netbox, dnsVars>>

Tick ==
    /\ pass.at = "idle"
    /\ pass' = [Resting EXCEPT !.at = "rows"]
    /\ kept' = netbox /\ shifted' = FALSE
    /\ UNCHANGED <<cpVars, netbox, lastGood, dnsVars, budget>>

NextOffset(o) == o + PageSize

Page(o) == {i \in netbox : o < Rank(i) /\ Rank(i) <= o + PageSize}
HasNext_Never(o) == FALSE
HasNext(o) == o + PageSize < Cardinality(netbox)

ReadPage ==
    /\ pass.at = "rows"
    /\ pass' = [pass EXCEPT !.got = @ \cup Page(pass.offset),
                            !.offset = IF HasNext(@) THEN NextOffset(@) ELSE 0,
                            !.at = IF HasNext(pass.offset) THEN @ ELSE "builtins"]
    /\ UNCHANGED <<cpVars, netbox, lastGood, kept, shifted, dnsVars, budget>>

Fallback_Nothing == lastGood
Fallback == IF lastGood # {} THEN lastGood ELSE static

ReadBuiltins ==
    /\ pass.at = "builtins"
    /\ \E readable \in BOOLEAN :
          /\ IF readable THEN UNCHANGED budget ELSE Spend("faults")
          /\ LET good  == readable /\ live.kind = "whole"
                 names == IF good THEN live.names ELSE Fallback
             IN /\ pass' = [pass EXCEPT !.want = BuildRecords(pass.got) \cup Builtins(names),
                                        !.got = {}, !.at = "zones"]
                /\ lastGood' = IF good THEN names ELSE lastGood
    /\ UNCHANGED <<cpVars, netbox, kept, shifted, dnsVars>>

EnsureOps(want, seen) == Zones(want) \ seen
CreateOps(want, have) == want \ have
DeleteOps_None(want, have) == {}
DeleteOps(want, have) == have \ want

\* Diff; a pass with nothing to do ends here.
Diff(p) ==
    LET e == EnsureOps(p.want, p.seen)
        c == CreateOps(p.want, p.have)
        d == DeleteOps(p.want, p.have)
    IN IF e = {} /\ c = {} /\ d = {} THEN Resting
       ELSE [Resting EXCEPT !.at = "apply", !.ensure = e, !.create = c, !.delete = d]

ListZones ==
    /\ pass.at = "zones"
    /\ LET p == [pass EXCEPT !.seen = zones, !.unread = zones, !.at = "records"]
       IN pass' = IF zones = {} THEN Diff(p) ELSE p
    /\ UNCHANGED <<cpVars, netbox, lastGood, kept, shifted, dnsVars, budget>>

ReadZone(z) ==
    /\ pass.at = "records" /\ z \in pass.unread
    /\ IF z \notin zones
         THEN GiveUp
         ELSE /\ LET p == [pass EXCEPT !.unread = @ \ {z}, !.have = @ \cup {r \in recs : ZoneOf(r) = z}]
                 IN pass' = IF p.unread = {} THEN Diff(p) ELSE p
              /\ UNCHANGED <<kept, shifted>>
    /\ UNCHANGED <<cpVars, netbox, lastGood, dnsVars, budget>>

(***************************************************************************)
(* Apply: every zone, then every create, then every delete; the first      *)
(* error ends the pass.                                                    *)
(***************************************************************************)
Applying == pass.at = "apply" /\ pass.granting = {}
NoOps(p) == p.ensure = {} /\ p.granting = {} /\ p.create = {} /\ p.delete = {}
Advance(p) == pass' = IF NoOps(p) THEN Resting ELSE p

\* "Zone already exists" is a success, without the grant.
EnsureZone(z) ==
    /\ Applying /\ z \in pass.ensure
    /\ zones' = zones \cup {z}
    /\ Advance([pass EXCEPT !.ensure = @ \ {z}, !.granting = IF z \in zones THEN {} ELSE {z}])
    /\ UNCHANGED <<cpVars, netbox, lastGood, kept, shifted, recs, granted, budget>>

\* Best effort: an error is logged and swallowed.
GrantDashboardZoneView ==
    /\ pass.at = "apply" /\ pass.granting # {}
    /\ \/ granted' = granted \cup (pass.granting \cap zones) /\ UNCHANGED budget
       \/ Spend("faults") /\ UNCHANGED granted
    /\ Advance([pass EXCEPT !.granting = {}])
    /\ UNCHANGED <<cpVars, netbox, lastGood, kept, shifted, zones, recs>>

AddRecord(r) ==
    /\ Applying /\ pass.ensure = {} /\ r \in pass.create
    /\ IF ZoneOf(r) \in zones
         THEN /\ recs' = recs \cup {r}
              /\ Advance([pass EXCEPT !.create = @ \ {r}])
              /\ UNCHANGED <<kept, shifted>>
         ELSE GiveUp /\ UNCHANGED recs
    /\ UNCHANGED <<cpVars, netbox, lastGood, zones, granted, budget>>

\* Deleting a record that is gone is an error of the DNS server.
DeleteRecord(r) ==
    /\ Applying /\ pass.ensure = {} /\ pass.create = {} /\ r \in pass.delete
    /\ IF r \in recs
         THEN /\ recs' = recs \ {r}
              /\ Advance([pass EXCEPT !.delete = @ \ {r}])
              /\ UNCHANGED <<kept, shifted>>
         ELSE GiveUp /\ UNCHANGED recs
    /\ UNCHANGED <<cpVars, netbox, lastGood, zones, granted, budget>>

\* A call fails: nothing was done, and the pass ends.
CallFails ==
    /\ pass.at \in {"rows", "zones", "records"} \/ Applying
    /\ Spend("faults") /\ GiveUp
    /\ UNCHANGED <<cpVars, netbox, lastGood, dnsVars>>

\* The server does what it is asked and the answer is lost: the pass ends all the same.
AnswerLost ==
    /\ Applying /\ Spend("faults") /\ GiveUp
    /\ \/ \E z \in pass.ensure : zones' = zones \cup {z} /\ UNCHANGED recs
       \/ /\ pass.ensure = {} /\ UNCHANGED zones
          /\ \E r \in pass.create : ZoneOf(r) \in zones /\ recs' = recs \cup {r}
       \/ /\ pass.ensure = {} /\ pass.create = {} /\ UNCHANGED zones
          /\ \E r \in pass.delete : recs' = recs \ {r}
    /\ UNCHANGED <<cpVars, netbox, lastGood, granted>>

Publish(w) == LoadEnv(w) \/ OpenTmp(w) \/ WriteTmp(w) \/ Rename(w)
PassStep ==
    \/ Tick \/ ReadPage \/ ReadBuiltins \/ ListZones \/ GrantDashboardZoneView
    \/ \E z \in Zone : ReadZone(z) \/ EnsureZone(z)
    \/ \E r \in Record : AddRecord(r) \/ DeleteRecord(r)
Edit ==
    \/ \E i \in Row : AddRow(i) \/ RemoveRow(i)
    \/ \E r \in Record : DropRecord(r)
    \/ \E z \in Zone : DropZone(z)
    \/ \E w \in Saver, s \in Configs : SaveConfig(w, s)

Next ==
    \/ \E w \in Writer : Publish(w) \/ RefreshFails(w)
    \/ Redeploy \/ PassStep \/ Edit
    \/ CallFails \/ AnswerLost \/ CrashDnsSync \/ CrashControlPlane

Spec == Init /\ [][Next]_vars

\* The loop ticks as long as the container runs, and a handler that has saved finishes.
\* No deployment needs to start; one that has started finishes.
Fairness ==
    /\ WF_vars(PassStep)
    /\ \A w \in Writer : WF_vars(writer[w].at # "idle" /\ Publish(w))
    /\ WF_vars(Redeploy)
FairSpec == Spec /\ Fairness

(***************************************************************************)
(* Properties.                                                             *)
(***************************************************************************)
PassType ==
    [at : {"idle", "rows", "builtins", "zones", "records", "apply"}, offset : Nat,
     got : SUBSET Row, want : SUBSET Record, seen : SUBSET Zone, unread : SUBSET Zone,
     have : SUBSET Record, ensure : SUBSET Zone, granting : SUBSET Zone,
     create : SUBSET Record, delete : SUBSET Record]

\* Every variable is in its type; a live file, once there, is never taken away, and a record
\* is served only from a zone that exists.
TypeOK ==
    /\ netbox \subseteq Row /\ kept \subseteq netbox /\ shifted \in BOOLEAN
    /\ config \in Configs /\ static \in Configs /\ lastGood \in Texts \cup {{}} /\ alone \in BOOLEAN
    /\ writer \in [Writer -> [at : {"idle", "saved", "loaded", "opened", "written", "renamed"},
                              env : Configs \cup {{}}, fd : {"none", "tmp", "live", "gone"}]]
    /\ tmp \in Content /\ live \in Content \ {NoFile}
    /\ pass \in PassType
    /\ zones \subseteq Zone /\ recs \subseteq Record /\ granted \subseteq zones
    /\ \A r \in recs : ZoneOf(r) \in zones

\* Whatever happens to the live file (two writers in it, a read that fails, a restart that
\* forgets the last good set), no pass ever decides to delete a name that every
\* configuration publishes.  Code: sourceWithBuiltins.currentBuiltins and its fallback.
NeverRetiresCore == \A n \in Core : A(n, Host) \notin pass.delete

\* A pass deletes the A record of a NetBox row only if the row was missing at some moment of
\* that pass, or if a row before it went away while the pages were being read (the offset
\* then skips one).  Code: Client.listIPs, Diff, Target.Apply.
DeletesWereGone ==
    shifted \/ \A i \in kept : A(NameOf[i], AddrOf[i]) \notin pass.delete

\* What dns-sync can know of the names to publish: the live file, or what it falls back on.
Published == IF live.kind = "whole" THEN live.names ELSE IF lastGood # {} THEN lastGood ELSE static

\* Nothing came between the creation of a zone and the grant that follows it.
GrantsWereUndisturbed ==
    \A b \in {<<"faults", MaxFaults>>, <<"deploys", MaxDeploys>>, <<"crashes", MaxCrashes>>} : budget[b[1]] = b[2]

\* Once people stop editing and calls stop failing, Technitium serves exactly what NetBox
\* and the published names ask for, whatever half-applied pass, lost answer or restart came
\* before; the published names are those of the saved configuration, unless another save, a
\* deployment or a crash met the last save, or its refresh found nothing to write to or
\* failed; and the dashboard may view every zone, unless a failed call or a restart
\* took the one chance of a grant, which no later pass repeats.  Code: Reconciler.Run,
\* Once, Diff, Target.Apply, ensureZone, RefreshBuiltinRecordsFile.
Converges ==
    <>[](/\ recs = BuildRecords(netbox) \cup Builtins(Published)
         /\ alone => Published = config
         /\ GrantsWereUndisturbed => granted = zones)
=============================================================================
