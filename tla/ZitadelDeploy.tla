---------------------------- MODULE ZitadelDeploy ----------------------------
(***************************************************************************)
(* The deployment of Zitadel (deploy/zitadel.go): a stack like the others, *)
(* then the objects of one organisation per tenant, made through its API   *)
(* with a token that only the first start on an empty database writes.     *)
(* Zitadel makes up the client's id and secret, and returns them once: the *)
(* deployment keeps them in a file per tenant.                             *)
(***************************************************************************)
EXTENDS ServiceDeployers, FiniteSets

CONSTANTS Tenant, Default,  \* tenants; the default organisation, for no tenants at all
          TenantLists,      \* ZITADEL_TENANTS as it is and as it may become
          Label, LabelOf,   \* what sanitizeFileLabel makes of a tenant
          MaxOrg            \* numbers enough for the organisations alive or remembered

ASSUME ZitadelAssumption ==
    /\ Default \in Tenant /\ "none" \notin Tenant /\ MaxOrg \in Nat \ {0} /\ LabelOf \in [Tenant -> Label]
    /\ TenantLists \in [1 .. 2 -> Seq(Tenant)]

VARIABLES inst,  \* the instance in the database; "half" while its first start goes on
          pat,   \* machinekey/pat.txt holds the token of the instance
          org,   \* the organisations: whose they are and what they have
          cf,    \* the client files of either name: the organisation whose client they name
          cur    \* the organisation the deployment is at
zVars == <<inst, pat, org, cf, cur>>
svars == <<dvars, zVars>>
-----------------------------------------------------------------------------
Parts == {"project", "role", "app", "user", "grant"}
NoOrg == [tenant |-> "none", has |-> {}]
NoOrgs == [i \in 1 .. MaxOrg |-> NoOrg]
TornFile == MaxOrg + 1
\* The path of a client file has ZITADEL_FQDN in it, and the label of the tenant.
ClientFile == (1 .. 2) \X Label
ZitadelInit ==
    inst = "none" /\ pat = FALSE /\ org = NoOrgs /\ cf = [f \in ClientFile |-> 0] /\ cur = 0

\* provisionZitadelOrg for each tenant; with no tenants, for the default one.
ConfTenants == IF TenantLists[conf.tenants] = <<>> THEN <<Default>> ELSE TenantLists[conf.tenants]
TenantSteps(t) == <<<<"org", t>>, <<"project", t>>, <<"role", t>>, <<"client", t>>, <<"open client", t>>,
                    <<"write client", t>>, <<"user", t>>, <<"grant", t>>>>
Provisioning == [i \in 1 .. 8 * Len(ConfTenants) |->
                     TenantSteps(ConfTenants[1 + (i - 1) \div 8])[1 + ((i - 1) % 8)]]
ZitadelSteps == <<<<"vars">>, <<"ca">>>> \o Restart \o <<<<"pat">>, <<"api">>>> \o Provisioning

\* The first start makes the instance and its default organisation, and then
\* writes the token.
OrgsOf(t) == {i \in DOMAIN org : org[i].tenant = t}
FreeOrgs == {i \in OrgsOf("none") : \A f \in ClientFile : cf[f] # i}
NewOrg == CHOOSE i \in FreeOrgs : \A j \in FreeOrgs : i <= j
WithOrg(t) == [org EXCEPT ![NewOrg] = [tenant |-> t, has |-> {}]]
FirstStart ==
    /\ svc = "zitadel" /\ main.env # 0 /\ UNCHANGED <<dvars, cf, cur>>
    /\ \/ inst = "none" /\ FreeOrgs # {} /\ inst' = "half" /\ org' = WithOrg(Default) /\ UNCHANGED pat
       \/ inst = "half" /\ inst' = "whole" /\ pat' = TRUE /\ UNCHANGED org
\* It is not made good when it is interrupted.
Interrupted == inst' = IF inst = "half" THEN "stuck" ELSE inst
-----------------------------------------------------------------------------
\* Restart has waited for /debug/ready.  The token is read then, and the Management API,
\* which answers later, is waited for with it: readZitadelPAT, waitAPIReady.
ReadPAT ==
    /\ Now("pat") /\ HostKept /\ UNCHANGED zVars
    /\ IF pat THEN Done
       ELSE IF inst \in {"whole", "stuck"} THEN Fails("pat") ELSE Outside("failed")
WaitAPI == Now("api") /\ HostKept /\ (Done \/ Outside("failed")) /\ UNCHANGED zVars

\* ensureZitadelOrg: names are not unique in Zitadel, so it looks first.  A
\* search that is answered with an error has found nothing.
Found(t) == OrgsOf(t)
EnsureOrg ==
    /\ Now("org") /\ HostKept /\ UNCHANGED <<inst, pat, cf>>
    /\ \/ \E i \in IF What = Default THEN OrgsOf(Default) ELSE Found(What) :
            Done /\ cur' = i /\ UNCHANGED org
       \/ /\ What # Default /\ FreeOrgs # {} /\ org' = WithOrg(What)
          /\ \/ Found(What) = {} /\ Done /\ cur' = NewOrg
             \/ /\ Found(What) # {} /\ Spend("search") /\ cur' = NewOrg /\ todo' = Tail(todo)
                /\ UNCHANGED <<op, at, verdict, svc, conf>>
             \/ Found(What) = {} /\ Spend("lost") /\ Stops("failed") /\ UNCHANGED cur

\* Project, role, user and grant: created, and one that exists is as good.
\* Mutant: the role that exists is an error.
Tolerates_NotRole(part) == part # "role"
Tolerates(part) == TRUE
EnsurePart(part) ==
    /\ Now(part) /\ HostKept /\ UNCHANGED <<inst, pat, cf, cur>>
    /\ \/ /\ part \notin org[cur].has /\ org' = [org EXCEPT ![cur].has = @ \cup {part}]
          /\ Done \/ (Spend("lost") /\ Stops("failed"))
       \/ /\ part \in org[cur].has /\ UNCHANGED org
          /\ IF Tolerates(part) THEN Done ELSE Fails("failed")
\* A user that exists is looked up for the grant; when that finds none, there is
\* no grant and no error.
UserNotFound ==
    /\ Now("user") /\ "user" \in org[cur].has /\ Spend("search") /\ HostKept
    /\ todo' = Tail(Tail(todo)) /\ UNCHANGED <<zVars, svc, conf>>
    /\ IF todo' = <<>> THEN Ends(svc, "ok") ELSE UNCHANGED <<op, at, verdict>>

\* The OIDC application: a client file that is there, whatever is in it, stands
\* for it.  Otherwise it is created, and one that exists is an error.
PathOf(t) == <<conf.fqdn, LabelOf[t]>>
FileOf(t) == cf[PathOf(t)]
SkipClient == Then(SubSeq(todo, 4, Len(todo)))
\* Mutant: the file is not looked for.
HasClient_Unasked == FALSE
HasClient == FileOf(What) # 0
Conflict == Fails("conflict")
CreateClient ==
    /\ Now("client") /\ HostKept /\ UNCHANGED <<inst, pat, cf, cur>>
    /\ IF HasClient THEN SkipClient /\ UNCHANGED org
       ELSE IF "app" \in org[cur].has THEN Conflict /\ UNCHANGED org
       ELSE /\ org' = [org EXCEPT ![cur].has = @ \cup {"app"}]
            /\ Done \/ (Spend("lost") /\ Stops("failed"))
OpenClient ==
    /\ Now("open client") /\ Done /\ HostKept
    /\ cf' = [cf EXCEPT ![PathOf(What)] = TornFile] /\ UNCHANGED <<inst, pat, org, cur>>
WriteClient ==
    /\ Now("write client") /\ Done /\ HostKept
    /\ cf' = [cf EXCEPT ![PathOf(What)] = cur] /\ UNCHANGED <<inst, pat, org, cur>>

ZitadelStep ==
    \/ ReadPAT \/ WaitAPI \/ EnsureOrg \/ (\E part \in Parts \ {"app"} : EnsurePart(part)) \/ UserNotFound
    \/ CreateClient \/ OpenClient \/ WriteClient
-----------------------------------------------------------------------------
\* What the message of a missing token says to do: stop the stack and remove the
\* database and machinekey.  The client files are elsewhere.
ObeysPAT ==
    /\ Idle /\ svc = "zitadel" /\ verdict[svc] = "pat" /\ verdict' = [verdict EXCEPT ![svc] = "failed"]
    /\ main' = NotRunning /\ data' = FALSE /\ inst' = "none" /\ pat' = FALSE /\ org' = NoOrgs
    /\ UNCHANGED <<op, at, budget, svc, conf, todo, files, comp, extra, objs, baked, cf, cur>>
LosesPAT ==
    /\ Idle /\ svc = "zitadel" /\ pat /\ Spend("lose pat") /\ pat' = FALSE /\ Changed
    /\ UNCHANGED <<op, at, svc, conf, todo, inst, org, cf, cur>> /\ HostKept
=============================================================================
