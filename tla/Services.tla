------------------------------ MODULE Services ------------------------------
(***************************************************************************)
(* The deployers behind the foundation, each on its own: what is deployed, *)
(* removed, edited and cut, and what has to be true of the host then.      *)
(***************************************************************************)
EXTENDS ZitadelDeploy

Init == DeployersInit(Simple \cup {"zitadel"}) /\ ZitadelInit

StepsOf == IF svc = "zitadel" THEN ZitadelSteps ELSE Steps[svc]
Redeploys == verdict[svc] \notin {"ok", "removed", "pat"} /\ Deploys(StepsOf) /\ UNCHANGED zVars
Statement ==
    \/ /\ DeployerStep /\ UNCHANGED <<pat, org, cf, cur>>
       /\ IF main.env # 0 /\ main'.env = 0 THEN Interrupted ELSE UNCHANGED inst
    \/ ZitadelStep
Next ==
    \/ Deploys(StepsOf) /\ UNCHANGED zVars
    \/ (Removes \/ Cut \/ Watch \/ Configures) /\ UNCHANGED zVars
    \/ Statement \/ FirstStart
    \/ Reboot /\ Interrupted /\ UNCHANGED <<pat, org, cf, cur>>
    \/ ObeysPAT \/ LosesPAT
Spec == Init /\ [][Next]_svars

\* A deployment's statements and the first start go on; the operator deploys
\* again what did not end well, and does what the message says.
Fairness == WF_svars(Statement) /\ WF_svars(FirstStart) /\ SF_svars(Redeploys) /\ SF_svars(ObeysPAT)
FairSpec == Spec /\ Fairness
-----------------------------------------------------------------------------
Times(d) == IF d \in Disturbance THEN MaxOf[d] - budget.left[d] ELSE 0
Ok == Idle /\ verdict[svc] = "ok"
Version == 0 .. Torn

\* Every variable keeps its type.
Verdicts == {"none", "ok", "removed", "failed", "changed", "config", "not ready", "login", "unreachable", "shape",
             "conflict", "pat"}
Config == [v : 1 .. 2, e : 1 .. 2, cred : 1 .. 2, valid : BOOLEAN, inside : BOOLEAN, extra : BOOLEAN,
           backup : {"none", "name", "loopback"}, tenants : 1 .. 2, fqdn : 1 .. 2]
TypeOK ==
    /\ svc \in Simple \cup {"zitadel"} /\ op \in {svc, "none"} /\ (Idle <=> todo = <<>>)
    /\ at \in {"idle", "deploy", "remove", "cancelled"} /\ verdict \in [Simple \cup {"zitadel"} -> Verdicts]
    /\ conf \in Config /\ files \in [Rendered -> Version] /\ comp \in [extra : BOOLEAN, bound : BOOLEAN]
    /\ main \in [env : 0 .. 2, read : [Mounted[svc] -> Version], open : BOOLEAN]
    /\ {extra, data, pat} \subseteq BOOLEAN /\ objs \in [Seeded -> 0 .. 2] /\ baked \in 0 .. 2
    /\ inst \in {"none", "half", "whole", "stuck"} /\ cur \in 0 .. MaxOrg
    /\ org \in [1 .. MaxOrg -> [tenant : Tenant \cup {"none"}, has : SUBSET Parts]]
    /\ cf \in [ClientFile -> 0 .. TornFile]

\* After a deployment that ended well the service runs one whole configuration,
\* that of the deployment, also when the machine restarts.  What may break it is
\* a Down that does nothing and says nothing (deploy/compose.go:79-89): docker
\* failed, a removal was cancelled, or a cut left a compose file that a removal
\* could not read and then deleted.
RunsWhole ==
    Ok => \/ Spent({"docker", "cancel"}) \/ (Spent({"cut"}) /\ Spent({"remove"}))
          \/ /\ main.env = conf.e /\ \A f \in Mounted[svc] : main.read[f] = conf.v
             /\ svc = "harbor" => extra = conf.extra

\* Harbor's cleartext port is never open to other machines, wherever a
\* deployment is cut and whatever prepare generates (harbor.go:158-166).
HarborStaysLocal == ~main.open

\* Removal keeps the data of the services that guard their data directory, and
\* of the others when it is outside the runtime directory (deploy.go:410-413).
DataSurvives == [][data /\ (svc \in Guarded \/ ~conf.inside) /\ op = svc => data']_svars

\* A deployment of a service that was deployed well leaves it running when it is
\* refused: for its configuration, a CA or an image that is not to be had.
RefusalKeepsServing ==
    [][Idle' /\ verdict[svc] \in {"ok", "changed"} /\ verdict'[svc] \in {"config", "not ready"} => main.env # 0]_svars

\* What a deployment or a removal may never do to the host.  What still runs after a
\* removal, or runs though the compose file no longer declares it, is explained:
\* docker failed a `down` or was not run for a cancelled removal, or a cut left a
\* compose file it could not read.
HostIsRespected ==
    /\ []HarborStaysLocal /\ DataSurvives /\ RefusalKeepsServing
    /\ [](\/ Spent({"docker", "cancel", "cut"})
          \/ /\ Idle /\ verdict[svc] = "removed" => main = NotRunning
             /\ extra => comp.extra)

\* A deployment that ends well has seeded all it promises, with the passwords of
\* its configuration, wherever earlier ones were cut: the realm, the directory,
\* the backup user, and each tenant's project, role, user and grant (its client is a matter
\* of TenantsAreServed).
SeedIsComplete ==
    Ok => /\ \A o \in Seeded : objs[o] # 0 \/ (svc = "sftp" /\ conf.backup = "none")
          /\ svc = "lldap" => \A u \in Passwords : objs[u] = conf.v
          /\ svc = "zitadel" => \A t \in ToSet(ConfTenants) : \E i \in OrgsOf(t) :
                \/ Parts \ {"app"} \subseteq org[i].has
                \/ Spent({"search"}) /\ Parts \ {"app", "grant"} \subseteq org[i].has

\* The two: what reports success runs, and is seeded, as it was configured.
SuccessIsWhole == TypeOK /\ RunsWhole /\ SeedIsComplete

\* A tenant has one organisation: a second is made only when a search was
\* answered with an error (zitadel.go:378-393).
OneOrgPerTenant ==
    \A t \in Tenant : Cardinality(OrgsOf(t)) <= 1 + Times("search")

\* After success each tenant's file names the client of the tenant, in the
\* instance that runs.  The exceptions are a file that a cut left empty, files
\* of an instance that was made anew, and tenants whose names give one file.
NamesClient(t) == FileOf(t) \in OrgsOf(t) /\ "app" \in org[FileOf(t)].has
CredentialsAreExplained ==
    Ok /\ svc = "zitadel" => \A t \in ToSet(ConfTenants) :
        \/ NamesClient(t)
        \/ FileOf(t) = TornFile /\ Spent({"cut"})
        \/ FileOf(t) \in OrgsOf("none") /\ Spent({"lose pat"})
        \/ \E u \in Tenant \ {t} : LabelOf[u] = LabelOf[t]

\* A deployment is refused for an application that exists only after the answer
\* that had its secret was lost, with a cut or a response that did not arrive, or
\* after an edit of ZITADEL_FQDN, which is in the file's path: the file is looked
\* for where it is not (zitadel.go:328-353 and 409-415).
ConflictIsExplained == verdict[svc] = "conflict" => Spent({"cut", "lost", "rename"})

\* What Zitadel has of a tenant is one of each, and reaches the tenant's file.
TenantsAreServed == OneOrgPerTenant /\ CredentialsAreExplained /\ ConflictIsExplained

\* Deploying again heals every service, but for what it cannot: a configuration
\* that is not valid, data inside the runtime directory, an administrator's
\* credential that was changed in the configuration only, the backup user whose
\* API is asked for by name, and Zitadel's conflict.
HasVars == {"traefik", "keycloak", "authentik", "sftp", "rsyslog", "zitadel"}
Outlasts ==
    \/ ~conf.valid /\ svc \in HasVars
    \/ conf.inside /\ svc \in Guarded
    \/ svc \in HasLogin /\ baked \notin {0, conf.cred}
    \/ conf.backup = "name"
    \/ verdict[svc] = "conflict"
RetriesHeal == <>[](Outlasts \/ verdict[svc] \in {"ok", "removed"})
=============================================================================
