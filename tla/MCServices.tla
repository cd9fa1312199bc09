----------------------------- MODULE MCServices -----------------------------
(* Every service of ServiceDeployers and Zitadel, which goes from no tenants to *)
(* two whose names give one file, or stays with two tenants apart.             *)
EXTENDS Services
MCSimple == {"traefik", "keycloak", "authentik", "samba", "s3", "depot", "sftp",
             "mailpit", "kmip", "chrony", "rsyslog", "lldap", "harbor"}
MCNested == {"depot", "kmip", "harbor", "samba"}
MCTenantLists == <<<<>>, <<"Team A", "Team B", "team-a">>>>
MCLabelOf == [t \in Tenant |-> IF t = "team-a" THEN "Team A" ELSE t]
MCDisturbance == {"cut", "cancel", "outside", "docker", "reboot", "settings", "remove", "shape", "search",
                  "lost", "lose pat", "rename"}
MCMaxOf == [d \in Disturbance |-> IF d \in {"cut", "settings"} THEN 2 ELSE 1]
=============================================================================
