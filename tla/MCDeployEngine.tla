--------------------------- MODULE MCDeployEngine ---------------------------
(* A small instance of DeployEngine: the CA, the DNS server that needs its  *)
(* certificates, and an application that needs the CA too.                  *)
EXTENDS DeployEngine

CONSTANTS ca, dns, app

MCDeps == [s \in Service |-> IF s = ca THEN {} ELSE {ca}]
MCRank == [s \in Service |-> IF s = ca THEN 1 ELSE IF s = dns THEN 2 ELSE 3]
MCFoundation == {ca, dns} \cap Service

\* Configurations: everything at 1, the CA edited, a value that does not validate.
Base == [s \in Service |-> 1]
Edited == [Base EXCEPT ![ca] = 2]
Broken == [Base EXCEPT ![dns] = 9]
MCVersion == {1, 2, 9}
MCValid == {1, 2}
TwoConfigs == {Base, Edited}
ThreeConfigs == {Base, Edited, Broken}

\* The versions differ in the compose file, or in mounted files only.
InCompose == [s \in Service |-> [v \in MCVersion \cup {None} |-> v]]
InMountedFiles == [s \in Service |-> [v \in MCVersion \cup {None} |-> 0]]

Deploys(S) == {<<T, FALSE>> : T \in S}
Removes(S) == {<<T, TRUE>> : T \in S}
ChainSelections == {<<{dns}, FALSE>>, <<{dns}, TRUE>>}
PairSelections == Deploys({{ca}, {dns}}) \cup Removes({{ca}, {dns}})
=============================================================================
