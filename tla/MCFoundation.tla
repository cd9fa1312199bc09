---------------------------- MODULE MCFoundation ----------------------------
(* The CA and Technitium on one host: two things may go wrong or change, each  *)
(* kind once, during or between the deployments.                               *)
EXTENDS TechnitiumDeploy
Kinds == {"cut", "config", "docker", "outside", "wipe", "restore", "reboot", "remove ca", "remove", "unlisted", "expire",
          "password file", "image", "data", "resolver", "settings"}
MCDisturbance == Kinds
MCMaxOf == [d \in Disturbance |-> 1]
=============================================================================
