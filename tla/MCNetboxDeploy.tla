--------------------------- MODULE MCNetboxDeploy ---------------------------
(* Three addresses, two that the host may have and one without a mask; a seed  *)
(* file that gives one of them two names and one of them a single name.        *)
EXTENDS NetboxDeploy
MCDisturbance == {"cut", "config", "outside", "unreachable", "unretired", "wipe db", "wipe pepper", "wipe zone",
                  "settings", "remove", "reboot", "docker"}
MCMaxOf == [d \in Disturbance |-> 2]
Record(a, n) == [addr |-> a, name |-> n]
MCSeedFiles == {<<>>, <<Record(3, 2), Record(3, 1), Record(4, 1), Record(1, 2)>>}
=============================================================================
