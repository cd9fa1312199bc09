----------------------------- MODULE DeployRuns -----------------------------
(***************************************************************************)
(* What the deploy engine promises of its runs, whatever the services do:  *)
(* runs are numbered in order, at most one is running at any time, every   *)
(* run ends with a result that never changes, and only a restart of the    *)
(* control plane forgets them.                                             *)
(***************************************************************************)
EXTENDS Naturals

CONSTANT MaxRuns  \* bound: runs of one life of the process

VARIABLE status

Init == status = [i \in 1 .. MaxRuns |-> "absent"]

\* The next run begins: every earlier one is over, none runs.
Begin(i) ==
  /\ status[i] = "absent"
  /\ \A j \in 1 .. i - 1 : status[j] \in {"ok", "failed"}
  /\ status' = [status EXCEPT ![i] = "running"]

End(i) ==
  /\ status[i] = "running"
  /\ \E result \in {"ok", "failed"} : status' = [status EXCEPT ![i] = result]

Restart == status' = [i \in 1 .. MaxRuns |-> "absent"]

Next == (\E i \in 1 .. MaxRuns : Begin(i) \/ End(i)) \/ Restart

Spec == Init /\ [][Next]_status

\* A run that has begun ends, unless the control plane restarts.
LiveSpec == Spec /\ \A i \in 1 .. MaxRuns : WF_status(End(i))
=============================================================================
