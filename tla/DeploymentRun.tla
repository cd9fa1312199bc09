--------------------------- MODULE DeploymentRun ---------------------------
(***************************************************************************)
(* One deployment at a time, as the engine runs its deployers: a Go        *)
(* function that executes statement after statement and returns nil or an  *)
(* error.  `at` is the next statement; between any two of them the         *)
(* deployment may be cut.  What may go wrong or change has a kind and is   *)
(* spent from a budget.                                                    *)
(***************************************************************************)
EXTENDS Naturals

CONSTANTS Disturbance, \* what may go wrong or change: the kinds a run allows
          MaxOf,       \* how often each kind may happen
          MaxAll       \* how often they may happen together

ASSUME DisturbanceAssumption ==
    MaxOf \in [Disturbance -> Nat] /\ MaxAll \in Nat

VARIABLES op, at,    \* the deployment under way and its next statement
          verdict,   \* how the last deployment of each service ended
          budget
runVars == <<op, at, verdict, budget>>

RunInit(services) ==
    /\ op = "none" /\ at = "idle" /\ verdict = [s \in services |-> "none"]
    /\ budget = [left |-> MaxOf, all |-> MaxAll]

Spend(d) ==
    /\ d \in Disturbance /\ budget.left[d] > 0 /\ budget.all > 0
    /\ budget' = [left |-> [budget.left EXCEPT ![d] = @ - 1], all |-> budget.all - 1]

\* Disturbances of some of the kinds have happened.
Spent(kinds) == \E d \in kinds \cap Disturbance : budget.left[d] < MaxOf[d]

Idle == op = "none"
On(s, t) == op = s /\ at = t
Begins(s, t) == Idle /\ op' = s /\ at' = t
Goes(t) == at' = t /\ UNCHANGED <<op, verdict, budget>>
Step(s, t, u) == On(s, t) /\ Goes(u)
Ends(s, v) ==
    /\ op' = "none" /\ at' = "idle"
    /\ verdict' = [verdict EXCEPT ![s] = v]

\* A statement returns an error, the context ends, the process is killed:
\* what was done stays, and nothing after it is.
CutShort == ~Idle /\ Spend("cut") /\ Ends(op, "failed")
=============================================================================
