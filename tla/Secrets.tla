------------------------------- MODULE Secrets -------------------------------
(***************************************************************************)
(* One generated secret of the platform - a PostgreSQL password, say -     *)
(* from the deploy request that needs it to the data directory that keeps  *)
(* it: MaterializeSecrets and loadOrCreateSecret (internal/envfile/        *)
(* generate.go) under Engine.prep (internal/deploy/deploy.go), and initdb, *)
(* which takes the password of the first deploy for good.                  *)
(*                                                                         *)
(* The hazard is two requests that both find the secret absent: the file   *)
(* then keeps the value of one and the database that of the other.         *)
(***************************************************************************)
EXTENDS Naturals

CONSTANTS
  DeployRequest, \* concurrent deploy requests that need the secret
  Chosen,        \* values an operator may put in the configuration
  Nothing,       \* an empty variable, an absent or empty file, no database
  MaxSecrets     \* bound: values randomSecret draws

ASSUME SecretsAssumption ==
  /\ MaxSecrets \in Nat
  /\ Nothing \notin Chosen \cup (1 .. 2 * MaxSecrets) \cup DeployRequest
  /\ Chosen \cap (1 .. 2 * MaxSecrets) = {}

VARIABLES
  variable,   \* the variable in the managed configuration
  file,       \* <secrets>/<VARIABLE>
  drawn,      \* values drawn so far
  prep,       \* holder of Engine.prep
  need,       \* the requests: where they are, their env's value, whether saved
  run,        \* the run in flight: the value its env holds, Nothing when idle
  database,   \* the password initdb baked into the data directory
  changed     \* auxiliary: the variable was edited with a deploy under way or after

secretVars == <<variable, file, drawn, prep, need, run, database, changed>>

\* A value cut short by a full disk is a value of its own, and never drawn.
CutShort(v) == v + MaxSecrets
Value == Chosen \cup (1 .. 2 * MaxSecrets)
NoNeed == [pc |-> "idle", env |-> Nothing]

SecretInit ==
  /\ variable = Nothing /\ file = Nothing /\ drawn = 0
  /\ prep = Nothing
  /\ need = [r \in DeployRequest |-> NoNeed]
  /\ run = Nothing /\ database = Nothing /\ changed = FALSE
-----------------------------------------------------------------------------
\* The operator edits the variable, or empties it (handleConfigPut).
SaveConfig(v) ==
  /\ v # variable
  /\ variable' = v
  /\ changed' = (changed \/ run # Nothing \/ database # Nothing \/ \E r \in DeployRequest : need[r].pc # "idle")
  /\ UNCHANGED <<file, drawn, prep, need, run, database>>

\* Mutant: the preparation is not serialized.
PrepIsFree_Ignored == TRUE

PrepIsFree == prep = Nothing

\* Start takes prep and loads the configuration.
LoadConfig(r) ==
  /\ need[r].pc = "idle" /\ PrepIsFree
  /\ prep' = r
  /\ need' = [need EXCEPT ![r] = [pc |-> "materialize", env |-> variable]]
  /\ UNCHANGED <<variable, file, drawn, run, database, changed>>

\* Mutant: a value on disk is rotated.
Reusable_Never(v) == FALSE

\* A file that is there and not blank is reused.
Reusable(v) == v # Nothing

\* A chosen value wins, a value on disk is reused.
Reuse(r) ==
  /\ need[r].pc = "materialize"
  /\ \/ /\ need[r].env # Nothing
        /\ need' = [need EXCEPT ![r].pc = "claim"]
     \/ /\ need[r].env = Nothing /\ Reusable(file)
        /\ need' = [need EXCEPT ![r] = [pc |-> "claim", env |-> file]]
  /\ UNCHANGED <<variable, file, drawn, prep, run, database, changed>>

\* Otherwise one is drawn; os.WriteFile empties the file before it writes.
Draw(r) ==
  /\ need[r].pc = "materialize" /\ need[r].env = Nothing /\ ~Reusable(file)
  /\ drawn < MaxSecrets
  /\ drawn' = drawn + 1
  /\ need' = [need EXCEPT ![r] = [pc |-> "write", env |-> drawn + 1]]
  /\ file' = Nothing
  /\ UNCHANGED <<variable, prep, run, database, changed>>

AfterFailedWrite(r) == NoNeed

\* The write succeeds, or leaves nothing or a part of the value and fails Start.
WriteFile(r) ==
  /\ need[r].pc = "write"
  /\ \/ /\ file' = need[r].env
        /\ need' = [need EXCEPT ![r].pc = "claim"]
        /\ UNCHANGED prep
     \/ /\ file' \in {Nothing, CutShort(need[r].env)}
        /\ need' = [need EXCEPT ![r] = AfterFailedWrite(r)]
        /\ prep' = IF need'[r].pc = "claim" THEN prep ELSE Nothing
  /\ UNCHANGED <<variable, drawn, run, database, changed>>

\* The claim, or ErrBusy, or a refusal by Validate: prep is released.
Claim(r) ==
  /\ need[r].pc = "claim"
  /\ need' = [need EXCEPT ![r] = NoNeed]
  /\ prep' = Nothing
  /\ \/ run = Nothing /\ run' = need[r].env
     \/ UNCHANGED run
  /\ UNCHANGED <<variable, file, drawn, database, changed>>

\* The deployer starts the database: initdb on an empty data directory.
StartDatabase ==
  /\ run # Nothing /\ database = Nothing
  /\ database' = run
  /\ UNCHANGED <<variable, file, drawn, prep, need, run, changed>>

\* The run ends, having come that far or not; the data directory survives it.
EndRun ==
  /\ run # Nothing
  /\ run' = Nothing
  /\ UNCHANGED <<variable, file, drawn, prep, need, database, changed>>

\* The control plane restarts.
Restart ==
  /\ prep' = Nothing /\ run' = Nothing
  /\ need' = [r \in DeployRequest |-> NoNeed]
  /\ UNCHANGED <<variable, file, drawn, database, changed>>

SecretNext ==
  \/ \E v \in Chosen \cup {Nothing} : SaveConfig(v)
  \/ \E r \in DeployRequest : LoadConfig(r) \/ Reuse(r) \/ Draw(r) \/ WriteFile(r) \/ Claim(r)
  \/ StartDatabase \/ EndRun \/ Restart

SecretSpec == SecretInit /\ [][SecretNext]_secretVars
-----------------------------------------------------------------------------
\* LookupSecret: what the dashboard, and the next deploy, take the secret to be.
Lookup == IF variable # Nothing THEN variable ELSE file

SecretTypeOK ==
  /\ variable \in Chosen \cup {Nothing}
  /\ file \in Value \cup {Nothing}
  /\ drawn \in 0 .. MaxSecrets
  /\ prep \in DeployRequest \cup {Nothing}
  /\ need \in [DeployRequest -> [pc : {"idle", "materialize", "write", "claim"}, env : Value \cup {Nothing}]]
  /\ run \in Value \cup {Nothing}
  /\ database \in Value \cup {Nothing}
  /\ changed \in BOOLEAN

\* deploy.go:58-68 "initdb bakes in one value while the file on disk says another,
\* locking the platform out of its own database on the next deploy": unless the
\* operator edits the variable, the value the next deploy will use is the value
\* the database has, through races, failed writes and crashes.
DatabaseOpens == database # Nothing /\ ~changed => Lookup = database

\* generate.go:96-98 "a value already on disk is reused rather than rotated": once
\* a run has started with a secret nobody writes the file again.
NeverRotated ==
  [][(run # Nothing \/ database # Nothing) /\ ~changed => file' = file]_secretVars
=============================================================================
