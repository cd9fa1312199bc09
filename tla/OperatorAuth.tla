---------------------------- MODULE OperatorAuth ----------------------------
(***************************************************************************)
(* Operator accounts and sessions: auth/auth.go, auth/session.go,          *)
(* server/auth.go, server/setuptoken.go and the part of main that sets     *)
(* them up.                                                                *)
(*                                                                         *)
(* Requests interleave.  The account file has a mutex, the session table   *)
(* another; a bcrypt comparison holds neither, so a request goes on with   *)
(* the list of accounts it loaded before.  Logins share a semaphore.       *)
(* Sessions are in memory and die with the process; the account file and   *)
(* the setup token's file stay.  A session that no browser holds a cookie  *)
(* of any more is left out: nobody can use it.                             *)
(***************************************************************************)
EXTENDS Naturals, FiniteSets

CONSTANTS Request,     \* handlers
          Browser,     \* cookie jars
          User, Password,
          None,
          MaxConcurrentVerifies

ASSUME AuthAssumption ==
    /\ None \notin Password /\ None \notin User /\ None \notin BOOLEAN
    /\ MaxConcurrentVerifies \in Nat \ {0}

VARIABLES accounts,    \* the account file: a password for each account
          session,     \* what the cookie of a browser resolves to
          req,         \* the requests
          slots,       \* verifications under way
          up,          \* the process runs
          token,       \* SetupToken's value: live, or spent (also: never loaded)
          tokenFile,   \* its file is there
          first        \* whether the first account was asked for with the token

vars == <<accounts, session, req, slots, up, token, tokenFile, first>>
setupVars == <<up, token, tokenFile, first>>
-----------------------------------------------------------------------------
IdleReq == [pc |-> "idle"]
NoAccount == [u \in User |-> None]
Empty == accounts = NoAccount

Init ==
    /\ accounts = NoAccount
    /\ session = [b \in Browser |-> None]
    /\ req = [r \in Request |-> IdleReq]
    /\ slots = 0
    /\ up = FALSE /\ token = "spent" /\ tokenFile = FALSE /\ first = None

At(r, p) == req[r].pc = p
Goto(r, p) == req' = [req EXCEPT ![r].pc = p]
Return(r)  == req' = [req EXCEPT ![r] = IdleReq]
Begin(r, kind, pc, b, u, old, new, proof) ==
    /\ up /\ At(r, "idle")
    /\ req' = [req EXCEPT ![r] = [pc |-> pc, kind |-> kind, by |-> b, user |-> u,
                                  old |-> old, new |-> new, users |-> NoAccount, proof |-> proof]]
-----------------------------------------------------------------------------
(* The process: the token is prepared only while there is no account.       *)
StartProcess ==
    /\ ~up /\ up' = TRUE
    /\ IF Empty THEN token' = "live" /\ tokenFile' = TRUE
                ELSE token' = "spent" /\ UNCHANGED tokenFile
    /\ UNCHANGED <<accounts, session, req, slots, first>>

Crash ==
    /\ up /\ up' = FALSE /\ token' = "spent"
    /\ session' = [b \in Browser |-> None]
    /\ req' = [r \in Request |-> IdleReq] /\ slots' = 0
    /\ UNCHANGED <<accounts, tokenFile, first>>

(* The first account. *)
BeginSetup(r, b, u, p, right) ==
    /\ Empty
    /\ Begin(r, "setup", "check", b, u, None, p, right)
    /\ UNCHANGED <<accounts, session, slots, setupVars>>

\* A spent token accepts anything.
Check(r) ==
    /\ At(r, "check")
    /\ IF req[r].proof \/ token = "spent" THEN Goto(r, "create") ELSE Return(r)
    /\ UNCHANGED <<accounts, session, slots, setupVars>>

AfterFailedCreate_Spends == "spend"
AfterFailedCreate == "idle"

\* Create loads, checks and saves under the mutex; it fails on a name that is taken, a weak
\* password, or the disk.
Create(r) ==
    /\ At(r, "create")
    /\ \/ /\ accounts[req[r].user] = None
          /\ accounts' = [accounts EXCEPT ![req[r].user] = req[r].new]
          /\ first' = IF Empty THEN req[r].proof ELSE first
          /\ Goto(r, "spend")
       \/ /\ IF AfterFailedCreate = "idle" THEN Return(r) ELSE Goto(r, AfterFailedCreate)
          /\ UNCHANGED <<accounts, first>>
    /\ UNCHANGED <<session, slots, up, token, tokenFile>>

\* A file that cannot be removed is only logged.
Spend(r) ==
    /\ At(r, "spend")
    /\ token' = "spent" /\ tokenFile' \in {FALSE, tokenFile}
    /\ Goto(r, "issue")
    /\ UNCHANGED <<accounts, session, slots, up, first>>

(* Signing in. *)
BeginLogin(r, b, u, p) ==
    /\ Begin(r, "login", "queued", b, u, p, None, FALSE)
    /\ UNCHANGED <<accounts, session, slots, setupVars>>

HasRoom == slots < MaxConcurrentVerifies

Acquire(r) ==
    /\ At(r, "queued") /\ HasRoom
    /\ slots' = slots + 1 /\ Goto(r, "load")
    /\ UNCHANGED <<accounts, session, setupVars>>

GiveUp(r) ==
    /\ At(r, "queued") /\ Return(r)
    /\ UNCHANGED <<accounts, session, slots, setupVars>>

\* Verify: the list under the mutex, or nothing if the file cannot be read; then the comparison.
Load(r) ==
    /\ At(r, "load")
    /\ \E read \in {accounts, NoAccount} :
          req' = [req EXCEPT ![r].pc = "compare", ![r].users = read]
    /\ UNCHANGED <<accounts, session, slots, setupVars>>

Released_OnSuccess(r, ok) == IF ok THEN slots - 1 ELSE slots
Released(r, ok) == slots - 1

Compare(r) ==
    /\ At(r, "compare")
    /\ LET ok == req[r].users[req[r].user] = req[r].old IN
         /\ IF ok THEN req' = [req EXCEPT ![r].users = IF req[r].kind = "login" THEN NoAccount ELSE @,
                                          ![r].pc = IF req[r].kind = "login" THEN "issue" ELSE "write"]
                  ELSE Return(r)
         /\ slots' = IF req[r].kind = "login" THEN Released(r, ok) ELSE slots
    /\ UNCHANGED <<accounts, session, setupVars>>

(* Changing the password: requireAuth and sessionUser; ChangePassword; DeleteUser. *)
Authorized(b) == ~Empty /\ session[b] # None

BeginChange(r, b, old, new) ==
    /\ Authorized(b)
    /\ Begin(r, "change", "load", b, session[b].user, old, new, FALSE)
    /\ UNCHANGED <<accounts, session, slots, setupVars>>

\* Loads again under the mutex; a write that fails changes nothing.
Rewritten_FromVerified(r) == req[r].users
Rewritten(r) == accounts
Write(r) ==
    /\ At(r, "write")
    /\ \/ /\ accounts[req[r].user] # None
          /\ accounts' = [Rewritten(r) EXCEPT ![req[r].user] = req[r].new]
          /\ Goto(r, "end")
       \/ UNCHANGED accounts /\ Return(r)
    /\ UNCHANGED <<session, slots, setupVars>>

Ended_Own(r) == {req[r].by}
Ended(r) == {b \in Browser : session[b] # None /\ session[b].user = req[r].user}
DeleteUser(r) ==
    /\ At(r, "end")
    /\ session' = [b \in Browser |-> IF b \in Ended(r) THEN None ELSE session[b]]
    /\ Goto(r, "issue")
    /\ UNCHANGED <<accounts, slots, setupVars>>

\* A session is for a user, whatever the password was; pw and late are auxiliary.
Proven(r) == IF req[r].kind = "login" THEN req[r].old ELSE req[r].new
Issue(r) ==
    /\ At(r, "issue")
    /\ session' = [session EXCEPT ![req[r].by] =
                     [user |-> req[r].user, pw |-> Proven(r), late |-> accounts[req[r].user] # Proven(r)]]
    /\ Return(r)
    /\ UNCHANGED <<accounts, slots, setupVars>>

\* Logout, or a lifetime that ran out.
EndSession(b) ==
    /\ session[b] # None
    /\ session' = [session EXCEPT ![b] = None]
    /\ UNCHANGED <<accounts, req, slots, setupVars>>

Handle(r) ==
    \/ Check(r) \/ Create(r) \/ Spend(r)
    \/ Load(r) \/ Compare(r) \/ Write(r) \/ DeleteUser(r) \/ Issue(r)

Arrive(r) ==
    \E b \in Browser, p \in Password :
        \/ \E u \in User, right \in BOOLEAN : BeginSetup(r, b, u, p, right)
        \/ \E u \in User : BeginLogin(r, b, u, p)
        \/ \E q \in Password : BeginChange(r, b, p, q)

Next ==
    \/ StartProcess \/ Crash
    \/ \E r \in Request : Arrive(r) \/ Acquire(r) \/ GiveUp(r) \/ Handle(r)
    \/ \E b \in Browser : EndSession(b)

Spec == Init /\ [][Next]_vars
-----------------------------------------------------------------------------
SessionType == [user : User, pw : Password, late : BOOLEAN]
ReqType ==
    [pc : {"check", "create", "spend", "queued", "load", "compare", "write", "end", "issue"},
     kind : {"setup", "login", "change"}, by : Browser, user : User, old : Password \cup {None},
     new : Password \cup {None}, users : [User -> Password \cup {None}], proof : BOOLEAN]

\* Every variable keeps its type.
TypeOK ==
    /\ accounts \in [User -> Password \cup {None}]
    /\ session \in [Browser -> SessionType \cup {None}]
    /\ req \in [Request -> ReqType \cup {IdleReq}]
    /\ slots \in 0 .. MaxConcurrentVerifies
    /\ up \in BOOLEAN /\ token \in {"live", "spent"} /\ tokenFile \in BOOLEAN
    /\ first \in BOOLEAN \cup {None}

\* setuptoken_test.go:219-220: every login that took a slot of the semaphore gives it back,
\* whatever the comparison said; one that is lost delays every login after it.
SlotsAreHeld ==
    /\ TypeOK
    /\ slots = Cardinality({r \in Request : req[r].pc \in {"load", "compare"} /\ req[r].kind = "login"})

\* main.go:158-161, setuptoken.go:23-27: while there is no account, the token is live and its
\* file is there for the operator to read, whatever submissions failed and whenever the
\* process restarted.
InstallIsReachable == up /\ Empty => token = "live" /\ tokenFile

\* setuptoken.go:26-27 "It is required as a third field on /setup": the first account was asked for with the token.
FirstAccountHadToken == (Empty => first = None) /\ first # FALSE
\* The two together: the set-up stays possible, and only with the token.
SetupIsSound == InstallIsReachable /\ FirstAccountHadToken

\* auth.go:64-67: no interleaving of submissions, changes and restarts loses an account.
OperatorsStay == [][\A u \in User : accounts[u] # None => accounts'[u] # None]_vars

\* session.go:73-74 "a password change ends any session opened with the old one": a session
\* of another password than the account's was issued after the change (a login or a change
\* that had verified the old one before), or its change is about to end it.
SessionsFollowPassword ==
    \A b \in Browser : session[b] # None /\ session[b].pw # accounts[session[b].user] =>
        \/ session[b].late
        \/ \E r \in Request : At(r, "end") /\ req[r].user = session[b].user
=============================================================================
