-------------------------- MODULE CredentialsProofs --------------------------
(***************************************************************************)
(* Proofs about the two components that keep the platform's credentials.   *)
(*                                                                         *)
(* OperatorAuth, for any number of requests, browsers, accounts and        *)
(* passwords and any number of concurrent verifications.  The inductive    *)
(* invariant adds to the properties what a request knows at each of its    *)
(* points: the process runs, a login brings a password, a submission that  *)
(* is about to create an account had the token or is too late to be the    *)
(* first, and one that spends the token left an account.                   *)
(*                                                                         *)
(* Secrets, in the second half, for every set of requests and of values:   *)
(* the database keeps opening, and the file is not rewritten under it.     *)
(***************************************************************************)
EXTENDS OperatorAuth, Secrets, FiniteSetTheorems, TLAPS

USE AuthAssumption

ReqOK(r) ==
    /\ up
    /\ req[r].kind = "setup"  => req[r].pc \in {"check", "create", "spend", "issue"} /\ req[r].new \in Password
    /\ req[r].kind = "login"  => req[r].pc \in {"queued", "load", "compare", "issue"} /\ req[r].old \in Password
    /\ req[r].kind = "change" => req[r].pc \in {"load", "compare", "write", "end", "issue"} /\ req[r].new \in Password
    /\ At(r, "spend") => ~Empty
    /\ At(r, "create") => req[r].proof \/ ~Empty
ReqInv == \A r \in Request : req[r] # IdleReq => ReqOK(r)

Held == {r \in Request : req[r].pc \in {"load", "compare"} /\ req[r].kind = "login"}
SlotInv == IsFiniteSet(Held) /\ slots = Cardinality(Held)

IInv == TypeOK /\ ReqInv /\ SlotInv /\ SetupIsSound /\ SessionsFollowPassword
-----------------------------------------------------------------------------
LEMMA SomeAccount ==
    ASSUME NEW f \in [User -> Password \cup {None}]
    PROVE  f # NoAccount <=> \E u \in User : f[u] # None
  BY DEF NoAccount

\* A request is idle exactly at this point.
LEMMA IdleAt ==
    ASSUME TypeOK, NEW r \in Request
    PROVE  /\ req[r] = IdleReq <=> At(r, "idle")
           /\ req[r] # IdleReq => req[r] \in ReqType
  BY DEF TypeOK, IdleReq, ReqType, At

\* slots follows the requests that hold one.
LEMMA HeldSame ==
    ASSUME SlotInv, Held' = Held, UNCHANGED slots
    PROVE  SlotInv'
  BY DEF SlotInv

LEMMA HeldAdded ==
    ASSUME SlotInv, NEW r \in Request, r \notin Held, Held' = Held \cup {r}, slots' = slots + 1
    PROVE  SlotInv'
  BY FS_AddElement DEF SlotInv

LEMMA HeldRemoved ==
    ASSUME SlotInv, NEW r \in Held, Held' = Held \ {r}, slots' = slots - 1
    PROVE  SlotInv' /\ slots > 0
<1>1. Cardinality(Held) \in Nat /\ Cardinality(Held) # 0
  BY FS_CardinalityType, FS_EmptySet DEF SlotInv
<1> QED BY <1>1, FS_RemoveElement DEF SlotInv
-----------------------------------------------------------------------------
LEMMA InitInv == Init => IInv
<1> SUFFICES ASSUME Init PROVE IInv
  OBVIOUS
<1>1. TypeOK
  <2>1. accounts \in [User -> Password \cup {None}] /\ session \in [Browser -> SessionType \cup {None}]
    BY DEF Init, NoAccount
  <2>2. req \in [Request -> ReqType \cup {IdleReq}]
    BY DEF Init
  <2>3. slots \in 0 .. MaxConcurrentVerifies
    BY DEF Init
  <2>4. up \in BOOLEAN /\ token \in {"live", "spent"} /\ tokenFile \in BOOLEAN /\ first \in BOOLEAN \cup {None}
    BY Zenon DEF Init
  <2> QED BY <2>1, <2>2, <2>3, <2>4 DEF TypeOK
<1>2. ReqInv
  BY DEF Init, ReqInv
<1>3. SlotInv
  <2>1. Held = {}
    BY DEF Init, Held, IdleReq
  <2> QED BY <2>1, FS_EmptySet DEF Init, SlotInv
<1>4. SetupIsSound
  BY DEF Init, SetupIsSound, InstallIsReachable, FirstAccountHadToken
<1>5. SessionsFollowPassword
  BY DEF Init, SessionsFollowPassword
<1> QED BY <1>1, <1>2, <1>3, <1>4, <1>5 DEF IInv
-----------------------------------------------------------------------------
\* A step of request r that takes no account away leaves the others as they were.
LEMMA ReqKept ==
    ASSUME TypeOK, ReqInv, NEW r \in Request, NEW q, req' = [req EXCEPT ![r] = q],
           UNCHANGED up, ~Empty => ~Empty', q # IdleReq => ReqOK(r)'
    PROVE  ReqInv'
<1> SUFFICES ASSUME NEW s \in Request, req'[s] # IdleReq PROVE ReqOK(s)'
  BY DEF ReqInv
<1>1. CASE s = r
  BY <1>1 DEF TypeOK
<1>2. CASE s # r
  BY <1>2 DEF TypeOK, ReqInv, ReqOK, At
<1> QED BY <1>1, <1>2

\* The table of requests keeps its type.
LEMMA ReqTyped ==
    ASSUME TypeOK, NEW r \in Request, NEW q \in ReqType \cup {IdleReq}, req' = [req EXCEPT ![r] = q]
    PROVE  req' \in [Request -> ReqType \cup {IdleReq}] /\ req'[r] = q
  BY DEF TypeOK

\* What happens to slots when request r goes to q.
LEMMA SlotsKept ==
    ASSUME TypeOK, SlotInv, NEW r \in Request, NEW q, req' = [req EXCEPT ![r] = q], UNCHANGED slots,
           (q.pc \in {"load", "compare"} /\ q.kind = "login") <=> r \in Held
    PROVE  SlotInv'
<1>1. Held' = Held
  BY DEF Held, TypeOK
<1> QED BY <1>1, HeldSame

\* Sessions and accounts are as they were, and r was not about to end any session.
LEMMA SessionsKept ==
    ASSUME TypeOK, SessionsFollowPassword, NEW r \in Request, NEW q, req' = [req EXCEPT ![r] = q], ~At(r, "end"),
           UNCHANGED <<accounts, session>>
    PROVE  SessionsFollowPassword'
<1> SUFFICES ASSUME NEW b \in Browser, session[b] # None, session[b].pw # accounts[session[b].user], ~session[b].late
             PROVE  \E s \in Request : At(s, "end")' /\ req'[s].user = session[b].user
  BY DEF SessionsFollowPassword
<1>1. PICK s \in Request : At(s, "end") /\ req[s].user = session[b].user
  BY DEF SessionsFollowPassword
<1>2. s # r
  BY <1>1
<1> QED BY <1>1, <1>2 DEF At, TypeOK

LEMMA SetupKept ==
    ASSUME SetupIsSound, UNCHANGED accounts, UNCHANGED up, UNCHANGED token, UNCHANGED tokenFile, UNCHANGED first
    PROVE  SetupIsSound'
<1>1. NoAccount' = NoAccount
  BY DEF NoAccount
<1>2. Empty' <=> Empty
  BY <1>1 DEF Empty
<1> QED BY <1>2, Zenon DEF SetupIsSound, InstallIsReachable, FirstAccountHadToken
-----------------------------------------------------------------------------
\* A request begins, or goes on, and nothing but itself changes.
LEMMA OnlyReq ==
    ASSUME IInv, NEW r \in Request, NEW q \in ReqType \cup {IdleReq}, req' = [req EXCEPT ![r] = q],
           UNCHANGED <<accounts, session, slots, setupVars>>,
           q # IdleReq => ReqOK(r)', ~At(r, "end"),
           (q.pc \in {"load", "compare"} /\ q.kind = "login") <=> r \in Held
    PROVE  IInv'
<1>1. TypeOK'
  BY ReqTyped DEF IInv, TypeOK, setupVars
<1>2. ReqInv'
  BY ReqKept DEF IInv, setupVars, Empty
<1>3. SlotInv'
  BY SlotsKept DEF IInv
<1>4. SetupIsSound'
  BY SetupKept DEF IInv, setupVars
<1>5. SessionsFollowPassword'
  BY SessionsKept DEF IInv
<1> QED BY <1>1, <1>2, <1>3, <1>4, <1>5 DEF IInv

\* What a handler is given when it begins.
Fresh(kind, pc, b, u, old, new, proof) ==
    [pc |-> pc, kind |-> kind, by |-> b, user |-> u, old |-> old, new |-> new, users |-> NoAccount, proof |-> proof]

LEMMA BeginSetupInv ==
    ASSUME IInv, NEW r \in Request, NEW b \in Browser, NEW u \in User, NEW p \in Password, NEW right \in BOOLEAN,
           BeginSetup(r, b, u, p, right)
    PROVE  IInv'
<1> DEFINE q == Fresh("setup", "check", b, u, None, p, right)
<1>1. req' = [req EXCEPT ![r] = q] /\ up /\ At(r, "idle") /\ UNCHANGED <<accounts, session, slots, setupVars>>
  BY DEF BeginSetup, Begin, Fresh
<1>2. q \in ReqType /\ q # IdleReq
  BY DEF Fresh, ReqType, IdleReq, NoAccount
<1>3. req'[r] = q
  BY <1>1, <1>2, ReqTyped DEF IInv
<1>4. ReqOK(r)'
  BY <1>1, <1>3 DEF ReqOK, At, Fresh, setupVars
<1>5. r \notin Held /\ ~(q.pc \in {"load", "compare"})
  BY <1>1 DEF Held, At, Fresh
<1> QED BY <1>1, <1>2, <1>4, <1>5, OnlyReq DEF At

LEMMA CheckInv ==
    ASSUME IInv, NEW r \in Request, Check(r)
    PROVE  IInv'
<1>1. At(r, "check") /\ UNCHANGED <<accounts, session, slots, setupVars>> /\ req[r] \in ReqType /\ ReqOK(r)
  BY IdleAt DEF Check, IInv, ReqInv, At
<1>2. r \notin Held
  BY <1>1 DEF Held, At
<1>3. CASE req' = [req EXCEPT ![r] = IdleReq]
  BY <1>1, <1>2, <1>3, OnlyReq DEF At, IdleReq
<1>4. CASE (req[r].proof \/ token = "spent") /\ Goto(r, "create")
  <2> DEFINE q == [req[r] EXCEPT !.pc = "create"]
  <2>1. req' = [req EXCEPT ![r] = q] /\ q \in ReqType
    BY <1>1, <1>4 DEF Goto, ReqType
  <2>2. req'[r] = q /\ q.pc = "create" /\ q.kind = req[r].kind /\ q.new = req[r].new /\ q.old = req[r].old /\ q.proof = req[r].proof
    BY <1>1, <2>1, ReqTyped DEF IInv, ReqType
  <2>3. req[r].proof \/ ~Empty
    BY <1>1, <1>4 DEF IInv, SetupIsSound, InstallIsReachable, ReqOK
  <2>4. Empty' <=> Empty
    BY <1>1 DEF Empty, NoAccount
  <2>5. ReqOK(r)'
    BY <1>1, <2>2, <2>3, <2>4 DEF ReqOK, At, setupVars
  <2> QED BY <1>1, <1>2, <2>1, <2>2, <2>5, OnlyReq DEF At
<1> QED BY <1>3, <1>4 DEF Check, Return

LEMMA BeginLoginInv ==
    ASSUME IInv, NEW r \in Request, NEW b \in Browser, NEW u \in User, NEW p \in Password, BeginLogin(r, b, u, p)
    PROVE  IInv'
<1> DEFINE q == Fresh("login", "queued", b, u, p, None, FALSE)
<1>1. req' = [req EXCEPT ![r] = q] /\ up /\ At(r, "idle") /\ UNCHANGED <<accounts, session, slots, setupVars>>
  BY DEF BeginLogin, Begin, Fresh
<1>2. q \in ReqType /\ q # IdleReq
  BY DEF Fresh, ReqType, IdleReq, NoAccount
<1>3. req'[r] = q
  BY <1>1, <1>2, ReqTyped DEF IInv
<1>4. ReqOK(r)'
  BY <1>1, <1>3 DEF ReqOK, At, Fresh, setupVars
<1>5. r \notin Held /\ ~(q.pc \in {"load", "compare"})
  BY <1>1 DEF Held, At, Fresh
<1> QED BY <1>1, <1>2, <1>4, <1>5, OnlyReq DEF At

LEMMA BeginChangeInv ==
    ASSUME IInv, NEW r \in Request, NEW b \in Browser, NEW p \in Password, NEW n \in Password, BeginChange(r, b, p, n)
    PROVE  IInv'
<1> DEFINE q == Fresh("change", "load", b, session[b].user, p, n, FALSE)
<1>1. req' = [req EXCEPT ![r] = q] /\ up /\ At(r, "idle") /\ UNCHANGED <<accounts, session, slots, setupVars>>
  BY DEF BeginChange, Begin, Fresh
<1>2. session[b].user \in User
  BY DEF BeginChange, Authorized, IInv, TypeOK, SessionType
<1>3. q \in ReqType /\ q # IdleReq
  BY <1>2 DEF Fresh, ReqType, IdleReq, NoAccount
<1>4. req'[r] = q
  BY <1>1, <1>3, ReqTyped DEF IInv
<1>5. ReqOK(r)'
  BY <1>1, <1>4 DEF ReqOK, At, Fresh, setupVars
<1>6. r \notin Held /\ q.kind # "login"
  BY <1>1 DEF Held, At, Fresh
<1> QED BY <1>1, <1>3, <1>5, <1>6, OnlyReq DEF At

LEMMA GiveUpInv ==
    ASSUME IInv, NEW r \in Request, GiveUp(r)
    PROVE  IInv'
<1>1. At(r, "queued") /\ req' = [req EXCEPT ![r] = IdleReq] /\ UNCHANGED <<accounts, session, slots, setupVars>>
  BY DEF GiveUp, Return
<1>2. r \notin Held
  BY <1>1 DEF Held, At
<1> QED BY <1>1, <1>2, OnlyReq DEF At, IdleReq

LEMMA LoadInv ==
    ASSUME IInv, NEW r \in Request, Load(r)
    PROVE  IInv'
<1>1. PICK read \in {accounts, NoAccount} : req' = [req EXCEPT ![r].pc = "compare", ![r].users = read]
  BY DEF Load
<1>2. At(r, "load") /\ UNCHANGED <<accounts, session, slots, setupVars>> /\ req[r] \in ReqType /\ req[r] # IdleReq /\ ReqOK(r)
  BY IdleAt DEF Load, IInv, ReqInv, At
<1>3. read \in [User -> Password \cup {None}]
  BY DEF IInv, TypeOK, NoAccount
<1> DEFINE q == [req[r] EXCEPT !.pc = "compare", !.users = read]
<1>4. req' = [req EXCEPT ![r] = q] /\ q \in ReqType
  BY <1>1, <1>2, <1>3 DEF ReqType, IInv, TypeOK
<1>5. req'[r] = q /\ q.pc = "compare" /\ q.kind = req[r].kind /\ q.new = req[r].new /\ q.old = req[r].old
  BY <1>2, <1>4, ReqTyped DEF IInv, ReqType
<1>6. ReqOK(r)'
  BY <1>2, <1>5 DEF ReqOK, At, setupVars
<1>7. (q.pc \in {"load", "compare"} /\ q.kind = "login") <=> r \in Held
  BY <1>2, <1>5 DEF Held, At
<1> QED BY <1>2, <1>4, <1>6, <1>7, OnlyReq DEF At

LEMMA AcquireInv ==
    ASSUME IInv, NEW r \in Request, Acquire(r)
    PROVE  IInv'
<1>1. At(r, "queued") /\ slots' = slots + 1 /\ slots < MaxConcurrentVerifies /\ UNCHANGED <<accounts, session, setupVars>>
  BY DEF Acquire, HasRoom
<1>2. req[r] \in ReqType /\ ReqOK(r)
  BY <1>1, IdleAt DEF IInv, ReqInv, At
<1> DEFINE q == [req[r] EXCEPT !.pc = "load"]
<1>3. req' = [req EXCEPT ![r] = q] /\ q \in ReqType
  BY <1>2 DEF Acquire, Goto, ReqType
<1>4. req'[r] = q /\ q.pc = "load" /\ q.kind = req[r].kind /\ q.new = req[r].new /\ q.old = req[r].old
  BY <1>2, <1>3, ReqTyped DEF IInv, ReqType
<1>5. req[r].kind = "login"
  BY <1>1, <1>2 DEF ReqOK, At, ReqType
<1>6. TypeOK'
  BY <1>1, <1>3, ReqTyped, AuthAssumption DEF IInv, TypeOK, setupVars
<1>7. ReqInv'
  <2>1. ReqOK(r)'
    BY <1>1, <1>2, <1>4 DEF ReqOK, At, setupVars
  <2> QED BY <1>1, <1>3, <2>1, ReqKept DEF IInv, setupVars, Empty
<1>8. SlotInv'
  <2>1. r \notin Held
    BY <1>1 DEF Held, At
  <2>2. Held' = Held \cup {r}
    BY <1>3, <1>4, <1>5 DEF Held, IInv, TypeOK
  <2> QED BY <1>1, <2>1, <2>2, HeldAdded DEF IInv
<1>9. SetupIsSound' /\ SessionsFollowPassword'
  BY <1>1, <1>3, SetupKept, SessionsKept DEF IInv, setupVars, At
<1> QED BY <1>6, <1>7, <1>8, <1>9 DEF IInv

LEMMA CompareInv ==
    ASSUME IInv, NEW r \in Request, Compare(r)
    PROVE  IInv'
<1>1. At(r, "compare") /\ UNCHANGED <<accounts, session, setupVars>>
  BY DEF Compare
<1>2. req[r] \in ReqType /\ ReqOK(r)
  BY <1>1, IdleAt DEF IInv, ReqInv, At
<1>3. slots' = IF req[r].kind = "login" THEN slots - 1 ELSE slots
  BY DEF Compare, Released
<1>4. req[r].kind \in {"login", "change"} /\ (req[r].kind = "login" <=> r \in Held)
  BY <1>1, <1>2 DEF Held, At, ReqOK, ReqType
<1>5. PICK q \in ReqType \cup {IdleReq} :
        /\ req' = [req EXCEPT ![r] = q] /\ ~(q.pc \in {"load", "compare"})
        /\ q # IdleReq => /\ q.kind = req[r].kind /\ q.new = req[r].new /\ q.old = req[r].old
                          /\ q.pc = IF req[r].kind = "login" THEN "issue" ELSE "write"
  <2>1. CASE req[r].users[req[r].user] = req[r].old
    <3> DEFINE q == [req[r] EXCEPT !.users = IF req[r].kind = "login" THEN NoAccount ELSE @,
                                   !.pc = IF req[r].kind = "login" THEN "issue" ELSE "write"]
    <3>1. NoAccount \in [User -> Password \cup {None}]
      BY DEF NoAccount
    <3>2. q \in ReqType
      BY <1>2, <3>1 DEF ReqType
    <3>3. req' = [req EXCEPT ![r] = q]
      BY <2>1, <1>2 DEF Compare, ReqType
    <3>4. /\ q.kind = req[r].kind /\ q.new = req[r].new /\ q.old = req[r].old
          /\ q.pc = IF req[r].kind = "login" THEN "issue" ELSE "write"
      BY <1>2 DEF ReqType
    <3>5. ~(q.pc \in {"load", "compare"})
      BY <3>4
    <3> HIDE DEF q
    <3> QED BY <3>2, <3>3, <3>4, <3>5
  <2>2. CASE req[r].users[req[r].user] # req[r].old
    BY <2>2 DEF Compare, Return, IdleReq
  <2> QED BY <2>1, <2>2
<1>6. req'[r] = q
  BY <1>5, ReqTyped DEF IInv
<1>7. SlotInv' /\ (r \in Held => slots > 0)
  <2>1. CASE r \in Held
    <3>1. Held' = Held \ {r}
      BY <1>5 DEF Held, IInv, TypeOK
    <3> QED BY <1>3, <1>4, <2>1, <3>1, HeldRemoved DEF IInv
  <2>2. CASE r \notin Held
    BY <1>3, <1>4, <1>5, <2>2, SlotsKept DEF IInv
  <2> QED BY <2>1, <2>2
<1>8. TypeOK'
  <2>1. slots' \in 0 .. MaxConcurrentVerifies
    BY <1>3, <1>4, <1>7, AuthAssumption DEF IInv, TypeOK
  <2> QED BY <1>1, <1>5, <2>1, ReqTyped DEF IInv, TypeOK, setupVars
<1>9. ReqInv'
  <2>1. q # IdleReq => ReqOK(r)'
    BY <1>1, <1>2, <1>4, <1>5, <1>6 DEF ReqOK, At, setupVars
  <2> QED BY <1>1, <1>5, <2>1, ReqKept DEF IInv, setupVars, Empty
<1>10. SetupIsSound' /\ SessionsFollowPassword'
  BY <1>1, <1>5, SetupKept, SessionsKept DEF IInv, setupVars, At
<1> QED BY <1>7, <1>8, <1>9, <1>10 DEF IInv

LEMMA SpendInv ==
    ASSUME IInv, NEW r \in Request, Spend(r)
    PROVE  IInv'
<1>1. At(r, "spend") /\ token' = "spent" /\ tokenFile' \in {FALSE, tokenFile} /\ UNCHANGED <<accounts, session, slots, up, first>>
  BY DEF Spend
<1>2. req[r] \in ReqType /\ ReqOK(r) /\ ~Empty
  BY <1>1, IdleAt DEF IInv, ReqInv, At, ReqOK
<1> DEFINE q == [req[r] EXCEPT !.pc = "issue"]
<1>3. req' = [req EXCEPT ![r] = q] /\ q \in ReqType
  BY <1>2 DEF Spend, Goto, ReqType
<1>4. req'[r] = q /\ q.pc = "issue" /\ q.kind = req[r].kind /\ q.new = req[r].new /\ q.old = req[r].old
  BY <1>2, <1>3, ReqTyped DEF IInv, ReqType
<1>5. TypeOK'
  <2>1. tokenFile' \in BOOLEAN
    BY <1>1 DEF IInv, TypeOK
  <2> QED BY <1>1, <1>3, <2>1, ReqTyped DEF IInv, TypeOK
<1>6. ~Empty'
  BY <1>1, <1>2 DEF Empty, NoAccount
<1>7. ReqInv'
  <2>1. ReqOK(r)'
    BY <1>1, <1>2, <1>4 DEF ReqOK, At
  <2> QED BY <1>1, <1>3, <1>6, <2>1, ReqKept DEF IInv
<1>8. SlotInv'
  BY <1>1, <1>3, <1>4, SlotsKept DEF IInv, Held, At
<1>9. SetupIsSound'
  BY <1>1, <1>6 DEF IInv, SetupIsSound, InstallIsReachable, FirstAccountHadToken
<1>10. SessionsFollowPassword'
  BY <1>1, <1>3, SessionsKept DEF IInv, At
<1> QED BY <1>5, <1>7, <1>8, <1>9, <1>10 DEF IInv

LEMMA CreateInv ==
    ASSUME IInv, NEW r \in Request, Create(r)
    PROVE  IInv'
<1>1. At(r, "create") /\ UNCHANGED <<session, slots, up, token, tokenFile>>
  BY DEF Create
<1>2. req[r] \in ReqType /\ ReqOK(r) /\ req[r].kind = "setup" /\ req[r].new \in Password
  BY <1>1, IdleAt DEF IInv, ReqInv, At, ReqOK, ReqType
<1>3. r \notin Held
  BY <1>1 DEF Held, At
<1>4. CASE req' = [req EXCEPT ![r] = IdleReq] /\ UNCHANGED <<accounts, first>>
  BY <1>1, <1>3, <1>4, OnlyReq DEF At, IdleReq, setupVars
<1>5. CASE /\ accounts[req[r].user] = None
           /\ accounts' = [accounts EXCEPT ![req[r].user] = req[r].new]
           /\ first' = IF Empty THEN req[r].proof ELSE first
           /\ Goto(r, "spend")
  <2> DEFINE q == [req[r] EXCEPT !.pc = "spend"]
  <2>1. req' = [req EXCEPT ![r] = q] /\ q \in ReqType
    BY <1>2, <1>5 DEF Goto, ReqType
  <2>2. req'[r] = q /\ q.pc = "spend" /\ q.kind = req[r].kind /\ q.new = req[r].new /\ q.old = req[r].old
    BY <1>2, <2>1, ReqTyped DEF IInv, ReqType
  <2>3. accounts' \in [User -> Password \cup {None}] /\ req[r].user \in User /\ accounts'[req[r].user] = req[r].new
    BY <1>2, <1>5 DEF IInv, TypeOK, ReqType
  <2>4. ~Empty'
    <3>1. accounts'[req[r].user] # None
      BY <1>2, <2>3, AuthAssumption
    <3> QED BY <2>3, <3>1 DEF Empty, NoAccount
  <2>5. first' # FALSE
    BY <1>1, <1>2, <1>5 DEF ReqOK, IInv, SetupIsSound, FirstAccountHadToken
  <2>6. TypeOK'
    <3>1. first' \in BOOLEAN \cup {None}
      BY <1>2, <1>5 DEF IInv, TypeOK, ReqType
    <3> QED BY <1>1, <2>1, <2>3, <3>1, ReqTyped DEF IInv, TypeOK
  <2>7. ReqInv'
    <3>1. ReqOK(r)'
      BY <1>1, <1>2, <2>2, <2>4 DEF ReqOK, At
    <3> QED BY <1>1, <2>1, <2>4, <3>1, ReqKept DEF IInv
  <2>8. SlotInv'
    BY <1>1, <1>3, <2>1, <2>2, SlotsKept DEF IInv
  <2>9. SetupIsSound'
    BY <2>4, <2>5 DEF SetupIsSound, InstallIsReachable, FirstAccountHadToken
  <2>10. SessionsFollowPassword'
    <3> SUFFICES ASSUME NEW b \in Browser, session[b] # None, session[b].pw # accounts'[session[b].user], ~session[b].late
                 PROVE  \E s \in Request : At(s, "end")' /\ req'[s].user = session[b].user
      BY <1>1 DEF SessionsFollowPassword
    <3>1. session[b].user \in User /\ session[b].pw \in Password
      BY DEF IInv, TypeOK, SessionType
    <3>2. session[b].pw # accounts[session[b].user]
      BY <1>5, <3>1, AuthAssumption DEF IInv, TypeOK
    <3>3. PICK s \in Request : At(s, "end") /\ req[s].user = session[b].user
      BY <3>2 DEF IInv, SessionsFollowPassword
    <3>4. s # r
      BY <1>1, <3>3 DEF At
    <3> QED BY <2>1, <3>3, <3>4 DEF At, IInv, TypeOK
  <2> QED BY <2>6, <2>7, <2>8, <2>9, <2>10 DEF IInv
<1> QED BY <1>4, <1>5 DEF Create, AfterFailedCreate, Return

LEMMA WriteInv ==
    ASSUME IInv, NEW r \in Request, Write(r)
    PROVE  IInv'
<1>1. At(r, "write") /\ UNCHANGED <<session, slots, setupVars>>
  BY DEF Write
<1>2. req[r] \in ReqType /\ ReqOK(r) /\ req[r].kind = "change" /\ req[r].new \in Password
  BY <1>1, IdleAt DEF IInv, ReqInv, At, ReqOK, ReqType
<1>3. r \notin Held
  BY <1>1 DEF Held, At
<1>4. CASE req' = [req EXCEPT ![r] = IdleReq] /\ UNCHANGED accounts
  BY <1>1, <1>3, <1>4, OnlyReq DEF At, IdleReq
<1>5. CASE /\ accounts[req[r].user] # None
           /\ accounts' = [accounts EXCEPT ![req[r].user] = req[r].new]
           /\ Goto(r, "end")
  <2> DEFINE q == [req[r] EXCEPT !.pc = "end"]
  <2>1. req' = [req EXCEPT ![r] = q] /\ q \in ReqType
    BY <1>2, <1>5 DEF Goto, ReqType
  <2>2. req'[r] = q /\ q.pc = "end" /\ q.kind = req[r].kind /\ q.new = req[r].new /\ q.old = req[r].old /\ q.user = req[r].user
    BY <1>2, <2>1, ReqTyped DEF IInv, ReqType
  <2>3. accounts' \in [User -> Password \cup {None}] /\ req[r].user \in User /\ accounts'[req[r].user] = req[r].new
    BY <1>2, <1>5 DEF IInv, TypeOK, ReqType
  <2>4. ~Empty /\ ~Empty'
    <3>1. accounts'[req[r].user] # None
      BY <1>2, <2>3, AuthAssumption
    <3> QED BY <1>5, <2>3, <3>1 DEF Empty, NoAccount
  <2>5. TypeOK'
    BY <1>1, <2>1, <2>3, ReqTyped DEF IInv, TypeOK, setupVars
  <2>6. ReqInv'
    <3>1. ReqOK(r)'
      BY <1>1, <1>2, <2>2, <2>4 DEF ReqOK, At, setupVars
    <3> QED BY <1>1, <2>1, <2>4, <3>1, ReqKept DEF IInv, setupVars
  <2>7. SlotInv'
    BY <1>1, <1>3, <2>1, <2>2, SlotsKept DEF IInv
  <2>8. SetupIsSound'
    <3>1. first' = first
      BY <1>1 DEF setupVars
    <3> QED BY <2>4, <3>1 DEF IInv, SetupIsSound, InstallIsReachable, FirstAccountHadToken
  <2>9. SessionsFollowPassword'
    <3> SUFFICES ASSUME NEW b \in Browser, session[b] # None, session[b].pw # accounts'[session[b].user], ~session[b].late
                 PROVE  \E s \in Request : At(s, "end")' /\ req'[s].user = session[b].user
      BY <1>1 DEF SessionsFollowPassword
    <3>1. CASE session[b].user = req[r].user
      BY <2>2, <3>1 DEF At
    <3>2. CASE session[b].user # req[r].user
      <4>1. session[b].pw # accounts[session[b].user]
        BY <1>5, <3>2 DEF IInv, TypeOK, SessionType
      <4>2. PICK s \in Request : At(s, "end") /\ req[s].user = session[b].user
        BY <4>1 DEF IInv, SessionsFollowPassword
      <4>3. s # r
        BY <1>1, <4>2 DEF At
      <4> QED BY <2>1, <4>2, <4>3 DEF At, IInv, TypeOK
    <3> QED BY <3>1, <3>2
  <2> QED BY <2>5, <2>6, <2>7, <2>8, <2>9 DEF IInv
<1> QED BY <1>4, <1>5 DEF Write, Rewritten, Return

LEMMA DeleteUserInv ==
    ASSUME IInv, NEW r \in Request, DeleteUser(r)
    PROVE  IInv'
<1>1. At(r, "end") /\ UNCHANGED <<accounts, slots, setupVars>>
  BY DEF DeleteUser
<1>2. req[r] \in ReqType /\ ReqOK(r)
  BY <1>1, IdleAt DEF IInv, ReqInv, At
<1> DEFINE q == [req[r] EXCEPT !.pc = "issue"]
<1>3. req' = [req EXCEPT ![r] = q] /\ q \in ReqType
  BY <1>2 DEF DeleteUser, Goto, ReqType
<1>4. req'[r] = q /\ q.pc = "issue" /\ q.kind = req[r].kind /\ q.new = req[r].new /\ q.old = req[r].old
  BY <1>2, <1>3, ReqTyped DEF IInv, ReqType
<1>5. session' \in [Browser -> SessionType \cup {None}]
  BY DEF DeleteUser, IInv, TypeOK
<1>6. TypeOK'
  BY <1>1, <1>3, <1>5, ReqTyped DEF IInv, TypeOK, setupVars
<1>7. ReqInv'
  <2>1. ReqOK(r)'
    BY <1>1, <1>2, <1>4 DEF ReqOK, At, setupVars
  <2> QED BY <1>1, <1>3, <2>1, ReqKept DEF IInv, setupVars, Empty
<1>8. SlotInv'
  BY <1>1, <1>3, <1>4, SlotsKept DEF IInv, Held, At
<1>9. SetupIsSound'
  BY <1>1, SetupKept DEF IInv, setupVars
<1>10. SessionsFollowPassword'
  <2> SUFFICES ASSUME NEW b \in Browser, session'[b] # None, session'[b].pw # accounts[session'[b].user], ~session'[b].late
               PROVE  \E s \in Request : At(s, "end")' /\ req'[s].user = session'[b].user
    BY <1>1 DEF SessionsFollowPassword
  <2>1. session'[b] = session[b] /\ session[b].user # req[r].user
    BY DEF DeleteUser, Ended
  <2>2. PICK s \in Request : At(s, "end") /\ req[s].user = session[b].user
    BY <2>1 DEF IInv, SessionsFollowPassword
  <2> QED BY <1>3, <2>1, <2>2 DEF At, IInv, TypeOK
<1> QED BY <1>6, <1>7, <1>8, <1>9, <1>10 DEF IInv

LEMMA IssueInv ==
    ASSUME IInv, NEW r \in Request, Issue(r)
    PROVE  IInv'
<1>1. At(r, "issue") /\ req' = [req EXCEPT ![r] = IdleReq] /\ UNCHANGED <<accounts, slots, setupVars>>
  BY DEF Issue, Return
<1>2. req[r] \in ReqType /\ ReqOK(r)
  BY <1>1, IdleAt DEF IInv, ReqInv, At
<1> DEFINE new == [user |-> req[r].user, pw |-> Proven(r), late |-> accounts[req[r].user] # Proven(r)]
<1>3. session' = [session EXCEPT ![req[r].by] = new] /\ req[r].by \in Browser /\ new \in SessionType
  BY <1>2 DEF Issue, ReqType, SessionType, Proven, ReqOK
<1>4. TypeOK'
  <2>1. session' \in [Browser -> SessionType \cup {None}]
    BY <1>3 DEF IInv, TypeOK
  <2> QED BY <1>1, <2>1, ReqTyped DEF IInv, TypeOK, setupVars
<1>5. ReqInv'
  BY <1>1, ReqKept DEF IInv, setupVars, Empty
<1>6. SlotInv'
  BY <1>1, SlotsKept DEF IInv, Held, At, IdleReq
<1>7. SetupIsSound'
  BY <1>1, SetupKept DEF IInv, setupVars
<1>8. SessionsFollowPassword'
  <2> SUFFICES ASSUME NEW b \in Browser, session'[b] # None, session'[b].pw # accounts[session'[b].user], ~session'[b].late
               PROVE  \E s \in Request : At(s, "end")' /\ req'[s].user = session'[b].user
    BY <1>1 DEF SessionsFollowPassword
  <2>1. b # req[r].by
    BY <1>3 DEF IInv, TypeOK
  <2>2. session'[b] = session[b]
    BY <1>3, <2>1 DEF IInv, TypeOK
  <2>3. PICK s \in Request : At(s, "end") /\ req[s].user = session[b].user
    BY <2>2 DEF IInv, SessionsFollowPassword
  <2>4. s # r
    BY <1>1, <2>3 DEF At
  <2> QED BY <1>1, <2>2, <2>3, <2>4 DEF At, IInv, TypeOK
<1> QED BY <1>4, <1>5, <1>6, <1>7, <1>8 DEF IInv

LEMMA StartProcessInv ==
    ASSUME IInv, StartProcess
    PROVE  IInv'
<1>1. ~up /\ up' = TRUE /\ UNCHANGED <<accounts, session, req, slots, first>>
  BY DEF StartProcess
<1>2. Empty' <=> Empty
  BY <1>1 DEF Empty, NoAccount
<1>3. TypeOK'
  <2>1. token' \in {"live", "spent"} /\ tokenFile' \in BOOLEAN /\ up' \in BOOLEAN
    BY DEF StartProcess, IInv, TypeOK
  <2> QED BY <1>1, <2>1 DEF IInv, TypeOK
<1>4. ReqInv'
  BY <1>1 DEF IInv, ReqInv, ReqOK
<1>5. SlotInv'
  BY <1>1, HeldSame DEF IInv, Held
<1>6. SetupIsSound'
  BY <1>1, <1>2 DEF StartProcess, IInv, SetupIsSound, InstallIsReachable, FirstAccountHadToken
<1>7. SessionsFollowPassword'
  BY <1>1 DEF IInv, SessionsFollowPassword, At
<1> QED BY <1>3, <1>4, <1>5, <1>6, <1>7 DEF IInv

LEMMA CrashInv ==
    ASSUME IInv, Crash
    PROVE  IInv'
<1>1. /\ up' = FALSE /\ token' = "spent" /\ slots' = 0 /\ UNCHANGED <<accounts, tokenFile, first>>
      /\ session' = [b \in Browser |-> None] /\ req' = [r \in Request |-> IdleReq]
  BY DEF Crash
<1>2. Empty' <=> Empty
  BY <1>1 DEF Empty, NoAccount
<1>3. TypeOK'
  <2>1. slots' \in 0 .. MaxConcurrentVerifies
    BY <1>1, AuthAssumption
  <2>2. up' \in BOOLEAN
    BY <1>1, Zenon
  <2> QED BY <1>1, <2>1, <2>2 DEF IInv, TypeOK
<1>4. ReqInv'
  BY <1>1 DEF ReqInv
<1>5. SlotInv'
  <2>1. Held' = {}
    BY <1>1 DEF Held, IdleReq
  <2> QED BY <1>1, <2>1, FS_EmptySet DEF SlotInv
<1>6. SetupIsSound'
  BY <1>1, <1>2 DEF IInv, SetupIsSound, InstallIsReachable, FirstAccountHadToken
<1>7. SessionsFollowPassword'
  BY <1>1 DEF SessionsFollowPassword
<1> QED BY <1>3, <1>4, <1>5, <1>6, <1>7 DEF IInv

LEMMA EndSessionInv ==
    ASSUME IInv, NEW b \in Browser, EndSession(b)
    PROVE  IInv'
<1>1. session' = [session EXCEPT ![b] = None] /\ UNCHANGED <<accounts, req, slots, setupVars>>
  BY DEF EndSession
<1>2. TypeOK' /\ ReqInv' /\ SetupIsSound'
  <2>1. TypeOK'
    BY <1>1 DEF IInv, TypeOK, setupVars
  <2>2. ReqInv'
    BY <1>1 DEF IInv, ReqInv, ReqOK, At, Empty, setupVars
  <2> QED BY <1>1, <2>1, <2>2, SetupKept DEF IInv, setupVars
<1>3. SlotInv'
  BY <1>1, HeldSame DEF IInv, Held
<1>4. SessionsFollowPassword'
  BY <1>1 DEF IInv, TypeOK, SessionsFollowPassword, At
<1> QED BY <1>2, <1>3, <1>4 DEF IInv

LEMMA StutterInv ==
    ASSUME IInv, UNCHANGED vars
    PROVE  IInv'
  BY DEF IInv, TypeOK, ReqInv, ReqOK, At, Empty, NoAccount, SlotInv, Held, SetupIsSound, InstallIsReachable,
         FirstAccountHadToken, SessionsFollowPassword, vars

LEMMA NextInv == IInv /\ [Next]_vars => IInv'
<1> SUFFICES ASSUME IInv, [Next]_vars PROVE IInv'
  OBVIOUS
<1>1. CASE StartProcess \/ Crash
  BY <1>1, StartProcessInv, CrashInv
<1>2. ASSUME NEW r \in Request, Arrive(r) PROVE IInv'
  BY <1>2, BeginSetupInv, BeginLoginInv, BeginChangeInv DEF Arrive
<1>3. ASSUME NEW r \in Request, Acquire(r) \/ GiveUp(r) PROVE IInv'
  BY <1>3, AcquireInv, GiveUpInv
<1>4. ASSUME NEW r \in Request, Handle(r) PROVE IInv'
  BY <1>4, CheckInv, CreateInv, SpendInv, LoadInv, CompareInv, WriteInv, DeleteUserInv, IssueInv DEF Handle
<1>5. ASSUME NEW b \in Browser, EndSession(b) PROVE IInv'
  BY <1>5, EndSessionInv
<1> QED BY <1>1, <1>2, <1>3, <1>4, <1>5, StutterInv DEF Next
-----------------------------------------------------------------------------
\* The inductive invariant.
THEOREM Invariance == Spec => []IInv
BY InitInv, NextInv, PTL DEF Spec

\* setuptoken_test.go:219-220: for any number of logins and slots, the semaphore counts
\* exactly the logins that are between acquiring it and the end of their comparison.
THEOREM SlotsAreHeldHolds == Spec => []SlotsAreHeld
<1>1. IInv => SlotsAreHeld
  BY DEF IInv, SlotInv, Held, SlotsAreHeld
<1> QED BY <1>1, Invariance, PTL

\* main.go:158-161, setuptoken.go:23-27: however submissions interleave, fail and are cut by
\* restarts, the first account can be made until it is, and only with the token.
THEOREM SetupIsSoundHolds == Spec => []SetupIsSound
<1>1. IInv => SetupIsSound
  BY DEF IInv
<1> QED BY <1>1, Invariance, PTL

\* session.go:73-74: a session outlives its password only by the race that `late` names,
\* or until the change that is about to end it does.
THEOREM SessionsFollowPasswordHolds == Spec => []SessionsFollowPassword
<1>1. IInv => SessionsFollowPassword
  BY DEF IInv
<1> QED BY <1>1, Invariance, PTL

\* auth.go:64-67: no step takes an account away.
LEMMA AccountStays ==
    ASSUME IInv, [Next]_vars, NEW u \in User, accounts[u] # None
    PROVE  accounts'[u] # None
<1>1. ASSUME NEW r \in Request, Create(r) PROVE accounts'[u] # None
  <2>1. req[r] # IdleReq /\ ReqOK(r) /\ req[r] \in ReqType
    BY <1>1, IdleAt DEF Create, At, IInv, ReqInv
  <2>2. req[r].new \in Password
    BY <1>1, <2>1 DEF Create, At, ReqOK, ReqType
  <2> QED BY <1>1, <2>2, AuthAssumption DEF Create, IInv, TypeOK
<1>2. ASSUME NEW r \in Request, Write(r) PROVE accounts'[u] # None
  <2>1. req[r] # IdleReq /\ ReqOK(r) /\ req[r] \in ReqType
    BY <1>2, IdleAt DEF Write, At, IInv, ReqInv
  <2>2. req[r].new \in Password
    BY <1>2, <2>1 DEF Write, At, ReqOK, ReqType
  <2> QED BY <1>2, <2>2, AuthAssumption DEF Write, Rewritten, IInv, TypeOK
<1>3. CASE UNCHANGED accounts
  BY <1>3
<1>4. UNCHANGED accounts \/ \E r \in Request : Create(r) \/ Write(r)
  BY DEF Next, StartProcess, Crash, Arrive, BeginSetup, BeginLogin, BeginChange, Acquire, GiveUp, Handle, Check, Spend,
         Load, Compare, DeleteUser, Issue, EndSession, vars
<1> QED BY <1>1, <1>2, <1>3, <1>4

\* auth.go:64-67: whatever submissions, changes and restarts do, an account stays.
THEOREM OperatorsStayHolds == Spec => OperatorsStay
<1>1. IInv /\ [Next]_vars => [\A u \in User : accounts[u] # None => accounts'[u] # None]_vars
  BY AccountStays
<1> QED BY <1>1, Invariance, PTL DEF Spec, OperatorsStay
-----------------------------------------------------------------------------
(***************************************************************************)
(* The generated secrets, module Secrets.                                  *)
(***************************************************************************)
USE SecretsAssumption

\* Between Load and Claim a request holds prep: there is one at most.
Exclusive == \A r \in DeployRequest : need[r].pc # "idle" => prep = r

\* As long as nobody edits the variable, what a request, the run and the database
\* hold is what LookupSecret returns; a secret is drawn only when that is nothing.
Agreement ==
  ~changed =>
    /\ \A r \in DeployRequest :
         /\ need[r].pc = "materialize" => need[r].env = variable
         /\ need[r].pc = "write" => Lookup = Nothing /\ need[r].env # Nothing
         /\ need[r].pc = "claim" => need[r].env # Nothing /\ Lookup = need[r].env
    /\ run # Nothing => Lookup = run
    /\ database # Nothing => Lookup = database

\* What is being written is a drawn value, not one cut short.
WritesDrawn == \A r \in DeployRequest : need[r].pc = "write" => need[r].env \in 1 .. MaxSecrets

SecretsInv == SecretTypeOK /\ WritesDrawn /\ Exclusive /\ Agreement

-----------------------------------------------------------------------------
LEMMA SecretsTypeInit ==
    SecretInit => SecretTypeOK
<1> SUFFICES ASSUME SecretInit PROVE SecretTypeOK
  OBVIOUS
<1>1. changed \in BOOLEAN
  BY Zenon DEF SecretInit
<1>2. drawn \in 0 .. MaxSecrets
  BY DEF SecretInit
<1>3. need \in [DeployRequest -> [pc : {"idle", "materialize", "write", "claim"}, env : Value \cup {Nothing}]]
  BY DEF SecretInit, NoNeed
<1> QED BY <1>1, <1>2, <1>3 DEF SecretInit, SecretTypeOK

LEMMA SecretsStep ==
    SecretTypeOK /\ WritesDrawn /\ [SecretNext]_secretVars => SecretTypeOK' /\ WritesDrawn'
<1> USE DEF SecretTypeOK, WritesDrawn, Value, NoNeed
<1>1. SUFFICES ASSUME SecretTypeOK, WritesDrawn, [SecretNext]_secretVars PROVE SecretTypeOK' /\ WritesDrawn'
  OBVIOUS
<1>2. ASSUME NEW v \in Chosen \cup {Nothing}, SaveConfig(v) PROVE SecretTypeOK' /\ WritesDrawn'
  BY <1>1, <1>2 DEF SaveConfig
<1>3. ASSUME NEW r \in DeployRequest, LoadConfig(r) PROVE SecretTypeOK' /\ WritesDrawn'
  BY <1>1, <1>3 DEF LoadConfig
<1>4. ASSUME NEW r \in DeployRequest, Reuse(r) PROVE SecretTypeOK' /\ WritesDrawn'
  BY <1>1, <1>4 DEF Reuse
<1>5. ASSUME NEW r \in DeployRequest, Draw(r) PROVE SecretTypeOK' /\ WritesDrawn'
  BY <1>1, <1>5 DEF Draw
<1>6. ASSUME NEW r \in DeployRequest, WriteFile(r) PROVE SecretTypeOK' /\ WritesDrawn'
  BY <1>1, <1>6 DEF WriteFile, CutShort, AfterFailedWrite
<1>7. ASSUME NEW r \in DeployRequest, Claim(r) PROVE SecretTypeOK' /\ WritesDrawn'
  BY <1>1, <1>7 DEF Claim
<1>8. CASE StartDatabase
  BY <1>1, <1>8 DEF StartDatabase
<1>9. CASE EndRun
  BY <1>1, <1>9 DEF EndRun
<1>10. CASE Restart
  BY <1>1, <1>10 DEF Restart
<1>11. CASE UNCHANGED secretVars
  BY <1>1, <1>11 DEF secretVars
<1> QED
  BY <1>1, <1>2, <1>3, <1>4, <1>5, <1>6, <1>7, <1>8, <1>9, <1>10, <1>11 DEF SecretNext
-----------------------------------------------------------------------------
LEMMA ExclusiveIsKept ==
    SecretTypeOK /\ Exclusive /\ [SecretNext]_secretVars => Exclusive'
<1> USE DEF SecretTypeOK, Exclusive, NoNeed
<1>1. SUFFICES ASSUME SecretTypeOK, Exclusive, [SecretNext]_secretVars PROVE Exclusive'
  OBVIOUS
<1>2. ASSUME NEW v \in Chosen \cup {Nothing}, SaveConfig(v) PROVE Exclusive'
  BY <1>1, <1>2 DEF SaveConfig
<1>3. ASSUME NEW r \in DeployRequest, LoadConfig(r) PROVE Exclusive'
  BY <1>1, <1>3 DEF LoadConfig, PrepIsFree
<1>4. ASSUME NEW r \in DeployRequest, Reuse(r) PROVE Exclusive'
  BY <1>1, <1>4 DEF Reuse
<1>5. ASSUME NEW r \in DeployRequest, Draw(r) PROVE Exclusive'
  BY <1>1, <1>5 DEF Draw
<1>6. ASSUME NEW r \in DeployRequest, WriteFile(r) PROVE Exclusive'
  BY <1>1, <1>6 DEF WriteFile, AfterFailedWrite
<1>7. ASSUME NEW r \in DeployRequest, Claim(r) PROVE Exclusive'
  BY <1>1, <1>7 DEF Claim
<1>8. CASE StartDatabase \/ EndRun \/ Restart \/ UNCHANGED secretVars
  BY <1>1, <1>8 DEF StartDatabase, EndRun, Restart, secretVars
<1> QED
  BY <1>1, <1>2, <1>3, <1>4, <1>5, <1>6, <1>7, <1>8 DEF SecretNext

LEMMA AgreementIsKept ==
    SecretsInv /\ [SecretNext]_secretVars => Agreement'
<1> USE DEF SecretsInv, SecretTypeOK, Exclusive, Agreement, Lookup, Value, NoNeed
<1>1. SUFFICES ASSUME SecretsInv, [SecretNext]_secretVars, ~changed' PROVE Agreement'
  OBVIOUS
<1>2. ASSUME NEW v \in Chosen \cup {Nothing}, SaveConfig(v) PROVE Agreement'
  BY <1>1, <1>2 DEF SaveConfig
<1>3. ASSUME NEW r \in DeployRequest, LoadConfig(r) PROVE Agreement'
  BY <1>1, <1>3 DEF LoadConfig, PrepIsFree
<1>4. ASSUME NEW r \in DeployRequest, Reuse(r) PROVE Agreement'
  BY <1>1, <1>4 DEF Reuse, Reusable
<1>5. ASSUME NEW r \in DeployRequest, Draw(r) PROVE Agreement'
  BY <1>1, <1>5 DEF Draw, Reusable
<1>6. ASSUME NEW r \in DeployRequest, WriteFile(r) PROVE Agreement'
  BY <1>1, <1>6 DEF WriteFile, AfterFailedWrite, CutShort
<1>7. ASSUME NEW r \in DeployRequest, Claim(r) PROVE Agreement'
  BY <1>1, <1>7 DEF Claim
<1>8. CASE StartDatabase \/ EndRun \/ Restart \/ UNCHANGED secretVars
  BY <1>1, <1>8 DEF StartDatabase, EndRun, Restart, secretVars
<1> QED
  BY <1>1, <1>2, <1>3, <1>4, <1>5, <1>6, <1>7, <1>8 DEF SecretNext

LEMMA SecretsInvariance ==
    SecretSpec => []SecretsInv
<1>1. SecretInit => SecretsInv
  <2> SUFFICES ASSUME SecretInit PROVE WritesDrawn /\ Exclusive /\ Agreement
    BY SecretsTypeInit DEF SecretsInv
  <2>1. \A r \in DeployRequest : need[r].pc = "idle"
    BY DEF SecretInit, NoNeed
  <2>2. run = Nothing /\ database = Nothing
    BY DEF SecretInit
  <2> QED BY <2>1, <2>2 DEF WritesDrawn, Exclusive, Agreement
<1>2. SecretsInv /\ [SecretNext]_secretVars => SecretsInv'
  BY SecretsStep, ExclusiveIsKept, AgreementIsKept DEF SecretsInv
<1> QED BY <1>1, <1>2, PTL DEF SecretSpec
-----------------------------------------------------------------------------
\* Every variable of the model stays in its type.
THEOREM SecretsTypeCorrect ==
    SecretSpec => []SecretTypeOK
<1>1. SecretsInv => SecretTypeOK
  BY DEF SecretsInv
<1> QED BY <1>1, SecretsInvariance, PTL

\* deploy.go:58-68: through any number of racing requests, failed writes and
\* restarts, the database is never left with a password that the next deploy does
\* not know, unless the operator edits the variable.
THEOREM DatabaseOpensHolds ==
    SecretSpec => []DatabaseOpens
<1>1. SecretsInv => DatabaseOpens
  BY DEF SecretsInv, Agreement, DatabaseOpens
<1> QED BY <1>1, SecretsInvariance, PTL

\* generate.go:96-98: once a run has started with the secret, no step writes the
\* file again.
THEOREM NeverRotatedHolds ==
    SecretSpec => NeverRotated
<1>1. SecretsInv /\ [SecretNext]_secretVars =>
        [(run # Nothing \/ database # Nothing) /\ ~changed => file' = file]_secretVars
  <2> SUFFICES ASSUME SecretsInv, [SecretNext]_secretVars, run # Nothing \/ database # Nothing, ~changed
               PROVE  file' = file
    OBVIOUS
  <2>1. Lookup # Nothing
    BY DEF SecretsInv, Agreement
  <2>2. ASSUME NEW r \in DeployRequest, Draw(r) PROVE FALSE
    BY <2>1, <2>2 DEF Draw, Reusable, SecretsInv, Agreement, Lookup
  <2>3. ASSUME NEW r \in DeployRequest, WriteFile(r) PROVE FALSE
    BY <2>1, <2>3 DEF WriteFile, SecretsInv, Agreement
  <2> QED
    BY <2>2, <2>3 DEF SecretNext, secretVars, SaveConfig, LoadConfig, Reuse, Claim, StartDatabase,
                      EndRun, Restart
<1> QED BY <1>1, SecretsInvariance, PTL DEF SecretSpec, NeverRotated
=============================================================================
