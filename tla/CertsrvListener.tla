--------------------------- MODULE CertsrvListener ---------------------------
(***************************************************************************)
(* The certsrv (Microsoft CA) emulator: mscaManager of the control plane's *)
(* main.go, which closes and opens the second listener at every save of    *)
(* the configuration, the handler of msca/certsrv.go with its table of     *)
(* issued certificates, and the signing they share with the page's CSR     *)
(* form (deploy/sign.go).                                                  *)
(*                                                                         *)
(* A configuration is its version and whether it enables the emulator.  A  *)
(* certificate is the client whose request it answers.                     *)
(***************************************************************************)
EXTENDS Naturals, FiniteSets, Sequences

CONSTANTS Saver,       \* goroutines of PUT /api/config
          Main,        \* the goroutine of main
          Client,      \* who asks for certificates
          None,        \* no certificate
          Retained,    \* maxIssuedRetained, 64 in the code
          MaxSaves,    \* bound on the saves of a behaviour
          MaxRequests, \* bound on its certificate requests
          MaxRestarts, \* bound on the restarts of the control plane
          MaxAll       \* bound on all of these together
ASSUME CertsrvAssumption ==
    /\ Main \notin Saver /\ None \notin Client
    /\ Retained \in Nat \ {0} /\ {MaxSaves, MaxRequests, MaxRestarts, MaxAll} \subseteq Nat

VARIABLES saved,    \* the configuration file
          thread,   \* where a saver, or main at start-up, is
          mine,     \* the version a saver wrote
          answered, \* the newest version whose save was answered
          cur,      \* mscaManager.srv, 0 for nil
          server,   \* every http.Server ever made, in order
          port,     \* the server whose socket is bound, 0 for none
          robbed,   \* auxiliary: cur found the port held by a server that was closed
          dir,      \* SignCSR's request directories
          req,      \* the clients
          spent     \* how many requests and restarts there were
saverVars == <<saved, thread, mine, answered>>
serverVars == <<cur, server, port, robbed>>
vars == <<saverVars, serverVars, dir, req, spent>>
-----------------------------------------------------------------------------
Kind == {"on", "off", "broken"}  \* broken: no credentials, or a file that does not load
Thread == Saver \cup {Main}
NoDir == [csr |-> None, crt |-> None]
Idle == [pc |-> "idle", srv |-> 0, at |-> 0, id |-> 0, leaf |-> None]
MayHappen == saved.ver + spent.requests + spent.restarts < MaxAll

Init ==
    /\ saved \in [ver : {0}, kind : Kind]
    /\ thread = [t \in Thread |-> IF t = Main THEN "saved" ELSE "idle"] /\ mine = [t \in Thread |-> 0]
    /\ answered = 0 /\ cur = 0 /\ server = <<>> /\ port = 0 /\ robbed = FALSE
    /\ dir = [c \in Client |-> NoDir] /\ req = [c \in Client |-> Idle]
    /\ spent = [requests |-> 0, restarts |-> 0]
-----------------------------------------------------------------------------
(* Reconcile.                                                              *)

\* handleConfigPut writes the file, then calls OnConfigSaved.  The page is served
\* once main has been through its own Reconcile.
Save(t) ==
    /\ thread[t] = "idle" /\ thread[Main] = "idle" /\ saved.ver < MaxSaves /\ MayHappen
    /\ \E k \in Kind : saved' = [ver |-> saved.ver + 1, kind |-> k]
    /\ mine' = [mine EXCEPT ![t] = saved.ver + 1]
    /\ thread' = [thread EXCEPT ![t] = "saved"]
    /\ UNCHANGED <<answered, serverVars, dir, req, spent>>

\* The mutex: Reconcile holds it from here to the new server.
LockFree(t) == \A u \in Thread : thread[u] # "closed"

\* Mutant: the old server is forgotten, not closed.
Closed_Forgotten(s) == s
\* http.Server.Close: a socket it listens on is closed, a goroutine on its way there is told.
Closed(s) == [s EXCEPT !.closing = TRUE, !.st = IF @ = "serving" THEN "over" ELSE @]

CloseOld(t) ==
    /\ thread[t] = "saved" /\ LockFree(t)
    /\ thread' = [thread EXCEPT ![t] = "closed"]
    /\ cur' = 0
    /\ server' = [i \in DOMAIN server |-> IF i = cur THEN Closed(server[i]) ELSE server[i]]
    /\ port' = IF port # 0 /\ server'[port].st = "over" THEN 0 ELSE port
    /\ UNCHANGED <<saved, mine, answered, robbed, dir, req, spent>>

\* Mutant: Reconcile is given what its own save wrote.
Loaded_Own(t) == [saved EXCEPT !.ver = mine[t]]
\* buildMSCA reads the file under the mutex.
Loaded(t) == saved

\* An enabled emulator gets a new server, a new handler and
\* a goroutine.  Then the save is answered.
Rebind(t) ==
    /\ thread[t] = "closed"
    /\ thread' = [thread EXCEPT ![t] = "idle"]
    /\ answered' = IF mine[t] > answered THEN mine[t] ELSE answered
    /\ robbed' = FALSE
    /\ IF Loaded(t).kind = "on"
         THEN /\ server' = Append(server, [st |-> "spawned", closing |-> FALSE, ver |-> Loaded(t).ver, issued |-> <<>>])
              /\ cur' = Len(server) + 1
         ELSE UNCHANGED <<server, cur>>
    /\ UNCHANGED <<saved, mine, port, dir, req, spent>>

Moves(i, st) == server' = [server EXCEPT ![i].st = st]
ServerStep(i) == UNCHANGED <<saverVars, cur, dir, req, spent>>

\* http.Server.ListenAndServe, in the goroutine: is the server closed already ...
CheckClosed(i) ==
    /\ server[i].st = "spawned"
    /\ Moves(i, IF server[i].closing THEN "over" ELSE "checked")
    /\ ServerStep(i) /\ UNCHANGED <<port, robbed>>

\* ... bind the port; an error is logged, and nothing tries again ...
Listen(i) ==
    /\ server[i].st = "checked" /\ ServerStep(i)
    /\ IF port = 0 THEN Moves(i, "listening") /\ port' = i /\ UNCHANGED robbed
       ELSE /\ Moves(i, "over") /\ UNCHANGED port
            /\ robbed' = (robbed \/ (i = cur /\ server[port].closing))

\* ... and serve, unless it was closed meanwhile.
Serve(i) ==
    /\ server[i].st = "listening" /\ ServerStep(i) /\ UNCHANGED robbed
    /\ IF server[i].closing THEN Moves(i, "over") /\ port' = 0
                            ELSE Moves(i, "serving") /\ UNCHANGED port
Goroutine(i) == CheckClosed(i) \/ Listen(i) \/ Serve(i)
-----------------------------------------------------------------------------
(* Certificates.                                                           *)

Now(c, pc) == req[c].pc = pc
Goes(c, pc) == req' = [req EXCEPT ![c].pc = pc]
Asks == MayHappen /\ spent.requests < MaxRequests /\ spent' = [spent EXCEPT !.requests = @ + 1]

Free(c) == req[c].pc \in {"idle", "done", "refused"}

\* A request that passes the handler's checks, or the page's own form.
Submit(c) ==
    /\ Free(c) /\ Asks
    /\ port # 0 /\ server[port].st = "serving"
    /\ req' = [req EXCEPT ![c] = [Idle EXCEPT !.pc = "dir", !.srv = port]]
    /\ UNCHANGED <<saverVars, serverVars, dir>>
Upload(c) ==
    /\ Free(c) /\ Asks
    /\ req' = [req EXCEPT ![c] = [Idle EXCEPT !.pc = "dir"]]
    /\ UNCHANGED <<saverVars, serverVars, dir>>

\* Mutant: requests are signed in one directory.
Dir_Shared(c) == CHOOSE d \in Client : TRUE
\* MkdirTemp: a directory of the request's own.
Dir(c) == c

\* SignCSR: write the request, have step-ca sign it, read the result, remove the directory.
WriteCSR(c) ==
    /\ Now(c, "dir") /\ UNCHANGED <<saverVars, serverVars, spent>>
    /\ \/ Goes(c, "sign") /\ dir' = [dir EXCEPT ![Dir(c)].csr = c]
       \/ Goes(c, "refused") /\ UNCHANGED dir  \* no CA yet, or the file does not load
StepSign(c) ==
    /\ Now(c, "sign") /\ UNCHANGED <<saverVars, serverVars, spent>>
    /\ \/ Goes(c, "read") /\ \E crt \in {dir[Dir(c)].csr, None} : dir' = [dir EXCEPT ![Dir(c)].crt = crt]
       \/ Goes(c, "refused") /\ dir' = [dir EXCEPT ![Dir(c)] = NoDir]

HasLeaf(crt) == crt # None
ReadCrt(c) ==
    /\ Now(c, "read") /\ UNCHANGED <<saverVars, serverVars, spent>>
    /\ dir' = [dir EXCEPT ![Dir(c)] = NoDir]
    /\ LET crt == dir[Dir(c)].crt IN
       IF HasLeaf(crt) THEN req' = [req EXCEPT ![c].leaf = crt, ![c].pc = IF req[c].srv = 0 THEN "done" ELSE "put"]
                       ELSE Goes(c, "refused")

Evicted(t) == [i \in DOMAIN t |-> IF i <= Len(t) - Retained THEN None ELSE t[i]]

\* put, under the handler's mutex; the answer names the id, if the connection still is.
Put(c) ==
    /\ Now(c, "put")
    /\ LET i == req[c].srv  t == Append(server[i].issued, req[c].leaf) IN
       /\ server' = [server EXCEPT ![i].issued = Evicted(t)]
       /\ req' = [req EXCEPT ![c].pc = IF server[i].closing THEN "refused" ELSE "answered", ![c].id = Len(t), ![c].leaf = None]
    /\ UNCHANGED <<saverVars, cur, port, robbed, dir, spent>>

\* certnew.cer?ReqID=, from whatever server listens now.
Table(i) == server[i].issued
Collect(c) ==
    /\ Now(c, "answered") /\ port # 0 /\ server[port].st = "serving"
    /\ LET got == IF req[c].id \in DOMAIN Table(port) THEN Table(port)[req[c].id] ELSE None IN
       req' = [req EXCEPT ![c].pc = "done", ![c].at = port, ![c].leaf = got]
    /\ UNCHANGED <<saverVars, serverVars, dir, spent>>

Handler(c) == WriteCSR(c) \/ StepSign(c) \/ ReadCrt(c) \/ Put(c)
-----------------------------------------------------------------------------
\* The control plane ends, with all that was under way, and starts again.
Restart ==
    /\ MayHappen /\ spent.restarts < MaxRestarts /\ spent' = [spent EXCEPT !.restarts = @ + 1]
    /\ thread' = [t \in Thread |-> IF t = Main THEN "saved" ELSE "idle"] /\ mine' = [t \in Thread |-> 0]
    /\ cur' = 0 /\ port' = 0 /\ robbed' = FALSE
    /\ server' = [i \in DOMAIN server |-> [server[i] EXCEPT !.st = "over", !.closing = TRUE]]
    /\ req' = [c \in Client |-> IF req[c].pc \in {"dir", "sign", "read", "put"} THEN [req[c] EXCEPT !.pc = "refused"]
                                                                              ELSE req[c]]
    /\ dir' = [c \in Client |-> NoDir] /\ UNCHANGED <<saved, answered>>

Next ==
    \/ \E t \in Thread : (t \in Saver /\ Save(t)) \/ CloseOld(t) \/ Rebind(t)
    \/ \E i \in DOMAIN server : Goroutine(i)
    \/ \E c \in Client : Submit(c) \/ Upload(c) \/ Handler(c) \/ Collect(c)
    \/ Restart
Spec == Init /\ [][Next]_vars

\* Goroutines are scheduled; nobody waits for the mutex for ever.
Fairness ==
    /\ \A t \in Thread : SF_vars(CloseOld(t)) /\ WF_vars(Rebind(t))
    /\ \A i \in 1 .. 1 + MaxSaves + MaxRestarts : WF_vars(i \in DOMAIN server /\ Goroutine(i))
FairSpec == Spec /\ Fairness
-----------------------------------------------------------------------------
ServerType == [st : {"spawned", "checked", "listening", "serving", "over"}, closing : BOOLEAN,
               ver : 0 .. MaxSaves, issued : Seq(Client \cup {None})]

\* Every variable keeps its type, and a certificate on its way to the table is one.
TypeOK ==
    /\ saved \in [ver : 0 .. MaxSaves, kind : Kind] /\ thread \in [Thread -> {"idle", "saved", "closed"}]
    /\ mine \in [Thread -> 0 .. MaxSaves] /\ answered \in 0 .. MaxSaves
    /\ server \in Seq(ServerType) /\ cur \in 0 .. Len(server) /\ port \in 0 .. Len(server) /\ robbed \in BOOLEAN
    /\ dir \in [Client -> [csr : Client \cup {None}, crt : Client \cup {None}]]
    /\ req \in [Client -> [pc : {"idle", "dir", "sign", "read", "put", "answered", "done", "refused"},
                           srv : 0 .. Len(server), at : 0 .. Len(server), id : Nat,
                           leaf : Client \cup {None}]]
    /\ \A c \in Client : req[c].pc = "put" => req[c].leaf # None
    /\ spent \in [requests : 0 .. MaxRequests, restarts : 0 .. MaxRestarts]

\* main.go:248-252 "takes effect": once a save was answered, nothing serves with the
\* credentials, or the mere presence, of a configuration before it, although the
\* goroutines of closed servers may be anywhere on their way to the port.
AnsweredSaveIsInForce ==
    /\ TypeOK
    /\ \A i \in DOMAIN server : server[i].st = "serving" => server[i].ver >= answered

\* Who collects a certificate, or signs one in the page, gets that of its own
\* request, however many sign at once; over certsrv, if the listener is still the
\* one that took the request.  Every save replaces it, and its ids start over.
CollectedIsOwn ==
    \A c \in Client : req[c].pc = "done" /\ req[c].at = req[c].srv => req[c].leaf \in {c, None}

\* certsrv.go:190-195: the table is bounded, and who was told an id finds its
\* certificate there until as many as the bound were issued after it.
IssuedIsKept ==
    \A i \in DOMAIN server :
        /\ Cardinality({n \in DOMAIN Table(i) : Table(i)[n] # None}) <= Retained
        /\ \A c \in Client : req[c].pc = "answered" /\ req[c].srv = i /\ Len(Table(i)) - req[c].id < Retained
                                 => Table(i)[req[c].id] = c

\* What a client collects is its own, and it is there to collect.
IssuedIsCollected == CollectedIsOwn /\ IssuedIsKept

\* When saves and restarts have stopped, the emulator serves the saved
\* configuration, or nothing when it is off, however the Reconciles and the
\* goroutines they started met: main.go:264-298.  The one exception is `robbed`:
\* the goroutine of a server that was closed before it had bound the port binds it,
\* the new server's finds it taken and exits, and nothing listens until the next save.
Serving == {i \in DOMAIN server : server[i].st = "serving"}
SavedIsServed ==
    <>[](\/ robbed
         \/ IF saved.kind = "on" THEN \E i \in Serving : server[i].ver = saved.ver ELSE Serving = {})
=============================================================================
