--------------------------- MODULE ServicesProofs ---------------------------
(***************************************************************************)
(* Proofs about the fourteen deployers behind the foundation, for any      *)
(* tenants and lists of them, any labels, any budget of disturbances, and  *)
(* whatever may happen to a host between and during deployments.           *)
(*                                                                         *)
(* A deployment is the sequence of the statements it has left.  The first  *)
(* part is about such sequences: each deployer's program renders its files *)
(* before its compose file, takes the stack down after that, starts it,    *)
(* waits, and provisions; where a deployment is in this order says what is *)
(* true of the host (HostInv), and each statement moves it one place on.   *)
(* Harbor, whose generated compose file is edited, has an order of its own.*)
(*                                                                         *)
(* The second part is about what is provisioned: a statement that is left  *)
(* will make its object, one that is gone has made it (SeedInv), and the   *)
(* statements of a tenant come in one block, behind the one that finds its *)
(* organisation (OrderInv), so what is missing from the organisation at    *)
(* hand is still to be done there (ServedInv).                             *)
(*                                                                         *)
(* The third part is about the tenants of Zitadel (TenantInv): only who    *)
(* has the token of a whole instance changes its organisations and writes  *)
(* the files, at an organisation of the tenant, for a client it has made.  *)
(***************************************************************************)
EXTENDS Services, SequenceTheorems, FiniteSetTheorems, TLAPS

\* The statements, by the part of a deployment they stand in: what comes before
\* the compose file is written and the stack is down, what may come between the
\* two, what is provisioned once the service is up.
Own == {"usersfile", "traefik.yml", "dynamic.yml", "realm", "blueprint", "smb.conf", "htpasswd", "nginx.conf",
        "client_ca.crt", "server.conf", "chrony.conf", "rsyslog.conf", "harbor.yml"}
Early == {<<"guard">>, <<"ca">>, <<"vars">>, <<"cert">>} \cup ({"open", "write"} \X Own)
Middle == {<<"build">>, <<"vars">>}
Objects == {"backup user", "admins", "readers", "bind user", "admin user", "bind in readers", "admin in admins"}
TenantKinds == {"org", "project", "role", "client", "open client", "write client", "user", "grant"}
Post == {<<"login">>, <<"dial">>, <<"pat">>, <<"api">>} \cup ({"ensure", "set"} \X Objects) \cup (TenantKinds \X Tenant)
Stmt == Early \cup Middle \cup Post \cup {<<"down">>, <<"up">>, <<"wait">>, <<"clear">>, <<"forget">>, <<"prepare">>,
            <<"find port">>, <<"bind">>} \cup ({"open", "write"} \X {"compose", "override"})

\* What a deployment has left, by the part it is in.
Late(p) == <<<<"down">>>> \o (<<<<"up">>>> \o (<<<<"wait">>>> \o p))
Provisions(s) == s \in Seq(Post)
Waits(s) == \E p \in Seq(Post) : s = <<<<"wait">>>> \o p
Starts(s) == \E p \in Seq(Post) : s = <<<<"up">>>> \o (<<<<"wait">>>> \o p)
Builds(s) == \E b \in Seq(Middle), p \in Seq(Post) : s = b \o Late(p)
Declares(s) == \E b \in Seq(Middle), p \in Seq(Post) : s = <<<<"write", "compose">>>> \o (b \o Late(p))
Renders(s) ==
    \E a \in Seq(Early), b \in Seq(Middle), p \in Seq(Post) :
        s = a \o (<<<<"open", "compose">>>> \o (<<<<"write", "compose">>>> \o (b \o Late(p))))

\* Harbor's, from the end.
UpWait == <<<<"up">>>> \o <<<<"wait">>>>
ToBind == <<<<"bind">>>> \o UpWait
ToReopen == <<<<"open", "compose">>>> \o ToBind
ToFind == <<<<"find port">>>> \o ToReopen
ToPrepare == <<<<"prepare">>>> \o ToFind
ToGenerate == <<<<"open", "compose">>>> \o ToPrepare
ToStop == <<<<"down">>>> \o ToGenerate
ToOverride == <<<<"write", "override">>>> \o ToStop
HarborRenders(s) == \E a \in Seq(Early) : s = a \o (<<<<"open", "override">>>> \o ToOverride)

Removal(f) == f = <<>> \/ f = <<<<"forget">>>>
Clears(s) == \E f : Removal(f) /\ s = <<<<"clear">>>> \o f
Takes(s) == \E f : Removal(f) /\ s = <<<<"down">>>> \o (<<<<"clear">>>> \o f)
-----------------------------------------------------------------------------
LEMMA HeadTail ==
    ASSUME NEW S, NEW x \in S, NEW s \in Seq(S)
    PROVE  <<x>> \o s # <<>> /\ Head(<<x>> \o s) = x /\ Tail(<<x>> \o s) = s /\ <<x>> \o s \in Seq(S)
  OBVIOUS

LEMMA HeadTailCat ==
    ASSUME NEW S, NEW a \in Seq(S), NEW s \in Seq(S)
    PROVE  /\ a \o s \in Seq(S)
           /\ a = <<>> => a \o s = s
           /\ a # <<>> => Head(a) \in S /\ Tail(a) \in Seq(S) /\ a \o s # <<>>
                          /\ Head(a \o s) = Head(a) /\ Tail(a \o s) = Tail(a) \o s
<1>1. a \o s \in Seq(S)
  OBVIOUS
<1>2. a = <<>> => a \o s = s
  OBVIOUS
<1>3. ASSUME a # <<>> PROVE Head(a) \in S /\ Tail(a) \in Seq(S) /\ a \o s # <<>>
  BY <1>3
<1>4. ASSUME a # <<>> PROVE Head(a \o s) = Head(a)
  BY <1>4
<1>5. ASSUME a # <<>> PROVE Tail(a \o s) = Tail(a) \o s
  BY <1>5
<1> QED BY <1>1, <1>2, <1>3, <1>4, <1>5

LEMMA StmtCat ==
    \A a, s \in Seq(Stmt) : a # <<>> => /\ a \o s \in Seq(Stmt) /\ a \o s # <<>>
                                       /\ Head(a \o s) = Head(a) /\ Tail(a \o s) = Tail(a) \o s
  BY HeadTailCat

LEMMA Inclusion ==
    /\ Early \subseteq Stmt /\ Middle \subseteq Stmt /\ Post \subseteq Stmt
    /\ <<"down">> \in Stmt /\ <<"up">> \in Stmt /\ <<"wait">> \in Stmt /\ <<"clear">> \in Stmt
    /\ <<"forget">> \in Stmt /\ <<"prepare">> \in Stmt /\ <<"find port">> \in Stmt /\ <<"bind">> \in Stmt
    /\ <<"open", "compose">> \in Stmt /\ <<"write", "compose">> \in Stmt
    /\ <<"open", "override">> \in Stmt /\ <<"write", "override">> \in Stmt
<1>1. Early \subseteq Stmt /\ Middle \subseteq Stmt /\ Post \subseteq Stmt
  BY Zenon DEF Stmt
<1> QED BY <1>1 DEF Stmt

LEMMA SeqInclusion ==
    ASSUME NEW S, NEW T, S \subseteq T
    PROVE  Seq(S) \subseteq Seq(T)
  OBVIOUS

LEMMA Prefixed ==
    ASSUME NEW x \in Stmt, NEW s \in Seq(Stmt)
    PROVE  <<x>> \o s # <<>> /\ Head(<<x>> \o s) = x /\ Tail(<<x>> \o s) = s /\ <<x>> \o s \in Seq(Stmt)
  OBVIOUS

LEMMA LateSeq ==
    ASSUME NEW p \in Seq(Post)
    PROVE  /\ p \in Seq(Stmt) /\ <<<<"wait">>>> \o p \in Seq(Stmt)
           /\ <<<<"up">>>> \o (<<<<"wait">>>> \o p) \in Seq(Stmt) /\ Late(p) \in Seq(Stmt)
<1>1. p \in Seq(Stmt)
  BY Inclusion, SeqInclusion
<1>2. <<<<"wait">>>> \o p \in Seq(Stmt)
  BY <1>1, Inclusion, Prefixed
<1>3. <<<<"up">>>> \o (<<<<"wait">>>> \o p) \in Seq(Stmt)
  BY <1>2, Inclusion, Prefixed
<1> QED BY <1>1, <1>2, <1>3, Inclusion, Prefixed DEF Late
-----------------------------------------------------------------------------
\* What a part of a deployment does first, and the part it is in then.
LEMMA ProvisionsNext ==
    ASSUME NEW s, Provisions(s)
    PROVE  s \in Seq(Stmt) /\ (s # <<>> => Head(s) \in Post /\ Provisions(Tail(s)))
<1>1. s \in Seq(Stmt)
  BY Inclusion, SeqInclusion DEF Provisions
<1>2. s # <<>> => Head(s) \in Post /\ Tail(s) \in Seq(Post)
  BY DEF Provisions
<1> QED BY <1>1, <1>2 DEF Provisions

LEMMA WaitsNext ==
    ASSUME NEW s, Waits(s)
    PROVE  s \in Seq(Stmt) /\ s # <<>> /\ Head(s) = <<"wait">> /\ Provisions(Tail(s))
<1>1. PICK p \in Seq(Post) : s = <<<<"wait">>>> \o p
  BY DEF Waits
<1>2. p \in Seq(Stmt)
  BY LateSeq
<1> QED BY <1>1, <1>2, Prefixed, Inclusion DEF Provisions

LEMMA StartsNext ==
    ASSUME NEW s, Starts(s)
    PROVE  s \in Seq(Stmt) /\ s # <<>> /\ Head(s) = <<"up">> /\ Waits(Tail(s))
<1>1. PICK p \in Seq(Post) : s = <<<<"up">>>> \o (<<<<"wait">>>> \o p)
  BY DEF Starts
<1>2. <<<<"wait">>>> \o p \in Seq(Stmt)
  BY LateSeq
<1>3. s # <<>> /\ Head(s) = <<"up">> /\ Tail(s) = <<<<"wait">>>> \o p /\ s \in Seq(Stmt)
  BY <1>1, <1>2, Prefixed, Inclusion
<1> QED BY <1>3 DEF Waits

LEMMA BuildsNext ==
    ASSUME NEW s, Builds(s)
    PROVE  /\ s \in Seq(Stmt) /\ s # <<>>
           /\ \/ Head(s) \in Middle /\ Builds(Tail(s))
              \/ Head(s) = <<"down">> /\ Starts(Tail(s))
<1>1. PICK b \in Seq(Middle), p \in Seq(Post) : s = b \o Late(p)
  BY DEF Builds
<1>2. Late(p) \in Seq(Stmt) /\ b \in Seq(Stmt)
  BY LateSeq, Inclusion, SeqInclusion
<1>3. Late(p) # <<>> /\ Head(Late(p)) = <<"down">> /\ Starts(Tail(Late(p)))
  <2>1. <<<<"up">>>> \o (<<<<"wait">>>> \o p) \in Seq(Stmt)
    BY LateSeq
  <2>2. Late(p) # <<>> /\ Head(Late(p)) = <<"down">> /\ Tail(Late(p)) = <<<<"up">>>> \o (<<<<"wait">>>> \o p)
    BY <2>1, Prefixed, Inclusion DEF Late
  <2> QED BY <2>2 DEF Starts
<1>4. CASE b = <<>>
  BY <1>1, <1>2, <1>3, <1>4, HeadTailCat
<1>5. CASE b # <<>>
  <2>1. Head(b) \in Middle /\ Tail(b) \in Seq(Middle)
    BY <1>5
  <2>2. s \in Seq(Stmt) /\ s # <<>> /\ Head(s) = Head(b) /\ Tail(s) = Tail(b) \o Late(p)
    BY <1>1, <1>2, <1>5, HeadTailCat
  <2> QED BY <2>1, <2>2 DEF Builds
<1> QED BY <1>4, <1>5

LEMMA DeclaresNext ==
    ASSUME NEW s, Declares(s)
    PROVE  s \in Seq(Stmt) /\ s # <<>> /\ Head(s) = <<"write", "compose">> /\ Builds(Tail(s))
<1>1. PICK b \in Seq(Middle), p \in Seq(Post) : s = <<<<"write", "compose">>>> \o (b \o Late(p))
  BY DEF Declares
<1>2. Builds(b \o Late(p))
  BY DEF Builds
<1>3. b \o Late(p) \in Seq(Stmt)
  BY <1>2, BuildsNext
<1> QED BY <1>1, <1>2, <1>3, Prefixed, Inclusion

LEMMA RendersNext ==
    ASSUME NEW s, Renders(s)
    PROVE  /\ s \in Seq(Stmt) /\ s # <<>>
           /\ \/ Head(s) \in Early /\ Renders(Tail(s))
              \/ Head(s) = <<"open", "compose">> /\ Declares(Tail(s))
<1>1. PICK a \in Seq(Early), b \in Seq(Middle), p \in Seq(Post) :
        s = a \o (<<<<"open", "compose">>>> \o (<<<<"write", "compose">>>> \o (b \o Late(p))))
  BY DEF Renders
<1> DEFINE d == <<<<"write", "compose">>>> \o (b \o Late(p))
           o == <<<<"open", "compose">>>> \o d
<1>2. Declares(d)
  BY DEF Declares
<1> HIDE DEF d
<1>3. d \in Seq(Stmt) /\ a \in Seq(Stmt)
  BY <1>2, DeclaresNext, Inclusion, SeqInclusion
<1>4. o \in Seq(Stmt) /\ o # <<>> /\ Head(o) = <<"open", "compose">> /\ Tail(o) = d
  BY <1>3, Prefixed, Inclusion
<1>5. s = a \o o
  BY <1>1 DEF d
<1> HIDE DEF o
<1>6. CASE a = <<>>
  <2>1. s = o
    BY <1>4, <1>5, <1>6, HeadTailCat
  <2> QED BY <1>2, <1>4, <2>1
<1>7. CASE a # <<>>
  <2>1. Head(a) \in Early /\ Tail(a) \in Seq(Early)
    BY <1>7
  <2>2. s \in Seq(Stmt) /\ s # <<>> /\ Head(s) = Head(a) /\ Tail(s) = Tail(a) \o o
    <3>1. a \o o \in Seq(Stmt) /\ a \o o # <<>> /\ Head(a \o o) = Head(a) /\ Tail(a \o o) = Tail(a) \o o
      BY <1>3, <1>4, <1>7, StmtCat
    <3> QED BY <1>5, <3>1, Zenon
  <2>3. Renders(Tail(s))
    BY <2>1, <2>2 DEF Renders, d, o
  <2> QED BY <2>1, <2>2, <2>3
<1> QED BY <1>6, <1>7
-----------------------------------------------------------------------------
LEMMA HarborNext ==
    /\ Starts(UpWait) /\ Head(ToBind) = <<"bind">> /\ Tail(ToBind) = UpWait
    /\ Head(ToReopen) = <<"open", "compose">> /\ Tail(ToReopen) = ToBind
    /\ Head(ToFind) = <<"find port">> /\ Tail(ToFind) = ToReopen
    /\ Head(ToPrepare) = <<"prepare">> /\ Tail(ToPrepare) = ToFind
    /\ Head(ToGenerate) = <<"open", "compose">> /\ Tail(ToGenerate) = ToPrepare
    /\ Head(ToStop) = <<"down">> /\ Tail(ToStop) = ToGenerate
    /\ Head(ToOverride) = <<"write", "override">> /\ Tail(ToOverride) = ToStop
    /\ {ToBind, ToReopen, ToFind, ToPrepare, ToGenerate, ToStop, ToOverride} \subseteq Seq(Stmt) \ {<<>>}
<1>1. <<>> \in Seq(Post) /\ <<<<"wait">>>> \in Seq(Stmt)
  <2>1. <<"wait">> \in Stmt
    BY Inclusion
  <2> QED BY <2>1
<1>2. <<<<"wait">>>> \o <<>> = <<<<"wait">>>>
  BY <1>1, HeadTailCat
<1>3. Starts(UpWait)
  BY <1>1, <1>2 DEF Starts, UpWait
<1>4. UpWait \in Seq(Stmt)
  BY <1>3, StartsNext
<1>5. ToBind \in Seq(Stmt) /\ ToBind # <<>> /\ Head(ToBind) = <<"bind">> /\ Tail(ToBind) = UpWait
  BY <1>4, Prefixed, Inclusion DEF ToBind
<1>6. ToReopen \in Seq(Stmt) /\ ToReopen # <<>> /\ Head(ToReopen) = <<"open", "compose">> /\ Tail(ToReopen) = ToBind
  BY <1>5, Prefixed, Inclusion DEF ToReopen
<1>7. ToFind \in Seq(Stmt) /\ ToFind # <<>> /\ Head(ToFind) = <<"find port">> /\ Tail(ToFind) = ToReopen
  BY <1>6, Prefixed, Inclusion DEF ToFind
<1>8. ToPrepare \in Seq(Stmt) /\ ToPrepare # <<>> /\ Head(ToPrepare) = <<"prepare">> /\ Tail(ToPrepare) = ToFind
  BY <1>7, Prefixed, Inclusion DEF ToPrepare
<1>9. ToGenerate \in Seq(Stmt) /\ ToGenerate # <<>> /\ Head(ToGenerate) = <<"open", "compose">>
      /\ Tail(ToGenerate) = ToPrepare
  BY <1>8, Prefixed, Inclusion DEF ToGenerate
<1>10. ToStop \in Seq(Stmt) /\ ToStop # <<>> /\ Head(ToStop) = <<"down">> /\ Tail(ToStop) = ToGenerate
  BY <1>9, Prefixed, Inclusion DEF ToStop
<1>11. ToOverride \in Seq(Stmt) /\ ToOverride # <<>> /\ Head(ToOverride) = <<"write", "override">>
       /\ Tail(ToOverride) = ToStop
  BY <1>10, Prefixed, Inclusion DEF ToOverride
<1> QED BY <1>3, <1>5, <1>6, <1>7, <1>8, <1>9, <1>10, <1>11

LEMMA HarborRendersNext ==
    ASSUME NEW s, HarborRenders(s)
    PROVE  /\ s \in Seq(Stmt) /\ s # <<>>
           /\ \/ Head(s) \in Early /\ HarborRenders(Tail(s))
              \/ Head(s) = <<"open", "override">> /\ Tail(s) = ToOverride
<1>1. PICK a \in Seq(Early) : s = a \o (<<<<"open", "override">>>> \o ToOverride)
  BY DEF HarborRenders
<1> DEFINE o == <<<<"open", "override">>>> \o ToOverride
<1>2. ToOverride \in Seq(Stmt) /\ a \in Seq(Stmt)
  BY HarborNext, Inclusion, SeqInclusion
<1>3. o \in Seq(Stmt) /\ o # <<>> /\ Head(o) = <<"open", "override">> /\ Tail(o) = ToOverride
  BY <1>2, Prefixed, Inclusion
<1>4. CASE a = <<>>
  BY <1>1, <1>2, <1>3, <1>4, HeadTailCat
<1>5. CASE a # <<>>
  <2>1. Head(a) \in Early /\ Tail(a) \in Seq(Early)
    BY <1>5
  <2>2. s \in Seq(Stmt) /\ s # <<>> /\ Head(s) = Head(a) /\ Tail(s) = Tail(a) \o o
    <3>1. s = a \o o
      BY <1>1
    <3> HIDE DEF o
    <3>2. a \o o \in Seq(Stmt) /\ a \o o # <<>> /\ Head(a \o o) = Head(a) /\ Tail(a \o o) = Tail(a) \o o
      BY <1>2, <1>3, <1>5, StmtCat
    <3> QED BY <3>1, <3>2, Zenon
  <2> QED BY <2>1, <2>2 DEF HarborRenders
<1> QED BY <1>4, <1>5

LEMMA RemovalNext ==
    /\ \A s : Takes(s) => s \in Seq(Stmt) /\ s # <<>> /\ Head(s) = <<"down">> /\ Clears(Tail(s))
    /\ \A s : Clears(s) => s \in Seq(Stmt) /\ s # <<>> /\ Head(s) = <<"clear">> /\ Removal(Tail(s))
    /\ \A s : Removal(s) => s \in Seq(Stmt) /\ (s # <<>> => Head(s) = <<"forget">> /\ Tail(s) = <<>>)
<1>1. ASSUME NEW f, Removal(f) PROVE f \in Seq(Stmt) /\ (f # <<>> => Head(f) = <<"forget">> /\ Tail(f) = <<>>)
  <2>1. <<"forget">> \in Stmt
    BY Inclusion
  <2>2. <<<<"forget">>>> \in Seq(Stmt) /\ Head(<<<<"forget">>>>) = <<"forget">> /\ Tail(<<<<"forget">>>>) = <<>>
    BY <2>1
  <2>3. <<>> \in Seq(Stmt)
    OBVIOUS
  <2> QED BY <1>1, <2>2, <2>3 DEF Removal
<1>2. ASSUME NEW s, Clears(s) PROVE s \in Seq(Stmt) /\ s # <<>> /\ Head(s) = <<"clear">> /\ Removal(Tail(s))
  <2>1. PICK f : Removal(f) /\ s = <<<<"clear">>>> \o f
    BY <1>2 DEF Clears
  <2>2. f \in Seq(Stmt) /\ <<"clear">> \in Stmt
    BY <1>1, <2>1, Inclusion
  <2>3. s \in Seq(Stmt) /\ s # <<>> /\ Head(s) = <<"clear">> /\ Tail(s) = f
    BY <2>1, <2>2, Prefixed
  <2> QED BY <2>1, <2>3
<1>3. ASSUME NEW s, Takes(s) PROVE s \in Seq(Stmt) /\ s # <<>> /\ Head(s) = <<"down">> /\ Clears(Tail(s))
  <2>1. PICK f : Removal(f) /\ s = <<<<"down">>>> \o (<<<<"clear">>>> \o f)
    BY <1>3 DEF Takes
  <2>2. Clears(<<<<"clear">>>> \o f)
    BY <2>1 DEF Clears
  <2>3. <<<<"clear">>>> \o f \in Seq(Stmt) /\ <<"down">> \in Stmt
    BY <1>2, <2>2, Inclusion
  <2>4. s \in Seq(Stmt) /\ s # <<>> /\ Head(s) = <<"down">> /\ Tail(s) = <<<<"clear">>>> \o f
    BY <2>1, <2>3, Prefixed
  <2> QED BY <2>2, <2>4
<1> QED BY <1>1, <1>2, <1>3
-----------------------------------------------------------------------------
\* What a sequence of statements still holds, and which of two comes last.
Has(x, s) == \E i \in DOMAIN s : s[i] = x
Opens(f, s) == Has(<<"open", f>>, s)
Pending(f, s) == \E i \in DOMAIN s : s[i] = <<"write", f>> /\ \A j \in DOMAIN s : j > i => s[j] # <<"open", f>>

LEMMA TailPlaces ==
    ASSUME NEW s \in Seq(Stmt), s # <<>>
    PROVE  /\ Tail(s) \in Seq(Stmt) /\ Head(s) = s[1] /\ 1 \in DOMAIN s
           /\ \A i \in DOMAIN Tail(s) : i \in Nat /\ i > 0 /\ i + 1 \in DOMAIN s /\ Tail(s)[i] = s[i + 1]
           /\ \A i \in DOMAIN s : i # 1 => i \in Nat /\ i > 1 /\ i - 1 \in DOMAIN Tail(s) /\ Tail(s)[i - 1] = s[i]
<1>1. Len(s) \in Nat /\ Len(s) > 0 /\ DOMAIN s = 1 .. Len(s)
  OBVIOUS
<1>2. Tail(s) \in Seq(Stmt) /\ Len(Tail(s)) = Len(s) - 1 /\ DOMAIN Tail(s) = 1 .. Len(s) - 1
  BY <1>1
<1>3. \A i \in 1 .. Len(s) - 1 : Tail(s)[i] = s[i + 1]
  BY <1>1
<1>4. Head(s) = s[1] /\ 1 \in DOMAIN s
  BY <1>1
<1>5. \A i \in DOMAIN s : i # 1 => i \in Nat /\ i > 1 /\ i - 1 \in 1 .. Len(s) - 1 /\ (i - 1) + 1 = i
  BY <1>1
<1> QED BY <1>1, <1>2, <1>3, <1>4, <1>5

LEMMA TailHas ==
    ASSUME NEW s \in Seq(Stmt), s # <<>>, NEW x
    PROVE  /\ Has(x, Tail(s)) => Has(x, s)
           /\ Has(x, s) => x = Head(s) \/ Has(x, Tail(s))
           /\ Has(Head(s), s)
<1>1. ASSUME Has(x, s), x # Head(s) PROVE Has(x, Tail(s))
  <2>1. PICK i \in DOMAIN s : s[i] = x
    BY <1>1 DEF Has
  <2>2. i # 1
    BY <1>1, <2>1, TailPlaces
  <2> QED BY <2>1, <2>2, TailPlaces DEF Has
<1>2. Has(x, Tail(s)) => Has(x, s)
  BY TailPlaces DEF Has
<1>3. Has(Head(s), s)
  BY TailPlaces DEF Has
<1> QED BY <1>1, <1>2, <1>3

LEMMA TailPending ==
    ASSUME NEW s \in Seq(Stmt), s # <<>>, NEW f, Pending(f, s)
    PROVE  IF Head(s) = <<"write", f>> THEN Pending(f, Tail(s)) \/ ~Opens(f, Tail(s)) ELSE Pending(f, Tail(s))
<1>1. PICK i \in DOMAIN s : s[i] = <<"write", f>> /\ \A j \in DOMAIN s : j > i => s[j] # <<"open", f>>
  BY DEF Pending
<1>2. CASE i = 1
  <2>1. ASSUME NEW j \in DOMAIN Tail(s) PROVE Tail(s)[j] # <<"open", f>>
    <3>1. j \in Nat /\ j > 0 /\ j + 1 \in DOMAIN s /\ Tail(s)[j] = s[j + 1]
      BY TailPlaces
    <3>2. j + 1 > i
      BY <1>2, <3>1
    <3> QED BY <1>1, <3>1, <3>2
  <2>2. Head(s) = <<"write", f>>
    BY <1>1, <1>2, TailPlaces
  <2> QED BY <2>1, <2>2 DEF Opens, Has
<1>3. CASE i # 1
  <2>1. i \in Nat /\ i > 1 /\ i - 1 \in DOMAIN Tail(s) /\ Tail(s)[i - 1] = <<"write", f>>
    BY <1>1, <1>3, TailPlaces
  <2>2. ASSUME NEW j \in DOMAIN Tail(s), j > i - 1 PROVE Tail(s)[j] # <<"open", f>>
    <3>1. j \in Nat /\ j > 0 /\ j + 1 \in DOMAIN s /\ Tail(s)[j] = s[j + 1]
      BY TailPlaces
    <3>2. j + 1 > i
      BY <2>1, <2>2, <3>1
    <3> QED BY <1>1, <3>1, <3>2
  <2>3. Pending(f, Tail(s))
    BY <2>1, <2>2 DEF Pending
  <2> QED BY <2>3
<1> QED BY <1>2, <1>3

LEMMA CatPlaces ==
    ASSUME NEW S, NEW s \in Seq(S), NEW t \in Seq(S)
    PROVE  /\ s \o t \in Seq(S)
           /\ \A i \in DOMAIN s : i \in Nat /\ i <= Len(s) /\ i \in DOMAIN (s \o t) /\ (s \o t)[i] = s[i]
           /\ \A i \in DOMAIN t : i \in Nat /\ i + Len(s) \in DOMAIN (s \o t) /\ (s \o t)[i + Len(s)] = t[i]
           /\ \A i \in DOMAIN (s \o t) :
                \/ i \in Nat /\ i \in DOMAIN s
                \/ i \in Nat /\ i > Len(s) /\ i - Len(s) \in DOMAIN t /\ (s \o t)[i] = t[i - Len(s)]
<1>1. Len(s) \in Nat /\ Len(t) \in Nat /\ DOMAIN s = 1 .. Len(s) /\ DOMAIN t = 1 .. Len(t)
  OBVIOUS
<1>2. s \o t \in Seq(S) /\ Len(s \o t) = Len(s) + Len(t) /\ DOMAIN (s \o t) = 1 .. Len(s) + Len(t)
  BY <1>1
<1>3. \A i \in 1 .. Len(s) + Len(t) : (s \o t)[i] = IF i <= Len(s) THEN s[i] ELSE t[i - Len(s)]
  BY <1>1
<1>4. \A i \in DOMAIN s : i \in Nat /\ i <= Len(s) /\ i \in DOMAIN (s \o t) /\ (s \o t)[i] = s[i]
  BY <1>1, <1>2, <1>3
<1>5. ASSUME NEW i \in DOMAIN t
      PROVE  i \in Nat /\ i + Len(s) \in DOMAIN (s \o t) /\ (s \o t)[i + Len(s)] = t[i]
  <2>1. i \in Nat /\ i + Len(s) \in 1 .. Len(s) + Len(t) /\ ~(i + Len(s) <= Len(s)) /\ (i + Len(s)) - Len(s) = i
    BY <1>1
  <2> QED BY <1>2, <1>3, <2>1
<1>6. ASSUME NEW i \in DOMAIN (s \o t), i \notin DOMAIN s
      PROVE  i \in Nat /\ i > Len(s) /\ i - Len(s) \in DOMAIN t /\ (s \o t)[i] = t[i - Len(s)]
  <2>1. i \in Nat /\ i > Len(s) /\ i - Len(s) \in 1 .. Len(t) /\ ~(i <= Len(s)) /\ i \in 1 .. Len(s) + Len(t)
    BY <1>1, <1>2, <1>6
  <2> QED BY <1>1, <1>3, <2>1
<1>7. \A i \in DOMAIN s : i \in Nat
  BY <1>1
<1> QED BY <1>2, <1>4, <1>5, <1>6, <1>7

LEMMA CatHas ==
    ASSUME NEW S, NEW s \in Seq(S), NEW t \in Seq(S), NEW x
    PROVE  Has(x, s \o t) <=> Has(x, s) \/ Has(x, t)
<1>1. Has(x, s) => Has(x, s \o t)
  BY CatPlaces DEF Has
<1>2. Has(x, t) => Has(x, s \o t)
  BY CatPlaces DEF Has
<1>3. Has(x, s \o t) => Has(x, s) \/ Has(x, t)
  BY CatPlaces DEF Has
<1> QED BY <1>1, <1>2, <1>3

LEMMA CatPending ==
    ASSUME NEW S, NEW s \in Seq(S), NEW t \in Seq(S), NEW f
    PROVE  /\ Pending(f, t) => Pending(f, s \o t)
           /\ Pending(f, s) /\ ~Opens(f, t) => Pending(f, s \o t)
<1>0. Len(s) \in Nat
  OBVIOUS
<1>1. ASSUME Pending(f, t) PROVE Pending(f, s \o t)
  <2>1. PICK i \in DOMAIN t : t[i] = <<"write", f>> /\ \A j \in DOMAIN t : j > i => t[j] # <<"open", f>>
    BY <1>1 DEF Pending
  <2>2. i \in Nat /\ i + Len(s) \in DOMAIN (s \o t) /\ (s \o t)[i + Len(s)] = <<"write", f>>
    BY <2>1, CatPlaces
  <2>3. ASSUME NEW j \in DOMAIN (s \o t), j > i + Len(s) PROVE (s \o t)[j] # <<"open", f>>
    <3>1. j \in Nat /\ j \notin DOMAIN s /\ j - Len(s) > i
      <4>1. j \in Nat
        BY CatPlaces
      <4>2. j > Len(s) /\ j - Len(s) > i
        BY <1>0, <2>2, <2>3, <4>1
      <4>3. j \notin DOMAIN s
        BY <1>0, <4>1, <4>2
      <4> QED BY <4>1, <4>2, <4>3
    <3>2. j - Len(s) \in DOMAIN t /\ (s \o t)[j] = t[j - Len(s)]
      BY <3>1, CatPlaces
    <3> QED BY <2>1, <3>1, <3>2
  <2> QED BY <2>2, <2>3 DEF Pending
<1>2. ASSUME Pending(f, s), ~Opens(f, t) PROVE Pending(f, s \o t)
  <2>1. PICK i \in DOMAIN s : s[i] = <<"write", f>> /\ \A j \in DOMAIN s : j > i => s[j] # <<"open", f>>
    BY <1>2 DEF Pending
  <2>2. i \in DOMAIN (s \o t) /\ (s \o t)[i] = <<"write", f>>
    BY <2>1, CatPlaces
  <2>3. ASSUME NEW j \in DOMAIN (s \o t), j > i PROVE (s \o t)[j] # <<"open", f>>
    <3>1. CASE j \in DOMAIN s
      <4>1. (s \o t)[j] = s[j]
        BY <3>1, CatPlaces
      <4>2. s[j] # <<"open", f>>
        BY <2>1, <2>3, <3>1
      <4> QED BY <4>1, <4>2
    <3>2. CASE j \notin DOMAIN s
      <4>1. j - Len(s) \in DOMAIN t /\ (s \o t)[j] = t[j - Len(s)]
        BY <3>2, CatPlaces
      <4> QED BY <1>2, <4>1 DEF Opens, Has
    <3> QED BY <3>1, <3>2
  <2> QED BY <2>2, <2>3 DEF Pending
<1> QED BY <1>1, <1>2
-----------------------------------------------------------------------------
LEMMA Assoc ==
    /\ \A s, t \in Seq(Stmt) : s \o t \in Seq(Stmt)
    /\ \A s, t, u \in Seq(Stmt) : (s \o t) \o u = s \o (t \o u)
  BY ConcatAssociative, ConcatProperties

LEMMA Split ==
    ASSUME NEW x \in Stmt, NEW y \in Stmt
    PROVE  <<x, y>> = <<x>> \o <<y>>
<1>1. <<x>> \in Seq(Stmt) /\ <<y>> \in Seq(Stmt) /\ <<x, y>> \in Seq(Stmt)
  OBVIOUS
<1>2. Len(<<x>>) = 1 /\ Len(<<y>>) = 1 /\ Len(<<x, y>>) = 2 /\ <<x>>[1] = x /\ <<y>>[1] = y
      /\ <<x, y>>[1] = x /\ <<x, y>>[2] = y
  OBVIOUS
<1>3. Len(<<x>> \o <<y>>) = 2 /\ (<<x>> \o <<y>>)[1] = x /\ (<<x>> \o <<y>>)[2] = y /\ <<x>> \o <<y>> \in Seq(Stmt)
  BY <1>1, <1>2
<1>4. \A i \in 1 .. Len(<<x, y>>) : <<x, y>>[i] = (<<x>> \o <<y>>)[i]
  BY <1>2, <1>3
<1> QED BY <1>1, <1>2, <1>3, <1>4, SeqEqual

LEMMA Pair ==
    ASSUME NEW x \in Stmt, NEW y \in Stmt, NEW s \in Seq(Stmt)
    PROVE  <<x, y>> \in Seq(Stmt) /\ <<x, y>> \o s = <<x>> \o (<<y>> \o s)
<1>1. <<x>> \in Seq(Stmt) /\ <<y>> \in Seq(Stmt) /\ <<x, y>> \in Seq(Stmt)
  OBVIOUS
<1> QED BY <1>1, Split, ConcatAssociative

LEMMA PairCat == \A x, y \in Stmt, s \in Seq(Stmt) : <<x, y>> \o s = <<x>> \o (<<y>> \o s)
  BY Pair

LEMMA KindOf ==
    /\ \A x \in Early : x[1] \in {"guard", "ca", "vars", "cert", "open", "write"} /\ (x[1] \in {"open", "write"} => x[2] \in Own)
    /\ \A x \in Middle : x[1] \in {"build", "vars"}
    /\ \A x \in Post : x[1] \in {"login", "dial", "pat", "api", "ensure", "set"} \cup TenantKinds
  BY DEF Early, Middle, Post

\* The beginning of a program, which has rendered these files when it is over.
Rest(b, p) == <<<<"open", "compose">>>> \o (<<<<"write", "compose">>>> \o (b \o Late(p)))
Prepares(s, F) == s \in Seq(Early) /\ \A f \in F : Pending(f, s)

LEMMA FileShape ==
    ASSUME NEW f \in Own
    PROVE  File(f) \in Seq(Early) /\ Pending(f, File(f)) /\ \A g : g # f => ~Opens(g, File(f))
<1>1. File(f) \in Seq(Early)
  BY DEF File, Early
<1>2. DOMAIN File(f) = {1, 2} /\ File(f)[1] = <<"open", f>> /\ File(f)[2] = <<"write", f>>
  BY DEF File
<1>3. Pending(f, File(f))
  BY <1>2 DEF Pending
<1>4. ASSUME NEW g, g # f PROVE ~Opens(g, File(f))
  BY <1>2, <1>4 DEF Opens, Has
<1> QED BY <1>1, <1>3, <1>4

LEMMA AddFile ==
    ASSUME NEW s, NEW F, Prepares(s, F), NEW f \in Own, f \notin F
    PROVE  Prepares(s \o File(f), F \cup {f})
<1>1. s \in Seq(Early) /\ File(f) \in Seq(Early)
  BY FileShape DEF Prepares
<1>2. s \o File(f) \in Seq(Early)
  BY <1>1
<1>3. Pending(f, s \o File(f))
  BY <1>1, FileShape, CatPending
<1>4. ASSUME NEW g \in F PROVE Pending(g, s \o File(f))
  <2>1. Pending(g, s) /\ g # f
    BY <1>4 DEF Prepares
  <2>2. ~Opens(g, File(f))
    BY <2>1, FileShape
  <2> QED BY <1>1, <2>1, <2>2, CatPending
<1> QED BY <1>2, <1>3, <1>4 DEF Prepares

LEMMA RestNoOpen ==
    ASSUME NEW b \in Seq(Middle), NEW p \in Seq(Post)
    PROVE  Rest(b, p) \in Seq(Stmt) /\ \A f \in Own : ~Opens(f, Rest(b, p))
<1> DEFINE T == Stmt \ ({"open"} \X Own)
<1>1. Middle \subseteq T /\ Post \subseteq T
  <2>1. Middle \subseteq Stmt /\ Post \subseteq Stmt
    BY Inclusion
  <2>2. ASSUME NEW x \in Middle \cup Post, NEW f PROVE x # <<"open", f>>
    <3>1. x[1] # "open" /\ <<"open", f>>[1] = "open"
      BY KindOf DEF TenantKinds
    <3> QED BY <3>1
  <2> QED BY <2>1, <2>2
<1>2. <<"down">> \in T /\ <<"up">> \in T /\ <<"wait">> \in T /\ <<"open", "compose">> \in T /\ <<"write", "compose">> \in T
  BY Inclusion DEF Own
<1> HIDE DEF T
<1>3. b \in Seq(T) /\ p \in Seq(T)
  BY <1>1, SeqInclusion
<1>4. Late(p) \in Seq(T)
  <2>1. <<<<"wait">>>> \o p \in Seq(T)
    BY <1>2, <1>3, HeadTail
  <2>2. <<<<"up">>>> \o (<<<<"wait">>>> \o p) \in Seq(T)
    BY <1>2, <2>1, HeadTail
  <2> QED BY <1>2, <2>2, HeadTail DEF Late
<1>5. b \o Late(p) \in Seq(T)
  BY <1>3, <1>4
<1>6. Rest(b, p) \in Seq(T)
  <2> DEFINE d == b \o Late(p)
  <2>1. d \in Seq(T)
    BY <1>5
  <2> HIDE DEF d
  <2>2. <<<<"write", "compose">>>> \o d \in Seq(T)
    BY <1>2, <2>1, HeadTail
  <2> DEFINE e == <<<<"write", "compose">>>> \o d
  <2>3. e \in Seq(T)
    BY <2>2
  <2> HIDE DEF e
  <2>4. <<<<"open", "compose">>>> \o e \in Seq(T)
    BY <1>2, <2>3, HeadTail
  <2> QED BY <2>4 DEF Rest, d, e
<1>7. ASSUME NEW f \in Own PROVE ~Opens(f, Rest(b, p))
  <2>1. \A i \in DOMAIN Rest(b, p) : Rest(b, p)[i] \in T
    BY <1>6
  <2>2. <<"open", f>> \notin T
    BY DEF T
  <2> QED BY <2>1, <2>2 DEF Opens, Has
<1>8. Rest(b, p) \in Seq(Stmt)
  <2>1. T \subseteq Stmt
    BY DEF T
  <2> QED BY <1>6, <2>1, SeqInclusion
<1> QED BY <1>7, <1>8

LEMMA WholeProgram ==
    ASSUME NEW a, NEW F \in SUBSET Own, Prepares(a, F), NEW b \in Seq(Middle), NEW p \in Seq(Post)
    PROVE  Renders(a \o Rest(b, p)) /\ \A f \in F : Pending(f, a \o Rest(b, p))
<1>1. Renders(a \o Rest(b, p))
  BY DEF Prepares, Renders, Rest
<1>2. a \in Seq(Stmt) /\ Rest(b, p) \in Seq(Stmt)
  BY RestNoOpen, Inclusion, SeqInclusion DEF Prepares
<1>3. ASSUME NEW f \in F PROVE Pending(f, a \o Rest(b, p))
  BY <1>2, RestNoOpen, CatPending DEF Prepares
<1> QED BY <1>1, <1>3

\* The three ways a program is put together.
LEMMA Together ==
    ASSUME NEW a \in Seq(Stmt), NEW b \in Seq(Stmt), NEW p \in Seq(Stmt)
    PROVE  /\ Restart = Rest(<<>>, <<>>)
           /\ a \o Restart = a \o Rest(<<>>, <<>>)
           /\ (a \o Restart) \o p = a \o Rest(<<>>, p)
           /\ ((a \o File("compose")) \o b) \o Cycle = a \o Rest(b, <<>>)
<1>1. Cycle = Late(<<>>) /\ Cycle \o p = Late(p)
  BY DEF Cycle, Late
<1> DEFINE o == <<"open", "compose">>
           w == <<"write", "compose">>
<1>a. o \in Stmt /\ w \in Stmt /\ File("compose") = <<o, w>>
  BY Inclusion DEF File
<1>b. <<"down">> \in Stmt /\ <<"up">> \in Stmt /\ <<"wait">> \in Stmt
  BY Inclusion
<1>c. Cycle \in Seq(Stmt)
  BY <1>b DEF Cycle
<1> HIDE DEF o, w
<1>2. ASSUME NEW s \in Seq(Stmt) PROVE File("compose") \o s = <<o>> \o (<<w>> \o s)
  <2>1. <<o, w>> \o s = <<o>> \o (<<w>> \o s)
    BY <1>a, Pair
  <2> QED BY <1>a, <2>1
<1>d. File("compose") \in Seq(Stmt)
  <2>1. <<o, w>> \in Seq(Stmt)
    BY <1>a
  <2> QED BY <1>a, <2>1
<1>3. File("compose") \in Seq(Stmt) /\ Cycle \in Seq(Stmt) /\ <<>> \in Seq(Stmt)
  BY <1>c, <1>d
<1>4. Restart = Rest(<<>>, <<>>) /\ Restart \in Seq(Stmt)
  <2>1. Restart = <<o>> \o (<<w>> \o Cycle)
    BY <1>2, <1>3 DEF Restart
  <2>2. <<>> \o Late(<<>>) = Cycle
    BY <1>1, <1>3, ConcatEmptySeq
  <2>3. Restart \in Seq(Stmt)
    BY <1>3, ConcatProperties DEF Restart
  <2> QED BY <2>1, <2>2, <2>3 DEF Rest, o, w
<1>5. (a \o Restart) \o p = a \o Rest(<<>>, p)
  <2>1. Cycle \o p \in Seq(Stmt)
    BY <1>3, ConcatProperties
  <2>2. Restart \o p = File("compose") \o (Cycle \o p)
    BY <1>3, Assoc DEF Restart
  <2>3. <<>> \o Late(p) = Late(p)
    BY <1>1, <2>1, ConcatEmptySeq
  <2>4. Restart \o p = Rest(<<>>, p)
    BY <1>1, <1>2, <2>1, <2>2, <2>3 DEF Rest, o, w
  <2>5. (a \o Restart) \o p = a \o (Restart \o p)
    BY <1>4, Assoc, Zenon
  <2> QED BY <2>4, <2>5
<1>6. ((a \o File("compose")) \o b) \o Cycle = a \o Rest(b, <<>>)
  <2>2. ((a \o File("compose")) \o b) \o Cycle = a \o (File("compose") \o (b \o Cycle))
    <3> DEFINE r == File("compose")
               c == Cycle
               x == a \o r
               y == b \o c
    <3>1. r \in Seq(Stmt) /\ c \in Seq(Stmt)
      BY <1>3
    <3> HIDE DEF r, c
    <3>2. x \in Seq(Stmt) /\ y \in Seq(Stmt)
      BY <3>1, Assoc, Zenon
    <3>3. (x \o b) \o c = x \o y
      <4> HIDE DEF x
      <4> QED BY <3>1, <3>2, Assoc, Zenon
    <3>4. (a \o r) \o y = a \o (r \o y)
      <4> HIDE DEF y
      <4> QED BY <3>1, <3>2, Assoc, SMTT(30)
    <3> QED BY <3>3, <3>4 DEF r, c
  <2>3. b \o Cycle \in Seq(Stmt)
    BY <1>3, Assoc, Zenon
  <2>4. File("compose") \o (b \o Cycle) = Rest(b, <<>>)
    BY <1>1, <1>2, <2>3 DEF Rest, o, w
  <2> QED BY <2>2, <2>4
<1> QED BY <1>4, <1>5, <1>6
-----------------------------------------------------------------------------
\* Each program, but for Harbor's, renders what the service mounts and goes on
\* as the others do.
Program(steps, F) == Renders(steps) /\ \A f \in F : Pending(f, steps)

LEMMA EmptyParts == <<>> \in Seq(Stmt) /\ <<>> \in Seq(Middle) /\ <<>> \in Seq(Post) /\ Prepares(<<>>, {})
  BY DEF Prepares

LEMMA Checks ==
    ASSUME NEW s \in Seq(Early)
    PROVE  Prepares(s, {})
  BY DEF Prepares

LEMMA PlainProgram ==
    ASSUME NEW a, NEW F \in SUBSET Own, Prepares(a, F)
    PROVE  /\ Program(a \o Restart, F)
           /\ \A p \in Seq(Post) : Program((a \o Restart) \o p, F)
           /\ \A b \in Seq(Middle) : Program(((a \o File("compose")) \o b) \o Cycle, F)
<1>1. a \in Seq(Stmt)
  BY Inclusion, SeqInclusion DEF Prepares
<1>2. Program(a \o Restart, F)
  BY <1>1, EmptyParts, Together, WholeProgram DEF Program
<1>3. ASSUME NEW p \in Seq(Post) PROVE Program((a \o Restart) \o p, F)
  <2>1. p \in Seq(Stmt)
    BY Inclusion, SeqInclusion
  <2>2. (a \o Restart) \o p = a \o Rest(<<>>, p)
    BY <1>1, <2>1, EmptyParts, Together
  <2> QED BY <2>2, EmptyParts, WholeProgram DEF Program
<1>4. ASSUME NEW b \in Seq(Middle) PROVE Program(((a \o File("compose")) \o b) \o Cycle, F)
  <2>1. b \in Seq(Stmt)
    BY Inclusion, SeqInclusion
  <2>2. ((a \o File("compose")) \o b) \o Cycle = a \o Rest(b, <<>>)
    BY <1>1, <2>1, EmptyParts, Together
  <2> QED BY <2>2, EmptyParts, WholeProgram DEF Program
<1> QED BY <1>2, <1>3, <1>4

LEMMA OwnFiles ==
    /\ <<"guard">> \in Early /\ <<"ca">> \in Early /\ <<"vars">> \in Early /\ <<"cert">> \in Early
    /\ <<"build">> \in Middle /\ <<"vars">> \in Middle
  BY DEF Early, Middle

LEMMA TraefikProgram == Program(TraefikSteps, {"usersfile", "traefik.yml", "dynamic.yml"})
<1> DEFINE a == <<<<"ca">>, <<"vars">>, <<"cert">>>>
<1>1. "usersfile" \in Own /\ "traefik.yml" \in Own /\ "dynamic.yml" \in Own
  BY DEF Own
<1>2. Prepares(a, {})
  <2>1. a \in Seq(Early)
    BY OwnFiles
  <2> QED BY <2>1, Checks
<1> HIDE DEF a
<1>3. Prepares(a \o File("usersfile"), {"usersfile"})
  <2>1. Prepares(a \o File("usersfile"), {} \cup {"usersfile"})
    BY <1>1, <1>2, AddFile
  <2> QED BY <2>1
<1>4. Prepares(a \o File("usersfile") \o File("traefik.yml"), {"usersfile", "traefik.yml"})
  <2>1. Prepares((a \o File("usersfile")) \o File("traefik.yml"), {"usersfile"} \cup {"traefik.yml"})
    BY <1>1, <1>3, AddFile
  <2>2. {"usersfile"} \cup {"traefik.yml"} = {"usersfile", "traefik.yml"}
    OBVIOUS
  <2> QED BY <2>1, <2>2
<1>5. Prepares(a \o File("usersfile") \o File("traefik.yml") \o File("dynamic.yml"),
               {"usersfile", "traefik.yml", "dynamic.yml"})
  <2>1. Prepares((a \o File("usersfile") \o File("traefik.yml")) \o File("dynamic.yml"),
                 {"usersfile", "traefik.yml"} \cup {"dynamic.yml"})
    BY <1>1, <1>4, AddFile
  <2>2. {"usersfile", "traefik.yml"} \cup {"dynamic.yml"} = {"usersfile", "traefik.yml", "dynamic.yml"}
    OBVIOUS
  <2> QED BY <2>1, <2>2
<1>6. {"usersfile", "traefik.yml", "dynamic.yml"} \in SUBSET Own
  BY <1>1
<1> QED BY <1>5, <1>6, PlainProgram DEF TraefikSteps, a

LEMMA OneFile ==
    ASSUME NEW f \in Own
    PROVE  Prepares(File(f), {f}) /\ {f} \in SUBSET Own
  BY FileShape DEF Prepares

LEMMA CheckedFile ==
    ASSUME NEW s \in Seq(Early), NEW f \in Own
    PROVE  Prepares(s \o File(f), {f}) /\ {f} \in SUBSET Own
<1>1. Prepares(s \o File(f), {} \cup {f})
  BY Checks, AddFile
<1> QED BY <1>1

\* Keycloak, Authentik, S3, the depot, SFTP, Mailpit and LLDAP.
LEMMA KeycloakProgram == Program(KeycloakSteps, {"realm"})
<1>1. <<<<"ca">>, <<"vars">>>> \in Seq(Early) /\ "realm" \in Own
  BY DEF Early, Own
<1> QED BY <1>1, CheckedFile, PlainProgram DEF KeycloakSteps

LEMMA AuthentikProgram == Program(AuthentikSteps, {"blueprint"})
<1>1. <<<<"ca">>, <<"vars">>>> \in Seq(Early) /\ "blueprint" \in Own
  BY DEF Early, Own
<1>2. <<<<"login">>>> \in Seq(Post)
  BY DEF Post
<1> QED BY <1>1, <1>2, CheckedFile, PlainProgram DEF AuthentikSteps

LEMMA S3Program == Program(S3Steps, {}) /\ Program(MailpitSteps, {})
<1>1. <<>> \o Restart = Restart
  BY EmptyParts, Together
<1> QED BY <1>1, EmptyParts, PlainProgram DEF S3Steps, MailpitSteps

LEMMA DepotProgram == Program(DepotSteps, {"htpasswd", "nginx.conf"})
<1>1. <<<<"guard">>>> \in Seq(Early) /\ "htpasswd" \in Own /\ "nginx.conf" \in Own
  BY DEF Early, Own
<1>2. Prepares(<<<<"guard">>>> \o File("htpasswd"), {"htpasswd"})
  BY <1>1, CheckedFile
<1>3. Prepares(<<<<"guard">>>> \o File("htpasswd") \o File("nginx.conf"), {"htpasswd", "nginx.conf"})
  BY <1>1, <1>2, AddFile
<1> QED BY <1>1, <1>3, PlainProgram DEF DepotSteps

LEMMA SFTPProgram == Program(SFTPSteps, {}) /\ BackupUserSteps \in Seq(Post)
<1>1. <<<<"vars">>>> \in Seq(Early)
  BY DEF Early
<1>2. BackupUserSteps \in Seq(Post)
  <2> DEFINE x == <<"dial">>
             y == <<"login">>
             z == <<"ensure", "backup user">>
  <2>1. x \in Post /\ y \in Post /\ z \in Post
    BY DEF Post, Objects
  <2>2. BackupUserSteps = <<>> \/ BackupUserSteps = <<x, y, z>>
    BY DEF BackupUserSteps
  <2> HIDE DEF x, y, z
  <2>3. <<x, y, z>> \in Seq(Post) /\ <<>> \in Seq(Post)
    BY <2>1
  <2> QED BY <2>2, <2>3
<1> QED BY <1>1, <1>2, Checks, PlainProgram DEF SFTPSteps

LEMMA Eight ==
    ASSUME NEW S, NEW a \in S, NEW b \in S, NEW c \in S, NEW d \in S, NEW e \in S, NEW f \in S, NEW g \in S, NEW h \in S
    PROVE  <<a, b, c, d, e, f, g, h>> \in Seq(S)
  OBVIOUS

LEMMA LLDAPProgram == Program(LLDAPSteps, {}) /\ LLDAPSeed \in Seq(Post)
<1>1. <<<<"cert">>>> \in Seq(Early) /\ <<<<"login">>>> \in Seq(Post)
  BY DEF Early, Post
<1>2. LLDAPSeed \in Seq(Post)
  <2> DEFINE e(o) == <<"ensure", o>>
             s(o) == <<"set", o>>
  <2>1. \A o \in Objects : e(o) \in Post /\ s(o) \in Post
    BY DEF Post
  <2>2. {"admins", "readers", "bind user", "admin user", "bind in readers", "admin in admins"} \subseteq Objects
    BY DEF Objects
  <2>3. LLDAPSeed = <<e("admins"), e("readers"), e("bind user"), e("admin user"), s("bind user"), s("admin user"),
                      e("bind in readers"), e("admin in admins")>>
    BY DEF LLDAPSeed
  <2>4. /\ e("admins") \in Post /\ e("readers") \in Post /\ e("bind user") \in Post /\ e("admin user") \in Post
        /\ s("bind user") \in Post /\ s("admin user") \in Post /\ e("bind in readers") \in Post /\ e("admin in admins") \in Post
    BY <2>1, <2>2
  <2> HIDE DEF e, s
  <2> QED BY <2>3, <2>4, Eight
<1>3. <<<<"login">>>> \o LLDAPSeed \in Seq(Post)
  BY <1>1, <1>2
<1>4. LLDAPSteps = (<<<<"cert">>>> \o Restart) \o (<<<<"login">>>> \o LLDAPSeed)
  BY DEF LLDAPSteps
<1> QED BY <1>1, <1>2, <1>3, <1>4, Checks, PlainProgram

\* Those with an image to build: Samba, KMIP, chrony and rsyslog.
LEMMA SambaProgram == Program(SambaSteps, {"smb.conf"})
<1>1. "smb.conf" \in Own /\ <<<<"build">>>> \in Seq(Middle)
  BY DEF Own, Middle
<1> QED BY <1>1, OneFile, PlainProgram DEF SambaSteps

LEMMA ChronyProgram == Program(ChronySteps, {"chrony.conf"})
<1>1. "chrony.conf" \in Own /\ <<<<"build">>>> \in Seq(Middle)
  BY DEF Own, Middle
<1> QED BY <1>1, OneFile, PlainProgram DEF ChronySteps

LEMMA RsyslogProgram == Program(RsyslogSteps, {"rsyslog.conf"})
<1>1. "rsyslog.conf" \in Own /\ <<<<"build">>, <<"vars">>>> \in Seq(Middle)
  BY DEF Own, Middle
<1> QED BY <1>1, OneFile, PlainProgram DEF RsyslogSteps

LEMMA KMIPProgram == Program(KMIPSteps, {"client_ca.crt", "server.conf"})
<1>1. /\ <<<<"guard">>, <<"ca">>, <<"cert">>>> \in Seq(Early) /\ "client_ca.crt" \in Own /\ "server.conf" \in Own
      /\ <<<<"build">>>> \in Seq(Middle)
  BY DEF Early, Own, Middle
<1> DEFINE a == <<<<"guard">>, <<"ca">>, <<"cert">>>>
<1>2. Prepares(a \o File("client_ca.crt"), {"client_ca.crt"})
  BY <1>1, CheckedFile
<1>3. Prepares(a \o File("client_ca.crt") \o File("server.conf"), {"client_ca.crt", "server.conf"})
  BY <1>1, <1>2, AddFile
<1> QED BY <1>1, <1>3, PlainProgram DEF KMIPSteps

\* Harbor's, where the stack is down before the compose file is generated.
LEMMA HarborProgram == HarborRenders(HarborSteps) /\ Pending("harbor.yml", HarborSteps)
<1> DEFINE a == <<<<"guard">>, <<"ca">>>> \o File("harbor.yml")
           o == <<<<"open", "override">>>> \o ToOverride
           ov == <<"open", "override">>
           wv == <<"write", "override">>
           oc == <<"open", "compose">>
           dn == <<"down">>
           up == <<"up">>
           wt == <<"wait">>
           pr == <<"prepare">>
           fp == <<"find port">>
           bd == <<"bind">>
           T == Stmt \ {<<"open", "harbor.yml">>}
<1>1. <<<<"guard">>, <<"ca">>>> \in Seq(Early) /\ "harbor.yml" \in Own
  BY OwnFiles DEF Own
<1>2. Prepares(a, {"harbor.yml"})
  BY <1>1, CheckedFile
<1>3. a \in Seq(Early) /\ a \in Seq(Stmt)
  BY <1>2, Inclusion, SeqInclusion DEF Prepares
<1>4. Pending("harbor.yml", a)
  BY <1>2 DEF Prepares
<1>5. /\ ov \in Stmt /\ wv \in Stmt /\ oc \in Stmt /\ dn \in Stmt /\ up \in Stmt /\ wt \in Stmt
      /\ pr \in Stmt /\ fp \in Stmt /\ bd \in Stmt
  BY Inclusion
<1>6. /\ ov \in T /\ wv \in T /\ oc \in T /\ dn \in T /\ up \in T /\ wt \in T
      /\ pr \in T /\ fp \in T /\ bd \in T
  BY Inclusion
<1>7. <<"open", "harbor.yml">> \notin T /\ T \subseteq Stmt
  OBVIOUS
<1>8. HarborSteps = (((a \o <<ov, wv>>) \o <<dn>>) \o <<oc, pr, fp, oc, bd>>) \o <<up, wt>>
  BY DEF HarborSteps, File, Generated
<1>9. o = <<ov>> \o (<<wv>> \o (<<dn>> \o
                 (<<oc>> \o (<<pr>> \o (<<fp>> \o (<<oc>> \o (<<bd>> \o (<<up>> \o <<wt>>))))))))
  BY DEF ToOverride, ToStop, ToGenerate, ToPrepare, ToFind, ToReopen, ToBind, UpWait
<1> HIDE DEF a, ov, wv, oc, dn, up, wt, pr, fp, bd, o, T
<1>10. HarborSteps = a \o o
  <2> DEFINE t == <<ov, wv>>
             u == <<dn>>
             v == <<oc, pr, fp, oc, bd>>
             w == <<up, wt>>
             x == a \o t
             y == x \o u
             g == v \o w
             d == u \o g
  <2>1. t \in Seq(Stmt) /\ u \in Seq(Stmt) /\ v \in Seq(Stmt) /\ w \in Seq(Stmt) /\ <<wt>> \in Seq(Stmt)
        /\ <<>> \in Seq(Stmt)
    BY <1>5
  <2>2. w = <<up>> \o <<wt>>
    BY <1>5, <2>1, Split
  <2>3. g = <<oc>> \o (<<pr>> \o (<<fp>> \o (<<oc>> \o (<<bd>> \o w))))
    <3> DEFINE v1 == <<oc, pr>>
               v2 == <<fp, oc>>
               v3 == <<bd>>
               v4 == v1 \o v2
               r == v3 \o w
               q == v2 \o r
    <3>1. v1 \in Seq(Stmt) /\ v2 \in Seq(Stmt) /\ v3 \in Seq(Stmt) /\ v \in Seq(Stmt) /\ w \in Seq(Stmt)
      BY <1>5
    <3>2. v = v4 \o v3
      <4>1. Len((v1 \o v2) \o v3) = 5 /\ (v1 \o v2) \o v3 \in Seq(Stmt) /\ Len(v) = 5
        BY <3>1
      <4>2. \A i \in 1 .. 5 : v[i] = ((v1 \o v2) \o v3)[i]
        BY <3>1
      <4> QED BY <3>1, <4>1, <4>2, SeqEqual
    <3>3. v4 \in Seq(Stmt) /\ r \in Seq(Stmt)
      <4> HIDE DEF v1, v2, v3, w
      <4> QED BY <3>1, Assoc, Zenon
    <3>4. (v4 \o v3) \o w = v4 \o r
      <4> HIDE DEF v4, v3, w
      <4> QED BY <3>1, <3>3, Assoc, Zenon
    <3>5. (v1 \o v2) \o r = v1 \o q
      <4> HIDE DEF v1, v2, r
      <4> QED BY <3>1, <3>3, Assoc, SMTT(30)
    <3>6. q \in Seq(Stmt)
      <4> HIDE DEF v2, r
      <4> QED BY <3>1, <3>3, Assoc, Zenon
    <3>7. v1 \o q = <<oc>> \o (<<pr>> \o q)
      <4> HIDE DEF q
      <4> QED BY <1>5, <3>6, PairCat, Zenon
    <3>8. q = <<fp>> \o (<<oc>> \o r)
      <4> HIDE DEF r
      <4> QED BY <1>5, <3>3, PairCat, Zenon
    <3>9. g = v4 \o r
      <4> HIDE DEF v, w, v4, v3
      <4> QED BY <3>2, <3>4
    <3> HIDE DEF v, w
    <3> QED BY <3>5, <3>7, <3>8, <3>9
  <2>4. x \in Seq(Stmt) /\ g \in Seq(Stmt)
    <3> HIDE DEF t, v, w
    <3> QED BY <1>3, <2>1, Assoc, Zenon
  <2>5. y \in Seq(Stmt) /\ d \in Seq(Stmt)
    <3> HIDE DEF x, u, g
    <3> QED BY <2>1, <2>4, Assoc, Zenon
  <2>6. t \o d = <<ov>> \o (<<wv>> \o d)
    <3> HIDE DEF d
    <3> QED BY <1>5, <2>5, PairCat, Zenon
  <2>7. (y \o v) \o w = y \o g
    <3> HIDE DEF y, v, w
    <3> QED BY <2>1, <2>5, Assoc, SMTT(30)
  <2>8. (x \o u) \o g = x \o d
    <3> HIDE DEF x, u, g
    <3> QED BY <2>1, <2>4, Assoc, SMTT(30)
  <2>9. (a \o t) \o d = a \o (t \o d)
    <3> HIDE DEF t, d
    <3> QED BY <1>3, <2>1, <2>5, Assoc, SMTT(30)
  <2>10. (((a \o t) \o u) \o v) \o w = a \o (t \o d)
    <3> HIDE DEF t, u, v, w, g, d
    <3> QED BY <2>7, <2>8, <2>9
  <2>11. a \o (t \o d) = a \o (<<ov>> \o (<<wv>> \o d))
    BY <2>6
  <2>12. d = <<dn>> \o (<<oc>> \o (<<pr>> \o (<<fp>> \o (<<oc>> \o (<<bd>> \o (<<up>> \o <<wt>>))))))
    BY <2>2, <2>3
  <2> QED BY <1>8, <1>9, <2>10, <2>11, <2>12
<1>11. HarborRenders(HarborSteps)
  BY <1>3, <1>10 DEF HarborRenders, o
<1>12. o \in Seq(T)
  <2> DEFINE s1 == <<up>> \o <<wt>>
             s2 == <<bd>> \o s1
             s3 == <<oc>> \o s2
             s4 == <<fp>> \o s3
             s5 == <<pr>> \o s4
             s6 == <<oc>> \o s5
             s7 == <<dn>> \o s6
             s8 == <<wv>> \o s7
  <2>1. s1 \in Seq(T)
    BY <1>6
  <2> HIDE DEF s1
  <2>2. s2 \in Seq(T)
    BY <1>6, <2>1, HeadTail
  <2> HIDE DEF s2
  <2>3. s3 \in Seq(T)
    BY <1>6, <2>2, HeadTail
  <2> HIDE DEF s3
  <2>4. s4 \in Seq(T)
    BY <1>6, <2>3, HeadTail
  <2> HIDE DEF s4
  <2>5. s5 \in Seq(T)
    BY <1>6, <2>4, HeadTail
  <2> HIDE DEF s5
  <2>6. s6 \in Seq(T)
    BY <1>6, <2>5, HeadTail
  <2> HIDE DEF s6
  <2>7. s7 \in Seq(T)
    BY <1>6, <2>6, HeadTail
  <2> HIDE DEF s7
  <2>8. s8 \in Seq(T)
    BY <1>6, <2>7, HeadTail
  <2> HIDE DEF s8
  <2>9. <<ov>> \o s8 \in Seq(T)
    BY <1>6, <2>8, HeadTail
  <2> QED BY <1>9, <2>9 DEF s1, s2, s3, s4, s5, s6, s7, s8
<1>13. o \in Seq(Stmt) /\ ~Opens("harbor.yml", o)
  BY <1>7, <1>12, SeqInclusion DEF Opens, Has
<1> QED BY <1>3, <1>4, <1>10, <1>11, <1>13, CatPending

\* Zitadel's: eight statements for each tenant.
LEMMA TenantPlace ==
    ASSUME NEW n \in Nat, NEW i \in 1 .. 8 * n
    PROVE  1 + ((i - 1) \div 8) \in 1 .. n /\ 1 + ((i - 1) % 8) \in 1 .. 8
  OBVIOUS

LEMMA ConfTenantsType ==
    ASSUME TypeOK
    PROVE  ConfTenants \in Seq(Tenant)
<1>1. conf.tenants \in 1 .. 2
  BY DEF TypeOK, Config
<1>2. TenantLists[conf.tenants] \in Seq(Tenant) /\ <<Default>> \in Seq(Tenant)
  BY <1>1, ZitadelAssumption
<1> QED BY <1>2 DEF ConfTenants

KindAt == <<"org", "project", "role", "client", "open client", "write client", "user", "grant">>
LEMMA TenantStep ==
    ASSUME NEW t \in Tenant, NEW k \in 1 .. 8
    PROVE  TenantSteps(t)[k] = <<KindAt[k], t>> /\ KindAt[k] \in TenantKinds
<1>1. k = 1 \/ k = 2 \/ k = 3 \/ k = 4 \/ k = 5 \/ k = 6 \/ k = 7 \/ k = 8
  OBVIOUS
<1>2. /\ KindAt[1] = "org" /\ KindAt[2] = "project" /\ KindAt[3] = "role" /\ KindAt[4] = "client"
      /\ KindAt[5] = "open client" /\ KindAt[6] = "write client" /\ KindAt[7] = "user" /\ KindAt[8] = "grant"
  BY DEF KindAt
<1>3. /\ TenantSteps(t)[1] = <<"org", t>> /\ TenantSteps(t)[2] = <<"project", t>>
      /\ TenantSteps(t)[3] = <<"role", t>> /\ TenantSteps(t)[4] = <<"client", t>>
      /\ TenantSteps(t)[5] = <<"open client", t>> /\ TenantSteps(t)[6] = <<"write client", t>>
      /\ TenantSteps(t)[7] = <<"user", t>> /\ TenantSteps(t)[8] = <<"grant", t>>
  BY DEF TenantSteps
<1>4. TenantSteps(t)[k] = <<KindAt[k], t>>
  BY <1>1, <1>2, <1>3
<1>5. KindAt[k] \in TenantKinds
  BY <1>1, <1>2 DEF TenantKinds
<1> QED BY <1>4, <1>5

LEMMA ZitadelProgram ==
    ASSUME TypeOK
    PROVE  Program(ZitadelSteps, {}) /\ Provisioning \in Seq(Post)
<1>1. <<<<"vars">>, <<"ca">>>> \in Seq(Early) /\ <<<<"pat">>, <<"api">>>> \in Seq(Post)
  BY DEF Early, Post
<1>2. Provisioning \in Seq(Post)
  <2>1. Len(ConfTenants) \in Nat /\ \A j \in 1 .. Len(ConfTenants) : ConfTenants[j] \in Tenant
    BY ConfTenantsType
  <2>2. ASSUME NEW i \in 1 .. 8 * Len(ConfTenants)
        PROVE  TenantSteps(ConfTenants[1 + (i - 1) \div 8])[1 + ((i - 1) % 8)] \in Post
    <3>1. 1 + ((i - 1) \div 8) \in 1 .. Len(ConfTenants) /\ 1 + ((i - 1) % 8) \in 1 .. 8
      BY <2>1, TenantPlace
    <3>2. ConfTenants[1 + ((i - 1) \div 8)] \in Tenant
      BY <2>1, <3>1
    <3>3. TenantSteps(ConfTenants[1 + ((i - 1) \div 8)])[1 + ((i - 1) % 8)] \in TenantKinds \X Tenant
      <4> DEFINE t == ConfTenants[1 + ((i - 1) \div 8)]
                 k == 1 + ((i - 1) % 8)
      <4>1. t \in Tenant /\ k \in 1 .. 8
        BY <3>1, <3>2
      <4> HIDE DEF t, k
      <4>2. TenantSteps(t)[k] = <<KindAt[k], t>> /\ KindAt[k] \in TenantKinds
        BY <4>1, TenantStep
      <4>3. <<KindAt[k], t>> \in TenantKinds \X Tenant
        BY <4>1, <4>2
      <4> QED BY <4>2, <4>3 DEF t, k
    <3> QED BY <3>3 DEF Post
  <2>3. 8 * Len(ConfTenants) \in Nat
    BY <2>1
  <2> QED BY <2>2, <2>3 DEF Provisioning
<1>3. <<<<"pat">>, <<"api">>>> \o Provisioning \in Seq(Post)
  BY <1>1, <1>2
<1>4. ZitadelSteps = (<<<<"vars">>, <<"ca">>>> \o Restart) \o (<<<<"pat">>, <<"api">>>> \o Provisioning)
  <2>1. Restart \in Seq(Stmt) /\ <<<<"vars">>, <<"ca">>>> \in Seq(Stmt) /\ <<<<"pat">>, <<"api">>>> \in Seq(Stmt)
        /\ Provisioning \in Seq(Stmt)
    BY <1>1, <1>2, EmptyParts, Together, RestNoOpen, Inclusion, SeqInclusion
  <2> QED BY <2>1 DEF ZitadelSteps
<1> QED BY <1>1, <1>2, <1>3, <1>4, Checks, PlainProgram
-----------------------------------------------------------------------------
(***************************************************************************)
(* The inductive invariant.                                                *)
(***************************************************************************)
BudgetOK ==
    /\ budget \in [left : [Disturbance -> Nat], all : Nat]
    /\ \A d \in Disturbance : budget.left[d] <= MaxOf[d]

\* No `down` did nothing without saying so.
DownWorks == ~(Spent({"docker", "cancel"}) \/ (Spent({"cut"}) /\ Spent({"remove"})))

Serving == verdict[svc] \in {"ok", "changed"} => main.env # 0
IsDown == DownWorks => main = NotRunning /\ ~extra
FilesWhole == \A f \in Mounted[svc] : files[f] = conf.v
ReadsWhole == \A f \in Mounted[svc] : main.read[f] = conf.v
Runs == FilesWhole /\ main.env = conf.e /\ data /\ (DownWorks => ReadsWhole /\ (svc = "harbor" => extra = conf.extra))

\* Where a deployment is, and what it has achieved.
PlainPart ==
    \/ Renders(todo) /\ Serving
    \/ Declares(todo) /\ Serving
    \/ Builds(todo) /\ Serving /\ files["compose"] = conf.e
HarborPart ==
    \/ HarborRenders(todo) /\ Serving
    \/ todo = ToOverride /\ Serving
    \/ todo = ToStop /\ Serving /\ files["override"] # Torn
    \/ todo \in {ToGenerate, ToPrepare} /\ IsDown
    \/ todo \in {ToFind, ToReopen, ToBind} /\ IsDown /\ comp.extra = conf.extra
CommonPart ==
    \/ Starts(todo) /\ IsDown /\ files["compose"] = conf.e /\ comp.bound /\ (svc = "harbor" => comp.extra = conf.extra)
    \/ Waits(todo) /\ Runs
    \/ Provisions(todo) /\ Runs
DeployPart == (svc # "harbor" /\ PlainPart) \/ (svc = "harbor" /\ HarborPart) \/ CommonPart
RemovePart ==
    \/ at = "remove" /\ Takes(todo)
    \/ Clears(todo) /\ IsDown
    \/ Removal(todo) /\ IsDown
IdlePart ==
    /\ Serving /\ (verdict[svc] = "ok" => Runs)
    /\ DownWorks /\ verdict[svc] = "removed" => main = NotRunning
Control ==
    /\ at = "idle" <=> Idle
    /\ at = "idle" => IdlePart
    /\ at = "deploy" => DeployPart
    /\ at \in {"remove", "cancelled"} => Spent({"remove"}) /\ RemovePart

\* The first statement of a deployment that may be refused for its directory is.
GuardFirst == svc \in Guarded /\ conf.inside => ~data /\ (at = "deploy" => Head(todo) = <<"guard">>)

FilesInv ==
    at = "deploy" => \A f \in Mounted[svc] : Pending(f, todo) \/ (files[f] = conf.v /\ ~Opens(f, todo))

\* A file that is open is written next, unless a cut came between.
Writes(f) == at = "deploy" /\ todo # <<>> /\ Head(todo) = <<"write", f>>
TornInv ==
    ~Spent({"cut"}) =>
        /\ svc # "harbor" /\ files["compose"] = Torn => Writes("compose")
        /\ svc = "harbor" /\ files["override"] = Torn => Writes("override")

\* What is not declared does not run.
Declared ==
    DownWorks =>
        /\ extra => comp.extra
        /\ files["compose"] = 0 => main = NotRunning /\ ~extra
        /\ svc = "harbor" /\ files["compose"] = Torn => main = NotRunning /\ ~extra

Local == ~main.open /\ (svc # "harbor" => comp.bound)

HostInv == TypeOK /\ BudgetOK /\ Control /\ GuardFirst /\ FilesInv /\ TornInv /\ Declared /\ Local
-----------------------------------------------------------------------------
\* The statement due, the part of the deployment it belongs to and the part that follows.
Kind == Head(todo)[1]
At(k, f) == Kind = k /\ What = f /\ Head(todo) = <<k, f>>
Checking == {"guard", "ca", "vars", "cert"}
PostKinds == {"login", "dial", "pat", "api", "ensure", "set"} \cup TenantKinds
Filing == What \in Own /\ (At("open", What) \/ At("write", What))
PlainMove ==
    \/ Serving /\ Renders(todo) /\ Renders(Tail(todo)) /\ (Kind \in Checking \/ Filing)
    \/ Serving /\ Renders(todo) /\ Declares(Tail(todo)) /\ At("open", "compose")
    \/ Serving /\ Declares(todo) /\ Builds(Tail(todo)) /\ At("write", "compose")
    \/ Serving /\ files["compose"] = conf.e /\ Builds(todo) /\ Builds(Tail(todo)) /\ Kind \in {"build", "vars"}
    \/ Serving /\ files["compose"] = conf.e /\ Builds(todo) /\ Starts(Tail(todo)) /\ Kind = "down"
HarborMove ==
    \/ Serving /\ HarborRenders(todo) /\ HarborRenders(Tail(todo)) /\ (Kind \in Checking \/ Filing)
    \/ Serving /\ HarborRenders(todo) /\ Tail(todo) = ToOverride /\ At("open", "override")
    \/ Serving /\ todo = ToOverride /\ Tail(todo) = ToStop /\ At("write", "override")
    \/ Serving /\ files["override"] # Torn /\ todo = ToStop /\ Tail(todo) = ToGenerate /\ Kind = "down"
    \/ IsDown /\ todo = ToGenerate /\ Tail(todo) = ToPrepare /\ At("open", "compose")
    \/ IsDown /\ todo = ToPrepare /\ Tail(todo) = ToFind /\ Kind = "prepare"
    \/ IsDown /\ comp.extra = conf.extra /\ todo = ToFind /\ Tail(todo) = ToReopen /\ Kind = "find port"
    \/ IsDown /\ comp.extra = conf.extra /\ todo = ToReopen /\ Tail(todo) = ToBind /\ At("open", "compose")
    \/ IsDown /\ comp.extra = conf.extra /\ todo = ToBind /\ Starts(Tail(todo)) /\ Kind = "bind"
CommonMove ==
    \/ /\ IsDown /\ files["compose"] = conf.e /\ comp.bound /\ (svc = "harbor" => comp.extra = conf.extra)
       /\ Starts(todo) /\ Waits(Tail(todo)) /\ Kind = "up"
    \/ Runs /\ Waits(todo) /\ Provisions(Tail(todo)) /\ Kind = "wait"
    \/ Runs /\ Provisions(todo) /\ Provisions(Tail(todo)) /\ Kind \in PostKinds
RemoveMove ==
    \/ at = "remove" /\ Takes(todo) /\ Clears(Tail(todo)) /\ Kind = "down"
    \/ IsDown /\ Clears(todo) /\ Removal(Tail(todo)) /\ Kind = "clear"
    \/ IsDown /\ Removal(todo) /\ Tail(todo) = <<>> /\ Kind = "forget"
Moves ==
    \/ at = "deploy" /\ ((svc # "harbor" /\ PlainMove) \/ (svc = "harbor" /\ HarborMove) \/ CommonMove)
    \/ at \in {"remove", "cancelled"} /\ RemoveMove

LEMMA PairOf == \A x \in Early : x[1] \in {"open", "write"} => x[2] \in Own /\ x = <<x[1], x[2]>>
  BY DEF Early

LEMMA Heads ==
    /\ \A x : Head(todo) = <<x>> => Kind = x
    /\ \A x, y : Head(todo) = <<x, y>> => At(x, y)
    /\ Head(todo) \in Early => Kind \in Checking \/ Filing
    /\ Head(todo) \in Middle => Kind \in {"build", "vars"}
    /\ Head(todo) \in Post => Kind \in PostKinds
<1>1. /\ \A x : Head(todo) = <<x>> => Kind = x
      /\ \A x, y : Head(todo) = <<x, y>> => At(x, y)
  BY DEF Kind, At, What
<1>2. Head(todo) \in Early => Kind \in Checking \/ Filing
  <2> SUFFICES ASSUME Head(todo) \in Early PROVE Kind \in Checking \/ Filing
    OBVIOUS
  <2>1. Kind \in {"guard", "ca", "vars", "cert", "open", "write"}
    BY KindOf DEF Kind
  <2>2. Kind \in {"open", "write"} => What \in Own /\ Head(todo) = <<Kind, What>>
    BY PairOf DEF Kind, What
  <2> QED BY <2>1, <2>2 DEF Checking, Filing, At
<1>3. Head(todo) \in Middle => Kind \in {"build", "vars"}
  BY KindOf DEF Kind
<1>4. Head(todo) \in Post => Kind \in PostKinds
  BY KindOf DEF Kind, PostKinds
<1> QED BY <1>1, <1>2, <1>3, <1>4

LEMMA WhereTo ==
    ASSUME TypeOK, Control, todo # <<>>
    PROVE  Moves /\ todo \in Seq(Stmt) /\ at # "idle" /\ op = svc
<1>1. at \in {"deploy", "remove", "cancelled"} /\ op = svc
  BY DEF TypeOK, Control, Idle
<1>2. ASSUME at = "deploy", svc # "harbor", PlainPart PROVE PlainMove /\ todo \in Seq(Stmt)
  <2>1. CASE Renders(todo) /\ Serving
    BY <2>1, RendersNext, Heads DEF PlainMove
  <2>2. CASE Declares(todo) /\ Serving
    BY <2>2, DeclaresNext, Heads DEF PlainMove
  <2>3. CASE Builds(todo) /\ Serving /\ files["compose"] = conf.e
    BY <2>3, BuildsNext, Heads DEF PlainMove
  <2> QED BY <1>2, <2>1, <2>2, <2>3 DEF PlainPart
<1>3. ASSUME at = "deploy", svc = "harbor", HarborPart PROVE HarborMove /\ todo \in Seq(Stmt)
  <2>1. CASE HarborRenders(todo) /\ Serving
    BY <2>1, HarborRendersNext, Heads DEF HarborMove
  <2>2. CASE todo = ToOverride /\ Serving
    BY <2>2, HarborNext, Heads DEF HarborMove
  <2>3. CASE todo = ToStop /\ Serving /\ files["override"] # Torn
    BY <2>3, HarborNext, Heads DEF HarborMove
  <2>4. CASE todo \in {ToGenerate, ToPrepare} /\ IsDown
    BY <2>4, HarborNext, Heads DEF HarborMove
  <2>5. CASE todo \in {ToFind, ToReopen, ToBind} /\ IsDown /\ comp.extra = conf.extra
    BY <2>5, HarborNext, Heads DEF HarborMove
  <2> QED BY <1>3, <2>1, <2>2, <2>3, <2>4, <2>5 DEF HarborPart
<1>4. ASSUME CommonPart PROVE CommonMove /\ todo \in Seq(Stmt)
  BY <1>4, StartsNext, WaitsNext, ProvisionsNext, Heads DEF CommonPart, CommonMove
<1>5. ASSUME RemovePart PROVE RemoveMove /\ todo \in Seq(Stmt)
  BY <1>5, RemovalNext, Heads DEF RemovePart, RemoveMove
<1> QED BY <1>1, <1>2, <1>3, <1>4, <1>5 DEF Control, DeployPart, Moves

\* Where a statement stands, by its kind.
LEMMA AtOpen ==
    ASSUME Moves, Kind = "open"
    PROVE  /\ at = "deploy" /\ Head(todo) = <<"open", What>>
           /\ \/ svc # "harbor" /\ Serving /\ What \in Own /\ Renders(Tail(todo))
              \/ svc # "harbor" /\ Serving /\ What = "compose" /\ Declares(Tail(todo))
              \/ svc = "harbor" /\ Serving /\ What \in Own /\ HarborRenders(Tail(todo))
              \/ svc = "harbor" /\ Serving /\ What = "override" /\ Tail(todo) = ToOverride
              \/ svc = "harbor" /\ IsDown /\ What = "compose" /\ Tail(todo) = ToPrepare
              \/ svc = "harbor" /\ IsDown /\ comp.extra = conf.extra /\ What = "compose" /\ Tail(todo) = ToBind
  BY DEF Moves, PlainMove, HarborMove, CommonMove, RemoveMove, Checking, Filing, At, PostKinds, TenantKinds

LEMMA AtWrite ==
    ASSUME Moves, Kind = "write"
    PROVE  /\ at = "deploy" /\ Head(todo) = <<"write", What>>
           /\ \/ svc # "harbor" /\ Serving /\ What \in Own /\ Renders(Tail(todo))
              \/ svc # "harbor" /\ Serving /\ What = "compose" /\ Builds(Tail(todo))
              \/ svc = "harbor" /\ Serving /\ What \in Own /\ HarborRenders(Tail(todo))
              \/ svc = "harbor" /\ Serving /\ What = "override" /\ Tail(todo) = ToStop
  BY DEF Moves, PlainMove, HarborMove, CommonMove, RemoveMove, Checking, Filing, At, PostKinds, TenantKinds

LEMMA AtDown ==
    ASSUME Moves, Kind = "down"
    PROVE  \/ at = "deploy" /\ svc # "harbor" /\ Serving /\ files["compose"] = conf.e /\ Starts(Tail(todo))
           \/ at = "deploy" /\ svc = "harbor" /\ Serving /\ files["override"] # Torn /\ Tail(todo) = ToGenerate
           \/ at = "remove" /\ Clears(Tail(todo))
  BY DEF Moves, PlainMove, HarborMove, CommonMove, RemoveMove, Checking, Filing, At, PostKinds, TenantKinds

LEMMA AtPrepare ==
    ASSUME Moves, Kind = "prepare"
    PROVE  at = "deploy" /\ svc = "harbor" /\ IsDown /\ Tail(todo) = ToFind
  BY DEF Moves, PlainMove, HarborMove, CommonMove, RemoveMove, Checking, Filing, At, PostKinds, TenantKinds

LEMMA AtBind ==
    ASSUME Moves, Kind = "bind"
    PROVE  at = "deploy" /\ svc = "harbor" /\ IsDown /\ comp.extra = conf.extra /\ Starts(Tail(todo))
  BY DEF Moves, PlainMove, HarborMove, CommonMove, RemoveMove, Checking, Filing, At, PostKinds, TenantKinds

LEMMA AtUp ==
    ASSUME Moves, Kind = "up"
    PROVE  /\ at = "deploy" /\ Waits(Tail(todo))
           /\ IsDown /\ files["compose"] = conf.e /\ comp.bound /\ (svc = "harbor" => comp.extra = conf.extra)
  BY DEF Moves, PlainMove, HarborMove, CommonMove, RemoveMove, Checking, Filing, At, PostKinds, TenantKinds

LEMMA AtRemoval ==
    ASSUME Moves, Kind \in {"clear", "forget"}
    PROVE  at \in {"remove", "cancelled"} /\ IsDown /\ Removal(Tail(todo))
  BY DEF Moves, PlainMove, HarborMove, CommonMove, RemoveMove, Checking, Filing, At, PostKinds, TenantKinds, Removal

LEMMA AtPost ==
    ASSUME Moves, Kind \in PostKinds
    PROVE  at = "deploy" /\ Runs /\ Provisions(todo) /\ Provisions(Tail(todo))
  BY DEF Moves, PlainMove, HarborMove, CommonMove, RemoveMove, Checking, Filing, At, PostKinds, TenantKinds

LEMMA AtWait ==
    ASSUME Moves, Kind = "wait"
    PROVE  at = "deploy" /\ Runs /\ Provisions(Tail(todo))
  BY DEF Moves, PlainMove, HarborMove, CommonMove, RemoveMove, Checking, Filing, At, PostKinds, TenantKinds

LEMMA AtCheck ==
    ASSUME Moves, Kind \in Checking \cup {"build", "find port"}
    PROVE  /\ at = "deploy"
           /\ \/ svc # "harbor" /\ Serving /\ Renders(Tail(todo))
              \/ svc # "harbor" /\ Serving /\ files["compose"] = conf.e /\ Builds(Tail(todo))
              \/ svc = "harbor" /\ Serving /\ HarborRenders(Tail(todo))
              \/ svc = "harbor" /\ IsDown /\ comp.extra = conf.extra /\ Tail(todo) = ToReopen
  BY DEF Moves, PlainMove, HarborMove, CommonMove, RemoveMove, Checking, Filing, At, PostKinds, TenantKinds

\* What is spent stays spent.
BudgetStep == UNCHANGED budget \/ \E d : Spend(d)

LEMMA SpendKeeps ==
    ASSUME BudgetOK, NEW d, Spend(d), NEW K
    PROVE  BudgetOK' /\ (Spent(K) => Spent(K)') /\ (d \in K => Spent(K)')
<1>1. /\ d \in Disturbance /\ budget.left[d] \in Nat /\ budget.left[d] > 0 /\ budget.all \in Nat /\ budget.all > 0
      /\ budget' = [left |-> [budget.left EXCEPT ![d] = @ - 1], all |-> budget.all - 1]
  BY DEF Spend, BudgetOK
<1>2. /\ budget'.left = [budget.left EXCEPT ![d] = @ - 1] /\ budget.left \in [Disturbance -> Nat]
      /\ budget' \in [left : [Disturbance -> Nat], all : Nat]
  BY <1>1 DEF BudgetOK
<1>3. \A e \in Disturbance : budget'.left[e] = IF e = d THEN budget.left[d] - 1 ELSE budget.left[e]
  BY <1>2
<1>4. \A e \in Disturbance : budget.left[e] \in Nat /\ MaxOf[e] \in Nat /\ budget.left[e] <= MaxOf[e]
  BY DisturbanceAssumption DEF BudgetOK
<1>5. budget'.left[d] < MaxOf[d] /\ \A e \in Disturbance : budget'.left[e] <= budget.left[e]
  BY <1>1, <1>3, <1>4
<1>6. \A e \in Disturbance : budget'.left[e] \in Nat
  BY <1>2
<1>7. \A e \in Disturbance : budget'.left[e] <= MaxOf[e]
  BY <1>4, <1>5, <1>6
<1>8. \A e \in Disturbance : budget.left[e] < MaxOf[e] => budget'.left[e] < MaxOf[e]
  BY <1>4, <1>5, <1>6
<1>9. BudgetOK'
  BY <1>2, <1>7 DEF BudgetOK
<1>10. Spent(K) => Spent(K)'
  BY <1>8 DEF Spent
<1>11. d \in K => Spent(K)'
  BY <1>1, <1>5 DEF Spent
<1> QED BY <1>9, <1>10, <1>11

LEMMA BudgetKeeps ==
    ASSUME BudgetOK, BudgetStep
    PROVE  BudgetOK' /\ (DownWorks' => DownWorks) /\ (~Spent({"cut"})' => ~Spent({"cut"}))
<1>1. CASE UNCHANGED budget
  BY <1>1 DEF BudgetOK, DownWorks, Spent
<1>2. CASE \E d : Spend(d)
  <2>1. PICK d : Spend(d)
    BY <1>2
  <2>2. BudgetOK' /\ \A K : Spent(K) => Spent(K)'
    BY <2>1, SpendKeeps
  <2> QED BY <2>2 DEF DownWorks
<1> QED BY <1>1, <1>2 DEF BudgetStep

\* A statement ends the deployment with an error, having changed nothing.
Bad == Verdicts \ {"ok", "changed", "removed", "none"}
LEMMA Halted ==
    ASSUME HostInv, TypeOK', todo # <<>>, Kind # "write", HostKept, BudgetStep, NEW v \in Bad, Stops(v)
    PROVE  HostInv'
<1>1. svc' = svc /\ conf' = conf /\ at' = "idle" /\ op' = "none" /\ todo' = <<>> /\ verdict'[svc] = v
  BY DEF Stops, Ends, HostInv, TypeOK
<1>2. BudgetOK' /\ (DownWorks' => DownWorks) /\ (~Spent({"cut"})' => ~Spent({"cut"}))
  BY BudgetKeeps DEF HostInv
<1>3. Control'
  <2>1. IdlePart'
    BY <1>1 DEF Bad, IdlePart, Serving
  <2> QED BY <1>1, <2>1 DEF Control, Idle
<1>4. GuardFirst' /\ FilesInv'
  BY <1>1 DEF HostInv, HostKept, GuardFirst, FilesInv
<1>5. TornInv'
  BY <1>1, <1>2 DEF HostInv, HostKept, TornInv, Writes, Kind
<1>6. Declared'
  BY <1>1, <1>2 DEF HostInv, HostKept, Declared, NotRunning
<1>7. Local'
  BY <1>1 DEF HostInv, HostKept, Local
<1> QED BY <1>2, <1>3, <1>4, <1>5, <1>6, <1>7 DEF HostInv

LEMMA PostOnly ==
    ASSUME NEW s \in Seq(Post), NEW f
    PROVE  ~Opens(f, s) /\ ~Pending(f, s)
<1>1. ASSUME NEW i \in DOMAIN s PROVE s[i][1] \notin {"open", "write"}
  <2>1. s[i] \in Post
    OBVIOUS
  <2> QED BY <2>1, KindOf DEF TenantKinds
<1> QED BY <1>1 DEF Opens, Pending, Has

\* The next statement is due, or the deployment has ended well.
Move(rest) ==
    /\ todo' = rest /\ UNCHANGED <<svc, conf>>
    /\ IF rest = <<>> THEN Ends(svc, Outcome) ELSE UNCHANGED <<op, at, verdict>>
HostStays == UNCHANGED <<files, comp, main, extra, data>>

LEMMA RunsStays ==
    ASSUME UNCHANGED <<files, main, extra, data, svc, conf>>, DownWorks' => DownWorks
    PROVE  Runs => Runs'
  BY DEF Runs, FilesWhole, ReadsWhole

\* While it provisions.
LEMMA Provisioned ==
    ASSUME HostInv, TypeOK', at = "deploy", op = svc, Kind # "write", Runs, HostStays, BudgetStep,
           NEW rest \in Seq(Post), Kind # "guard", Move(rest)
    PROVE  HostInv'
<1>1. /\ svc' = svc /\ conf' = conf /\ todo' = rest
      /\ rest = <<>> => at' = "idle" /\ op' = "none" /\ verdict'[svc] = "ok"
      /\ rest # <<>> => at' = "deploy" /\ op' = svc /\ verdict' = verdict
  BY DEF Move, Ends, HostInv, TypeOK, Outcome
<1>2. BudgetOK' /\ (DownWorks' => DownWorks) /\ (~Spent({"cut"})' => ~Spent({"cut"}))
  BY BudgetKeeps DEF HostInv
<1>3. Runs' /\ main'.env # 0
  <2>1. Runs' /\ main' = main
    BY <1>1, <1>2, RunsStays DEF HostStays
  <2> QED BY <2>1 DEF Runs, HostInv, TypeOK, Config
<1>4. Control'
  <2>1. CASE rest = <<>>
    <3>1. IdlePart'
      BY <1>1, <1>3, <2>1 DEF IdlePart, Serving
    <3> QED BY <1>1, <2>1, <3>1 DEF Control, Idle
  <2>2. CASE rest # <<>>
    <3>1. DeployPart'
      BY <1>1, <1>3 DEF DeployPart, CommonPart, Provisions
    <3>2. svc # "none"
      BY <1>1, <2>2 DEF HostInv, Control, Idle
    <3> QED BY <1>1, <2>2, <3>1, <3>2 DEF Control, Idle
  <2> QED BY <2>1, <2>2
<1>5. GuardFirst'
  <2>1. ~(svc \in Guarded /\ conf.inside)
    BY DEF HostInv, GuardFirst, Kind
  <2> QED BY <1>1, <2>1 DEF GuardFirst
<1>6. FilesInv'
  <2>1. \A f \in Mounted[svc] : files'[f] = conf.v /\ ~Opens(f, rest)
    BY PostOnly DEF Runs, FilesWhole, HostStays
  <2> QED BY <1>1, <2>1 DEF FilesInv
<1>7. TornInv'
  BY <1>1, <1>2 DEF HostInv, HostStays, TornInv, Writes, Kind
<1>8. Declared'
  BY <1>1, <1>2 DEF HostInv, HostStays, Declared, NotRunning
<1>9. Local'
  BY <1>1 DEF HostInv, HostStays, Local
<1> QED BY <1>2, <1>4, <1>5, <1>6, <1>7, <1>8, <1>9 DEF HostInv

\* Before: a guard that lets it pass, a build, a wait.
QuietKinds == Checking \cup {"build", "find port", "wait"}
LEMMA Moved ==
    ASSUME HostInv, TypeOK', todo # <<>>, Kind \in QuietKinds, Kind = "guard" => ~conf.inside, HostStays, BudgetStep,
           Move(Tail(todo))
    PROVE  HostInv'
<1>1. Moves /\ todo \in Seq(Stmt) /\ op = svc
  BY WhereTo DEF HostInv
<1>2. at = "deploy" /\ Kind \notin {"write", "open"}
  BY <1>1, AtCheck, AtWait DEF QuietKinds, Checking
<1>4. CASE Kind = "wait"
  BY <1>1, <1>2, <1>4, AtWait, Provisioned DEF Provisions
<1>5. CASE Kind # "wait"
  <2>1. \/ svc # "harbor" /\ Serving /\ Renders(Tail(todo))
        \/ svc # "harbor" /\ Serving /\ files["compose"] = conf.e /\ Builds(Tail(todo))
        \/ svc = "harbor" /\ Serving /\ HarborRenders(Tail(todo))
        \/ svc = "harbor" /\ IsDown /\ comp.extra = conf.extra /\ Tail(todo) = ToReopen
    BY <1>1, <1>5, AtCheck DEF QuietKinds
  <2>2. Tail(todo) # <<>>
    BY <2>1, RendersNext, BuildsNext, HarborRendersNext, HarborNext
  <2>3. svc' = svc /\ conf' = conf /\ todo' = Tail(todo) /\ at' = at /\ op' = op /\ verdict' = verdict
    BY <2>2 DEF Move
  <2>4. BudgetOK' /\ (DownWorks' => DownWorks) /\ (~Spent({"cut"})' => ~Spent({"cut"}))
    BY BudgetKeeps DEF HostInv
  <2>5. (Serving => Serving') /\ (IsDown => IsDown')
    BY <2>3, <2>4 DEF Serving, IsDown, HostStays, NotRunning
  <2>6. DeployPart'
    BY <2>1, <2>3, <2>5 DEF DeployPart, PlainPart, HarborPart, HostStays
  <2>7. Control'
    BY <1>2, <2>3, <2>6 DEF HostInv, Control, Idle
  <2>8. GuardFirst'
    BY <1>2, <2>3 DEF HostInv, GuardFirst, HostStays, Kind
  <2>9. FilesInv'
    <3>1. ASSUME NEW f \in Mounted[svc]
          PROVE  Pending(f, Tail(todo)) \/ (files[f] = conf.v /\ ~Opens(f, Tail(todo)))
      <4>1. Head(todo) # <<"write", f>>
        BY <1>2 DEF Kind
      <4>2. Pending(f, todo) => Pending(f, Tail(todo))
        BY <1>1, <4>1, TailPending
      <4>3. ~Opens(f, todo) => ~Opens(f, Tail(todo))
        BY <1>1, TailHas DEF Opens
      <4> QED BY <1>2, <4>2, <4>3 DEF HostInv, FilesInv
    <3> QED BY <1>2, <2>3, <3>1 DEF FilesInv, HostStays
  <2>10. TornInv'
    BY <1>2, <2>3, <2>4 DEF HostInv, HostStays, TornInv, Writes, Kind
  <2>11. Declared'
    BY <2>3, <2>4 DEF HostInv, HostStays, Declared, NotRunning
  <2>12. Local'
    BY <2>3 DEF HostInv, HostStays, Local
  <2> QED BY <2>4, <2>7, <2>8, <2>9, <2>10, <2>11, <2>12 DEF HostInv
<1> QED BY <1>4, <1>5
-----------------------------------------------------------------------------
LEMMA FileNames ==
    /\ "compose" \in Rendered /\ (svc = "harbor" => "override" \in Rendered) /\ Mounted[svc] \subseteq Rendered
    /\ Rendered \subseteq Mounted[svc] \cup {"compose", "override"}
  BY DEF Rendered

\* Files.
LEMMA OpenFileStep ==
    ASSUME HostInv, TypeOK', OpenFile
    PROVE  HostInv'
<1>1. Moves /\ todo \in Seq(Stmt) /\ op = svc /\ todo # <<>> /\ Kind = "open"
  BY WhereTo DEF HostInv, OpenFile, Now, Kind
<1>2. at = "deploy" /\ Head(todo) = <<"open", What>>
  BY <1>1, AtOpen
<1>3. \/ svc # "harbor" /\ Serving /\ What \in Own /\ Renders(Tail(todo))
      \/ svc # "harbor" /\ Serving /\ What = "compose" /\ Declares(Tail(todo))
      \/ svc = "harbor" /\ Serving /\ What \in Own /\ HarborRenders(Tail(todo))
      \/ svc = "harbor" /\ Serving /\ What = "override" /\ Tail(todo) = ToOverride
      \/ svc = "harbor" /\ IsDown /\ What = "compose" /\ Tail(todo) = ToPrepare
      \/ svc = "harbor" /\ IsDown /\ comp.extra = conf.extra /\ What = "compose" /\ Tail(todo) = ToBind
  BY <1>1, AtOpen
<1>4. Tail(todo) # <<>>
  BY <1>3, RendersNext, DeclaresNext, HarborRendersNext, HarborNext
<1>5. /\ svc' = svc /\ conf' = conf /\ todo' = Tail(todo) /\ at' = at /\ op' = op /\ verdict' = verdict
      /\ budget' = budget /\ main' = main /\ extra' = extra /\ comp' = comp /\ data' = data
      /\ files' = [files EXCEPT ![What] = Torn]
  BY <1>4 DEF OpenFile, Done, Then
<1>6. BudgetOK' /\ (DownWorks' => DownWorks) /\ (~Spent({"cut"})' => ~Spent({"cut"}))
  BY <1>5, BudgetKeeps DEF HostInv, BudgetStep
<1>7. (Serving => Serving') /\ (IsDown => IsDown')
  BY <1>5, <1>6 DEF Serving, IsDown, NotRunning
<1>8. DeployPart'
  BY <1>3, <1>5, <1>7 DEF DeployPart, PlainPart, HarborPart
<1>9. Control'
  BY <1>2, <1>5, <1>8 DEF HostInv, Control, Idle
<1>10. GuardFirst'
  BY <1>1, <1>2, <1>5 DEF HostInv, GuardFirst, Kind
<1>11. FilesInv'
  <2>1. ASSUME NEW f \in Mounted[svc]
        PROVE  Pending(f, Tail(todo)) \/ (files'[f] = conf.v /\ ~Opens(f, Tail(todo)))
    <3>1. Head(todo) # <<"write", f>>
      BY <1>1 DEF Kind
    <3>2. Pending(f, todo) => Pending(f, Tail(todo))
      BY <1>1, <3>1, TailPending
    <3>3. ASSUME ~Opens(f, todo) PROVE What # f
      <4>1. todo[1] = Head(todo) /\ 1 \in DOMAIN todo
        BY <1>1, TailPlaces
      <4>2. What = f => Head(todo) = <<"open", f>>
        BY <1>2
      <4> QED BY <3>3, <4>1, <4>2 DEF Opens, Has
    <3>4. ~Opens(f, todo) => ~Opens(f, Tail(todo))
      BY <1>1, TailHas DEF Opens
    <3> QED BY <1>2, <1>5, <3>2, <3>3, <3>4 DEF HostInv, FilesInv, TypeOK, Rendered
  <2> QED BY <1>5, <2>1 DEF FilesInv
<1>12. TornInv'
  <2>1. /\ ~Spent({"cut"})' /\ svc # "harbor" => files["compose"] # Torn
        /\ ~Spent({"cut"})' /\ svc = "harbor" => files["override"] # Torn
    BY <1>1, <1>6 DEF HostInv, TornInv, Writes, Kind
  <2>4. What \in Own => What # "compose" /\ What # "override"
    BY DEF Own
  <2>5. /\ What # "compose" => files'["compose"] = files["compose"]
        /\ What # "override" /\ svc = "harbor" => files'["override"] = files["override"]
    BY <1>5, FileNames DEF HostInv, TypeOK
  <2>2. svc # "harbor" /\ files'["compose"] = Torn /\ ~Spent({"cut"})' => Head(Tail(todo)) = <<"write", "compose">>
    <3>1. Declares(Tail(todo)) => Head(Tail(todo)) = <<"write", "compose">>
      BY DeclaresNext
    <3> QED BY <1>3, <2>1, <2>4, <2>5, <3>1
  <2>3. svc = "harbor" /\ files'["override"] = Torn /\ ~Spent({"cut"})' => Head(Tail(todo)) = <<"write", "override">>
    BY <1>3, <2>1, <2>4, <2>5, HarborNext
  <2> QED BY <1>2, <1>4, <1>5, <2>2, <2>3 DEF TornInv, Writes
<1>13. Declared'
  BY <1>3, <1>5, <1>6 DEF HostInv, Declared, NotRunning, IsDown, Torn, Own, TypeOK
<1>14. Local'
  BY <1>5 DEF HostInv, Local
<1> QED BY <1>6, <1>9, <1>10, <1>11, <1>12, <1>13, <1>14 DEF HostInv
LEMMA MountedOwn ==
    ASSUME TypeOK
    PROVE  Mounted[svc] \subseteq Own /\ "compose" \notin Mounted[svc] /\ "override" \notin Mounted[svc]
<1>1. svc \in {"traefik", "keycloak", "authentik", "samba", "s3", "depot", "sftp",
               "mailpit", "kmip", "chrony", "rsyslog", "lldap", "harbor", "zitadel"}
  BY SimpleAssumption DEF TypeOK
<1>2. Mounted[svc] \subseteq Own
  BY <1>1 DEF Mounted, Own
<1> QED BY <1>2 DEF Own

LEMMA Versions ==
    ASSUME TypeOK
    PROVE  /\ conf.v \in 1 .. 2 /\ conf.e \in 1 .. 2 /\ conf.v # Torn /\ conf.e # Torn /\ conf.v # 0 /\ conf.e # 0
           /\ Torn # 0 /\ svc # "none"
<1>1. conf.v \in 1 .. 2 /\ conf.e \in 1 .. 2
  BY DEF TypeOK, Config
<1>2. svc # "none"
  BY SimpleAssumption DEF TypeOK
<1> QED BY <1>1, <1>2 DEF Torn

LEMMA WriteFileStep ==
    ASSUME HostInv, TypeOK', WriteFile
    PROVE  HostInv'
<1>1. Moves /\ todo \in Seq(Stmt) /\ op = svc /\ todo # <<>> /\ Kind = "write" /\ TypeOK
  BY WhereTo DEF HostInv, WriteFile, Now, Kind
<1>2. at = "deploy" /\ Head(todo) = <<"write", What>>
  BY <1>1, AtWrite
<1>3. \/ svc # "harbor" /\ Serving /\ What \in Own /\ Renders(Tail(todo))
      \/ svc # "harbor" /\ Serving /\ What = "compose" /\ Builds(Tail(todo))
      \/ svc = "harbor" /\ Serving /\ What \in Own /\ HarborRenders(Tail(todo))
      \/ svc = "harbor" /\ Serving /\ What = "override" /\ Tail(todo) = ToStop
  BY <1>1, AtWrite
<1>4. Tail(todo) # <<>>
  BY <1>3, RendersNext, BuildsNext, HarborRendersNext, HarborNext
<1>5. /\ svc' = svc /\ conf' = conf /\ todo' = Tail(todo) /\ at' = at /\ op' = op /\ verdict' = verdict
      /\ budget' = budget /\ main' = main /\ extra' = extra /\ comp' = comp /\ data' = data
      /\ files' = [files EXCEPT ![What] = VersionOf(What)]
  BY <1>4 DEF WriteFile, Done, Then
<1>6. BudgetOK' /\ (DownWorks' => DownWorks) /\ (~Spent({"cut"})' => ~Spent({"cut"}))
  BY <1>5, BudgetKeeps DEF HostInv, BudgetStep
<1>7. Serving => Serving'
  BY <1>5 DEF Serving
<1>8. /\ "compose" \in DOMAIN files /\ (svc = "harbor" => "override" \in DOMAIN files) /\ Mounted[svc] \subseteq DOMAIN files
      /\ DOMAIN files = Rendered
  BY <1>1, FileNames DEF TypeOK
<1>9. What \in Own => What # "compose" /\ What # "override"
  BY DEF Own
<1>10. /\ files'["compose"] = IF What = "compose" THEN conf.e ELSE files["compose"]
       /\ svc = "harbor" => files'["override"] = IF What = "override" THEN conf.v ELSE files["override"]
       /\ \A f \in Mounted[svc] : files'[f] = IF What = f THEN conf.v ELSE files[f]
  BY <1>1, <1>5, <1>8, MountedOwn DEF VersionOf
<1>11. Control'
  <2>1. DeployPart'
    BY <1>1, <1>3, <1>5, <1>7, <1>10, Versions DEF DeployPart, PlainPart, HarborPart
  <2> QED BY <1>2, <1>5, <2>1 DEF HostInv, Control, Idle
<1>12. GuardFirst'
  BY <1>1, <1>2, <1>5 DEF HostInv, GuardFirst, Kind
<1>13. FilesInv'
  <2>1. ASSUME NEW f \in Mounted[svc]
        PROVE  Pending(f, Tail(todo)) \/ (files'[f] = conf.v /\ ~Opens(f, Tail(todo)))
    <3>1. Pending(f, todo) \/ (files[f] = conf.v /\ ~Opens(f, todo))
      BY <1>2 DEF HostInv, FilesInv
    <3>2. CASE Pending(f, todo)
      <4>1. IF What = f THEN Pending(f, Tail(todo)) \/ ~Opens(f, Tail(todo)) ELSE Pending(f, Tail(todo))
        BY <1>1, <1>2, <3>2, TailPending
      <4> QED BY <1>10, <4>1
    <3>3. CASE files[f] = conf.v /\ ~Opens(f, todo)
      <4>1. ~Opens(f, Tail(todo))
        BY <1>1, <3>3, TailHas DEF Opens
      <4> QED BY <1>10, <3>3, <4>1
    <3> QED BY <3>1, <3>2, <3>3
  <2> QED BY <1>5, <2>1 DEF FilesInv
<1>14. TornInv'
  <2>1. /\ ~Spent({"cut"})' /\ svc # "harbor" => What = "compose" \/ files["compose"] # Torn
        /\ ~Spent({"cut"})' /\ svc = "harbor" => What = "override" \/ files["override"] # Torn
    BY <1>1, <1>6 DEF HostInv, TornInv, Writes, Kind, What
  <2>2. /\ ~Spent({"cut"})' /\ svc # "harbor" => files'["compose"] # Torn
        /\ ~Spent({"cut"})' /\ svc = "harbor" => files'["override"] # Torn
    BY <1>1, <1>10, <2>1, Versions
  <2> QED BY <1>5, <2>2 DEF TornInv
<1>15. Declared'
  <2>1. svc = "harbor" => What # "compose"
    BY <1>3, <1>9
  <2> QED BY <1>1, <1>5, <1>6, <1>10, <2>1, Versions DEF HostInv, Declared, NotRunning
<1>16. Local'
  BY <1>5 DEF HostInv, Local
<1> QED BY <1>6, <1>11, <1>12, <1>13, <1>14, <1>15, <1>16 DEF HostInv

LEMMA FilesTail ==
    ASSUME FilesInv, at = "deploy", todo \in Seq(Stmt), todo # <<>>, Kind # "write", todo' = Tail(todo),
           UNCHANGED <<svc, conf>>, \A f \in Mounted[svc] : files'[f] = files[f]
    PROVE  FilesInv'
<1>1. ASSUME NEW f \in Mounted[svc]
      PROVE  Pending(f, Tail(todo)) \/ (files'[f] = conf.v /\ ~Opens(f, Tail(todo)))
  <2>1. Head(todo) # <<"write", f>>
    BY DEF Kind
  <2>2. Pending(f, todo) => Pending(f, Tail(todo))
    BY <2>1, TailPending
  <2>3. ~Opens(f, todo) => ~Opens(f, Tail(todo))
    BY TailHas DEF Opens
  <2> QED BY <2>2, <2>3 DEF FilesInv
<1> QED BY <1>1 DEF FilesInv

\* A stack that is down.
LEMMA DownedWell ==
    ASSUME HostInv, todo # <<>>, Kind = "down", DownWorks
    PROVE  Downed[1] = NotRunning /\ ~Downed[2]
<1>1. Moves /\ TypeOK
  BY WhereTo DEF HostInv
<1>2. /\ extra => comp.extra
      /\ files["compose"] = 0 => main = NotRunning /\ ~extra
      /\ svc = "harbor" /\ files["compose"] = Torn => main = NotRunning /\ ~extra
  BY DEF HostInv, Declared
<1>3. CASE files["compose"] = 0 \/ (svc = "harbor" /\ files["compose"] = Torn)
  <2>1. main = NotRunning /\ ~extra
    BY <1>2, <1>3
  <2> QED BY <2>1 DEF Downed
<1>4. CASE files["compose"] # 0 /\ (svc = "harbor" => files["compose"] # Torn)
  <2>1. Parses
    <3>1. svc # "harbor" => files["compose"] # Torn
      <4>1. CASE at = "deploy"
        BY <1>1, <4>1, AtDown, Versions
      <4>2. CASE at = "remove"
        <5>1. ~Spent({"cut"})
          BY <4>2 DEF HostInv, Control, DownWorks
        <5> QED BY <4>2, <5>1 DEF HostInv, TornInv, Writes
      <4> QED BY <1>1, <4>1, <4>2, AtDown
    <3>2. svc = "harbor" => files["override"] # Torn
      <4>1. CASE at = "deploy"
        BY <1>1, <4>1, AtDown
      <4>2. CASE at = "remove"
        <5>1. ~Spent({"cut"})
          BY <4>2 DEF HostInv, Control, DownWorks
        <5> QED BY <4>2, <5>1 DEF HostInv, TornInv, Writes
      <4> QED BY <1>1, <4>1, <4>2, AtDown
    <3>3. svc # "harbor" => "override" \notin DOMAIN files
      BY <1>1, MountedOwn DEF TypeOK, Rendered
    <3> QED BY <1>4, <3>1, <3>2, <3>3 DEF Parses
  <2>2. Downed = <<NotRunning, IF comp.extra THEN FALSE ELSE extra>>
    BY <1>4, <2>1 DEF Downed
  <2> QED BY <1>2, <2>2
<1> QED BY <1>3, <1>4

LEMMA DownStep ==
    ASSUME HostInv, TypeOK', Down
    PROVE  HostInv'
<1>1. Moves /\ todo \in Seq(Stmt) /\ op = svc /\ todo # <<>> /\ Kind = "down" /\ TypeOK
  BY WhereTo DEF HostInv, Down, Now, Kind
<1>2. \/ at = "deploy" /\ svc # "harbor" /\ Serving /\ files["compose"] = conf.e /\ Starts(Tail(todo))
      \/ at = "deploy" /\ svc = "harbor" /\ Serving /\ files["override"] # Torn /\ Tail(todo) = ToGenerate
      \/ at = "remove" /\ Clears(Tail(todo))
  BY <1>1, AtDown
<1>3. Tail(todo) # <<>>
  BY <1>2, StartsNext, HarborNext, RemovalNext
<1>4. /\ svc' = svc /\ conf' = conf /\ todo' = Tail(todo) /\ op' = op /\ verdict' = verdict
      /\ files' = files /\ comp' = comp /\ data' = data
      /\ at' = at \/ (at = "remove" /\ at' = "cancelled")
      /\ BudgetStep
      /\ \/ main' = Downed[1] /\ extra' = Downed[2] /\ budget' = budget
         \/ main' = main /\ extra' = extra /\ \E d \in {"docker", "cancel"} : Spend(d)
  BY <1>3 DEF Down, Done, Then, BudgetStep
<1>5. BudgetOK' /\ (DownWorks' => DownWorks) /\ (~Spent({"cut"})' => ~Spent({"cut"}))
      /\ (Spent({"remove"}) => Spent({"remove"})')
  <2>1. BudgetOK' /\ (DownWorks' => DownWorks) /\ (~Spent({"cut"})' => ~Spent({"cut"}))
    BY <1>4, BudgetKeeps DEF HostInv
  <2>2. Spent({"remove"}) => Spent({"remove"})'
    BY <1>4, SpendKeeps DEF HostInv, Spent
  <2> QED BY <2>1, <2>2
<1>6. IsDown'
  <2>1. CASE main' = main /\ extra' = extra /\ \E d \in {"docker", "cancel"} : Spend(d)
    <3>1. Spent({"docker", "cancel"})'
      BY <2>1, SpendKeeps DEF HostInv
    <3> QED BY <3>1 DEF IsDown, DownWorks
  <2>2. CASE main' = Downed[1] /\ extra' = Downed[2] /\ budget' = budget
    <3>1. DownWorks' => main' = NotRunning /\ ~extra'
      BY <1>1, <1>5, <2>2, DownedWell
    <3> QED BY <1>4, <3>1 DEF IsDown, NotRunning
  <2> QED BY <1>4, <2>1, <2>2
<1>7. Control'
  <2>1. CASE at = "deploy"
    <3>1. svc # "harbor" => comp.bound
      BY DEF HostInv, Local
    <3>2. DeployPart'
      BY <1>2, <1>4, <1>6, <2>1, <3>1 DEF DeployPart, HarborPart, CommonPart
    <3> QED BY <1>4, <2>1, <3>2 DEF HostInv, Control, Idle
  <2>2. CASE at = "remove"
    <3>1. RemovePart' /\ Spent({"remove"})'
      BY <1>2, <1>4, <1>5, <1>6, <2>2 DEF RemovePart, HostInv, Control
    <3> QED BY <1>1, <1>4, <2>2, <3>1 DEF HostInv, Control, Idle
  <2> QED BY <1>2, <2>1, <2>2
<1>8. GuardFirst'
  BY <1>1, <1>2, <1>4 DEF HostInv, GuardFirst, Kind
<1>9. FilesInv'
  <2>1. CASE at = "deploy"
    BY <1>1, <1>4, <2>1, FilesTail DEF HostInv
  <2>2. CASE at # "deploy"
    BY <1>4, <2>2 DEF FilesInv
  <2> QED BY <2>1, <2>2
<1>10. TornInv'
  BY <1>1, <1>4, <1>5 DEF HostInv, TornInv, Writes, Kind
<1>11. Declared'
  BY <1>4, <1>6 DEF IsDown, Declared
<1>12. Local'
  <2>1. ~main'.open
    <3>1. Downed[1] \in {main, NotRunning}
      BY DEF Downed
    <3> QED BY <1>4, <3>1 DEF HostInv, Local, NotRunning
  <2> QED BY <1>4, <2>1 DEF HostInv, Local
<1> QED BY <1>5, <1>7, <1>8, <1>9, <1>10, <1>11, <1>12 DEF HostInv

\* Harbor's compose file.
LEMMA PrepareStep ==
    ASSUME HostInv, TypeOK', Now("prepare"), UNCHANGED <<main, extra, data>>, Done,
           files' = [files EXCEPT !["compose"] = conf.e], comp' = [extra |-> conf.extra, bound |-> FALSE]
    PROVE  HostInv'
<1>1. Moves /\ todo \in Seq(Stmt) /\ op = svc /\ todo # <<>> /\ Kind = "prepare" /\ TypeOK
  BY WhereTo DEF HostInv, Now, Kind
<1>2. at = "deploy" /\ svc = "harbor" /\ IsDown /\ Tail(todo) = ToFind
  BY <1>1, AtPrepare
<1>3. Tail(todo) # <<>>
  BY <1>2, HarborNext
<1>4. /\ svc' = svc /\ conf' = conf /\ todo' = Tail(todo) /\ op' = op /\ verdict' = verdict /\ at' = at /\ budget' = budget
      /\ main' = main /\ extra' = extra
  BY <1>3 DEF Done, Then
<1>5. BudgetOK' /\ (DownWorks' => DownWorks) /\ (~Spent({"cut"})' => ~Spent({"cut"}))
  BY <1>4, BudgetKeeps DEF HostInv, BudgetStep
<1>6. IsDown'
  BY <1>2, <1>4, <1>5 DEF IsDown, NotRunning
<1>7. /\ files'["compose"] = conf.e /\ files'["override"] = files["override"] /\ comp'.extra = conf.extra
      /\ \A f \in Mounted[svc] : files'[f] = files[f]
  BY <1>1, <1>2, FileNames, MountedOwn DEF TypeOK
<1>8. Control'
  <2>1. DeployPart'
    BY <1>2, <1>4, <1>6, <1>7 DEF DeployPart, HarborPart
  <2> QED BY <1>2, <1>4, <2>1 DEF HostInv, Control, Idle
<1>9. GuardFirst'
  BY <1>1, <1>2, <1>4 DEF HostInv, GuardFirst, Kind
<1>10. FilesInv'
  BY <1>1, <1>2, <1>4, <1>7, FilesTail DEF HostInv
<1>11. TornInv'
  BY <1>1, <1>2, <1>4, <1>5, <1>7 DEF HostInv, TornInv, Writes, Kind
<1>12. Declared'
  BY <1>1, <1>4, <1>6, <1>7, Versions DEF IsDown, Declared
<1>13. Local'
  BY <1>2, <1>4 DEF HostInv, Local
<1> QED BY <1>5, <1>8, <1>9, <1>10, <1>11, <1>12, <1>13 DEF HostInv

LEMMA BindStep ==
    ASSUME HostInv, TypeOK', Bind
    PROVE  HostInv'
<1>1. Moves /\ todo \in Seq(Stmt) /\ op = svc /\ todo # <<>> /\ Kind = "bind" /\ TypeOK
  BY WhereTo DEF HostInv, Bind, Now, Kind
<1>2. at = "deploy" /\ svc = "harbor" /\ IsDown /\ comp.extra = conf.extra /\ Starts(Tail(todo))
  BY <1>1, AtBind
<1>3. Tail(todo) # <<>>
  BY <1>2, StartsNext
<1>4. /\ svc' = svc /\ conf' = conf /\ todo' = Tail(todo) /\ op' = op /\ verdict' = verdict /\ at' = at /\ budget' = budget
      /\ main' = main /\ extra' = extra /\ data' = data
      /\ files' = [files EXCEPT !["compose"] = conf.e] /\ comp' = [comp EXCEPT !.bound = TRUE]
  BY <1>3 DEF Bind, Done, Then
<1>5. BudgetOK' /\ (DownWorks' => DownWorks) /\ (~Spent({"cut"})' => ~Spent({"cut"}))
  BY <1>4, BudgetKeeps DEF HostInv, BudgetStep
<1>6. IsDown'
  BY <1>2, <1>4, <1>5 DEF IsDown, NotRunning
<1>7. /\ files'["compose"] = conf.e /\ files'["override"] = files["override"] /\ comp'.extra = conf.extra /\ comp'.bound
      /\ \A f \in Mounted[svc] : files'[f] = files[f]
  BY <1>1, <1>2, <1>4, FileNames, MountedOwn DEF TypeOK
<1>8. Control'
  <2>1. DeployPart'
    BY <1>2, <1>4, <1>6, <1>7 DEF DeployPart, CommonPart
  <2> QED BY <1>2, <1>4, <2>1 DEF HostInv, Control, Idle
<1>9. GuardFirst'
  BY <1>1, <1>2, <1>4 DEF HostInv, GuardFirst, Kind
<1>10. FilesInv'
  BY <1>1, <1>2, <1>4, <1>7, FilesTail DEF HostInv
<1>11. TornInv'
  BY <1>1, <1>2, <1>4, <1>5, <1>7 DEF HostInv, TornInv, Writes, Kind
<1>12. Declared'
  BY <1>1, <1>4, <1>6, <1>7, Versions DEF IsDown, Declared
<1>13. Local'
  BY <1>2, <1>4 DEF HostInv, Local
<1> QED BY <1>5, <1>8, <1>9, <1>10, <1>11, <1>12, <1>13 DEF HostInv

\* The service starts with what was rendered.
LEMMA UpStep ==
    ASSUME HostInv, TypeOK', Now("up"), UNCHANGED <<files, comp>>, Done, data' = TRUE, extra' = (extra \/ comp.extra),
           main' = IF Unchanged THEN main ELSE Created
    PROVE  HostInv'
<1>1. Moves /\ todo \in Seq(Stmt) /\ op = svc /\ todo # <<>> /\ Kind = "up" /\ TypeOK
  BY WhereTo DEF HostInv, Now, Kind
<1>2. /\ at = "deploy" /\ Waits(Tail(todo))
      /\ IsDown /\ files["compose"] = conf.e /\ comp.bound /\ (svc = "harbor" => comp.extra = conf.extra)
  BY <1>1, AtUp
<1>3. Tail(todo) # <<>> /\ Tail(todo) \in Seq(Stmt)
  BY <1>2, WaitsNext
<1>4. /\ svc' = svc /\ conf' = conf /\ todo' = Tail(todo) /\ op' = op /\ verdict' = verdict /\ at' = at /\ budget' = budget
      /\ files' = files /\ comp' = comp
  BY <1>3 DEF Done, Then
<1>5. BudgetOK' /\ (DownWorks' => DownWorks) /\ (~Spent({"cut"})' => ~Spent({"cut"}))
  BY <1>4, BudgetKeeps DEF HostInv, BudgetStep
<1>6. FilesWhole
  <2>1. ASSUME NEW f \in Mounted[svc] PROVE ~Pending(f, todo)
    <3>1. Head(todo) # <<"write", f>>
      BY <1>1 DEF Kind
    <3>2. Head(Tail(todo)) # <<"write", f>>
      <4>1. \A x : x = <<"wait">> => x # <<"write", f>>
        OBVIOUS
      <4>2. Head(Tail(todo)) = <<"wait">>
        BY <1>2, WaitsNext
      <4> QED BY <4>1, <4>2, Zenon
    <3>3. ~Pending(f, Tail(Tail(todo)))
      BY <1>2, WaitsNext, PostOnly DEF Provisions
    <3>4. ~Pending(f, Tail(todo))
      BY <1>3, <3>2, <3>3, TailPending
    <3> QED BY <1>1, <3>1, <3>4, TailPending
  <2> QED BY <1>2, <2>1 DEF HostInv, FilesInv, FilesWhole
<1>7. Created.env = conf.e /\ ~Created.open /\ \A f \in Mounted[svc] : Created.read[f] = conf.v
  BY <1>2, <1>6 DEF Created, FilesWhole
<1>8. main'.env = conf.e
  BY <1>2, <1>7 DEF Unchanged
<1>9. DownWorks => main' = Created /\ extra' = comp.extra
  <2>1. ASSUME DownWorks PROVE ~Unchanged
    <3>1. main.env = 0
      BY <1>2, <2>1 DEF IsDown, NotRunning
    <3> QED BY <1>1, <1>2, <1>7, <3>1, Versions DEF Unchanged
  <2>2. ASSUME DownWorks PROVE extra' = comp.extra
    <3>1. ~extra /\ comp.extra \in BOOLEAN
      BY <1>1, <1>2, <2>2 DEF IsDown, TypeOK
    <3> QED BY <3>1
  <2> QED BY <2>1, <2>2
<1>10. Runs'
  BY <1>2, <1>4, <1>5, <1>6, <1>7, <1>8, <1>9 DEF Runs, FilesWhole, ReadsWhole
<1>11. Control'
  <2>1. DeployPart'
    BY <1>2, <1>4, <1>10 DEF DeployPart, CommonPart
  <2> QED BY <1>2, <1>4, <2>1 DEF HostInv, Control, Idle
<1>12. GuardFirst'
  BY <1>1, <1>2, <1>4 DEF HostInv, GuardFirst, Kind
<1>13. FilesInv'
  BY <1>1, <1>2, <1>4, FilesTail DEF HostInv
<1>14. TornInv'
  BY <1>1, <1>4, <1>5 DEF HostInv, TornInv, Writes, Kind
<1>15. Declared'
  BY <1>1, <1>2, <1>4, <1>5, <1>9, Versions DEF Declared
<1>16. Local'
  BY <1>4, <1>7 DEF HostInv, Local
<1> QED BY <1>5, <1>11, <1>12, <1>13, <1>14, <1>15, <1>16 DEF HostInv

\* A removal goes on, with the stack down.
LEMMA RemovalStep ==
    ASSUME HostInv, TypeOK', todo # <<>>, Kind \in {"clear", "forget"}, Done, UNCHANGED <<main, extra>>,
           comp' \in {comp, NoCompose}, (conf.inside /\ Kind = "clear") \/ data' = data,
           conf.inside /\ Kind = "clear" => ~data',
           files'["compose"] \in {files["compose"], 0},
           svc = "harbor" => files'["override"] \in {files["override"], 0}
    PROVE  HostInv'
<1>1. Moves /\ op = svc /\ TypeOK
  BY WhereTo DEF HostInv
<1>2. at \in {"remove", "cancelled"} /\ IsDown /\ Removal(Tail(todo)) /\ Spent({"remove"})
  BY <1>1, AtRemoval DEF HostInv, Control
<1>3. /\ svc' = svc /\ conf' = conf /\ todo' = Tail(todo) /\ budget' = budget
      /\ todo' = <<>> => at' = "idle" /\ op' = "none" /\ verdict'[svc] \in {"removed", "failed"}
      /\ todo' # <<>> => at' = at /\ op' = op /\ verdict' = verdict
  BY <1>1, <1>2 DEF Done, Then, Ends, Outcome, TypeOK
<1>4. BudgetOK' /\ (DownWorks' => DownWorks) /\ (~Spent({"cut"})' => ~Spent({"cut"})) /\ Spent({"remove"})'
  BY <1>2, <1>3, BudgetKeeps DEF HostInv, BudgetStep, Spent
<1>5. IsDown'
  BY <1>2, <1>3, <1>4 DEF IsDown, NotRunning
<1>6. Control'
  <2>1. CASE todo' = <<>>
    <3>1. IdlePart'
      BY <1>3, <1>5, <2>1 DEF IdlePart, Serving, IsDown
    <3> QED BY <1>3, <2>1, <3>1 DEF Control, Idle
  <2>2. CASE todo' # <<>>
    <3>1. RemovePart'
      BY <1>2, <1>3, <1>5 DEF RemovePart
    <3> QED BY <1>2, <1>3, <1>4, <2>2, <3>1 DEF HostInv, Control, Idle
  <2> QED BY <2>1, <2>2
<1>7. at' # "deploy"
  BY <1>2, <1>3
<1>8. GuardFirst' /\ FilesInv'
  BY <1>3, <1>7 DEF HostInv, GuardFirst, FilesInv
<1>9. TornInv'
  <2>1. /\ ~Spent({"cut"})' /\ svc # "harbor" => files["compose"] # Torn
        /\ ~Spent({"cut"})' /\ svc = "harbor" => files["override"] # Torn
    BY <1>2, <1>4 DEF HostInv, TornInv, Writes
  <2> QED BY <1>3, <2>1 DEF TornInv, Torn
<1>10. Declared'
  BY <1>5 DEF IsDown, Declared
<1>11. Local'
  BY <1>3 DEF HostInv, Local, NoCompose
<1> QED BY <1>4, <1>6, <1>8, <1>9, <1>10, <1>11 DEF HostInv

LEMMA ClearStep ==
    ASSUME HostInv, TypeOK', Clear
    PROVE  HostInv'
<1>1. TypeOK /\ todo # <<>> /\ Kind = "clear"
  BY DEF HostInv, Clear, Now, Kind
<1>2. "compose" \in DOMAIN files /\ (svc = "harbor" => "override" \in DOMAIN files)
  BY <1>1, FileNames DEF TypeOK
<1>3. files'["compose"] = 0 /\ (svc = "harbor" => files'["override"] = 0)
  BY <1>2 DEF Clear, Outer
<1>4. Done /\ UNCHANGED <<main, extra>> /\ comp' = NoCompose /\ (conf.inside => ~data') /\ (~conf.inside => data' = data)
  BY DEF Clear
<1> QED BY <1>1, <1>3, <1>4, RemovalStep

LEMMA ForgetStep ==
    ASSUME HostInv, TypeOK', Forget
    PROVE  HostInv'
<1>1. TypeOK /\ todo # <<>> /\ Kind = "forget"
  BY DEF HostInv, Forget, Now, Kind
<1>2. "compose" \in DOMAIN files /\ (svc = "harbor" => "override" \in DOMAIN files)
  BY <1>1, FileNames DEF TypeOK
<1>3. files'["compose"] = files["compose"] /\ (svc = "harbor" => files'["override"] = files["override"])
  BY <1>2 DEF Forget
<1>4. Done /\ UNCHANGED <<main, extra>> /\ comp' = comp /\ data' = data
  BY DEF Forget
<1> QED BY <1>1, <1>3, <1>4, RemovalStep
-----------------------------------------------------------------------------
LEMMA EndsOrGoes ==
    /\ Done => Move(Tail(todo)) /\ BudgetStep
    /\ \A v : Fails(v) => Stops(v) /\ BudgetStep
    /\ \A v : Outside(v) => Stops(v) /\ BudgetStep
    /\ {"failed", "config", "not ready", "login", "unreachable", "shape", "conflict", "pat"} \subseteq Bad
  BY DEF Done, Then, Move, BudgetStep, Fails, Outside, Bad, Verdicts

LEMMA HostStaysKept == HostKept => HostStays
  BY DEF HostKept, HostStays

LEMMA QuietStep ==
    ASSUME HostInv, TypeOK', Guard \/ Vars \/ CAReady \/ IssueCert \/ Build \/ FindPort \/ Wait
    PROVE  HostInv'
<1>1. todo # <<>> /\ HostKept /\ HostStays
  BY HostStaysKept DEF Guard, Vars, CAReady, IssueCert, Build, FindPort, Wait, Now
<1>2. Kind \in QuietKinds /\ (Kind = "guard" => Guard)
  BY DEF Guard, Vars, CAReady, IssueCert, Build, FindPort, Wait, Now, Kind, QuietKinds, Checking
<1>3. Kind # "write"
  BY <1>2 DEF QuietKinds, Checking
<1>4. \/ Done
      \/ \E v \in {"failed", "config", "not ready", "shape"} : Stops(v) /\ BudgetStep
  BY EndsOrGoes DEF Guard, Vars, CAReady, IssueCert, Build, FindPort, Wait, PortMissing, BudgetStep
<1>5. CASE Done
  <2>1. Kind = "guard" => ~conf.inside
    <3> SUFFICES ASSUME Kind = "guard", conf.inside PROVE FALSE
      OBVIOUS
    <3>1. Stops("config")
      BY <1>2 DEF Guard, Fails
    <3>2. todo' = Tail(todo) /\ todo' = <<>> /\ verdict'[svc] = "config"
      BY <1>5, <3>1 DEF Done, Then, Stops, Ends, HostInv, TypeOK
    <3>3. at = "deploy" /\ op = svc
      BY <1>1, <1>2, WhereTo, AtCheck DEF HostInv, Checking
    <3>4. verdict'[svc] = "ok"
      BY <1>5, <3>2, <3>3 DEF Done, Then, Ends, Outcome, HostInv, TypeOK
    <3> QED BY <3>2, <3>4
  <2> QED BY <1>1, <1>2, <1>5, <2>1, Moved, EndsOrGoes
<1>6. CASE \E v \in {"failed", "config", "not ready", "shape"} : Stops(v) /\ BudgetStep
  BY <1>1, <1>3, <1>6, Halted, EndsOrGoes
<1> QED BY <1>4, <1>5, <1>6

\* What is provisioned is in the data, not on the host.
LEMMA PostStep ==
    ASSUME HostInv, TypeOK', todo # <<>>, Kind \in PostKinds, HostStays, Done
    PROVE  HostInv'
<1>1. at = "deploy" /\ Runs /\ Tail(todo) \in Seq(Post) /\ op = svc
  BY WhereTo, AtPost DEF HostInv, Provisions
<1>2. Kind # "write" /\ Kind # "guard"
  BY DEF PostKinds, TenantKinds
<1> QED BY <1>1, <1>2, Provisioned, EndsOrGoes

LEMMA ProvisionStep ==
    ASSUME HostInv, TypeOK', Login \/ Dial \/ Ensure \/ SetPassword
    PROVE  HostInv'
<1>1. todo # <<>> /\ HostStays
  BY DEF Login, Dial, Ensure, SetPassword, Now, HostKept, HostStays
<1>2. Kind \in PostKinds /\ Kind # "write"
  BY DEF Login, Dial, Ensure, SetPassword, Now, Kind, PostKinds
<1>3. \/ Done
      \/ HostKept /\ \E v \in {"failed", "login", "unreachable"} : Stops(v) /\ BudgetStep
  BY EndsOrGoes DEF Login, Dial, Ensure, SetPassword, HostKept
<1>4. CASE Done
  BY <1>1, <1>2, <1>4, PostStep
<1>5. CASE HostKept /\ \E v \in {"failed", "login", "unreachable"} : Stops(v) /\ BudgetStep
  BY <1>1, <1>2, <1>5, Halted, EndsOrGoes
<1> QED BY <1>3, <1>4, <1>5

LEMMA DeployerStepKeeps ==
    ASSUME HostInv, TypeOK', DeployerStep
    PROVE  HostInv'
<1>1. CASE Prepare
  <2>1. todo # <<>> /\ Kind # "write"
    BY <1>1 DEF Prepare, Now, Kind
  <2>2. CASE Outside("failed") /\ UNCHANGED <<files, comp>>
    <3>1. HostKept
      BY <1>1, <2>2 DEF Prepare, HostKept
    <3> QED BY <2>1, <2>2, <3>1, Halted, EndsOrGoes
  <2> QED BY <1>1, <2>2, PrepareStep DEF Prepare
<1>2. CASE Up
  <2>1. todo # <<>> /\ Kind # "write"
    BY <1>2 DEF Up, Now, Kind
  <2>2. CASE Outside("failed") /\ UNCHANGED <<main, extra, data, objs, baked>>
    <3>1. HostKept
      BY <1>2, <2>2 DEF Up, HostKept
    <3> QED BY <2>1, <2>2, <3>1, Halted, EndsOrGoes
  <2> QED BY <1>2, <2>2, UpStep DEF Up
<1> QED BY <1>1, <1>2, QuietStep, OpenFileStep, WriteFileStep, DownStep, BindStep, ProvisionStep, ClearStep, ForgetStep
        DEF DeployerStep
-----------------------------------------------------------------------------
\* What a deployment starts with: the files it is to render, and the guard.
Plain == {x \in Stmt : x[1] \notin TenantKinds}

LEMMA PlainStatements ==
    /\ \A k \in {"guard", "ca", "vars", "cert", "build", "down", "up", "wait", "login", "dial", "pat", "api", "prepare",
                 "find port", "bind"} : <<k>> \in Plain
    /\ \A f \in Own \cup {"compose", "override"} : <<"open", f>> \in Plain /\ <<"write", f>> \in Plain
    /\ \A o \in Objects : <<"ensure", o>> \in Plain /\ <<"set", o>> \in Plain
<1>1. \A k \in {"guard", "ca", "vars", "cert", "build", "down", "up", "wait", "login", "dial", "pat", "api", "prepare",
                 "find port", "bind"} : <<k>> \in Stmt /\ <<k>>[1] = k /\ k \notin TenantKinds
  BY DEF Stmt, Early, Middle, Post, TenantKinds
<1>2. \A k \in {"open", "write"}, f \in Own \cup {"compose", "override"} :
          <<k, f>> \in Stmt /\ <<k, f>>[1] = k /\ k \notin TenantKinds
  BY DEF Stmt, Early, TenantKinds
<1>3. \A k \in {"ensure", "set"}, o \in Objects : <<k, o>> \in Stmt /\ <<k, o>>[1] = k /\ k \notin TenantKinds
  BY DEF Stmt, Post, TenantKinds
<1> QED BY <1>1, <1>2, <1>3 DEF Plain

LEMMA PlainCat == \A s, t \in Seq(Plain) : s \o t \in Seq(Plain)
  BY ConcatProperties

LEMMA Tuples ==
    ASSUME NEW S, NEW x \in S, NEW y \in S, NEW z \in S
    PROVE  <<>> \in Seq(S) /\ <<x>> \in Seq(S) /\ <<x, y>> \in Seq(S) /\ <<x, y, z>> \in Seq(S)
  OBVIOUS

LEMMA PlainFiles ==
    /\ \A f \in Own \cup {"compose", "override"} : File(f) \in Seq(Plain)
    /\ Cycle \in Seq(Plain) /\ Restart \in Seq(Plain)
<1>1. \A f \in Own \cup {"compose", "override"} : File(f) \in Seq(Plain)
  BY PlainStatements, Tuples DEF File
<1>2. Cycle \in Seq(Plain)
  <2>1. <<"down">> \in Plain /\ <<"up">> \in Plain /\ <<"wait">> \in Plain
    BY PlainStatements
  <2> QED BY <2>1, Tuples DEF Cycle
<1> QED BY <1>1, <1>2, PlainCat DEF Restart

\* Every program but Zitadel's is plain.
LEMMA PlainBegins ==
    /\ TraefikSteps \in Seq(Plain) /\ KeycloakSteps \in Seq(Plain) /\ AuthentikSteps \in Seq(Plain)
    /\ SambaSteps \in Seq(Plain) /\ S3Steps \in Seq(Plain) /\ DepotSteps \in Seq(Plain)
    /\ MailpitSteps \in Seq(Plain) /\ KMIPSteps \in Seq(Plain) /\ ChronySteps \in Seq(Plain) /\ RsyslogSteps \in Seq(Plain)
<1>1. /\ <<"guard">> \in Plain /\ <<"ca">> \in Plain /\ <<"vars">> \in Plain /\ <<"cert">> \in Plain
      /\ <<"build">> \in Plain /\ <<"login">> \in Plain
  BY PlainStatements
<1>2. /\ <<<<"ca">>, <<"vars">>, <<"cert">>>> \in Seq(Plain) /\ <<<<"ca">>, <<"vars">>>> \in Seq(Plain)
      /\ <<<<"login">>>> \in Seq(Plain) /\ <<<<"build">>>> \in Seq(Plain) /\ <<<<"guard">>>> \in Seq(Plain)
      /\ <<<<"guard">>, <<"ca">>, <<"cert">>>> \in Seq(Plain) /\ <<<<"build">>, <<"vars">>>> \in Seq(Plain)
  BY <1>1, Tuples
<1>3. /\ File("usersfile") \in Seq(Plain) /\ File("traefik.yml") \in Seq(Plain) /\ File("dynamic.yml") \in Seq(Plain)
      /\ File("realm") \in Seq(Plain) /\ File("blueprint") \in Seq(Plain) /\ File("smb.conf") \in Seq(Plain)
      /\ File("htpasswd") \in Seq(Plain) /\ File("nginx.conf") \in Seq(Plain) /\ File("client_ca.crt") \in Seq(Plain)
      /\ File("server.conf") \in Seq(Plain) /\ File("chrony.conf") \in Seq(Plain) /\ File("rsyslog.conf") \in Seq(Plain)
      /\ File("compose") \in Seq(Plain)
  BY PlainFiles DEF Own
<1>4. TraefikSteps \in Seq(Plain) /\ KeycloakSteps \in Seq(Plain) /\ AuthentikSteps \in Seq(Plain)
  BY <1>2, <1>3, PlainFiles, PlainCat DEF TraefikSteps, KeycloakSteps, AuthentikSteps
<1>5. SambaSteps \in Seq(Plain) /\ S3Steps \in Seq(Plain) /\ DepotSteps \in Seq(Plain) /\ MailpitSteps \in Seq(Plain)
  BY <1>2, <1>3, PlainFiles, PlainCat DEF SambaSteps, S3Steps, DepotSteps, MailpitSteps
<1>6. KMIPSteps \in Seq(Plain) /\ ChronySteps \in Seq(Plain) /\ RsyslogSteps \in Seq(Plain)
  BY <1>2, <1>3, PlainFiles, PlainCat DEF KMIPSteps, ChronySteps, RsyslogSteps
<1> QED BY <1>4, <1>5, <1>6

LEMMA PlainSeeds == SFTPSteps \in Seq(Plain) /\ LLDAPSteps \in Seq(Plain)
<1>1. BackupUserSteps \in Seq(Plain)
  <2>1. <<"dial">> \in Plain /\ <<"login">> \in Plain /\ <<"ensure", "backup user">> \in Plain
    BY PlainStatements DEF Objects
  <2> QED BY <2>1, Tuples DEF BackupUserSteps
<1>2. LLDAPSeed \in Seq(Plain)
  <2> DEFINE e(o) == <<"ensure", o>>
             s(o) == <<"set", o>>
  <2>1. \A o \in Objects : e(o) \in Plain /\ s(o) \in Plain
    BY PlainStatements
  <2>2. {"admins", "readers", "bind user", "admin user", "bind in readers", "admin in admins"} \subseteq Objects
    BY DEF Objects
  <2>3. LLDAPSeed = <<e("admins"), e("readers"), e("bind user"), e("admin user"), s("bind user"), s("admin user"),
                      e("bind in readers"), e("admin in admins")>>
    BY DEF LLDAPSeed
  <2>4. /\ e("admins") \in Plain /\ e("readers") \in Plain /\ e("bind user") \in Plain /\ e("admin user") \in Plain
        /\ s("bind user") \in Plain /\ s("admin user") \in Plain /\ e("bind in readers") \in Plain
        /\ e("admin in admins") \in Plain
    BY <2>1, <2>2
  <2> HIDE DEF e, s
  <2> QED BY <2>3, <2>4, Eight
<1>3. <<<<"vars">>>> \in Seq(Plain) /\ <<<<"cert">>>> \in Seq(Plain) /\ <<<<"login">>>> \in Seq(Plain)
  <2>1. <<"vars">> \in Plain /\ <<"cert">> \in Plain /\ <<"login">> \in Plain
    BY PlainStatements
  <2> QED BY <2>1, Tuples
<1> QED BY <1>1, <1>2, <1>3, PlainFiles, PlainCat DEF SFTPSteps, LLDAPSteps

LEMMA PlainGenerated == Generated \in Seq(Plain)
<1> DEFINE oc == <<"open", "compose">>
           pr == <<"prepare">>
           fp == <<"find port">>
           bd == <<"bind">>
<1>1. oc \in Plain /\ pr \in Plain /\ fp \in Plain /\ bd \in Plain
  BY PlainStatements
<1>2. Generated = <<oc, pr, fp, oc, bd>>
  BY DEF Generated
<1> HIDE DEF oc, pr, fp, bd
<1> QED BY <1>1, <1>2

LEMMA PlainHarbor == HarborSteps \in Seq(Plain)
<1>1. <<<<"guard">>, <<"ca">>>> \in Seq(Plain) /\ <<<<"down">>>> \in Seq(Plain) /\ <<<<"up">>, <<"wait">>>> \in Seq(Plain)
  <2>1. /\ <<"guard">> \in Plain /\ <<"ca">> \in Plain /\ <<"down">> \in Plain /\ <<"up">> \in Plain /\ <<"wait">> \in Plain
    BY PlainStatements
  <2> QED BY <2>1, Tuples
<1>2. File("harbor.yml") \in Seq(Plain) /\ File("override") \in Seq(Plain)
  BY PlainFiles DEF Own
<1> QED BY <1>1, <1>2, PlainGenerated, PlainCat DEF HarborSteps

\* The services that guard their directory do so first.
Leads(g, s) == s \in Seq(Stmt) /\ s # <<>> /\ Head(s) = g
LEMMA LeadsCat ==
    ASSUME NEW g, NEW s, Leads(g, s), NEW t \in Seq(Stmt)
    PROVE  Leads(g, s \o t)
  BY HeadTailCat DEF Leads

LEMMA GuardedHeads ==
    Leads(<<"guard">>, DepotSteps) /\ Leads(<<"guard">>, KMIPSteps) /\ Leads(<<"guard">>, HarborSteps)
<1> DEFINE g == <<"guard">>
           c == <<"ca">>
           e == <<"cert">>
<1>1. g \in Stmt /\ c \in Stmt /\ e \in Stmt
  BY PlainStatements DEF Plain
<1>2. Leads(g, <<g>>) /\ Leads(g, <<g, c>>) /\ Leads(g, <<g, c, e>>)
  <2> HIDE DEF g, c, e
  <2>1. <<g>> \in Seq(Stmt) /\ <<g, c>> \in Seq(Stmt) /\ <<g, c, e>> \in Seq(Stmt)
    BY <1>1, Tuples
  <2>2. Head(<<g>>) = g /\ Head(<<g, c>>) = g /\ Head(<<g, c, e>>) = g
    OBVIOUS
  <2>3. <<g>> # <<>> /\ <<g, c>> # <<>> /\ <<g, c, e>> # <<>>
    OBVIOUS
  <2> QED BY <2>1, <2>2, <2>3 DEF Leads
<1>3. Seq(Plain) \subseteq Seq(Stmt)
  BY SeqInclusion DEF Plain
<1>4. /\ File("htpasswd") \in Seq(Stmt) /\ File("nginx.conf") \in Seq(Stmt) /\ Restart \in Seq(Stmt)
      /\ File("client_ca.crt") \in Seq(Stmt) /\ File("server.conf") \in Seq(Stmt) /\ File("compose") \in Seq(Stmt)
      /\ Cycle \in Seq(Stmt) /\ File("harbor.yml") \in Seq(Stmt) /\ File("override") \in Seq(Stmt)
  BY <1>3, PlainFiles DEF Own
<1>5. Leads(g, DepotSteps)
  <2>1. Leads(g, <<g>> \o File("htpasswd"))
    BY <1>2, <1>4, LeadsCat
  <2>2. Leads(g, <<g>> \o File("htpasswd") \o File("nginx.conf"))
    BY <1>4, <2>1, LeadsCat
  <2> QED BY <1>4, <2>2, LeadsCat DEF DepotSteps
<1>6. Leads(g, KMIPSteps)
  <2>1. Leads(g, <<g, c, e>> \o File("client_ca.crt"))
    BY <1>2, <1>4, LeadsCat
  <2>2. Leads(g, <<g, c, e>> \o File("client_ca.crt") \o File("server.conf"))
    BY <1>4, <2>1, LeadsCat
  <2>3. Leads(g, <<g, c, e>> \o File("client_ca.crt") \o File("server.conf") \o File("compose"))
    BY <1>4, <2>2, LeadsCat
  <2>4. <<<<"build">>>> \in Seq(Stmt)
    <3>1. <<"build">> \in Stmt
      BY PlainStatements DEF Plain
    <3> QED BY <3>1, Tuples
  <2>5. Leads(g, <<g, c, e>> \o File("client_ca.crt") \o File("server.conf") \o File("compose") \o <<<<"build">>>>)
    BY <2>3, <2>4, LeadsCat
  <2> QED BY <1>4, <2>5, LeadsCat DEF KMIPSteps
<1>7. Leads(g, HarborSteps)
  <2>1. Leads(g, <<g, c>> \o File("harbor.yml"))
    BY <1>2, <1>4, LeadsCat
  <2>2. Leads(g, <<g, c>> \o File("harbor.yml") \o File("override"))
    BY <1>4, <2>1, LeadsCat
  <2>3. <<<<"down">>>> \in Seq(Stmt) /\ <<<<"up">>, <<"wait">>>> \in Seq(Stmt)
    <3>1. <<"down">> \in Stmt /\ <<"up">> \in Stmt /\ <<"wait">> \in Stmt
      BY Inclusion
    <3> QED BY <3>1, Tuples
  <2>4. Generated \in Seq(Stmt)
    BY <1>3, PlainGenerated
  <2>5. Leads(g, <<g, c>> \o File("harbor.yml") \o File("override") \o <<<<"down">>>>)
    BY <2>2, <2>3, LeadsCat
  <2>6. Leads(g, <<g, c>> \o File("harbor.yml") \o File("override") \o <<<<"down">>>> \o Generated)
    BY <2>4, <2>5, LeadsCat
  <2> QED BY <2>3, <2>6, LeadsCat DEF HarborSteps
<1> QED BY <1>5, <1>6, <1>7
-----------------------------------------------------------------------------
\* A tenant's statements come together and in one order.  What of them is left is
\* the end of the tenant's eight, and the token is read before all tenants.
Blocks(s) ==
    \A i \in DOMAIN s, k \in 1 .. 8, t \in Tenant : s[i] = <<KindAt[k], t>> =>
        \A j \in 1 .. 8 : i + j - k >= 1 => i + j - k \in DOMAIN s /\ s[i + j - k] = <<KindAt[j], t>>
PatFirst(s) == \A i, j \in DOMAIN s : s[i] = <<"pat">> /\ j < i => s[j][1] \notin TenantKinds
Ordered(s) == Blocks(s) /\ PatFirst(s)

LEMMA KindsAre ==
    /\ KindAt[1] = "org" /\ KindAt[2] = "project" /\ KindAt[3] = "role" /\ KindAt[4] = "client"
    /\ KindAt[5] = "open client" /\ KindAt[6] = "write client" /\ KindAt[7] = "user" /\ KindAt[8] = "grant"
    /\ \A i, j \in 1 .. 8 : KindAt[i] = KindAt[j] => i = j
    /\ \A i \in 1 .. 8 : KindAt[i] \in TenantKinds
<1>1. /\ KindAt[1] = "org" /\ KindAt[2] = "project" /\ KindAt[3] = "role" /\ KindAt[4] = "client"
      /\ KindAt[5] = "open client" /\ KindAt[6] = "write client" /\ KindAt[7] = "user" /\ KindAt[8] = "grant"
  BY DEF KindAt
<1>2. ASSUME NEW i \in 1 .. 8, NEW j \in 1 .. 8, KindAt[i] = KindAt[j] PROVE i = j
  <2>1. ASSUME NEW n \in 1 .. 8
        PROVE  /\ KindAt[n] = "org" => n = 1
               /\ KindAt[n] = "project" => n = 2
               /\ KindAt[n] = "role" => n = 3
               /\ KindAt[n] = "client" => n = 4
               /\ KindAt[n] = "open client" => n = 5
               /\ KindAt[n] = "write client" => n = 6
               /\ KindAt[n] = "user" => n = 7
               /\ KindAt[n] = "grant" => n = 8
    <3>1. n = 1 \/ n = 2 \/ n = 3 \/ n = 4 \/ n = 5 \/ n = 6 \/ n = 7 \/ n = 8
      OBVIOUS
    <3> QED BY <1>1, <3>1
  <2>2. i = 1 \/ i = 2 \/ i = 3 \/ i = 4 \/ i = 5 \/ i = 6 \/ i = 7 \/ i = 8
    OBVIOUS
  <2>3. j \in 1 .. 8 /\ KindAt[j] = KindAt[i]
    BY <1>2
  <2> QED BY <1>1, <2>1, <2>2, <2>3
<1>3. ASSUME NEW i \in 1 .. 8 PROVE KindAt[i] \in TenantKinds
  <2>1. i = 1 \/ i = 2 \/ i = 3 \/ i = 4 \/ i = 5 \/ i = 6 \/ i = 7 \/ i = 8
    OBVIOUS
  <2> QED BY <1>1, <2>1 DEF TenantKinds
<1> QED BY <1>1, <1>2, <1>3

LEMMA BlocksTail ==
    ASSUME NEW s \in Seq(Stmt), s # <<>>, Blocks(s)
    PROVE  Blocks(Tail(s))
<1>1. ASSUME NEW i \in DOMAIN Tail(s), NEW k \in 1 .. 8, NEW t \in Tenant, Tail(s)[i] = <<KindAt[k], t>>,
             NEW j \in 1 .. 8, i + j - k >= 1
      PROVE  i + j - k \in DOMAIN Tail(s) /\ Tail(s)[i + j - k] = <<KindAt[j], t>>
  <2>1. i \in Nat /\ i > 0 /\ i + 1 \in DOMAIN s /\ s[i + 1] = <<KindAt[k], t>>
    BY <1>1, TailPlaces
  <2> DEFINE m == (i + 1) + j - k
  <2>2. m >= 1 /\ m # 1 /\ m - 1 = i + j - k
    BY <1>1, <2>1
  <2>3. m \in DOMAIN s /\ s[m] = <<KindAt[j], t>>
    <3>1. (i + 1) + j - k >= 1
      BY <2>2
    <3> QED BY <2>1, <3>1 DEF Blocks
  <2> HIDE DEF m
  <2>4. m - 1 \in DOMAIN Tail(s) /\ Tail(s)[m - 1] = s[m]
    BY <2>2, <2>3, TailPlaces
  <2> QED BY <2>2, <2>3, <2>4
<1> QED BY <1>1 DEF Blocks

LEMMA PatFirstTail ==
    ASSUME NEW s \in Seq(Stmt), s # <<>>, PatFirst(s)
    PROVE  PatFirst(Tail(s)) /\ (Head(s)[1] \in TenantKinds => ~Has(<<"pat">>, Tail(s)))
<1>1. ASSUME NEW i \in DOMAIN Tail(s), NEW j \in DOMAIN Tail(s), Tail(s)[i] = <<"pat">>, j < i
      PROVE  Tail(s)[j][1] \notin TenantKinds
  <2>1. /\ i \in Nat /\ i + 1 \in DOMAIN s /\ Tail(s)[i] = s[i + 1]
        /\ j \in Nat /\ j + 1 \in DOMAIN s /\ Tail(s)[j] = s[j + 1]
    BY TailPlaces
  <2>2. j + 1 < i + 1
    BY <1>1, <2>1
  <2> QED BY <1>1, <2>1, <2>2 DEF PatFirst
<1>2. ASSUME Head(s)[1] \in TenantKinds, NEW i \in DOMAIN Tail(s), Tail(s)[i] = <<"pat">> PROVE FALSE
  <2>1. i \in Nat /\ i > 0 /\ i + 1 \in DOMAIN s /\ Tail(s)[i] = s[i + 1] /\ Head(s) = s[1] /\ 1 \in DOMAIN s
    BY TailPlaces
  <2>2. 1 < i + 1
    BY <2>1
  <2> QED BY <1>2, <2>1, <2>2 DEF PatFirst
<1> QED BY <1>1, <1>2 DEF PatFirst, Has

\* What follows a tenant's statement, and what stands before another's.
LEMMA BlockHead ==
    ASSUME NEW s \in Seq(Stmt), s # <<>>, Blocks(s), NEW k \in 1 .. 8, NEW t \in Tenant, Head(s) = <<KindAt[k], t>>
    PROVE  /\ k < 8 => Tail(s) # <<>> /\ Head(Tail(s)) = <<KindAt[k + 1], t>>
           /\ \A j \in k .. 8 : Has(<<KindAt[j], t>>, s)
<1>1. Head(s) = s[1] /\ 1 \in DOMAIN s
  BY TailPlaces
<1>2. ASSUME NEW j \in k .. 8 PROVE 1 + j - k \in DOMAIN s /\ s[1 + j - k] = <<KindAt[j], t>>
  <2>1. 1 + j - k >= 1 /\ j \in 1 .. 8
    OBVIOUS
  <2>2. s[1] = <<KindAt[k], t>>
    BY <1>1
  <2>3. \A n \in 1 .. 8 : 1 + n - k >= 1 => 1 + n - k \in DOMAIN s /\ s[1 + n - k] = <<KindAt[n], t>>
    BY <1>1, <2>2 DEF Blocks
  <2> QED BY <2>1, <2>3
<1>3. ASSUME k < 8 PROVE Tail(s) # <<>> /\ Head(Tail(s)) = <<KindAt[k + 1], t>>
  <2>1. k + 1 \in k .. 8 /\ 1 + (k + 1) - k = 2
    BY <1>3
  <2>2. 2 \in DOMAIN s /\ s[2] = <<KindAt[k + 1], t>>
    BY <1>2, <2>1
  <2>3. 2 # 1 /\ 2 - 1 = 1
    OBVIOUS
  <2>4. 1 \in DOMAIN Tail(s) /\ Tail(s)[1] = s[2]
    BY <2>2, <2>3, TailPlaces
  <2>5. Tail(s) \in Seq(Stmt) /\ Tail(s) # <<>>
    <3>1. \A u \in Seq(Stmt) : u = <<>> => DOMAIN u = {}
      OBVIOUS
    <3> QED BY <2>4, <3>1, TailPlaces
  <2> QED BY <2>2, <2>4, <2>5, TailPlaces
<1> QED BY <1>2, <1>3 DEF Has

LEMMA OrgFirst ==
    ASSUME NEW s \in Seq(Stmt), s # <<>>, Blocks(s), NEW t \in Tenant, Head(s) = <<"org", t>>,
           NEW u \in Tenant, NEW k \in 1 .. 8, Has(<<KindAt[k], u>>, s)
    PROVE  Has(<<"org", u>>, s)
<1>1. PICK i \in DOMAIN s : s[i] = <<KindAt[k], u>>
  BY DEF Has
<1>2. i \in Nat /\ i >= 1 /\ s[1] = <<"org", t>>
  <2>1. DOMAIN s = 1 .. Len(s) /\ Head(s) = s[1]
    BY TailPlaces
  <2> QED BY <2>1
<1>a. \A n \in 1 .. 8 : i + n - k >= 1 => i + n - k \in DOMAIN s /\ s[i + n - k] = <<KindAt[n], u>>
  BY <1>1 DEF Blocks
<1>3. CASE i + 1 - k >= 1
  <2>1. i + 1 - k \in DOMAIN s /\ s[i + 1 - k] = <<KindAt[1], u>>
    BY <1>a, <1>3
  <2> QED BY <2>1, KindsAre DEF Has
<1>4. CASE ~(i + 1 - k >= 1)
  <2> DEFINE j == 1 + k - i
  <2>1. j \in 1 .. 8 /\ j # 1 /\ i + j - k = 1
    <3>1. i \in Nat /\ i >= 1 /\ k \in Nat /\ k <= 8 /\ k > i
      BY <1>2, <1>4
    <3> QED BY <3>1
  <2> HIDE DEF j
  <2>2. s[1] = <<KindAt[j], u>>
    <3>1. i + j - k >= 1
      BY <2>1
    <3>2. s[i + j - k] = <<KindAt[j], u>>
      BY <1>a, <2>1, <3>1
    <3> QED BY <2>1, <3>2
  <2>3. KindAt[j] = "org"
    BY <1>2, <2>2
  <2>4. KindAt[j] = KindAt[1] /\ 1 \in 1 .. 8
    <3>1. KindAt[1] = "org"
      BY KindsAre
    <3> QED BY <2>3, <3>1
  <2>5. j = 1
    BY <2>1, <2>4, KindsAre
  <2> QED BY <2>1, <2>5
<1> QED BY <1>3, <1>4

\* All of it: what Zitadel's deployment starts with.
AllBlocks(s) ==
    \A i \in DOMAIN s, k \in 1 .. 8, t \in Tenant : s[i] = <<KindAt[k], t>> =>
        \A j \in 1 .. 8 : i + j - k \in DOMAIN s /\ s[i + j - k] = <<KindAt[j], t>>

SameTenant(n, i, j, m) == m \in 1 .. 8 * n /\ (m - 1) \div 8 = (i - 1) \div 8 /\ 1 + ((m - 1) % 8) = j
Offset(i, j, m) == m = i + j - (1 + ((i - 1) % 8))
LEMMA PlaceOf ==
    ASSUME NEW n \in Nat, NEW i \in 1 .. 8 * n, NEW j \in 1 .. 8, NEW m, Offset(i, j, m)
    PROVE  SameTenant(n, i, j, m)
<1> DEFINE q == (i - 1) \div 8
           r == (i - 1) % 8
<1>1. q \in Int /\ r \in 0 .. 7 /\ i - 1 = 8 * q + r
  OBVIOUS
<1> HIDE DEF q, r
<1>2. q >= 0 /\ 8 * q < 8 * n
  BY <1>1
<1>3. m - 1 = 8 * q + (j - 1)
  BY <1>1 DEF r, Offset
<1>4. (m - 1) \div 8 = q /\ (m - 1) % 8 = j - 1
  BY <1>1, <1>3
<1>5. q < n
  BY <1>1, <1>2
<1>6. m \in 1 .. 8 * n
  <2>1. m = 8 * q + j /\ j \in Int /\ j >= 1 /\ j <= 8 /\ q + 1 <= n /\ q \in Int /\ q >= 0
    BY <1>1, <1>2, <1>5 DEF r, Offset
  <2>2. m \in Int /\ m >= 1 /\ m <= 8 * n
    BY <2>1
  <2> QED BY <2>2
<1> QED BY <1>4, <1>6 DEF q, SameTenant

LEMMA ProvisioningBlocks ==
    ASSUME TypeOK
    PROVE  /\ AllBlocks(Provisioning) /\ Provisioning \in Seq(Stmt)
           /\ \A i \in DOMAIN Provisioning : Provisioning[i][1] \in TenantKinds
           /\ \A t \in ToSet(ConfTenants), k \in 1 .. 8 : Has(<<KindAt[k], t>>, Provisioning)
<1> DEFINE n == Len(ConfTenants)
           T(i) == ConfTenants[1 + ((i - 1) \div 8)]
           K(i) == 1 + ((i - 1) % 8)
<1>1. n \in Nat /\ ConfTenants \in Seq(Tenant) /\ \A j \in 1 .. n : ConfTenants[j] \in Tenant
  BY ConfTenantsType
<1>2. DOMAIN Provisioning = 1 .. 8 * n /\ Provisioning \in Seq(Stmt)
  <2>1. DOMAIN Provisioning = 1 .. 8 * n
    BY DEF Provisioning
  <2> QED BY <2>1, ZitadelProgram, Inclusion, SeqInclusion
<1>3. ASSUME NEW i \in 1 .. 8 * n
      PROVE  T(i) \in Tenant /\ K(i) \in 1 .. 8 /\ Provisioning[i] = <<KindAt[K(i)], T(i)>>
  <2>1. 1 + ((i - 1) \div 8) \in 1 .. n /\ K(i) \in 1 .. 8
    BY <1>1, TenantPlace
  <2>2. T(i) \in Tenant
    BY <1>1, <2>1
  <2>3. Provisioning[i] = TenantSteps(T(i))[K(i)]
    BY DEF Provisioning
  <2> HIDE DEF T, K
  <2> QED BY <2>1, <2>2, <2>3, TenantStep
<1>4. AllBlocks(Provisioning)
  <2>1. ASSUME NEW i \in DOMAIN Provisioning, NEW k \in 1 .. 8, NEW t \in Tenant, Provisioning[i] = <<KindAt[k], t>>,
               NEW j \in 1 .. 8
        PROVE  i + j - k \in DOMAIN Provisioning /\ Provisioning[i + j - k] = <<KindAt[j], t>>
    <3>i. i \in 1 .. 8 * n
      BY <1>2
    <3>1. KindAt[K(i)] = KindAt[k] /\ T(i) = t /\ K(i) \in 1 .. 8
      <4> HIDE DEF T, K
      <4> QED BY <1>3, <2>1, <3>i
    <3>2. K(i) = k
      <4> HIDE DEF T, K
      <4> QED BY <3>1, KindsAre
    <3> DEFINE m == i + j - k
    <3>3. Offset(i, j, m)
      BY <3>2 DEF Offset
    <3>a. SameTenant(n, i, j, m)
      <4> HIDE DEF m, n
      <4> QED BY <1>1, <3>3, <3>i, PlaceOf
    <3>4. m \in 1 .. 8 * n /\ (m - 1) \div 8 = (i - 1) \div 8 /\ 1 + ((m - 1) % 8) = j
      <4> HIDE DEF m, n
      <4> QED BY <3>a DEF SameTenant
    <3>5. T(m) = t /\ K(m) = j
      BY <3>1, <3>4
    <3>6. Provisioning[m] = <<KindAt[K(m)], T(m)>>
      <4> HIDE DEF T, K, m
      <4> QED BY <1>3, <3>4
    <3>7. m \in DOMAIN Provisioning
      <4> HIDE DEF m
      <4> QED BY <1>2, <3>4
    <3> HIDE DEF T, K
    <3> QED BY <3>5, <3>6, <3>7
  <2> QED BY <2>1 DEF AllBlocks
<1>5. \A i \in DOMAIN Provisioning : Provisioning[i][1] \in TenantKinds
  <2> HIDE DEF T, K
  <2>1. ASSUME NEW i \in DOMAIN Provisioning PROVE Provisioning[i][1] \in TenantKinds
    <3>1. Provisioning[i] = <<KindAt[K(i)], T(i)>> /\ K(i) \in 1 .. 8
      BY <1>2, <1>3
    <3>2. Provisioning[i][1] = KindAt[K(i)]
      BY <3>1
    <3> QED BY <3>1, <3>2, KindsAre
  <2> QED BY <2>1
<1>6. ASSUME NEW t \in ToSet(ConfTenants), NEW k \in 1 .. 8 PROVE Has(<<KindAt[k], t>>, Provisioning)
  <2>1. PICK j \in 1 .. n : ConfTenants[j] = t
    BY <1>1 DEF ToSet
  <2> DEFINE i == 8 * (j - 1) + k
  <2>2. i \in 1 .. 8 * n /\ (i - 1) \div 8 = j - 1 /\ (i - 1) % 8 = k - 1
    <3>1. j \in Nat /\ j >= 1 /\ j <= n /\ k \in Nat /\ k >= 1 /\ k <= 8
      BY <1>1
    <3> HIDE DEF n
    <3> QED BY <1>1, <3>1
  <2>3. K(i) = k /\ T(i) = t
    <3>1. 1 + (k - 1) = k /\ 1 + (j - 1) = j
      BY <1>1
    <3> HIDE DEF i
    <3> QED BY <2>1, <2>2, <3>1
  <2> HIDE DEF T, K, i
  <2>4. Provisioning[i] = <<KindAt[k], t>>
    BY <1>3, <2>2, <2>3
  <2> QED BY <1>2, <2>2, <2>4 DEF Has
<1> QED BY <1>2, <1>4, <1>5, <1>6

LEMMA PlainBlocks ==
    ASSUME NEW s \in Seq(Plain)
    PROVE  Ordered(s) /\ \A i \in DOMAIN s : s[i][1] \notin TenantKinds
<1>1. ASSUME NEW i \in DOMAIN s PROVE s[i][1] \notin TenantKinds
  BY DEF Plain
<1>2. Blocks(s)
  <2>1. ASSUME NEW i \in DOMAIN s, NEW k \in 1 .. 8, NEW t \in Tenant, s[i] = <<KindAt[k], t>> PROVE FALSE
    <3>1. s[i][1] = KindAt[k]
      BY <2>1
    <3> QED BY <1>1, <3>1, KindsAre
  <2> QED BY <2>1 DEF Blocks
<1>3. PatFirst(s)
  BY <1>1 DEF PatFirst
<1> QED BY <1>1, <1>2, <1>3 DEF Ordered

LEMMA BlocksCat ==
    ASSUME NEW a \in Seq(Plain), NEW p \in Seq(Stmt), AllBlocks(p), \A i \in DOMAIN p : p[i][1] \in TenantKinds
    PROVE  Ordered(a \o p)
<1> DEFINE s == a \o p
           n == Len(a)
<1>1. n \in Nat /\ a \in Seq(Stmt) /\ DOMAIN a = 1 .. n /\ \A i \in DOMAIN a : a[i][1] \notin TenantKinds
  <2>1. a \in Seq(Stmt)
    BY SeqInclusion DEF Plain
  <2> QED BY <2>1, PlainBlocks
<1>2. /\ \A i \in DOMAIN s : (i \in DOMAIN a /\ s[i] = a[i]) \/ (i \in Nat /\ i > n /\ i - n \in DOMAIN p /\ s[i] = p[i - n])
      /\ \A i \in DOMAIN p : i \in Nat /\ i >= 1 /\ i + n \in DOMAIN s /\ s[i + n] = p[i]
  <2>1. s \in Seq(Stmt) /\ Len(s) = n + Len(p) /\ Len(p) \in Nat /\ DOMAIN s = 1 .. n + Len(p) /\ DOMAIN p = 1 .. Len(p)
    BY <1>1
  <2>2. \A i \in 1 .. n + Len(p) : s[i] = IF i <= n THEN a[i] ELSE p[i - n]
    BY <1>1
  <2> HIDE DEF s, n
  <2>3. ASSUME NEW i \in DOMAIN s
        PROVE  (i \in DOMAIN a /\ s[i] = a[i]) \/ (i \in Nat /\ i > n /\ i - n \in DOMAIN p /\ s[i] = p[i - n])
    <3>1. i \in Nat /\ i >= 1 /\ i <= n + Len(p) /\ n \in Nat /\ Len(p) \in Nat
      BY <1>1, <2>1
    <3>2. CASE i <= n
      BY <1>1, <2>1, <2>2, <3>1, <3>2
    <3>3. CASE i > n
      <4>1. i - n \in 1 .. Len(p) /\ ~(i <= n)
        BY <3>1, <3>3
      <4> QED BY <2>1, <2>2, <3>1, <3>3, <4>1
    <3> QED BY <3>1, <3>2, <3>3
  <2>4. ASSUME NEW i \in DOMAIN p
        PROVE  i \in Nat /\ i >= 1 /\ i + n \in DOMAIN s /\ s[i + n] = p[i]
    <3>1. i \in Nat /\ i >= 1 /\ i <= Len(p) /\ n \in Nat /\ Len(p) \in Nat
      BY <1>1, <2>1
    <3>2. i + n \in 1 .. n + Len(p) /\ ~(i + n <= n) /\ (i + n) - n = i
      BY <3>1
    <3> QED BY <2>1, <2>2, <3>1, <3>2
  <2> QED BY <2>3, <2>4
<1> HIDE DEF s, n
<1>3. Blocks(s)
  <2>1. ASSUME NEW i \in DOMAIN s, NEW k \in 1 .. 8, NEW t \in Tenant, s[i] = <<KindAt[k], t>>, NEW j \in 1 .. 8,
               i + j - k >= 1
        PROVE  i + j - k \in DOMAIN s /\ s[i + j - k] = <<KindAt[j], t>>
    <3>a. s[i][1] = KindAt[k]
      BY <2>1
    <3>1. s[i][1] = KindAt[k] /\ KindAt[k] \in TenantKinds
      BY <3>a, KindsAre
    <3>2. i \in Nat /\ i > n /\ i - n \in DOMAIN p /\ p[i - n] = <<KindAt[k], t>>
      BY <1>1, <1>2, <2>1, <3>1
    <3> DEFINE h == i - n
               m == h + j - k
    <3>3. m \in DOMAIN p /\ p[m] = <<KindAt[j], t>>
      <4>1. h \in DOMAIN p /\ p[h] = <<KindAt[k], t>>
        BY <3>2
      <4> HIDE DEF h
      <4> QED BY <4>1 DEF AllBlocks
    <3>4. m + n = i + j - k
      BY <1>1, <3>2
    <3> HIDE DEF m
    <3>5. m + n \in DOMAIN s /\ s[m + n] = p[m]
      BY <1>2, <3>3
    <3> QED BY <3>3, <3>4, <3>5
  <2> QED BY <2>1 DEF Blocks
<1>4. PatFirst(s)
  <2>1. ASSUME NEW i \in DOMAIN s, NEW j \in DOMAIN s, s[i] = <<"pat">>, j < i PROVE s[j][1] \notin TenantKinds
    <3>a. s[i][1] = "pat"
      BY <2>1
    <3>1. s[i][1] = "pat" /\ "pat" \notin TenantKinds
      BY <3>a DEF TenantKinds
    <3>2. i \in DOMAIN a
      BY <1>2, <3>1
    <3>3. ~(j > n)
      BY <1>1, <1>2, <2>1, <3>2
    <3>4. j \in DOMAIN a /\ s[j] = a[j]
      BY <1>2, <3>3
    <3> QED BY <1>1, <3>4
  <2> QED BY <2>1 DEF PatFirst
<1> QED BY <1>3, <1>4 DEF Ordered, s

LEMMA StepsAre ==
    /\ svc = "traefik" => StepsOf = TraefikSteps /\ Mounted[svc] = {"usersfile", "traefik.yml", "dynamic.yml"}
    /\ svc = "keycloak" => StepsOf = KeycloakSteps /\ Mounted[svc] = {"realm"}
    /\ svc = "authentik" => StepsOf = AuthentikSteps /\ Mounted[svc] = {"blueprint"}
    /\ svc = "samba" => StepsOf = SambaSteps /\ Mounted[svc] = {"smb.conf"}
    /\ svc = "s3" => StepsOf = S3Steps /\ Mounted[svc] = {}
    /\ svc = "depot" => StepsOf = DepotSteps /\ Mounted[svc] = {"htpasswd", "nginx.conf"}
    /\ svc = "sftp" => StepsOf = SFTPSteps /\ Mounted[svc] = {}
    /\ svc = "mailpit" => StepsOf = MailpitSteps /\ Mounted[svc] = {}
    /\ svc = "kmip" => StepsOf = KMIPSteps /\ Mounted[svc] = {"client_ca.crt", "server.conf"}
    /\ svc = "chrony" => StepsOf = ChronySteps /\ Mounted[svc] = {"chrony.conf"}
    /\ svc = "rsyslog" => StepsOf = RsyslogSteps /\ Mounted[svc] = {"rsyslog.conf"}
    /\ svc = "lldap" => StepsOf = LLDAPSteps /\ Mounted[svc] = {}
    /\ svc = "harbor" => StepsOf = HarborSteps /\ Mounted[svc] = {"harbor.yml"}
    /\ svc = "zitadel" => StepsOf = ZitadelSteps /\ Mounted[svc] = {}
  BY DEF StepsOf, Steps, Mounted

LEMMA StepsShape ==
    ASSUME TypeOK
    PROVE  /\ svc # "harbor" => Renders(StepsOf)
           /\ svc = "harbor" => HarborRenders(StepsOf)
           /\ \A f \in Mounted[svc] : Pending(f, StepsOf)
           /\ svc \in Guarded => Head(StepsOf) = <<"guard">>
<1>1. svc \in {"traefik", "keycloak", "authentik", "samba", "s3", "depot", "sftp",
               "mailpit", "kmip", "chrony", "rsyslog", "lldap", "harbor", "zitadel"}
  BY SimpleAssumption DEF TypeOK
<1>2. CASE svc = "harbor"
  <2>1. StepsOf = HarborSteps /\ Mounted[svc] = {"harbor.yml"}
    BY <1>2 DEF StepsOf, Steps, Mounted
  <2>2. Head(HarborSteps) = <<"guard">>
    BY GuardedHeads DEF Leads
  <2> QED BY <1>2, <2>1, <2>2, HarborProgram
<1>3. CASE svc # "harbor"
  <2>1. Program(StepsOf, Mounted[svc])
    <3>1. CASE svc \in {"traefik", "keycloak", "authentik", "samba", "s3", "depot"}
      BY <3>1, TraefikProgram, KeycloakProgram, AuthentikProgram, SambaProgram, S3Program, DepotProgram,
         StepsAre
    <3>2. CASE svc \in {"sftp", "mailpit", "kmip", "chrony"}
      BY <3>2, SFTPProgram, S3Program, KMIPProgram, ChronyProgram, StepsAre
    <3>3. CASE svc \in {"rsyslog", "lldap", "zitadel"}
      BY <3>3, RsyslogProgram, LLDAPProgram, ZitadelProgram, StepsAre
    <3> QED BY <1>1, <1>3, <3>1, <3>2, <3>3
  <2>2. svc \in Guarded => Head(StepsOf) = <<"guard">>
    <3>1. svc \in Guarded => StepsOf \in {DepotSteps, KMIPSteps}
      BY <1>3 DEF Guarded, StepsOf, Steps
    <3> QED BY <3>1, GuardedHeads DEF Leads
  <2> QED BY <1>3, <2>1, <2>2 DEF Program
<1> QED BY <1>2, <1>3

LEMMA StepsOrder ==
    ASSUME TypeOK
    PROVE  /\ Ordered(StepsOf)
           /\ svc # "zitadel" => \A i \in DOMAIN StepsOf : StepsOf[i][1] \notin TenantKinds
           /\ svc = "zitadel" => /\ Has(<<"pat">>, StepsOf)
                                 /\ \A t \in ToSet(ConfTenants), k \in 1 .. 8 : Has(<<KindAt[k], t>>, StepsOf)
<1>1. svc \in {"traefik", "keycloak", "authentik", "samba", "s3", "depot", "sftp",
               "mailpit", "kmip", "chrony", "rsyslog", "lldap", "harbor", "zitadel"}
  BY SimpleAssumption DEF TypeOK
<1>2. CASE svc # "zitadel"
  <2>1. StepsOf \in Seq(Plain)
    <3>1. CASE svc \in {"traefik", "keycloak", "authentik", "samba", "s3", "depot"}
      BY <3>1, PlainBegins DEF StepsOf, Steps
    <3>2. CASE svc \in {"sftp", "mailpit", "kmip", "chrony"}
      BY <3>2, PlainBegins, PlainSeeds DEF StepsOf, Steps
    <3>3. CASE svc \in {"rsyslog", "lldap", "harbor"}
      BY <3>3, PlainBegins, PlainSeeds, PlainHarbor DEF StepsOf, Steps
    <3> QED BY <1>1, <1>2, <3>1, <3>2, <3>3
  <2> QED BY <1>2, <2>1, PlainBlocks
<1>3. CASE svc = "zitadel"
  <2> DEFINE a == <<<<"vars">>, <<"ca">>>> \o Restart
             w == <<<<"pat">>, <<"api">>>>
             b == a \o w
  <2>1. a \in Seq(Plain) /\ w \in Seq(Plain) /\ b \in Seq(Plain)
    <3>1. <<"vars">> \in Plain /\ <<"ca">> \in Plain /\ <<"pat">> \in Plain /\ <<"api">> \in Plain
      BY PlainStatements
    <3>2. <<<<"vars">>, <<"ca">>>> \in Seq(Plain) /\ w \in Seq(Plain)
      BY <3>1, Tuples
    <3> HIDE DEF w
    <3> QED BY <3>2, PlainFiles, PlainCat
  <2>2. StepsOf = b \o Provisioning
    BY <1>3 DEF StepsOf, ZitadelSteps
  <2>3. a \in Seq(Stmt) /\ w \in Seq(Stmt) /\ b \in Seq(Stmt)
    BY <2>1, SeqInclusion DEF Plain
  <2>4. Has(<<"pat">>, w)
    <3>1. 1 \in DOMAIN w /\ w[1] = <<"pat">>
      OBVIOUS
    <3> QED BY <3>1 DEF Has
  <2>5. Has(<<"pat">>, b)
    <3> HIDE DEF a, w
    <3> QED BY <2>3, <2>4, CatHas
  <2> HIDE DEF b
  <2>6. Ordered(StepsOf)
    BY <2>1, <2>2, ProvisioningBlocks, BlocksCat
  <2>7. Has(<<"pat">>, StepsOf)
    BY <2>2, <2>3, <2>5, CatHas, ProvisioningBlocks
  <2>8. \A t \in ToSet(ConfTenants), k \in 1 .. 8 : Has(<<KindAt[k], t>>, StepsOf)
    <3>1. ASSUME NEW t \in ToSet(ConfTenants), NEW k \in 1 .. 8 PROVE Has(<<KindAt[k], t>>, StepsOf)
      <4>1. Has(<<KindAt[k], t>>, Provisioning) /\ Provisioning \in Seq(Stmt)
        BY ProvisioningBlocks
      <4> QED BY <2>2, <2>3, <4>1, CatHas
    <3> QED BY <3>1
  <2> QED BY <1>3, <2>6, <2>7, <2>8
<1> QED BY <1>2, <1>3
-----------------------------------------------------------------------------
\* Zitadel's statements on the host.
LEMMA TenantHead ==
    ASSUME todo \in Seq(Post), todo # <<>>, Kind \in TenantKinds
    PROVE  What \in Tenant /\ Head(todo) = <<Kind, What>>
<1>1. ASSUME NEW x \in Post, x[1] \in TenantKinds PROVE x[2] \in Tenant /\ x = <<x[1], x[2]>>
  <2>1. x \notin {<<"login">>, <<"dial">>, <<"pat">>, <<"api">>} /\ x \notin {"ensure", "set"} \X Objects
    <3>1. \A y \in {<<"login">>, <<"dial">>, <<"pat">>, <<"api">>} : y[1] \notin TenantKinds
      <4>1. \A y \in {<<"login">>, <<"dial">>, <<"pat">>, <<"api">>} : y[1] \in {"login", "dial", "pat", "api"}
        OBVIOUS
      <4>2. \A k \in {"login", "dial", "pat", "api"} : k \notin TenantKinds
        BY DEF TenantKinds
      <4> QED BY <4>1, <4>2
    <3>2. \A y \in {"ensure", "set"} \X Objects : y[1] \notin TenantKinds
      BY DEF TenantKinds
    <3> QED BY <1>1, <3>1, <3>2, Zenon
  <2>2. x \in TenantKinds \X Tenant
    BY <2>1 DEF Post
  <2> QED BY <2>2
<1>2. Head(todo) \in Post
  OBVIOUS
<1> QED BY <1>1, <1>2 DEF Kind, What

LEMMA ZitadelStepKeeps ==
    ASSUME HostInv, TypeOK', Blocks(todo), ZitadelStep
    PROVE  HostInv'
<1>1. todo # <<>> /\ HostKept /\ HostStays
  BY HostStaysKept DEF ZitadelStep, ReadPAT, WaitAPI, EnsureOrg, EnsurePart, UserNotFound, CreateClient, OpenClient,
                       WriteClient, Now
<1>2. Kind \in PostKinds /\ Kind # "write" /\ Kind # "guard"
  BY DEF ZitadelStep, ReadPAT, WaitAPI, EnsureOrg, EnsurePart, UserNotFound, CreateClient, OpenClient,
         WriteClient, Now, Kind, PostKinds, TenantKinds, Parts
<1>3. at = "deploy" /\ Runs /\ todo \in Seq(Post) /\ Tail(todo) \in Seq(Post) /\ op = svc /\ op # "none"
  BY <1>1, <1>2, WhereTo, AtPost, Versions DEF HostInv, Provisions
<1>4. CASE Done
  BY <1>1, <1>2, <1>4, PostStep
<1>5. CASE \E v \in {"failed", "pat", "conflict"} : Stops(v) /\ BudgetStep
  BY <1>1, <1>2, <1>5, Halted, EndsOrGoes
<1>6. CASE EnsureOrg /\ Spend("search") /\ todo' = Tail(todo) /\ UNCHANGED <<op, at, verdict, svc, conf>>
  <2>1. Tail(todo) # <<>>
    BY <1>3, <1>6 DEF TypeOK, Idle
  <2>2. Move(Tail(todo)) /\ BudgetStep
    BY <1>6, <2>1 DEF Move, BudgetStep
  <2> QED BY <1>1, <1>2, <1>3, <2>2, Provisioned
<1>7. CASE UserNotFound
  <2>1. Tail(todo) # <<>>
    <3>1. Kind = "user"
      BY <1>7 DEF UserNotFound, Now, Kind
    <3>2. Kind \in TenantKinds /\ Kind = KindAt[7]
      <4>1. KindAt[7] = "user"
        BY KindsAre
      <4> QED BY <3>1, <4>1 DEF TenantKinds
    <3>3. What \in Tenant /\ Head(todo) = <<KindAt[7], What>>
      BY <1>1, <1>3, <3>2, TenantHead
    <3>4. todo \in Seq(Stmt)
      BY <1>3, ProvisionsNext DEF Provisions
    <3>5. 7 < 8 => Tail(todo) # <<>>
      <4>1. 7 \in 1 .. 8
        OBVIOUS
      <4> QED BY <1>1, <3>3, <3>4, <4>1, BlockHead
    <3> QED BY <3>5
  <2>2. Tail(Tail(todo)) \in Seq(Post)
    BY <1>3, <2>1
  <2>3. Move(Tail(Tail(todo))) /\ BudgetStep
    BY <1>3, <1>7 DEF UserNotFound, Move, BudgetStep, Outcome
  <2> QED BY <1>1, <1>2, <1>3, <2>2, <2>3, Provisioned
<1>8. CASE SkipClient
  <2>1. SubSeq(todo, 4, Len(todo)) \in Seq(Post)
    BY <1>3
  <2>2. Move(SubSeq(todo, 4, Len(todo))) /\ BudgetStep
    BY <1>8 DEF SkipClient, Then, Move, BudgetStep
  <2> QED BY <1>1, <1>2, <1>3, <2>1, <2>2, Provisioned
<1>9. CASE ReadPAT \/ WaitAPI
  <2>1. Done \/ Fails("pat") \/ Outside("failed")
    BY <1>9 DEF ReadPAT, WaitAPI
  <2> QED BY <1>4, <1>5, <2>1, EndsOrGoes
<1>10. CASE EnsureOrg
  <2>1. Done \/ (Spend("search") /\ todo' = Tail(todo) /\ UNCHANGED <<op, at, verdict, svc, conf>>)
        \/ (Spend("lost") /\ Stops("failed"))
    BY <1>10 DEF EnsureOrg
  <2> QED BY <1>4, <1>5, <1>6, <1>10, <2>1 DEF BudgetStep
<1>11. CASE \E part \in Parts \ {"app"} : EnsurePart(part)
  <2>1. Done \/ Fails("failed") \/ (Spend("lost") /\ Stops("failed"))
    BY <1>11 DEF EnsurePart
  <2> QED BY <1>4, <1>5, <2>1, EndsOrGoes DEF BudgetStep
<1>12. CASE CreateClient
  <2>1. Done \/ SkipClient \/ Conflict \/ (Spend("lost") /\ Stops("failed"))
    BY <1>12 DEF CreateClient
  <2> QED BY <1>4, <1>5, <1>8, <2>1, EndsOrGoes DEF BudgetStep, Conflict
<1>13. CASE OpenClient \/ WriteClient
  BY <1>4, <1>13 DEF OpenClient, WriteClient
<1> QED BY <1>7, <1>9, <1>10, <1>11, <1>12, <1>13 DEF ZitadelStep
-----------------------------------------------------------------------------
\* What is not a statement.
LEMMA DeploysKeeps ==
    ASSUME HostInv, TypeOK', Deploys(StepsOf)
    PROVE  HostInv'
<1>1. /\ op = "none" /\ at = "idle" /\ op' = svc /\ at' = "deploy" /\ todo' = StepsOf
      /\ UNCHANGED <<verdict, budget, svc, conf, files, comp, main, extra, data>> /\ TypeOK
  BY DEF HostInv, Control, Deploys, Begins, Idle, HostKept
<1>2. BudgetOK' /\ (DownWorks' => DownWorks) /\ (~Spent({"cut"})' => ~Spent({"cut"}))
  BY <1>1, BudgetKeeps DEF HostInv, BudgetStep
<1>3. Serving
  BY <1>1 DEF HostInv, Control, IdlePart
<1>4. Control'
  <2>1. DeployPart'
    BY <1>1, <1>3, StepsShape DEF DeployPart, PlainPart, HarborPart, Serving
  <2> QED BY <1>1, <2>1, Versions DEF Control, Idle
<1>5. GuardFirst'
  BY <1>1, StepsShape DEF HostInv, GuardFirst
<1>6. FilesInv'
  BY <1>1, StepsShape DEF FilesInv
<1>7. TornInv'
  BY <1>1, <1>2 DEF HostInv, TornInv, Writes
<1>8. Declared'
  BY <1>1, <1>2 DEF HostInv, Declared, NotRunning
<1>9. Local'
  BY <1>1 DEF HostInv, Local
<1> QED BY <1>2, <1>4, <1>5, <1>6, <1>7, <1>8, <1>9 DEF HostInv

LEMMA RemovalShape == Takes(RemoveSteps)
<1> DEFINE f == IF svc = "depot" THEN <<<<"forget">>>> ELSE <<>>
           d == <<"down">>
           c == <<"clear">>
<1>1. Removal(f)
  BY DEF Removal
<1>2. f \in Seq(Stmt) /\ d \in Stmt /\ c \in Stmt
  BY <1>1, RemovalNext, Inclusion
<1>3. RemoveSteps = <<d, c>> \o f
  BY DEF RemoveSteps
<1>4. RemoveSteps = <<d>> \o (<<c>> \o f)
  <2> HIDE DEF f, d, c
  <2> QED BY <1>2, <1>3, Pair
<1> QED BY <1>1, <1>4 DEF Takes

LEMMA RemovesKeeps ==
    ASSUME HostInv, TypeOK', Removes
    PROVE  HostInv'
<1>1. /\ op = "none" /\ at = "idle" /\ op' = svc /\ at' = "remove" /\ todo' = RemoveSteps /\ Spend("remove")
      /\ UNCHANGED <<verdict, svc, conf, files, comp, main, extra, data>> /\ TypeOK
  BY DEF HostInv, Control, Removes, Idle, HostKept
<1>2. BudgetOK' /\ (DownWorks' => DownWorks) /\ (~Spent({"cut"})' => ~Spent({"cut"}))
  BY <1>1, BudgetKeeps DEF HostInv, BudgetStep
<1>3. Spent({"remove"})'
  BY <1>1, SpendKeeps DEF HostInv
<1>4. Control'
  <2>1. RemovePart'
    BY <1>1, RemovalShape DEF RemovePart
  <2> QED BY <1>1, <1>3, <2>1, Versions DEF Control, Idle
<1>5. GuardFirst' /\ FilesInv'
  BY <1>1 DEF HostInv, GuardFirst, FilesInv
<1>7. TornInv'
  BY <1>1, <1>2 DEF HostInv, TornInv, Writes
<1>8. Declared'
  BY <1>1, <1>2 DEF HostInv, Declared, NotRunning
<1>9. Local'
  BY <1>1 DEF HostInv, Local
<1> QED BY <1>2, <1>4, <1>5, <1>7, <1>8, <1>9 DEF HostInv

LEMMA CutKeeps ==
    ASSUME HostInv, TypeOK', Cut
    PROVE  HostInv'
<1>1. /\ op = svc /\ Spend("cut") /\ op' = "none" /\ at' = "idle" /\ todo' = <<>>
      /\ UNCHANGED <<svc, conf, files, comp, main, extra, data>> /\ TypeOK /\ verdict'[svc] = "failed"
  BY DEF HostInv, TypeOK, Cut, CutShort, Ends, Idle, HostKept
<1>2. BudgetOK' /\ (DownWorks' => DownWorks) /\ Spent({"cut"})'
  BY <1>1, BudgetKeeps, SpendKeeps DEF HostInv, BudgetStep
<1>4. Control'
  <2>1. IdlePart'
    BY <1>1 DEF IdlePart, Serving
  <2> QED BY <1>1, <2>1 DEF Control, Idle
<1>5. GuardFirst' /\ FilesInv'
  BY <1>1 DEF HostInv, GuardFirst, FilesInv
<1>7. TornInv'
  BY <1>2 DEF TornInv
<1>8. Declared'
  BY <1>1, <1>2 DEF HostInv, Declared, NotRunning
<1>9. Local'
  BY <1>1 DEF HostInv, Local
<1> QED BY <1>2, <1>4, <1>5, <1>7, <1>8, <1>9 DEF HostInv

\* A container that runs reads its files again.
LEMMA Rereads ==
    ASSUME HostInv, TypeOK', main.env # 0, NEW names, main' = Reread(names), BudgetStep,
           UNCHANGED <<op, at, verdict, svc, conf, todo, files, comp, extra, data>>
    PROVE  HostInv'
<1>1. BudgetOK' /\ (DownWorks' => DownWorks) /\ (~Spent({"cut"})' => ~Spent({"cut"})) /\ TypeOK
  BY BudgetKeeps DEF HostInv
<1>2. /\ main'.env = main.env /\ main'.open = main.open
      /\ \A f \in Mounted[svc] : main'.read[f] \in {main.read[f], files[f]}
  BY <1>1 DEF Reread, TypeOK
<1>3. main # NotRunning
  BY DEF NotRunning
<1>4. (Serving => Serving') /\ (IsDown => IsDown') /\ (Runs => Runs')
  BY <1>1, <1>2, <1>3 DEF Serving, IsDown, Runs, FilesWhole, ReadsWhole
<1>5. Control'
  <2>1. DeployPart => DeployPart'
    BY <1>4 DEF DeployPart, PlainPart, HarborPart, CommonPart
  <2>2. RemovePart => RemovePart'
    BY <1>4 DEF RemovePart
  <2>3. IdlePart => IdlePart'
    BY <1>1, <1>3, <1>4 DEF IdlePart
  <2>4. Spent({"remove"}) => Spent({"remove"})'
    BY SpendKeeps DEF HostInv, BudgetStep, Spent
  <2> QED BY <2>1, <2>2, <2>3, <2>4 DEF HostInv, Control, Idle
<1>6. GuardFirst' /\ FilesInv' /\ TornInv'
  BY <1>1 DEF HostInv, GuardFirst, FilesInv, TornInv, Writes
<1>7. Declared'
  BY <1>1, <1>3 DEF HostInv, Declared
<1>8. Local'
  BY <1>2 DEF HostInv, Local
<1> QED BY <1>1, <1>5, <1>6, <1>7, <1>8 DEF HostInv

\* The operator's edits.
LEMMA Edited ==
    ASSUME HostInv, TypeOK', Idle, BudgetStep, Changed, HostKept, UNCHANGED <<op, at, svc, todo>>,
           conf'.inside = conf.inside
    PROVE  HostInv'
<1>1. BudgetOK' /\ (DownWorks' => DownWorks) /\ (~Spent({"cut"})' => ~Spent({"cut"})) /\ TypeOK
  BY BudgetKeeps DEF HostInv
<1>2. at = "idle" /\ at' = "idle" /\ Idle'
  BY DEF HostInv, Control, Idle
<1>3. /\ verdict'[svc] # "ok" /\ (verdict'[svc] = "removed" => verdict[svc] = "removed")
      /\ verdict'[svc] \in {"ok", "changed"} => verdict[svc] \in {"ok", "changed"}
  BY <1>1 DEF Changed, TypeOK
<1>4. Control'
  <2>1. IdlePart'
    BY <1>1, <1>2, <1>3 DEF HostInv, Control, IdlePart, Serving, HostKept, NotRunning
  <2> QED BY <1>2, <2>1 DEF Control
<1>5. GuardFirst' /\ FilesInv'
  BY <1>2 DEF HostInv, GuardFirst, FilesInv, HostKept
<1>6. TornInv'
  BY <1>1, <1>2 DEF HostInv, TornInv, Writes, HostKept
<1>7. Declared'
  BY <1>1 DEF HostInv, Declared, HostKept, NotRunning
<1>8. Local'
  BY DEF HostInv, Local, HostKept
<1> QED BY <1>1, <1>4, <1>5, <1>6, <1>7, <1>8 DEF HostInv
-----------------------------------------------------------------------------
\* The host, over every step but for what a removal of the token's instance does.
LEMMA ObeysKeeps ==
    ASSUME HostInv, TypeOK', ObeysPAT
    PROVE  HostInv'
<1>1. /\ op' = op /\ at' = at /\ todo' = todo /\ svc = "zitadel" /\ verdict'[svc] = "failed" /\ main' = NotRunning
      /\ UNCHANGED <<budget, svc, conf, files, comp, extra>> /\ TypeOK
  BY DEF HostInv, TypeOK, ObeysPAT
<1>2. at = "idle" /\ Idle /\ Idle' /\ at' = "idle"
  BY <1>1 DEF HostInv, Control, ObeysPAT, Idle
<1>3. BudgetOK' /\ (DownWorks' => DownWorks) /\ (~Spent({"cut"})' => ~Spent({"cut"}))
  BY <1>1, BudgetKeeps DEF HostInv, BudgetStep
<1>4. Control'
  <2>1. IdlePart'
    BY <1>1 DEF IdlePart, Serving
  <2> QED BY <1>2, <2>1 DEF Control
<1>5. GuardFirst' /\ FilesInv'
  BY <1>1, <1>2 DEF GuardFirst, Guarded, FilesInv
<1>6. TornInv'
  BY <1>1, <1>2, <1>3 DEF HostInv, TornInv, Writes
<1>7. Declared'
  BY <1>1, <1>3 DEF HostInv, Declared, NotRunning
<1>8. Local'
  BY <1>1 DEF HostInv, Local, NotRunning
<1> QED BY <1>3, <1>4, <1>5, <1>6, <1>7, <1>8 DEF HostInv

LEMMA HostUnchanged ==
    ASSUME HostInv, TypeOK', UNCHANGED dvars
    PROVE  HostInv'
<1>1. UNCHANGED <<op, at, verdict, budget, svc, conf, todo, files, comp, main, extra, data>>
  BY DEF dvars, runVars, svcVars
<1>2. BudgetOK' /\ (DownWorks' => DownWorks) /\ (~Spent({"cut"})' => ~Spent({"cut"})) /\ Spent({"remove"})' = Spent({"remove"})
  BY <1>1, BudgetKeeps DEF HostInv, BudgetStep, Spent
<1>3. Serving' = Serving /\ (IsDown => IsDown') /\ (Runs => Runs')
  BY <1>1, <1>2 DEF Serving, IsDown, Runs, FilesWhole, ReadsWhole, NotRunning
<1>4. Control'
  <2>1. DeployPart => DeployPart'
    BY <1>1, <1>3 DEF DeployPart, PlainPart, HarborPart, CommonPart
  <2>2. RemovePart => RemovePart'
    BY <1>1, <1>3 DEF RemovePart
  <2>3. IdlePart => IdlePart'
    BY <1>1, <1>2, <1>3 DEF IdlePart, NotRunning
  <2> QED BY <1>1, <1>2, <2>1, <2>2, <2>3 DEF HostInv, Control, Idle
<1>5. GuardFirst' /\ FilesInv' /\ TornInv'
  BY <1>1, <1>2 DEF HostInv, GuardFirst, FilesInv, TornInv, Writes
<1>6. Declared'
  BY <1>1, <1>2 DEF HostInv, Declared, NotRunning
<1>7. Local'
  BY <1>1 DEF HostInv, Local
<1> QED BY <1>2, <1>4, <1>5, <1>6, <1>7 DEF HostInv

LEMMA HostNext ==
    ASSUME HostInv, TypeOK', at = "deploy" => Blocks(todo), [Next]_svars
    PROVE  HostInv'
<1>1. CASE Deploys(StepsOf)
  BY <1>1, DeploysKeeps
<1>2. CASE Removes
  BY <1>2, RemovesKeeps
<1>3. CASE Cut
  BY <1>3, CutKeeps
<1>4. CASE Watch \/ Reboot
  <2>1. \E names : main' = Reread(names)
    BY <1>4 DEF Watch, Reboot
  <2> QED BY <1>4, <2>1, Rereads DEF Watch, Reboot, BudgetStep, runVars
<1>5. CASE Configures
  <2>1. conf'.inside = conf.inside
    BY <1>5 DEF Configures, Settings, Renames, HostInv, TypeOK, Config
  <2> QED BY <1>5, <2>1, Edited DEF Configures, BudgetStep
<1>6. CASE LosesPAT
  BY <1>6, Edited DEF LosesPAT, BudgetStep
<1>7. CASE DeployerStep
  BY <1>7, DeployerStepKeeps
<1>8. CASE ZitadelStep
  <2>1. todo # <<>> /\ Kind \in PostKinds
    BY <1>8 DEF ZitadelStep, ReadPAT, WaitAPI, EnsureOrg, EnsurePart, UserNotFound, CreateClient, OpenClient,
           WriteClient, Now, Kind, PostKinds, TenantKinds, Parts
  <2>2. at = "deploy"
    BY <2>1, WhereTo, AtPost DEF HostInv
  <2> QED BY <1>8, <2>2, ZitadelStepKeeps
<1>9. CASE ObeysPAT
  BY <1>9, ObeysKeeps
<1>10. CASE FirstStart \/ UNCHANGED svars
  BY <1>10, HostUnchanged DEF FirstStart, svars, dvars
<1> QED BY <1>1, <1>2, <1>3, <1>4, <1>5, <1>6, <1>7, <1>8, <1>9, <1>10 DEF Next, Statement

LEMMA HostInit ==
    ASSUME Init, TypeOK
    PROVE  HostInv
<1>1. /\ op = "none" /\ at = "idle" /\ verdict[svc] = "none" /\ budget = [left |-> MaxOf, all |-> MaxAll]
      /\ main = NotRunning /\ extra = FALSE /\ data = FALSE /\ todo = <<>> /\ comp = NoCompose
      /\ \A f \in Rendered : files[f] = 0
  BY DEF Init, DeployersInit, RunInit
<1>2. BudgetOK
  <2>1. MaxOf \in [Disturbance -> Nat] /\ MaxAll \in Nat
    BY DisturbanceAssumption
  <2> QED BY <1>1, <2>1 DEF BudgetOK
<1>3. Control
  BY <1>1 DEF Control, Idle, IdlePart, Serving
<1>4. GuardFirst /\ FilesInv
  BY <1>1 DEF GuardFirst, FilesInv
<1>5. TornInv
  BY <1>1, FileNames DEF TornInv, Torn
<1>6. Declared
  BY <1>1 DEF Declared
<1>7. Local
  BY <1>1 DEF Local, NotRunning, NoCompose
<1> QED BY <1>2, <1>3, <1>4, <1>5, <1>6, <1>7 DEF HostInv
-----------------------------------------------------------------------------
(***************************************************************************)
(* Type correctness.                                                       *)
(***************************************************************************)
ControlType ==
    /\ svc \in Simple \cup {"zitadel"} /\ op \in {svc, "none"} /\ (Idle <=> todo = <<>>)
    /\ at \in {"idle", "deploy", "remove", "cancelled"} /\ verdict \in [Simple \cup {"zitadel"} -> Verdicts]
HostType ==
    /\ files \in [Rendered -> Version] /\ comp \in [extra : BOOLEAN, bound : BOOLEAN]
    /\ main \in [env : 0 .. 2, read : [Mounted[svc] -> Version], open : BOOLEAN]
    /\ extra \in BOOLEAN /\ data \in BOOLEAN /\ objs \in [Seeded -> 0 .. 2] /\ baked \in 0 .. 2
ZitadelType ==
    /\ inst \in {"none", "half", "whole", "stuck"} /\ pat \in BOOLEAN /\ cur \in 0 .. MaxOrg
    /\ org \in [1 .. MaxOrg -> [tenant : Tenant \cup {"none"}, has : SUBSET Parts]]
    /\ cf \in [ClientFile -> 0 .. TornFile]

LEMMA TypeParts ==
    /\ TypeOK <=> ControlType /\ conf \in Config /\ HostType /\ ZitadelType
    /\ TypeOK' <=> ControlType' /\ conf' \in Config /\ HostType' /\ ZitadelType'
<1>1. TypeOK <=> ControlType /\ conf \in Config /\ HostType /\ ZitadelType
  BY DEF TypeOK, ControlType, HostType, ZitadelType
<1>2. TypeOK' <=> ControlType' /\ conf' \in Config /\ HostType' /\ ZitadelType'
  BY DEF TypeOK, ControlType, HostType, ZitadelType
<1> QED BY <1>1, <1>2

LEMMA ControlMoves ==
    ASSUME HostInv, todo # <<>>, NEW rest, Move(rest)
    PROVE  ControlType'
<1>1. op = svc /\ at \in {"deploy", "remove", "cancelled"} /\ TypeOK
  BY WhereTo DEF HostInv, TypeOK
<1>2. Outcome \in Verdicts
  BY <1>1 DEF Outcome, Verdicts
<1>3. svc # "none"
  BY <1>1, Versions
<1> QED BY <1>1, <1>2, <1>3 DEF Move, Ends, TypeOK, ControlType, Idle

LEMMA ControlEnds ==
    ASSUME TypeOK, NEW v \in Verdicts, Ends(svc, v), svc' = svc, todo' = <<>>
    PROVE  ControlType'
  BY DEF Ends, TypeOK, ControlType, Idle

LEMMA ControlKept ==
    ASSUME TypeOK, UNCHANGED <<svc, op, at, todo>>, verdict' = verdict \/ Changed \/ ObeysPAT
    PROVE  ControlType'
<1>1. verdict' \in [Simple \cup {"zitadel"} -> Verdicts]
  <2>1. verdict[svc] \in Verdicts /\ "changed" \in Verdicts /\ "failed" \in Verdicts /\ svc \in Simple \cup {"zitadel"}
        /\ verdict \in [Simple \cup {"zitadel"} -> Verdicts]
    BY DEF TypeOK, Verdicts
  <2>2. CASE Changed
    BY <2>1, <2>2 DEF Changed
  <2>3. CASE ObeysPAT
    BY <2>1, <2>3 DEF ObeysPAT
  <2> QED BY <2>1, <2>2, <2>3
<1> QED BY <1>1 DEF TypeOK, ControlType, Idle

LEMMA HostTypeKept ==
    ASSUME TypeOK, svc' = svc, HostKept
    PROVE  HostType'
  BY DEF TypeOK, HostType, HostKept, Rendered, Seeded

LEMMA ZitadelTypeKept ==
    ASSUME TypeOK, UNCHANGED <<pat, org, cf, cur>>, inst' = inst \/ Interrupted
    PROVE  ZitadelType'
  BY DEF TypeOK, ZitadelType, Interrupted

\* The statements of the deployers.
LEMMA Continues ==
    ASSUME HostInv, todo # <<>>,
           \/ Done
           \/ \E v \in Bad : Stops(v)
           \/ Tail(todo) # <<>> /\ todo' = Tail(todo) /\ UNCHANGED <<op, verdict, svc, conf>>
                                /\ (at' = at \/ at' = "cancelled")
    PROVE  ControlType' /\ conf' \in Config /\ svc' = svc
<1>1. TypeOK
  BY DEF HostInv
<1>2. CASE Done
  BY <1>1, <1>2, ControlMoves, EndsOrGoes DEF Done, Then, TypeOK
<1>3. CASE \E v \in Bad : Stops(v)
  <2>1. PICK v \in Bad : Stops(v)
    BY <1>3
  <2> QED BY <1>1, <2>1, ControlEnds DEF Stops, Bad, TypeOK
<1>4. CASE Tail(todo) # <<>> /\ todo' = Tail(todo) /\ UNCHANGED <<op, verdict, svc, conf>>
           /\ (at' = at \/ at' = "cancelled")
  BY <1>1, <1>4 DEF TypeOK, ControlType, Idle
<1> QED BY <1>2, <1>3, <1>4

LEMMA DeployerHolds ==
    ASSUME HostInv, DeployerStep
    PROVE  ControlType' /\ conf' \in Config /\ svc' = svc
<1>1. todo # <<>>
  BY DEF DeployerStep, Guard, Vars, CAReady, IssueCert, Build, OpenFile, WriteFile, Down, Prepare, FindPort, Bind, Up, Wait,
         Login, Dial, Ensure, SetPassword, Clear, Forget, Now
<1>2. \/ Done
      \/ \E v \in {"failed", "config", "not ready", "shape", "login", "unreachable"} : Stops(v)
      \/ Down /\ ~Done
  BY DEF DeployerStep, Guard, Vars, CAReady, IssueCert, Build, OpenFile, WriteFile, Prepare, FindPort, Bind, Up, Wait,
         Login, Dial, Ensure, SetPassword, Clear, Forget, Outside, Fails, PortMissing
<1>3. CASE Done \/ \E v \in {"failed", "config", "not ready", "shape", "login", "unreachable"} : Stops(v)
  BY <1>1, <1>3, Continues, EndsOrGoes
<1>4. CASE Down /\ ~Done
  <2>1. Kind = "down"
    BY <1>4 DEF Down, Now, Kind
  <2>2. Tail(todo) # <<>>
    BY <1>1, <2>1, WhereTo, AtDown, StartsNext, HarborNext, RemovalNext DEF HostInv
  <2> QED BY <1>1, <1>4, <2>2, Continues DEF Down
<1> QED BY <1>2, <1>3, <1>4

LEMMA DeployerFiles ==
    ASSUME TypeOK, svc' = svc, OpenFile \/ WriteFile \/ Forget \/ Clear \/ Prepare \/ Bind
    PROVE  files' \in [Rendered -> Version] /\ comp' \in [extra : BOOLEAN, bound : BOOLEAN]
<1>1. files \in [Rendered -> Version] /\ comp \in [extra : BOOLEAN, bound : BOOLEAN] /\ conf.extra \in BOOLEAN
  BY DEF TypeOK, Config
<1>2. Torn \in Version /\ conf.e \in Version /\ conf.v \in Version /\ 0 \in Version
  BY DEF TypeOK, Config, Version, Torn
<1>3. CASE OpenFile
  BY <1>1, <1>2, <1>3 DEF OpenFile
<1>4. CASE WriteFile
  <2>1. VersionOf(What) \in Version
    BY <1>2 DEF VersionOf
  <2> QED BY <1>1, <1>4, <2>1 DEF WriteFile
<1>5. CASE Forget
  BY <1>1, <1>2, <1>5 DEF Forget
<1>6. CASE Clear
  <2>1. NoCompose \in [extra : BOOLEAN, bound : BOOLEAN]
    BY DEF NoCompose
  <2>2. DOMAIN files = Rendered /\ \A f \in Rendered : (IF f \in Outer THEN files[f] ELSE 0) \in Version
    BY <1>1, <1>2
  <2>3. files' = [f \in Rendered |-> IF f \in Outer THEN files[f] ELSE 0] /\ comp' = NoCompose
    BY <1>6, <2>2 DEF Clear
  <2> QED BY <2>1, <2>2, <2>3
<1>7. CASE Prepare
  <2>1. [extra |-> conf.extra, bound |-> FALSE] \in [extra : BOOLEAN, bound : BOOLEAN]
    BY <1>1
  <2> QED BY <1>1, <1>2, <1>7, <2>1, Zenon DEF Prepare
<1>8. CASE Bind
  BY <1>1, <1>2, <1>8 DEF Bind
<1> QED BY <1>3, <1>4, <1>5, <1>6, <1>7, <1>8

LEMMA DeployerData ==
    ASSUME TypeOK, Up \/ Ensure \/ SetPassword \/ Clear
    PROVE  data' \in BOOLEAN /\ objs' \in [Seeded -> 0 .. 2] /\ baked' \in 0 .. 2
<1>1. data \in BOOLEAN /\ objs \in [Seeded -> 0 .. 2] /\ baked \in 0 .. 2 /\ conf.v \in 0 .. 2 /\ conf.cred \in 0 .. 2
  BY DEF TypeOK, Config
<1>2. CASE Up
  BY <1>1, <1>2 DEF Up
<1>3. CASE Ensure
  <2>1. What \in Seeded => Ensured(What) \in 0 .. 2
    BY <1>1 DEF Ensured
  <2> QED BY <1>1, <1>3, <2>1 DEF Ensure
<1>4. CASE SetPassword
  BY <1>1, <1>4 DEF SetPassword, SetTo
<1>5. CASE Clear
  <2>1. DOMAIN objs = Seeded
    BY <1>1
  <2>2. [o \in Seeded |-> 0] \in [Seeded -> 0 .. 2]
    OBVIOUS
  <2>3. CASE conf.inside
    <3>1. data' = FALSE /\ objs' = [o \in Seeded |-> 0] /\ baked' = 0
      BY <1>5, <2>1, <2>3 DEF Clear
    <3>2. data' \in BOOLEAN
      BY <3>1, Zenon
    <3>3. baked' \in 0 .. 2
      BY <3>1
    <3> QED BY <2>2, <3>1, <3>2, <3>3
  <2>4. CASE ~conf.inside
    <3>1. UNCHANGED <<data, objs, baked>>
      BY <1>5, <2>4 DEF Clear
    <3> QED BY <1>1, <3>1
  <2> QED BY <2>3, <2>4
<1> QED BY <1>2, <1>3, <1>4, <1>5

LEMMA DeployerContainers ==
    ASSUME HostInv, Up \/ Down
    PROVE  main' \in [env : 0 .. 2, read : [Mounted[svc] -> Version], open : BOOLEAN] /\ extra' \in BOOLEAN
<1>1. /\ main \in [env : 0 .. 2, read : [Mounted[svc] -> Version], open : BOOLEAN]
      /\ extra \in BOOLEAN /\ comp.extra \in BOOLEAN /\ comp.bound \in BOOLEAN
  BY DEF HostInv, TypeOK
<1>2. NotRunning \in [env : 0 .. 2, read : [Mounted[svc] -> Version], open : BOOLEAN]
  BY DEF NotRunning, Version, Torn
<1>3. CASE Down
  BY <1>1, <1>2, <1>3 DEF Down, Downed
<1>4. CASE Up
  <2>1. CASE Outside("failed") /\ UNCHANGED <<main, extra, data, objs, baked>>
    BY <1>1, <2>1
  <2>2. CASE Done /\ extra' = (extra \/ comp.extra) /\ main' = IF Unchanged THEN main ELSE Created
    <3>1. extra' \in BOOLEAN
      BY <2>2
    <3>2. Created \in [env : 0 .. 2, read : [Mounted[svc] -> Version], open : BOOLEAN] \/ main' = main
      <4>1. files \in [Rendered -> Version] /\ "compose" \in Rendered /\ Mounted[svc] \subseteq Rendered
        BY FileNames DEF HostInv, TypeOK
      <4>2. [f \in Mounted[svc] |-> files[f]] \in [Mounted[svc] -> Version]
        BY <4>1
      <4>3. files["compose"] \in 0 .. 2
        <5>1. todo # <<>> /\ Kind = "up"
          BY <1>4 DEF Up, Now, Kind
        <5> QED BY <5>1, WhereTo, AtUp, Versions DEF HostInv
      <4> QED BY <1>1, <4>2, <4>3 DEF Created
    <3> QED BY <1>1, <2>2, <3>1, <3>2
  <2> QED BY <1>4, <2>1, <2>2 DEF Up
<1> QED BY <1>3, <1>4

LEMMA DeployerTypes ==
    ASSUME HostInv, DeployerStep
    PROVE  ControlType' /\ conf' \in Config /\ HostType' /\ svc' = svc
<1>1. ControlType' /\ conf' \in Config /\ svc' = svc /\ TypeOK
  BY DeployerHolds DEF HostInv
<1>2. Rendered' = Rendered /\ Seeded' = Seeded /\ Mounted[svc]' = Mounted[svc]
  BY <1>1 DEF Rendered, Seeded
<1>3. /\ files' \in [Rendered -> Version] /\ comp' \in [extra : BOOLEAN, bound : BOOLEAN]
      /\ main' \in [env : 0 .. 2, read : [Mounted[svc] -> Version], open : BOOLEAN] /\ extra' \in BOOLEAN
      /\ data' \in BOOLEAN /\ objs' \in [Seeded -> 0 .. 2] /\ baked' \in 0 .. 2
  <2>1. /\ files \in [Rendered -> Version] /\ comp \in [extra : BOOLEAN, bound : BOOLEAN]
        /\ main \in [env : 0 .. 2, read : [Mounted[svc] -> Version], open : BOOLEAN] /\ extra \in BOOLEAN
        /\ data \in BOOLEAN /\ objs \in [Seeded -> 0 .. 2] /\ baked \in 0 .. 2
    BY <1>1 DEF TypeOK
  <2>2. CASE HostKept
    BY <2>1, <2>2 DEF HostKept
  <2>3. CASE OpenFile \/ WriteFile \/ Forget \/ Prepare \/ Bind
    <3>1. UNCHANGED <<main, extra, data, objs, baked>>
      BY <2>3 DEF OpenFile, WriteFile, Forget, Prepare, Bind
    <3> QED BY <1>1, <2>1, <2>3, <3>1, DeployerFiles
  <2>4. CASE Clear
    <3>1. UNCHANGED <<main, extra>>
      BY <2>4 DEF Clear
    <3> QED BY <1>1, <2>1, <2>4, <3>1, DeployerFiles, DeployerData
  <2>5. CASE Up \/ Down
    <3>1. UNCHANGED <<files, comp>> /\ (Down => UNCHANGED <<data, objs, baked>>)
      BY <2>5 DEF Up, Down
    <3> QED BY <1>1, <2>1, <2>5, <3>1, DeployerContainers, DeployerData
  <2>6. CASE Ensure \/ SetPassword
    <3>1. UNCHANGED <<files, comp, main, extra>>
      BY <2>6 DEF Ensure, SetPassword
    <3> QED BY <1>1, <2>1, <2>6, <3>1, DeployerData
  <2> QED BY <2>2, <2>3, <2>4, <2>5, <2>6
          DEF DeployerStep, Guard, Vars, CAReady, IssueCert, Build, FindPort, Wait, Login, Dial
<1> QED BY <1>1, <1>2, <1>3 DEF HostType

\* Organisations: the one that is made has a number of its own.
LEMMA NewOrgFree ==
    ASSUME TypeOK, FreeOrgs # {}
    PROVE  NewOrg \in FreeOrgs
<1>1. FreeOrgs \subseteq Nat
  <2>1. MaxOrg \in Nat /\ DOMAIN org = 1 .. MaxOrg
    BY ZitadelAssumption DEF TypeOK
  <2> QED BY <2>1 DEF FreeOrgs, OrgsOf
<1>2. \E i \in FreeOrgs : \A j \in FreeOrgs : ~(<<j, i>> \in OpToRel(<, Nat))
  BY <1>1, NatLessThanWellFounded, WFMin
<1>3. PICK i \in FreeOrgs : \A j \in FreeOrgs : ~(<<j, i>> \in OpToRel(<, Nat))
  BY <1>2
<1>4. ASSUME NEW j \in FreeOrgs PROVE i <= j
  <2>1. <<j, i>> \in Nat \X Nat /\ i \in Nat /\ j \in Nat
    BY <1>1
  <2>2. ~(j < i)
    BY <1>3, <2>1 DEF OpToRel
  <2> QED BY <2>1, <2>2
<1> QED BY <1>4 DEF NewOrg
LEMMA OrgType ==
    ASSUME TypeOK, FreeOrgs # {}, NEW t \in Tenant
    PROVE  /\ NewOrg \in 1 .. MaxOrg /\ NewOrg \in FreeOrgs
           /\ WithOrg(t) \in [1 .. MaxOrg -> [tenant : Tenant \cup {"none"}, has : SUBSET Parts]]
<1>1. NewOrg \in FreeOrgs /\ DOMAIN org = 1 .. MaxOrg
  BY NewOrgFree DEF TypeOK
<1>2. NewOrg \in 1 .. MaxOrg
  BY <1>1 DEF FreeOrgs, OrgsOf
<1>3. [tenant |-> t, has |-> {}] \in [tenant : Tenant \cup {"none"}, has : SUBSET Parts]
  OBVIOUS
<1> QED BY <1>1, <1>2, <1>3 DEF WithOrg, TypeOK

LEMMA PartType ==
    ASSUME TypeOK, NEW part \in Parts
    PROVE  [org EXCEPT ![cur].has = @ \cup {part}] \in [1 .. MaxOrg -> [tenant : Tenant \cup {"none"}, has : SUBSET Parts]]
<1>1. \A i \in 1 .. MaxOrg : [org[i] EXCEPT !.has = @ \cup {part}] \in [tenant : Tenant \cup {"none"}, has : SUBSET Parts]
  BY DEF TypeOK
<1> QED BY <1>1 DEF TypeOK

LEMMA FileType ==
    ASSUME TypeOK, NEW l
    PROVE  [cf EXCEPT ![l] = TornFile] \in [ClientFile -> 0 .. TornFile] /\ [cf EXCEPT ![l] = cur] \in [ClientFile -> 0 .. TornFile]
<1>1. TornFile \in 0 .. TornFile /\ cur \in 0 .. TornFile
  BY ZitadelAssumption DEF TypeOK, TornFile
<1> QED BY <1>1 DEF TypeOK

LEMMA ZitadelTypes ==
    ASSUME HostInv, Blocks(todo), ZitadelStep
    PROVE  ZitadelType' /\ ControlType' /\ conf' \in Config /\ HostType' /\ svc' = svc
<1>1. todo # <<>> /\ HostKept /\ TypeOK
  BY DEF ZitadelStep, ReadPAT, WaitAPI, EnsureOrg, EnsurePart, UserNotFound, CreateClient, OpenClient,
         WriteClient, Now, HostInv
<1>2. Kind \in PostKinds
  BY DEF ZitadelStep, ReadPAT, WaitAPI, EnsureOrg, EnsurePart, UserNotFound, CreateClient, OpenClient,
         WriteClient, Now, Kind, PostKinds, TenantKinds, Parts
<1>3. at = "deploy" /\ todo \in Seq(Post) /\ todo \in Seq(Stmt)
  BY <1>1, <1>2, WhereTo, AtPost DEF HostInv, Provisions
<1>4. ASSUME NEW k \in 1 .. 7, Kind = KindAt[k]
      PROVE  Tail(todo) # <<>>
  <2>1. k \in 1 .. 8 /\ k < 8
    OBVIOUS
  <2>2. What \in Tenant /\ Head(todo) = <<KindAt[k], What>>
    BY <1>1, <1>3, <1>4, <2>1, KindsAre, TenantHead
  <2> QED BY <1>1, <1>3, <2>1, <2>2, BlockHead
<1>5. svc' = svc /\ ControlType' /\ conf' \in Config
  <2>1. CASE Done \/ \E v \in Bad : Stops(v)
    BY <1>1, <2>1, Continues
  <2>2. CASE EnsureOrg /\ Spend("search") /\ todo' = Tail(todo) /\ UNCHANGED <<op, at, verdict, svc, conf>>
    <3>1. Kind = KindAt[1] /\ 1 \in 1 .. 7
      <4>1. KindAt[1] = "org"
        BY KindsAre
      <4> QED BY <2>2, <4>1 DEF EnsureOrg, Now, Kind
    <3>2. Tail(todo) # <<>>
      BY <1>4, <3>1
    <3> QED BY <1>1, <2>2, <3>2, Continues
  <2>3. CASE UserNotFound
    <3>1. Move(Tail(Tail(todo)))
      BY <1>3, <2>3 DEF UserNotFound, Move, Outcome
    <3> QED BY <1>1, <3>1, ControlMoves DEF Move, TypeOK
  <2>4. CASE SkipClient
    <3>1. Move(SubSeq(todo, 4, Len(todo)))
      BY <2>4 DEF SkipClient, Then, Move
    <3> QED BY <1>1, <3>1, ControlMoves DEF Move, TypeOK
  <2>5. CASE ReadPAT \/ WaitAPI
    BY <2>1, <2>5, EndsOrGoes DEF ReadPAT, WaitAPI
  <2>6. CASE EnsureOrg
    <3>1. Done \/ (Spend("search") /\ todo' = Tail(todo) /\ UNCHANGED <<op, at, verdict, svc, conf>>)
          \/ (Spend("lost") /\ Stops("failed"))
      BY <2>6 DEF EnsureOrg
    <3> QED BY <2>1, <2>2, <2>6, <3>1, EndsOrGoes
  <2>7. CASE \E part \in Parts \ {"app"} : EnsurePart(part)
    <3>1. Done \/ Fails("failed") \/ (Spend("lost") /\ Stops("failed"))
      BY <2>7 DEF EnsurePart
    <3> QED BY <2>1, <3>1, EndsOrGoes
  <2>8. CASE CreateClient
    <3>1. Done \/ SkipClient \/ Conflict \/ (Spend("lost") /\ Stops("failed"))
      BY <2>8 DEF CreateClient
    <3> QED BY <2>1, <2>4, <3>1, EndsOrGoes DEF Bad, Conflict
  <2>9. CASE OpenClient \/ WriteClient
    BY <2>1, <2>9 DEF OpenClient, WriteClient
  <2> QED BY <2>3, <2>5, <2>6, <2>7, <2>8, <2>9 DEF ZitadelStep
<1>6. HostType'
  BY <1>1, <1>5, HostTypeKept
<1>7. ZitadelType'
  <2>1. CASE ReadPAT \/ WaitAPI \/ UserNotFound
    <3>1. UNCHANGED zVars
      BY <2>1 DEF ReadPAT, WaitAPI, UserNotFound
    <3> QED BY <1>1, <3>1 DEF TypeOK, ZitadelType, zVars
  <2>2. CASE EnsureOrg
    <3>1. What \in Tenant
      <4>1. Kind = "org"
        BY <2>2 DEF EnsureOrg, Now, Kind
      <4> QED BY <1>1, <1>3, <4>1, TenantHead DEF TenantKinds
    <3>2. cur' \in 0 .. MaxOrg /\ org' \in [1 .. MaxOrg -> [tenant : Tenant \cup {"none"}, has : SUBSET Parts]]
      <4>1. CASE \E i \in IF What = Default THEN OrgsOf(Default) ELSE Found(What) : cur' = i /\ UNCHANGED org
        <5>1. cur' \in DOMAIN org /\ DOMAIN org = 1 .. MaxOrg
          BY <1>1, <4>1 DEF OrgsOf, Found, TypeOK
        <5> QED BY <1>1, <4>1, <5>1 DEF TypeOK
      <4>2. CASE FreeOrgs # {} /\ org' = WithOrg(What) /\ (cur' = NewOrg \/ cur' = cur)
        <5>1. NewOrg \in 1 .. MaxOrg /\ org' \in [1 .. MaxOrg -> [tenant : Tenant \cup {"none"}, has : SUBSET Parts]]
          BY <1>1, <3>1, <4>2, OrgType
        <5>2. NewOrg \in 0 .. MaxOrg /\ cur \in 0 .. MaxOrg
          BY <1>1, <5>1, ZitadelAssumption DEF TypeOK
        <5> QED BY <4>2, <5>1, <5>2
      <4> QED BY <2>2, <4>1, <4>2 DEF EnsureOrg
    <3> QED BY <1>1, <2>2, <3>2 DEF TypeOK, ZitadelType, EnsureOrg
  <2>3. CASE \E part \in Parts \ {"app"} : EnsurePart(part)
    <3>1. org' \in [1 .. MaxOrg -> [tenant : Tenant \cup {"none"}, has : SUBSET Parts]]
      <4>1. PICK part \in Parts : org' = org \/ org' = [org EXCEPT ![cur].has = @ \cup {part}]
        BY <2>3 DEF EnsurePart
      <4>2. [org EXCEPT ![cur].has = @ \cup {part}] \in [1 .. MaxOrg -> [tenant : Tenant \cup {"none"}, has : SUBSET Parts]]
        BY <1>1, PartType
      <4>3. org \in [1 .. MaxOrg -> [tenant : Tenant \cup {"none"}, has : SUBSET Parts]]
        BY <1>1 DEF TypeOK
      <4> QED BY <4>1, <4>2, <4>3
    <3> QED BY <1>1, <2>3, <3>1 DEF TypeOK, ZitadelType, EnsurePart
  <2>4. CASE CreateClient
    <3>1. org' \in [1 .. MaxOrg -> [tenant : Tenant \cup {"none"}, has : SUBSET Parts]]
      <4>1. "app" \in Parts /\ (org' = org \/ org' = [org EXCEPT ![cur].has = @ \cup {"app"}])
        BY <2>4 DEF CreateClient, Parts
      <4> QED BY <1>1, <4>1, PartType DEF TypeOK
    <3> QED BY <1>1, <2>4, <3>1 DEF TypeOK, ZitadelType, CreateClient
  <2>5. CASE OpenClient \/ WriteClient
    <3>1. cf' \in [ClientFile -> 0 .. TornFile]
      BY <1>1, <2>5, FileType DEF OpenClient, WriteClient
    <3> QED BY <1>1, <2>5, <3>1 DEF TypeOK, ZitadelType, OpenClient, WriteClient, TornFile
  <2> QED BY <2>1, <2>2, <2>3, <2>4, <2>5 DEF ZitadelStep
<1> QED BY <1>1, <1>5, <1>6, <1>7
-----------------------------------------------------------------------------
\* What is not a statement.
LEMMA OthersType ==
    ASSUME HostInv, Deploys(StepsOf) \/ Removes \/ Cut \/ Configures
    PROVE  ControlType' /\ conf' \in Config /\ HostKept /\ svc' = svc
<1>1. TypeOK
  BY DEF HostInv
<1>2. CASE Deploys(StepsOf)
  <2>1. StepsOf # <<>> /\ svc # "none"
    BY <1>1, StepsShape, RendersNext, HarborRendersNext, Versions
  <2> QED BY <1>1, <1>2, <2>1 DEF Deploys, Begins, TypeOK, ControlType, Idle
<1>3. CASE Removes
  <2>1. RemoveSteps # <<>> /\ svc # "none"
    BY <1>1, RemovalShape, RemovalNext, Versions
  <2> QED BY <1>1, <1>3, <2>1 DEF Removes, TypeOK, ControlType, Idle
<1>4. CASE Cut
  <2>1. op = svc /\ Ends(svc, "failed") /\ "failed" \in Verdicts
    BY <1>1, <1>4 DEF Cut, CutShort, Idle, TypeOK, Verdicts
  <2> QED BY <1>1, <1>4, <2>1, ControlEnds DEF Cut, TypeOK
<1>5. CASE Configures
  <2>1. conf' \in Config
    <3>1. conf \in Config /\ conf.v \in {1, 2} /\ conf.e \in {1, 2} /\ conf.cred \in {1, 2} /\ conf.tenants \in {1, 2}
          /\ conf.fqdn \in {1, 2} /\ conf.valid \in BOOLEAN /\ conf.extra \in BOOLEAN
      BY <1>1 DEF TypeOK, Config
    <3>2. \A n \in {1, 2} : 3 - n \in 1 .. 2
      OBVIOUS
    <3>3. (~conf.valid) \in BOOLEAN /\ (~conf.extra) \in BOOLEAN
      BY Zenon
    <3>4. CASE conf' = [conf EXCEPT !.v = 3 - @] \/ conf' = [conf EXCEPT !.v = 3 - @, !.e = 3 - @]
      BY <3>1, <3>2, <3>4 DEF Config
    <3>5. CASE conf' = [conf EXCEPT !.cred = 3 - @] \/ conf' = [conf EXCEPT !.tenants = 3 - @]
      BY <3>1, <3>2, <3>5 DEF Config
    <3>6. CASE conf' = [conf EXCEPT !.extra = ~@] \/ conf' = [conf EXCEPT !.valid = ~@]
      BY <3>1, <3>3, <3>6 DEF Config
    <3>7. CASE conf' = [conf EXCEPT !.fqdn = 3 - @, !.v = 3 - @, !.e = 3 - @]
      BY <3>1, <3>2, <3>7 DEF Config
    <3> QED BY <1>5, <3>4, <3>5, <3>6, <3>7 DEF Configures, Settings, Renames
  <2>2. ControlType'
    BY <1>1, <1>5, ControlKept DEF Configures
  <2> QED BY <1>5, <2>1, <2>2 DEF Configures
<1> QED BY <1>2, <1>3, <1>4, <1>5 DEF Deploys, Removes, Cut, Configures

LEMMA RereadType ==
    ASSUME TypeOK, NEW names
    PROVE  Reread(names) \in [env : 0 .. 2, read : [Mounted[svc] -> Version], open : BOOLEAN]
<1>1. main.read \in [Mounted[svc] -> Version] /\ files \in [Rendered -> Version] /\ Mounted[svc] \subseteq Rendered
  BY FileNames DEF TypeOK
<1>2. [f \in DOMAIN main.read |-> IF f \in names THEN files[f] ELSE main.read[f]] \in [Mounted[svc] -> Version]
  BY <1>1
<1> QED BY <1>2 DEF Reread, TypeOK

LEMMA TypeNext ==
    ASSUME HostInv, at = "deploy" => Blocks(todo), [Next]_svars
    PROVE  TypeOK'
<1>1. TypeOK
  BY DEF HostInv
<1>2. CASE Deploys(StepsOf) /\ UNCHANGED zVars
  BY <1>1, <1>2, OthersType, HostTypeKept, ZitadelTypeKept, TypeParts DEF zVars
<1>3. CASE (Removes \/ Cut \/ Configures) /\ UNCHANGED zVars
  BY <1>1, <1>3, OthersType, HostTypeKept, ZitadelTypeKept, TypeParts DEF zVars
<1>4. CASE (Watch /\ UNCHANGED zVars) \/ (Reboot /\ Interrupted /\ UNCHANGED <<pat, org, cf, cur>>)
  <2>1. /\ UNCHANGED <<svc, op, at, todo, verdict, conf, files, comp, extra, data, objs, baked, pat, org, cf, cur>>
        /\ inst' = inst \/ Interrupted
    BY <1>4 DEF Watch, Reboot, runVars, zVars
  <2>2. main' \in [env : 0 .. 2, read : [Mounted[svc] -> Version], open : BOOLEAN]
    BY <1>1, <1>4, RereadType DEF Watch, Reboot
  <2>3. ControlType'
    BY <1>1, <2>1, ControlKept
  <2>4. HostType'
    BY <1>1, <2>1, <2>2 DEF TypeOK, HostType, Rendered, Seeded
  <2>5. ZitadelType'
    BY <1>1, <2>1, ZitadelTypeKept
  <2>6. conf' \in Config
    BY <1>1, <2>1 DEF TypeOK
  <2> QED BY <2>3, <2>4, <2>5, <2>6, TypeParts
<1>5. CASE DeployerStep /\ UNCHANGED <<pat, org, cf, cur>> /\ (inst' = inst \/ Interrupted)
  BY <1>1, <1>5, DeployerTypes, ZitadelTypeKept, TypeParts
<1>6. CASE ZitadelStep
  <2>1. todo # <<>> /\ Kind \in PostKinds
    BY <1>6 DEF ZitadelStep, ReadPAT, WaitAPI, EnsureOrg, EnsurePart, UserNotFound, CreateClient, OpenClient,
           WriteClient, Now, Kind, PostKinds, TenantKinds, Parts
  <2>2. at = "deploy"
    BY <2>1, WhereTo, AtPost DEF HostInv
  <2> QED BY <1>6, <2>2, ZitadelTypes, TypeParts
<1>7. CASE FirstStart
  <2>1. UNCHANGED dvars /\ UNCHANGED <<cf, cur>>
    BY <1>7 DEF FirstStart
  <2>2. UNCHANGED <<svc, op, at, todo, verdict, conf, files, comp, main, extra, data, objs, baked>>
    BY <2>1 DEF dvars, runVars, svcVars
  <2>3. ControlType' /\ HostType' /\ conf' \in Config
    BY <1>1, <2>2, ControlKept, HostTypeKept DEF HostKept, TypeOK
  <2>4. ZitadelType'
    <3>1. CASE inst' = "half" /\ org' = WithOrg(Default) /\ pat' = pat /\ FreeOrgs # {}
      <4>1. org' \in [1 .. MaxOrg -> [tenant : Tenant \cup {"none"}, has : SUBSET Parts]]
        BY <1>1, <3>1, OrgType, ZitadelAssumption
      <4> QED BY <1>1, <2>1, <3>1, <4>1 DEF TypeOK, ZitadelType, TornFile
    <3>2. CASE inst' = "whole" /\ pat' = TRUE /\ org' = org
      <4>1. pat' \in BOOLEAN
        BY <3>2, Zenon
      <4> QED BY <1>1, <2>1, <3>2, <4>1 DEF TypeOK, ZitadelType, TornFile
    <3> QED BY <1>7, <3>1, <3>2 DEF FirstStart
  <2> QED BY <2>3, <2>4, TypeParts
<1>8. CASE ObeysPAT
  <2>1. UNCHANGED <<svc, op, at, todo, conf, files, comp, extra, objs, baked, cf, cur>>
    BY <1>8 DEF ObeysPAT
  <2>2. ControlType' /\ conf' \in Config
    BY <1>1, <1>8, <2>1, ControlKept DEF TypeOK
  <2>3. HostType'
    <3>1. main' = NotRunning /\ data' = FALSE
      BY <1>8 DEF ObeysPAT
    <3>2. data' \in BOOLEAN
      BY <3>1, Zenon
    <3>3. NotRunning \in [env : 0 .. 2, read : [Mounted[svc] -> Version], open : BOOLEAN]
      BY DEF NotRunning, Version, Torn
    <3> QED BY <1>1, <2>1, <3>1, <3>2, <3>3 DEF TypeOK, HostType, Rendered, Seeded
  <2>4. ZitadelType'
    <3>1. inst' = "none" /\ pat' = FALSE /\ org' = NoOrgs
      BY <1>8 DEF ObeysPAT
    <3>2. pat' \in BOOLEAN
      BY <3>1, Zenon
    <3>3. NoOrgs \in [1 .. MaxOrg -> [tenant : Tenant \cup {"none"}, has : SUBSET Parts]]
      BY DEF NoOrgs, NoOrg
    <3> QED BY <1>1, <2>1, <3>1, <3>2, <3>3 DEF TypeOK, ZitadelType, TornFile
  <2> QED BY <2>2, <2>3, <2>4, TypeParts
<1>9. CASE LosesPAT
  <2>1. pat' \in BOOLEAN
    <3>1. pat' = FALSE
      BY <1>9 DEF LosesPAT
    <3> QED BY <3>1, Zenon
  <2>2. ControlType' /\ HostType' /\ conf' \in Config
    BY <1>1, <1>9, ControlKept, HostTypeKept DEF LosesPAT, TypeOK
  <2>3. ZitadelType'
    BY <1>1, <1>9, <2>1 DEF TypeOK, ZitadelType, LosesPAT, TornFile
  <2> QED BY <2>2, <2>3, TypeParts
<1>10. CASE UNCHANGED svars
  <2>1. UNCHANGED <<svc, op, at, todo, verdict, conf, inst, pat, org, cf, cur>> /\ HostKept
    BY <1>10 DEF svars, dvars, runVars, svcVars, zVars, HostKept
  <2> QED BY <1>1, <2>1, ControlKept, HostTypeKept, ZitadelTypeKept, TypeParts DEF TypeOK
<1> QED BY <1>2, <1>3, <1>4, <1>5, <1>6, <1>7, <1>8, <1>9, <1>10 DEF Next, Statement

LEMMA TypeInit ==
    ASSUME Init
    PROVE  TypeOK
<1>1. /\ op = "none" /\ at = "idle" /\ verdict = [s \in Simple \cup {"zitadel"} |-> "none"] /\ svc \in Simple \cup {"zitadel"}
      /\ todo = <<>> /\ files = [f \in Rendered |-> 0] /\ comp = NoCompose /\ main = NotRunning
      /\ extra = FALSE /\ data = FALSE /\ objs = [o \in Seeded |-> 0] /\ baked = 0
      /\ inst = "none" /\ pat = FALSE /\ org = NoOrgs /\ cf = [f \in ClientFile |-> 0] /\ cur = 0
  BY DEF Init, DeployersInit, RunInit, ZitadelInit
<1>2. conf \in Config
  <2>1. conf \in [v : {1}, e : {1}, cred : {1}, valid : {TRUE}, inside : IF svc \in Nested THEN BOOLEAN ELSE {FALSE},
                  extra : IF svc = "harbor" THEN BOOLEAN ELSE {FALSE},
                  backup : IF svc = "sftp" THEN {"none", "name", "loopback"} ELSE {"none"},
                  tenants : IF svc = "zitadel" THEN {1, 2} ELSE {1}, fqdn : {1}]
    BY DEF Init, DeployersInit
  <2>2. /\ conf.inside \in BOOLEAN /\ conf.extra \in BOOLEAN /\ conf.backup \in {"none", "name", "loopback"}
        /\ conf.tenants \in 1 .. 2 /\ conf.fqdn = 1 /\ conf.v = 1 /\ conf.e = 1 /\ conf.cred = 1 /\ conf.valid = TRUE
    <3>1. conf.v = 1 /\ conf.e = 1 /\ conf.cred = 1 /\ conf.fqdn = 1
      BY <2>1
    <3>2. conf.valid \in {TRUE}
      BY <2>1
    <3>3. conf.inside \in BOOLEAN
      <4>1. conf.inside \in IF svc \in Nested THEN BOOLEAN ELSE {FALSE}
        BY <2>1
      <4> QED BY <4>1, Zenon
    <3>4. conf.extra \in BOOLEAN
      <4>1. conf.extra \in IF svc = "harbor" THEN BOOLEAN ELSE {FALSE}
        BY <2>1
      <4> QED BY <4>1, Zenon
    <3>5. conf.backup \in {"none", "name", "loopback"}
      BY <2>1
    <3>6. conf.tenants \in 1 .. 2
      BY <2>1
    <3>7. conf.valid = TRUE
      BY <3>2, Zenon
    <3> QED BY <3>1, <3>3, <3>4, <3>5, <3>6, <3>7
  <2>3. conf.valid \in BOOLEAN
    BY <2>2, Zenon
  <2>4. conf = [v |-> conf.v, e |-> conf.e, cred |-> conf.cred, valid |-> conf.valid, inside |-> conf.inside,
                extra |-> conf.extra, backup |-> conf.backup, tenants |-> conf.tenants,
                fqdn |-> conf.fqdn]
    BY <2>1
  <2>5. conf.v \in 1 .. 2 /\ conf.e \in 1 .. 2 /\ conf.cred \in 1 .. 2 /\ conf.fqdn \in 1 .. 2
    BY <2>2
  <2> QED BY <2>2, <2>3, <2>4, <2>5 DEF Config
<1>3. ControlType
  BY <1>1 DEF ControlType, Idle, Verdicts
<1>4. HostType
  <2>1. extra \in BOOLEAN /\ data \in BOOLEAN
    BY <1>1, Zenon
  <2>2. NoCompose \in [extra : BOOLEAN, bound : BOOLEAN]
    BY DEF NoCompose
  <2>3. NotRunning \in [env : 0 .. 2, read : [Mounted[svc] -> Version], open : BOOLEAN]
    BY DEF NotRunning, Version, Torn
  <2> QED BY <1>1, <2>1, <2>2, <2>3 DEF HostType, Version, Torn
<1>5. ZitadelType
  <2>1. pat \in BOOLEAN
    BY <1>1, Zenon
  <2>2. NoOrgs \in [1 .. MaxOrg -> [tenant : Tenant \cup {"none"}, has : SUBSET Parts]]
    BY DEF NoOrgs, NoOrg
  <2> QED BY <1>1, <2>1, <2>2, ZitadelAssumption DEF ZitadelType, TornFile
<1> QED BY <1>2, <1>3, <1>4, <1>5, TypeParts
-----------------------------------------------------------------------------
(***************************************************************************)
(* The order of what a deployment has left.                                *)
(***************************************************************************)
InOrder(s) == Ordered(s) /\ (svc # "zitadel" => \A i \in DOMAIN s : s[i][1] \notin TenantKinds)
OrderInv == at = "deploy" => InOrder(todo)

LEMMA InOrderTail ==
    ASSUME NEW s \in Seq(Stmt), s # <<>>, InOrder(s)
    PROVE  InOrder(Tail(s)) /\ Tail(s) \in Seq(Stmt)
<1>1. Ordered(Tail(s))
  BY BlocksTail, PatFirstTail DEF InOrder, Ordered
<1>2. svc # "zitadel" => \A i \in DOMAIN Tail(s) : Tail(s)[i][1] \notin TenantKinds
  BY TailPlaces DEF InOrder
<1> QED BY <1>1, <1>2, TailPlaces DEF InOrder

LEMMA ThreeTails ==
    ASSUME NEW s \in Seq(Stmt), s # <<>>, Tail(s) # <<>>, Tail(Tail(s)) # <<>>
    PROVE  SubSeq(s, 4, Len(s)) = Tail(Tail(Tail(s)))
<1> DEFINE n == Len(s)
           u == Tail(Tail(Tail(s)))
           w == SubSeq(s, 4, n)
<1>1. n \in Nat /\ n >= 3 /\ Len(u) = n - 3 /\ u \in Seq(Stmt)
  OBVIOUS
<1>2. w \in Seq(Stmt) /\ Len(w) = n - 3
  <2>1. 4 \in Int /\ n \in Int /\ \A i \in 4 .. n : s[i] \in Stmt
    OBVIOUS
  <2>2. SubSeq(s, 4, n) \in Seq(Stmt) /\ Len(SubSeq(s, 4, n)) = IF 4 <= n THEN n - 4 + 1 ELSE 0
    <3> HIDE DEF n
    <3> QED BY <2>1, SubSeqProperties
  <2> HIDE DEF n
  <2> QED BY <1>1, <2>2
<1>3. \A i \in 1 .. n - 3 : w[i] = s[i + 3]
  BY <1>1
<1>4. \A i \in 1 .. n - 3 : u[i] = s[i + 3]
  BY <1>1
<1> HIDE DEF u, w, n
<1>5. u = w
  BY <1>1, <1>2, <1>3, <1>4, SeqEqual
<1> QED BY <1>5 DEF u, w, n
\* What a statement leaves to do.
Skips ==
    \/ todo' = Tail(todo)
    \/ UserNotFound /\ Tail(todo) # <<>> /\ todo' = Tail(Tail(todo))
    \/ CreateClient /\ Tail(todo) # <<>> /\ Tail(Tail(todo)) # <<>> /\ todo' = Tail(Tail(Tail(todo)))

LEMMA ZitadelDue ==
    ASSUME HostInv, ZitadelStep
    PROVE  /\ todo # <<>> /\ Kind \in PostKinds /\ at = "deploy" /\ todo \in Seq(Post) /\ todo \in Seq(Stmt) /\ HostKept
           /\ op = svc /\ Runs /\ TypeOK /\ svc # "none"
<1>1. todo # <<>> /\ Kind \in PostKinds /\ HostKept
  BY DEF ZitadelStep, ReadPAT, WaitAPI, EnsureOrg, EnsurePart, UserNotFound, CreateClient, OpenClient, WriteClient, Now,
         Kind, PostKinds, TenantKinds, Parts
<1>2. at = "deploy" /\ Provisions(todo) /\ todo \in Seq(Stmt) /\ op = svc /\ Runs
  BY <1>1, WhereTo, AtPost DEF HostInv
<1> QED BY <1>1, <1>2, Versions DEF Provisions, HostInv

\* The tenant's statements stand together.
LEMMA TenantDue ==
    ASSUME todo \in Seq(Post), todo \in Seq(Stmt), todo # <<>>, Blocks(todo), NEW k \in 1 .. 8, Kind = KindAt[k]
    PROVE  /\ What \in Tenant /\ Head(todo) = <<KindAt[k], What>>
           /\ k < 8 => Tail(todo) # <<>> /\ Head(Tail(todo)) = <<KindAt[k + 1], What>>
           /\ \A j \in k .. 8 : Has(<<KindAt[j], What>>, todo)
<1>1. What \in Tenant /\ Head(todo) = <<KindAt[k], What>>
  BY TenantHead, KindsAre
<1> QED BY <1>1, BlockHead

\* A deployment is under way, or ended well.
Live == at = "deploy" \/ Ok

LEMMA Moving ==
    ASSUME TypeOK, at \in {"deploy", "remove", "cancelled"}, op = svc, svc # "none", NEW rest, Move(rest), Live'
    PROVE  at = "deploy" /\ todo' = rest /\ (at' = "deploy" => op' = op /\ verdict' = verdict)
<1>1. svc' = svc /\ todo' = rest /\ svc \in DOMAIN verdict
  BY DEF Move, TypeOK
<1>2. CASE rest = <<>>
  <2>1. op' = "none" /\ at' = "idle" /\ verdict'[svc] = Outcome
    BY <1>1, <1>2 DEF Move, Ends
  <2> QED BY <1>1, <2>1 DEF Live, Ok, Idle, Outcome
<1>3. CASE rest # <<>>
  BY <1>1, <1>3 DEF Move, Live, Ok, Idle
<1> QED BY <1>2, <1>3

LEMMA Stopping ==
    ASSUME TypeOK, NEW v \in Bad, Stops(v)
    PROVE  ~Live'
  BY DEF TypeOK, Stops, Ends, Live, Ok, Bad

LEMMA StatementMoves ==
    ASSUME HostInv, OrderInv, DeployerStep \/ ZitadelStep
    PROVE  /\ svc' = svc /\ conf' = conf /\ todo # <<>> /\ todo \in Seq(Stmt) /\ op = svc
           /\ Live' => at = "deploy" /\ Skips
           /\ at' = "deploy" => op' = op /\ verdict' = verdict
<1>0. TypeOK /\ svc # "none"
  BY Versions DEF HostInv
<1>1. CASE DeployerStep
  <2>1. todo # <<>> /\ (Done \/ (\E v \in Bad : Stops(v)) \/ (Down /\ ~Done))
    BY <1>1, EndsOrGoes
       DEF DeployerStep, Guard, Vars, CAReady, IssueCert, Build, OpenFile, WriteFile, Down, Prepare, FindPort, Bind, Up, Wait,
           Login, Dial, Ensure, SetPassword, Clear, Forget, Now, Outside, Fails, PortMissing
  <2>2. todo \in Seq(Stmt) /\ op = svc /\ at \in {"deploy", "remove", "cancelled"}
    BY <2>1, WhereTo DEF HostInv, TypeOK
  <2>3. CASE Done
    <3>1. Move(Tail(todo)) /\ svc' = svc /\ conf' = conf
      BY <2>3, EndsOrGoes DEF Move
    <3> QED BY <1>0, <2>1, <2>2, <3>1, Moving DEF Skips, Live
  <2>4. CASE \E v \in Bad : Stops(v)
    BY <1>0, <2>1, <2>2, <2>4, Stopping DEF Stops, Live
  <2>5. CASE Down /\ ~Done
    BY <1>0, <2>1, <2>2, <2>5 DEF Down, Skips, Live, Ok, Idle
  <2> QED BY <2>1, <2>3, <2>4, <2>5
<1>2. CASE ZitadelStep
  <2>1. /\ todo # <<>> /\ at = "deploy" /\ todo \in Seq(Post) /\ todo \in Seq(Stmt) /\ op = svc /\ Blocks(todo)
        /\ at \in {"deploy", "remove", "cancelled"}
    BY <1>2, ZitadelDue DEF OrderInv, InOrder, Ordered
  <2>2. CASE Done
    <3>1. Move(Tail(todo)) /\ svc' = svc /\ conf' = conf
      BY <2>2, EndsOrGoes DEF Move
    <3> QED BY <1>0, <2>1, <3>1, Moving DEF Skips, Live
  <2>3. CASE \E v \in Bad : Stops(v)
    BY <1>0, <2>1, <2>3, Stopping DEF Stops, Live
  <2>4. CASE todo' = Tail(todo) /\ UNCHANGED <<op, at, verdict, svc, conf>>
    BY <2>1, <2>4 DEF Skips
  <2>5. CASE UserNotFound
    <3>1. Kind = KindAt[7] /\ 7 \in 1 .. 8 /\ 7 < 8
      <4>1. KindAt[7] = "user"
        BY KindsAre
      <4> QED BY <2>5, <4>1 DEF UserNotFound, Now, Kind
    <3>2. Tail(todo) # <<>>
      BY <2>1, <3>1, TenantDue
    <3>3. Move(Tail(Tail(todo))) /\ svc' = svc /\ conf' = conf
      BY <2>1, <2>5 DEF UserNotFound, Move, Outcome
    <3> QED BY <1>0, <2>1, <2>5, <3>2, <3>3, Moving DEF Skips, Live
  <2>6. CASE CreateClient /\ SkipClient
    <3>1. Kind = KindAt[4] /\ 4 \in 1 .. 8 /\ 4 < 8
      <4>1. KindAt[4] = "client"
        BY KindsAre
      <4> QED BY <2>6, <4>1 DEF CreateClient, Now, Kind
    <3>2. Tail(todo) # <<>> /\ What \in Tenant /\ Head(Tail(todo)) = <<KindAt[4 + 1], What>>
      BY <2>1, <3>1, TenantDue
    <3>3. 5 \in 1 .. 8 /\ 5 < 8 /\ Head(Tail(todo)) = <<KindAt[5], What>> /\ Tail(todo) \in Seq(Stmt) /\ Blocks(Tail(todo))
      BY <2>1, <3>2, BlocksTail
    <3>4. Tail(Tail(todo)) # <<>>
      BY <3>2, <3>3, BlockHead
    <3>5. SubSeq(todo, 4, Len(todo)) = Tail(Tail(Tail(todo)))
      BY <2>1, <3>2, <3>4, ThreeTails
    <3>6. Move(Tail(Tail(Tail(todo)))) /\ svc' = svc /\ conf' = conf
      BY <2>6, <3>5 DEF SkipClient, Then, Move
    <3> QED BY <1>0, <2>1, <2>6, <3>2, <3>4, <3>6, Moving DEF Skips, Live
  <2>7. \/ Done \/ (\E v \in Bad : Stops(v)) \/ (todo' = Tail(todo) /\ UNCHANGED <<op, at, verdict, svc, conf>>)
        \/ UserNotFound \/ (CreateClient /\ SkipClient)
    BY <1>2, EndsOrGoes
       DEF ZitadelStep, ReadPAT, WaitAPI, EnsureOrg, EnsurePart, CreateClient, OpenClient, WriteClient, Conflict
  <2> QED BY <2>2, <2>3, <2>4, <2>5, <2>6, <2>7
<1> QED BY <1>1, <1>2

LEMMA OrderNext ==
    ASSUME HostInv, OrderInv, [Next]_svars
    PROVE  OrderInv' /\ svc' = svc
<1>1. CASE Deploys(StepsOf)
  <2>1. InOrder(StepsOf)
    BY StepsOrder DEF HostInv, InOrder
  <2> QED BY <1>1, <2>1 DEF OrderInv, InOrder, Deploys
<1>2. CASE Removes \/ Cut
  BY <1>2 DEF Removes, Cut, CutShort, Ends, OrderInv
<1>3. CASE Watch \/ Reboot \/ Configures \/ FirstStart \/ ObeysPAT \/ LosesPAT \/ UNCHANGED svars
  <2>1. UNCHANGED <<at, svc, todo>>
    BY <1>3 DEF Watch, Reboot, Configures, FirstStart, ObeysPAT, LosesPAT, svars, dvars, runVars, svcVars
  <2> QED BY <2>1 DEF OrderInv, InOrder
<1>4. CASE DeployerStep \/ ZitadelStep
  <2>1. /\ svc' = svc /\ todo # <<>> /\ todo \in Seq(Stmt)
        /\ at' = "deploy" => at = "deploy" /\ Skips
    BY <1>4, StatementMoves DEF Live
  <2>2. CASE at' = "deploy"
    <3>1. InOrder(todo)
      BY <2>1, <2>2 DEF OrderInv
    <3>2. InOrder(todo')
      BY <2>1, <2>2, <3>1, InOrderTail DEF Skips
    <3> QED BY <2>1, <3>2 DEF OrderInv, InOrder
  <2> QED BY <2>1, <2>2 DEF OrderInv
<1> QED BY <1>1, <1>2, <1>3, <1>4 DEF Next, Statement
-----------------------------------------------------------------------------
(***************************************************************************)
(* What a deployment or a removal may never do to the host.                *)
(***************************************************************************)
StepInv == HostInv /\ OrderInv

\* In every reachable state the host is as far as the statements left say, and they stand
\* in the order of their deployer.
LEMMA StepInvHolds == Spec => []StepInv
<1>1. Init => StepInv
  BY TypeInit, HostInit DEF StepInv, OrderInv, Init, DeployersInit, RunInit
<1>2. StepInv /\ [Next]_svars => StepInv'
  <2> SUFFICES ASSUME StepInv, [Next]_svars PROVE StepInv'
    OBVIOUS
  <2>1. HostInv /\ OrderInv /\ (at = "deploy" => Blocks(todo))
    BY DEF StepInv, OrderInv, InOrder, Ordered
  <2> QED BY <2>1, TypeNext, HostNext, OrderNext DEF StepInv
<1> QED BY <1>1, <1>2, PTL DEF Spec

\* Nothing but a removal of a data directory in the runtime directory takes data.
DataStays == data /\ (svc \in Guarded \/ ~conf.inside) /\ op = svc => data'
LEMMA DataStaysNext ==
    ASSUME HostInv, [Next]_svars
    PROVE  DataStays
<1> SUFFICES ASSUME data, svc \in Guarded \/ ~conf.inside, op = svc PROVE data'
  BY DEF DataStays
<1>1. ~Idle
  BY Versions DEF HostInv, Idle
<1>2. ~conf.inside
  BY DEF HostInv, GuardFirst
<1>3. CASE Deploys(StepsOf) \/ Removes \/ Cut \/ Configures
  BY <1>1, <1>3 DEF Deploys, Begins, Removes, Configures, Cut, HostKept
<1>4. CASE Watch \/ Reboot \/ FirstStart \/ UNCHANGED svars
  BY <1>4 DEF Watch, Reboot, FirstStart, svars, dvars, svcVars
<1>5. CASE ObeysPAT \/ LosesPAT
  BY <1>1, <1>5 DEF ObeysPAT, LosesPAT
<1>6. CASE DeployerStep
  <2>1. CASE Up \/ Clear
    BY <1>2, <2>1 DEF Up, Clear
  <2>2. CASE ~(Up \/ Clear)
    BY <1>6, <2>2 DEF DeployerStep, Guard, Vars, CAReady, IssueCert, Build, OpenFile, WriteFile, Down, Prepare, FindPort,
       Bind, Wait, Login, Dial, Ensure, SetPassword, Forget, HostKept
  <2> QED BY <2>1, <2>2
<1>7. CASE ZitadelStep
  BY <1>7, ZitadelDue DEF HostKept
<1> QED BY <1>3, <1>4, <1>5, <1>6, <1>7 DEF Next, Statement

\* A deployment that is refused has not touched the stack.
Refused == Idle' /\ verdict[svc] \in {"ok", "changed"} /\ verdict'[svc] \in {"config", "not ready"} => main.env # 0
LEMMA AtRefusal ==
    ASSUME Moves, Kind \in Checking \cup {"build"}
    PROVE  Serving
  BY DEF Moves, PlainMove, HarborMove, CommonMove, RemoveMove, Checking, Filing, At, PostKinds, TenantKinds

\* How a statement may end.
Ended(V) == verdict'[svc] = verdict[svc] \/ verdict'[svc] \in V
LEMMA Endings ==
    ASSUME HostInv, todo # <<>>
    PROVE  /\ \A rest : Move(rest) => Ended({"ok", "removed", "failed"})
           /\ \A v : Stops(v) => Ended({v})
<1>1. TypeOK /\ at \in {"deploy", "remove", "cancelled"}
  BY WhereTo DEF HostInv, TypeOK
<1>2. svc \in DOMAIN verdict /\ Outcome \in {"ok", "removed", "failed"}
  BY <1>1 DEF TypeOK, Outcome
<1> QED BY <1>2 DEF Move, Stops, Ends, Ended

LEMMA RefusedNext ==
    ASSUME HostInv, OrderInv, [Next]_svars
    PROVE  Refused
<1> SUFFICES ASSUME verdict[svc] \in {"ok", "changed"}, verdict'[svc] \in {"config", "not ready"}
             PROVE  main.env # 0
  BY DEF Refused
<1>0. TypeOK /\ svc \in DOMAIN verdict
  BY DEF HostInv, TypeOK
<1>1. verdict'[svc] # verdict[svc] /\ \A V : {"config", "not ready"} \cap V = {} => ~Ended(V)
  BY DEF Ended
<1>2. ~(Deploys(StepsOf) \/ Removes \/ Watch \/ Reboot \/ FirstStart \/ UNCHANGED svars)
  BY <1>1 DEF Deploys, Removes, Watch, Reboot, FirstStart, svars, dvars, runVars
<1>3. ~(Cut \/ ObeysPAT)
  BY <1>0, <1>1 DEF Cut, CutShort, Ends, ObeysPAT, TypeOK, Idle
<1>4. ~(Configures \/ LosesPAT)
  BY <1>0, <1>1 DEF Configures, LosesPAT, Changed
<1>5. todo # <<>> => /\ \A rest : ~Move(rest)
                     /\ \A v : v \notin {"config", "not ready"} => ~Stops(v)
                     /\ ~Done
  <2> SUFFICES ASSUME todo # <<>>
               PROVE  (\A rest : ~Move(rest)) /\ (\A v : v \notin {"config", "not ready"} => ~Stops(v)) /\ ~Done
    OBVIOUS
  <2>1. \A rest : ~Move(rest)
    <3>1. ~Ended({"ok", "removed", "failed"})
      BY <1>1
    <3> QED BY <3>1, Endings
  <2>2. \A v : v \notin {"config", "not ready"} => ~Stops(v)
    BY <1>1, Endings
  <2> QED BY <2>1, <2>2, EndsOrGoes
<1>6. ~ZitadelStep
  <2>1. ZitadelStep => /\ todo # <<>>
                       /\ \/ Done \/ (\E v \in {"failed", "pat", "conflict"} : Stops(v))
                          \/ (verdict' = verdict) \/ UserNotFound \/ (CreateClient /\ SkipClient)
    BY DEF ZitadelStep, ReadPAT, WaitAPI, EnsureOrg, EnsurePart, CreateClient, OpenClient, WriteClient, Fails, Outside, Conflict,
           UserNotFound, Now
  <2>2. ZitadelStep /\ UserNotFound => Move(Tail(Tail(todo)))
    BY ZitadelDue DEF UserNotFound, Move, Outcome
  <2>3. SkipClient => Move(SubSeq(todo, 4, Len(todo)))
    BY DEF SkipClient, Then, Move
  <2> QED BY <1>1, <1>5, <2>1, <2>2, <2>3
<1>7. DeployerStep => Guard \/ Vars \/ CAReady \/ IssueCert \/ Build
  <2>1. DeployerStep /\ ~(Guard \/ Vars \/ CAReady \/ IssueCert \/ Build) =>
            /\ todo # <<>>
            /\ Done \/ (\E v \in {"failed", "login", "unreachable", "shape"} : Stops(v)) \/ verdict' = verdict
    BY DEF DeployerStep, OpenFile, WriteFile, Down, Prepare, FindPort, Bind, Up, Wait, Login, Dial, Ensure, SetPassword, Clear,
           Forget, Now, Outside, Fails, PortMissing
  <2> QED BY <1>1, <1>5, <2>1
<1>8. CASE Guard \/ Vars \/ CAReady \/ IssueCert \/ Build
  <2>1. todo # <<>> /\ Kind \in Checking \cup {"build"}
    BY <1>8 DEF Guard, Vars, CAReady, IssueCert, Build, Now, Kind, Checking
  <2> QED BY <2>1, WhereTo, AtRefusal DEF HostInv, Serving
<1> QED BY <1>2, <1>3, <1>4, <1>6, <1>7, <1>8 DEF Next, Statement

Explained ==
    \/ Spent({"docker", "cancel", "cut"})
    \/ /\ Idle /\ verdict[svc] = "removed" => main = NotRunning
       /\ extra => comp.extra
LEMMA HostExplained ==
    ASSUME HostInv
    PROVE  HarborStaysLocal /\ Explained
<1>1. ~Spent({"docker", "cancel", "cut"}) => DownWorks
  BY DEF Spent, DownWorks
<1> QED BY <1>1 DEF HostInv, Local, HarborStaysLocal, Control, IdlePart, Declared, Explained, Idle

\* The deployers of deploy/*.go never open Harbor's cleartext port to other machines, keep the
\* data a removal promises to keep (deploy.go:410-413), refuse a deployment before they have
\* taken anything down, and leave nothing running that a removal or an edit took away, unless
\* docker or a cut stood in the way of a `down`.
THEOREM HostIsRespectedHolds == Spec => HostIsRespected
<1>1. StepInv => HarborStaysLocal /\ Explained
  BY HostExplained DEF StepInv
<1>2. StepInv /\ [Next]_svars => [DataStays]_svars /\ [Refused]_svars
  BY DataStaysNext, RefusedNext DEF StepInv
<1>3. Spec => []HarborStaysLocal /\ [][DataStays]_svars /\ [][Refused]_svars /\ []Explained
  BY StepInvHolds, <1>1, <1>2, PTL DEF Spec
<1> QED BY <1>3 DEF HostIsRespected, DataSurvives, RefusalKeepsServing, DataStays, Refused, Explained
-----------------------------------------------------------------------------
(***************************************************************************)
(* What a deployment that ends well has seeded.                            *)
(***************************************************************************)
\* What a statement drops from what is left: itself, and what it makes needless.
LEMMA Dropped ==
    ASSUME HostInv, OrderInv, at = "deploy", todo # <<>>, todo \in Seq(Stmt), Skips, NEW x, Has(x, todo)
    PROVE  \/ Has(x, todo') \/ x = Head(todo)
           \/ UserNotFound /\ x = <<"grant", What>>
           \/ CreateClient /\ (x = <<"open client", What>> \/ x = <<"write client", What>>)
<1>0. Has(x, Tail(todo)) \/ x = Head(todo)
  BY TailHas
<1>1. CASE todo' = Tail(todo)
  BY <1>0, <1>1
<1>2. CASE UserNotFound /\ Tail(todo) # <<>> /\ todo' = Tail(Tail(todo))
  <2>1. ZitadelStep /\ Kind = KindAt[7] /\ 7 \in 1 .. 8 /\ 7 < 8
    <3>1. KindAt[7] = "user"
      BY KindsAre
    <3> QED BY <1>2, <3>1 DEF ZitadelStep, UserNotFound, Now, Kind
  <2>2. Head(Tail(todo)) = <<KindAt[8], What>> /\ KindAt[8] = "grant"
    <3>1. todo \in Seq(Post) /\ Blocks(todo)
      BY <2>1, ZitadelDue DEF OrderInv, InOrder, Ordered
    <3>2. Head(Tail(todo)) = <<KindAt[7 + 1], What>>
      BY <2>1, <3>1, TenantDue
    <3>3. 7 + 1 = 8
      OBVIOUS
    <3>4. Head(Tail(todo)) = <<KindAt[8], What>>
      BY <3>2, <3>3
    <3> QED BY <3>4, KindsAre
  <2>3. Tail(todo) \in Seq(Stmt)
    OBVIOUS
  <2>4. Has(x, Tail(todo)) => x = Head(Tail(todo)) \/ Has(x, Tail(Tail(todo)))
    BY <1>2, <2>3, TailHas
  <2> QED BY <1>0, <1>2, <2>2, <2>4
<1>3. CASE CreateClient /\ Tail(todo) # <<>> /\ Tail(Tail(todo)) # <<>> /\ todo' = Tail(Tail(Tail(todo)))
  <2>1. ZitadelStep /\ Kind = KindAt[4] /\ 4 \in 1 .. 8 /\ 4 < 8
    <3>1. KindAt[4] = "client"
      BY KindsAre
    <3> QED BY <1>3, <3>1 DEF ZitadelStep, CreateClient, Now, Kind
  <2>2. Head(Tail(todo)) = <<KindAt[5], What>> /\ KindAt[5] = "open client" /\ What \in Tenant /\ Blocks(Tail(todo))
    <3>1. todo \in Seq(Post) /\ Blocks(todo)
      BY <2>1, ZitadelDue DEF OrderInv, InOrder, Ordered
    <3>2. Head(Tail(todo)) = <<KindAt[4 + 1], What>> /\ What \in Tenant
      BY <2>1, <3>1, TenantDue
    <3>3. 4 + 1 = 5
      OBVIOUS
    <3>4. Head(Tail(todo)) = <<KindAt[5], What>>
      BY <3>2, <3>3
    <3>5. Blocks(Tail(todo))
      BY <3>1, BlocksTail
    <3> QED BY <3>2, <3>4, <3>5, KindsAre
  <2>3. Tail(todo) \in Seq(Stmt) /\ Tail(Tail(todo)) \in Seq(Stmt)
    BY <1>3
  <2>4. Head(Tail(Tail(todo))) = <<KindAt[6], What>> /\ KindAt[6] = "write client"
    <3>1. 5 \in 1 .. 8 /\ 5 < 8
      OBVIOUS
    <3>2. Head(Tail(Tail(todo))) = <<KindAt[5 + 1], What>>
      BY <1>3, <2>2, <2>3, <3>1, BlockHead
    <3>3. 5 + 1 = 6
      OBVIOUS
    <3>4. Head(Tail(Tail(todo))) = <<KindAt[6], What>>
      BY <3>2, <3>3
    <3> QED BY <3>4, KindsAre
  <2>5. /\ Has(x, Tail(todo)) => x = Head(Tail(todo)) \/ Has(x, Tail(Tail(todo)))
        /\ Has(x, Tail(Tail(todo))) => x = Head(Tail(Tail(todo))) \/ Has(x, Tail(Tail(Tail(todo))))
    BY <1>3, <2>3, TailHas
  <2> QED BY <1>0, <1>3, <2>2, <2>4, <2>5
<1> QED BY <1>1, <1>2, <1>3 DEF Skips

\* What a deployment without provisioning of tenants is to seed.
SeedOf(o) ==
    Has(<<"ensure", o>>, todo) \/ objs[o] # 0 \/ (svc = "sftp" /\ conf.backup = "none") \/ svc = "keycloak"
PasswordOf(u) == Has(<<"set", u>>, todo) \/ objs[u] = conf.v
SeedInv ==
    /\ svc = "keycloak" /\ data => objs["realm"] # 0
    /\ Live => /\ \A o \in Seeded : SeedOf(o)
               /\ svc = "lldap" => \A u \in Passwords : PasswordOf(u)

LEMMA EightAt ==
    \A a, b, c, d, e, f, g, h :
        LET s == <<a, b, c, d, e, f, g, h>>
        IN  /\ DOMAIN s = 1 .. 8
            /\ s[1] = a /\ s[2] = b /\ s[3] = c /\ s[4] = d /\ s[5] = e /\ s[6] = f /\ s[7] = g /\ s[8] = h
  OBVIOUS

LEMMA LLDAPHas ==
    /\ \A o \in {LLDAPSeed[i][2] : i \in DOMAIN LLDAPSeed} : Has(<<"ensure", o>>, LLDAPSeed)
    /\ \A u \in Passwords : Has(<<"set", u>>, LLDAPSeed)
    /\ Passwords \subseteq {LLDAPSeed[i][2] : i \in DOMAIN LLDAPSeed}
<1> DEFINE e(o) == <<"ensure", o>>
           s(o) == <<"set", o>>
<1>1. LLDAPSeed = <<e("admins"), e("readers"), e("bind user"), e("admin user"), s("bind user"), s("admin user"),
                    e("bind in readers"), e("admin in admins")>>
  BY DEF LLDAPSeed
<1>2. \A o : e(o)[2] = o /\ s(o)[2] = o
  OBVIOUS
<1> HIDE DEF e, s
<1>3. /\ DOMAIN LLDAPSeed = 1 .. 8 /\ LLDAPSeed[1] = e("admins") /\ LLDAPSeed[2] = e("readers") /\ LLDAPSeed[3] = e("bind user")
      /\ LLDAPSeed[4] = e("admin user") /\ LLDAPSeed[5] = s("bind user") /\ LLDAPSeed[6] = s("admin user")
      /\ LLDAPSeed[7] = e("bind in readers") /\ LLDAPSeed[8] = e("admin in admins")
  BY <1>1, EightAt
<1>4. {1, 2, 3, 4, 5, 6, 7, 8} = 1 .. 8
  OBVIOUS
<1>5. {LLDAPSeed[i][2] : i \in DOMAIN LLDAPSeed} =
          {"admins", "readers", "bind user", "admin user", "bind in readers", "admin in admins"}
  <2>1. \A i \in {1, 2, 3, 4, 5, 6, 7, 8} :
           LLDAPSeed[i][2] \in {"admins", "readers", "bind user", "admin user", "bind in readers", "admin in admins"}
    <3>1. /\ LLDAPSeed[1][2] = "admins" /\ LLDAPSeed[2][2] = "readers" /\ LLDAPSeed[3][2] = "bind user"
          /\ LLDAPSeed[4][2] = "admin user" /\ LLDAPSeed[5][2] = "bind user" /\ LLDAPSeed[6][2] = "admin user"
          /\ LLDAPSeed[7][2] = "bind in readers" /\ LLDAPSeed[8][2] = "admin in admins"
      BY <1>2, <1>3
    <3> QED BY <3>1
  <2>2. \A o \in {"admins", "readers", "bind user", "admin user", "bind in readers", "admin in admins"} :
           \E i \in {1, 2, 3, 4, 5, 6, 7, 8} : LLDAPSeed[i][2] = o
    BY <1>2, <1>3
  <2>3. DOMAIN LLDAPSeed = {1, 2, 3, 4, 5, 6, 7, 8}
    BY <1>3, <1>4
  <2> DEFINE I == {1, 2, 3, 4, 5, 6, 7, 8}
             O == {"admins", "readers", "bind user", "admin user", "bind in readers", "admin in admins"}
  <2>4. DOMAIN LLDAPSeed = I /\ (\A i \in I : LLDAPSeed[i][2] \in O) /\ \A o \in O : \E i \in I : LLDAPSeed[i][2] = o
    BY <2>1, <2>2, <2>3
  <2>5. {LLDAPSeed[i][2] : i \in DOMAIN LLDAPSeed} = O
    <3> HIDE DEF I, O
    <3> QED BY <2>4
  <2> QED BY <2>5
<1>6. /\ Has(e("admins"), LLDAPSeed) /\ Has(e("readers"), LLDAPSeed) /\ Has(e("bind user"), LLDAPSeed)
      /\ Has(e("admin user"), LLDAPSeed) /\ Has(s("bind user"), LLDAPSeed) /\ Has(s("admin user"), LLDAPSeed)
      /\ Has(e("bind in readers"), LLDAPSeed) /\ Has(e("admin in admins"), LLDAPSeed)
  BY <1>3, <1>4 DEF Has
<1> QED BY <1>5, <1>6 DEF e, s, Passwords

LEMMA SeedSteps ==
    ASSUME TypeOK
    PROVE  /\ \A o \in Seeded : Has(<<"ensure", o>>, StepsOf) \/ (svc = "sftp" /\ conf.backup = "none") \/ svc = "keycloak"
           /\ svc = "lldap" => \A u \in Passwords : Has(<<"set", u>>, StepsOf)
<1>1. CASE svc = "sftp"
  <2>1. Seeded = {"backup user"} /\ StepsOf = SFTPSteps
    BY <1>1, StepsAre DEF Seeded
  <2>2. conf.backup # "none" => Has(<<"ensure", "backup user">>, BackupUserSteps)
    <3> DEFINE x == <<"dial">>
               y == <<"login">>
               z == <<"ensure", "backup user">>
    <3>1. conf.backup # "none" => BackupUserSteps = <<x, y, z>>
      BY DEF BackupUserSteps
    <3> HIDE DEF x, y, z
    <3>2. <<x, y, z>>[3] = z /\ 3 \in DOMAIN <<x, y, z>>
      OBVIOUS
    <3> QED BY <3>1, <3>2 DEF Has, z
  <2>3. /\ <<<<"vars">>>> \in Seq(Stmt) /\ Restart \in Seq(Stmt) /\ BackupUserSteps \in Seq(Stmt)
        /\ <<<<"vars">>>> \o Restart \in Seq(Stmt)
    <3>1. Restart \in Seq(Stmt)
      BY PlainFiles, SeqInclusion DEF Plain
    <3>2. BackupUserSteps \in Seq(Stmt)
      BY SFTPProgram, Inclusion, SeqInclusion
    <3>3. <<<<"vars">>>> \in Seq(Stmt)
      <4>1. <<"vars">> \in Stmt
        BY PlainStatements DEF Plain
      <4> QED BY <4>1, Tuples
    <3> QED BY <3>1, <3>2, <3>3, Assoc
  <2>4. conf.backup # "none" => Has(<<"ensure", "backup user">>, SFTPSteps)
    BY <2>2, <2>3, CatHas DEF SFTPSteps
  <2> QED BY <1>1, <2>1, <2>4
<1>2. CASE svc = "lldap"
  <2>1. Seeded = {LLDAPSeed[i][2] : i \in DOMAIN LLDAPSeed} /\ StepsOf = LLDAPSteps
    BY <1>2, StepsAre DEF Seeded
  <2> DEFINE a == <<<<"cert">>>> \o Restart \o <<<<"login">>>>
  <2>2. a \in Seq(Stmt) /\ LLDAPSeed \in Seq(Stmt) /\ LLDAPSteps = a \o LLDAPSeed
    <3>1. Restart \in Seq(Plain)
      BY PlainFiles
    <3>2. <<<<"cert">>>> \in Seq(Plain) /\ <<<<"login">>>> \in Seq(Plain)
      <4>1. <<"cert">> \in Plain /\ <<"login">> \in Plain
        BY PlainStatements
      <4> QED BY <4>1, Tuples
    <3>3. a \in Seq(Plain)
      BY <3>1, <3>2, PlainCat
    <3>4. LLDAPSeed \in Seq(Stmt)
      BY LLDAPProgram, Inclusion, SeqInclusion
    <3> QED BY <3>3, <3>4, SeqInclusion DEF LLDAPSteps, Plain
  <2> HIDE DEF a
  <2>3. \A x : Has(x, LLDAPSeed) => Has(x, LLDAPSteps)
    BY <2>2, CatHas
  <2> QED BY <2>1, <2>3, LLDAPHas
<1>3. CASE svc \notin {"sftp", "lldap"}
  BY <1>3 DEF Seeded
<1> QED BY <1>1, <1>2, <1>3
\* What is not a statement leaves a deployment that ended well as it is, or what
\* ended well is no longer.
Begun == Deploys(StepsOf) /\ UNCHANGED zVars
Resting ==
    \/ Begun \/ ((Removes \/ Cut \/ Watch \/ Configures) /\ UNCHANGED zVars)
    \/ FirstStart \/ (Reboot /\ UNCHANGED <<pat, org, cf, cur>>) \/ ObeysPAT \/ LosesPAT \/ UNCHANGED svars
Rested ==
    /\ Live /\ UNCHANGED <<svc, conf, objs, data, todo, verdict, at, op, cur, cf>>
    /\ FirstStart \/ UNCHANGED org

LEMMA Rests ==
    ASSUME HostInv, Resting, Live'
    PROVE  Begun \/ Rested
<1>0. TypeOK /\ svc \in DOMAIN verdict /\ svc # "none" /\ (at = "idle" <=> Idle)
  BY Versions DEF HostInv, TypeOK, Control
<1>1. ~Removes
  BY <1>0 DEF Removes, Live, Ok, Idle
<1>2. ~Cut
  BY <1>0 DEF Cut, CutShort, Ends, Live, Ok, TypeOK, Idle
<1>3. ~(Configures \/ LosesPAT)
  BY <1>0 DEF Configures, LosesPAT, Changed, Live, Ok, Idle
<1>4. ~ObeysPAT
  BY <1>0 DEF ObeysPAT, Live, Ok, Idle
<1>5. CASE (Watch /\ UNCHANGED zVars) \/ (Reboot /\ UNCHANGED <<pat, org, cf, cur>>)
  <2>1. UNCHANGED <<svc, conf, objs, data, todo, op, at, verdict, org, cur, cf>>
    BY <1>5 DEF Watch, Reboot, runVars, zVars
  <2> QED BY <2>1 DEF Live, Ok, Idle, Rested
<1>6. CASE FirstStart \/ UNCHANGED svars
  <2>1. UNCHANGED <<svc, conf, objs, data, todo, op, at, verdict, cur, cf>> /\ (FirstStart \/ org' = org)
    BY <1>6 DEF FirstStart, svars, dvars, runVars, svcVars, zVars
  <2> QED BY <2>1 DEF Live, Ok, Idle, Rested
<1> QED BY <1>1, <1>2, <1>3, <1>4, <1>5, <1>6 DEF Resting

LEMMA Steps2 ==
    ASSUME [Next]_svars
    PROVE  Resting \/ ZitadelStep \/ (DeployerStep /\ UNCHANGED <<pat, org, cf, cur>>)
  BY DEF Next, Statement, Resting, Begun

\* Only a removal takes what is seeded, and passwords are kept.
LEMMA ObjectsKept ==
    ASSUME HostInv, OrderInv, DeployerStep, Live'
    PROVE  /\ at = "deploy" /\ todo # <<>> /\ todo \in Seq(Stmt) /\ Skips /\ svc' = svc /\ conf' = conf
           /\ \A o \in Seeded : objs[o] # 0 => objs'[o] # 0
           /\ \A o \in Seeded : objs[o] = conf.v => objs'[o] = conf.v
           /\ \A o \in Seeded : Head(todo) = <<"ensure", o>> => objs'[o] # 0
           /\ \A o \in Seeded : Head(todo) = <<"set", o>> => objs'[o] = conf.v
           /\ Has(Head(todo), todo)
<1>1. /\ at = "deploy" /\ todo # <<>> /\ todo \in Seq(Stmt) /\ Skips /\ svc' = svc /\ conf' = conf /\ TypeOK
  BY StatementMoves DEF HostInv
<1>2. conf.v # 0 /\ objs \in [Seeded -> 0 .. 2] /\ conf.v \in 1 .. 2
  BY <1>1 DEF TypeOK, Config
<1>3. ~(\E v \in Bad : Stops(v))
  BY <1>1, Stopping
<1>4. CASE Ensure
  <2>1. objs' = [objs EXCEPT ![What] = Ensured(What)]
    BY <1>3, <1>4, EndsOrGoes DEF Ensure
  <2>2. \A o \in Seeded : objs'[o] = IF o = What THEN Ensured(What) ELSE objs[o]
    BY <1>2, <2>1
  <2>3. Kind # "set"
    BY <1>4 DEF Ensure, Now, Kind
  <2>4. \A o : Head(todo) = <<"set", o>> => Kind = "set"
    BY DEF Kind
  <2>5. \A o : Head(todo) = <<"ensure", o>> => What = o
    BY DEF What
  <2>6. \A o \in Seeded : objs'[o] # 0 /\ o = What => objs'[o] \in {conf.v, objs[o]}
    BY <2>2 DEF Ensured
  <2>7. What \in Seeded => objs'[What] # 0 /\ (objs[What] # 0 => objs'[What] = objs[What])
    BY <1>2, <2>2 DEF Ensured
  <2>8. \A o \in Seeded : o # What => objs'[o] = objs[o]
    BY <2>2
  <2> HIDE DEF Ensured
  <2> QED BY <1>1, <1>2, <2>3, <2>4, <2>5, <2>7, <2>8, TailHas
<1>5. CASE SetPassword
  <2>1. objs' = [objs EXCEPT ![What] = conf.v]
    BY <1>3, <1>5, EndsOrGoes DEF SetPassword, SetTo
  <2>2. \A o \in Seeded : objs'[o] = IF o = What THEN conf.v ELSE objs[o]
    BY <1>2, <2>1
  <2>3. Kind # "ensure"
    BY <1>5 DEF SetPassword, Now, Kind
  <2>4. \A o : Head(todo) = <<"ensure", o>> => Kind = "ensure"
    BY DEF Kind
  <2>5. \A o : Head(todo) = <<"set", o>> => What = o
    BY DEF What
  <2> QED BY <1>1, <1>2, <2>2, <2>3, <2>4, <2>5, TailHas
<1>6. CASE Up \/ Clear
  <2>1. Kind \notin {"ensure", "set"}
    BY <1>6 DEF Up, Clear, Now, Kind
  <2>2. \A o : (Head(todo) = <<"ensure", o>> => Kind = "ensure") /\ (Head(todo) = <<"set", o>> => Kind = "set")
    BY DEF Kind
  <2>3. ~Clear
    <3>1. Clear => Kind \in {"clear", "forget"}
      BY DEF Clear, Now, Kind
    <3> QED BY <1>1, <3>1, WhereTo, AtRemoval DEF HostInv
  <2>4. \A o \in Seeded : objs'[o] = objs[o] \/ objs'[o] = conf.v
    BY <1>2, <1>6, <2>3 DEF Up
  <2> QED BY <1>1, <1>2, <2>1, <2>2, <2>4, TailHas
<1>7. CASE ~(Ensure \/ SetPassword \/ Up \/ Clear)
  <2>1. objs' = objs /\ Kind \notin {"ensure", "set"}
    BY <1>7 DEF DeployerStep, Guard, Vars, CAReady, IssueCert, Build, OpenFile, WriteFile, Down, Prepare, FindPort,
       Bind, Wait, Login, Dial, Forget, HostKept, Now, Kind
  <2>2. \A o : (Head(todo) = <<"ensure", o>> => Kind = "ensure") /\ (Head(todo) = <<"set", o>> => Kind = "set")
    BY DEF Kind
  <2> QED BY <1>1, <2>1, <2>2, TailHas
<1> QED BY <1>4, <1>5, <1>6, <1>7
\* The objects are not dropped.
LEMMA ObjectsLeft ==
    ASSUME HostInv, OrderInv, at = "deploy", todo # <<>>, todo \in Seq(Stmt), Skips,
           NEW k \in {"ensure", "set", "org", "project", "role"}, NEW o, Has(<<k, o>>, todo)
    PROVE  Has(<<k, o>>, todo') \/ Head(todo) = <<k, o>>
<1>1. k \notin {"grant", "open client", "write client"}
  OBVIOUS
<1>2. <<k, o>>[1] = k /\ <<"grant", What>>[1] = "grant" /\ <<"open client", What>>[1] = "open client"
      /\ <<"write client", What>>[1] = "write client"
  OBVIOUS
<1> DEFINE x == <<k, o>>
<1>3. x # <<"grant", What>> /\ x # <<"open client", What>> /\ x # <<"write client", What>>
  BY <1>1, <1>2
<1>4. Has(x, todo)
  OBVIOUS
<1> HIDE DEF x
<1>5. Has(x, todo') \/ Head(todo) = x
  BY <1>3, <1>4, Dropped
<1> QED BY <1>5 DEF x

LEMMA SeedNext ==
    ASSUME HostInv, OrderInv, SeedInv, [Next]_svars
    PROVE  SeedInv'
<1>0. TypeOK /\ svc' = svc /\ Seeded' = Seeded
  BY OrderNext DEF HostInv, Seeded
<1>1. ASSUME svc = "keycloak", data' PROVE objs'["realm"] # 0
  <2>0. Seeded = {"realm"} /\ conf.v # 0 /\ objs \in [Seeded -> 0 .. 2]
    BY <1>0, <1>1 DEF Seeded, TypeOK, Config
  <2>1. CASE Up
    <3>1. (Done /\ objs' = IF ~data THEN [objs EXCEPT !["realm"] = conf.v] ELSE objs) \/ (data' = data /\ objs' = objs)
      BY <1>1, <2>1 DEF Up
    <3> QED BY <1>1, <2>0, <3>1 DEF SeedInv
  <2>2. CASE Clear
    BY <1>1, <2>2 DEF Clear, SeedInv
  <2>3. CASE Ensure
    <3>1. objs' = objs \/ objs' = [objs EXCEPT ![What] = Ensured(What)]
      BY <2>3 DEF Ensure
    <3>2. data /\ objs["realm"] # 0
      BY <1>1, <2>3 DEF Ensure, SeedInv
    <3>3. What = "realm" => Ensured(What) # 0
      BY <3>2 DEF Ensured
    <3> QED BY <2>0, <3>1, <3>2, <3>3
  <2>4. CASE SetPassword
    <3>1. objs' = objs \/ objs' = [objs EXCEPT ![What] = conf.v]
      BY <2>4 DEF SetPassword, SetTo
    <3>2. data /\ objs["realm"] # 0
      BY <1>1, <2>4 DEF SetPassword, SeedInv
    <3> QED BY <2>0, <3>1, <3>2
  <2>5. CASE UNCHANGED <<data, objs>>
    BY <1>1, <2>5 DEF SeedInv
  <2>6. DeployerStep => Up \/ Clear \/ Ensure \/ SetPassword \/ UNCHANGED <<data, objs>>
    BY DEF DeployerStep, Guard, Vars, CAReady, IssueCert, Build, OpenFile, WriteFile, Down, Prepare, FindPort,
       Bind, Wait, Login, Dial, Forget, HostKept
  <2>7. ZitadelStep => UNCHANGED <<data, objs>>
    BY ZitadelDue DEF HostKept
  <2>8. Resting => UNCHANGED <<data, objs>>
    BY <1>1 DEF Resting, Begun, Deploys, Removes, Cut, Configures, Watch, Reboot, FirstStart, ObeysPAT, LosesPAT, svars, dvars,
                svcVars, HostKept
  <2> QED BY <2>1, <2>2, <2>3, <2>4, <2>5, <2>6, <2>7, <2>8, Steps2
<1>2. ASSUME Live' PROVE (\A o \in Seeded : SeedOf(o)') /\ (svc = "lldap" => \A u \in Passwords : PasswordOf(u)')
  <2>1. CASE Begun
    <3>1. todo' = StepsOf /\ conf' = conf
      BY <2>1 DEF Begun, Deploys
    <3> QED BY <1>0, <3>1, SeedSteps DEF SeedOf, PasswordOf
  <2>2. CASE Rested
    BY <1>0, <2>2 DEF Rested, SeedInv, SeedOf, PasswordOf
  <2>3. CASE DeployerStep
    <3>1. /\ at = "deploy" /\ todo # <<>> /\ todo \in Seq(Stmt) /\ Skips /\ svc' = svc /\ conf' = conf
          /\ \A o \in Seeded : objs[o] # 0 => objs'[o] # 0
          /\ \A o \in Seeded : objs[o] = conf.v => objs'[o] = conf.v
          /\ \A o \in Seeded : Head(todo) = <<"ensure", o>> => objs'[o] # 0
          /\ \A o \in Seeded : Head(todo) = <<"set", o>> => objs'[o] = conf.v
      BY <1>2, <2>3, ObjectsKept
    <3>2. \A o : (Has(<<"ensure", o>>, todo) => Has(<<"ensure", o>>, todo') \/ Head(todo) = <<"ensure", o>>)
                 /\ (Has(<<"set", o>>, todo) => Has(<<"set", o>>, todo') \/ Head(todo) = <<"set", o>>)
      BY <3>1, ObjectsLeft
    <3>3. svc = "lldap" => Passwords \subseteq Seeded
      BY LLDAPHas DEF Seeded
    <3>4. Live
      BY <3>1 DEF Live
    <3> QED BY <1>0, <3>1, <3>2, <3>3, <3>4 DEF SeedInv, SeedOf, PasswordOf
  <2>4. CASE ZitadelStep
    <3>1. objs' = objs /\ at = "deploy" /\ todo # <<>> /\ todo \in Seq(Stmt) /\ Skips /\ conf' = conf
      BY <1>2, <2>4, ZitadelDue, StatementMoves DEF HostKept
    <3>3. Live
      BY <3>1 DEF Live
    <3>4. \A o : (Has(<<"ensure", o>>, todo) => Has(<<"ensure", o>>, todo'))
                 /\ (Has(<<"set", o>>, todo) => Has(<<"set", o>>, todo'))
      <4>1. Kind \notin {"ensure", "set"}
        BY <2>4 DEF ZitadelStep, ReadPAT, WaitAPI, EnsureOrg, EnsurePart, UserNotFound, CreateClient, OpenClient, WriteClient, Now,
           Kind, Parts
      <4>2. \A o : Head(todo) # <<"ensure", o>> /\ Head(todo) # <<"set", o>>
        BY <4>1 DEF Kind
      <4> QED BY <3>1, <4>2, ObjectsLeft
    <3> QED BY <1>0, <3>1, <3>3, <3>4 DEF SeedInv, SeedOf, PasswordOf
  <2> QED BY <1>2, <2>1, <2>2, <2>3, <2>4, Steps2, Rests
<1> QED BY <1>0, <1>1, <1>2 DEF SeedInv
\* What is spent stays spent.
LEMMA BudgetNext ==
    ASSUME HostInv, [Next]_svars
    PROVE  BudgetStep /\ \A K : Spent(K) => Spent(K)'
<1>1. DeployerStep => BudgetStep
  BY DEF DeployerStep, Guard, Vars, CAReady, IssueCert, Build, OpenFile, WriteFile, Down, Prepare, FindPort, Bind, Up, Wait,
         Login, Dial, Ensure, SetPassword, Clear, Forget, Done, Then, Outside, Fails, BudgetStep
<1>2. ZitadelStep => BudgetStep
  BY DEF ZitadelStep, ReadPAT, WaitAPI, EnsureOrg, EnsurePart, UserNotFound, CreateClient, OpenClient, WriteClient, Done, Then,
         Outside, Fails, SkipClient, Conflict, BudgetStep
<1>3. Resting => BudgetStep
  BY DEF Resting, Begun, Deploys, Removes, Cut, CutShort, Configures, Watch, Reboot, FirstStart, ObeysPAT, LosesPAT, svars, dvars,
         runVars, BudgetStep
<1>4. BudgetStep
  BY <1>1, <1>2, <1>3, Steps2
<1>5. ASSUME NEW K, Spent(K) PROVE Spent(K)'
  <2>1. CASE UNCHANGED budget
    BY <1>5, <2>1 DEF Spent
  <2>2. CASE \E d : Spend(d)
    BY <1>5, <2>2, SpendKeeps DEF HostInv
  <2> QED BY <1>4, <2>1, <2>2 DEF BudgetStep
<1> QED BY <1>4, <1>5

\* An organisation of a tenant stays that tenant's, with all it has.
OrgMoves ==
    \/ org' = org
    \/ \E part \in Parts : org' = [org EXCEPT ![cur].has = @ \cup {part}]
    \/ \E u \in Tenant : FreeOrgs # {} /\ org' = WithOrg(u)

LEMMA OrgsStay ==
    ASSUME TypeOK, OrgMoves, NEW t \in Tenant, NEW i \in OrgsOf(t)
    PROVE  i \in DOMAIN org /\ i \in DOMAIN org' /\ i \in OrgsOf(t)' /\ org[i].has \subseteq org'[i].has
<1>1. org \in [1 .. MaxOrg -> [tenant : Tenant \cup {"none"}, has : SUBSET Parts]] /\ i \in 1 .. MaxOrg /\ org[i].tenant = t
  BY DEF TypeOK, OrgsOf
<1>2. CASE org' = org
  BY <1>1, <1>2 DEF OrgsOf
<1>3. CASE \E part \in Parts : org' = [org EXCEPT ![cur].has = @ \cup {part}]
  <2>1. PICK part \in Parts : org' = [org EXCEPT ![cur].has = @ \cup {part}]
    BY <1>3
  <2>2. DOMAIN org' = 1 .. MaxOrg /\ org'[i].tenant = t /\ org[i].has \subseteq org'[i].has
    BY <1>1, <2>1
  <2> QED BY <1>1, <2>2 DEF OrgsOf
<1>4. CASE \E u \in Tenant : FreeOrgs # {} /\ org' = WithOrg(u)
  <2>1. PICK u \in Tenant : FreeOrgs # {} /\ org' = WithOrg(u)
    BY <1>4
  <2>2. NewOrg \in OrgsOf("none")
    BY <2>1, NewOrgFree DEF FreeOrgs
  <2>3. NewOrg # i
    BY <1>1, <2>2, ZitadelAssumption DEF OrgsOf
  <2>4. DOMAIN org' = 1 .. MaxOrg /\ org'[i] = org[i]
    BY <1>1, <2>1, <2>3 DEF WithOrg
  <2> QED BY <1>1, <2>4 DEF OrgsOf
<1> QED BY <1>2, <1>3, <1>4 DEF OrgMoves

LEMMA OrgNext ==
    ASSUME HostInv, [Next]_svars, ~ObeysPAT
    PROVE  OrgMoves
<1>1. DeployerStep /\ UNCHANGED <<pat, org, cf, cur>> => OrgMoves
  BY DEF OrgMoves
<1>2. Resting => OrgMoves
  <2>1. Resting /\ ~FirstStart => org' = org
    BY DEF Resting, Begun, zVars, LosesPAT, svars
  <2>2. FirstStart => OrgMoves
    BY ZitadelAssumption DEF FirstStart, OrgMoves
  <2> QED BY <2>1, <2>2 DEF OrgMoves
<1>3. ZitadelStep => OrgMoves
  <2>1. CASE EnsureOrg
    <3>1. ZitadelStep /\ Kind = "org"
      BY <2>1 DEF ZitadelStep, EnsureOrg, Now, Kind
    <3>2. What \in Tenant
      BY <3>1, ZitadelDue, TenantHead DEF TenantKinds
    <3> QED BY <2>1, <3>2 DEF EnsureOrg, OrgMoves
  <2>2. CASE \E part \in Parts \ {"app"} : EnsurePart(part)
    BY <2>2 DEF EnsurePart, OrgMoves
  <2>3. CASE CreateClient
    BY <2>3 DEF CreateClient, OrgMoves, Parts
  <2>4. CASE ReadPAT \/ WaitAPI \/ UserNotFound \/ OpenClient \/ WriteClient
    BY <2>4 DEF ReadPAT, WaitAPI, UserNotFound, OpenClient, WriteClient, OrgMoves, zVars
  <2> QED BY <2>1, <2>2, <2>3, <2>4 DEF ZitadelStep
<1> QED BY <1>1, <1>2, <1>3, Steps2
-----------------------------------------------------------------------------
\* What a tenant has, or what is left to make.
SeedParts == Parts \ {"app"}
PartOf(p, i, t) ==
    \/ Has(<<p, t>>, todo) /\ cur = i
    \/ p \in org[i].has
    \/ p = "grant" /\ Spent({"search"})
Served(t) == Has(<<"org", t>>, todo) \/ \E i \in OrgsOf(t) : \A p \in SeedParts : PartOf(p, i, t)
ServedInv == svc = "zitadel" /\ Live => \A t \in ToSet(ConfTenants) : Served(t)

LEMMA SeedPartsAre == SeedParts = {"project", "role", "user", "grant"}
  BY DEF SeedParts, Parts

LEMMA PartsLeft ==
    ASSUME HostInv, OrderInv, at = "deploy", todo # <<>>, todo \in Seq(Stmt), Skips,
           NEW p \in SeedParts \cup {"org"}, NEW t, Has(<<p, t>>, todo)
    PROVE  Has(<<p, t>>, todo') \/ Head(todo) = <<p, t>> \/ (UserNotFound /\ p = "grant" /\ t = What)
<1>1. p \notin {"open client", "write client"}
  BY SeedPartsAre
<1>2. /\ <<p, t>>[1] = p /\ <<"open client", What>>[1] = "open client" /\ <<"write client", What>>[1] = "write client"
      /\ <<p, t>> = <<"grant", What>> => p = "grant" /\ t = What
  OBVIOUS
<1> DEFINE x == <<p, t>>
<1>3. /\ x # <<"open client", What>> /\ x # <<"write client", What>>
      /\ x = <<"grant", What>> => p = "grant" /\ t = What
  BY <1>1, <1>2
<1>4. Has(x, todo)
  OBVIOUS
<1> HIDE DEF x
<1>5. Has(x, todo') \/ Head(todo) = x \/ (UserNotFound /\ x = <<"grant", What>>)
  BY <1>3, <1>4, Dropped
<1> QED BY <1>3, <1>5 DEF x

\* The organisation looked for is found, or made.
LEMMA OrgChosen ==
    ASSUME HostInv, EnsureOrg, Live', NEW t, Head(todo) = <<"org", t>>
    PROVE  cur' \in OrgsOf(t)'
<1>1. ZitadelStep /\ Kind = "org" /\ What = t
  BY DEF ZitadelStep, Kind, What
<1>2. TypeOK /\ t \in Tenant
  BY <1>1, ZitadelDue, TenantHead DEF TenantKinds
<1>3. cur' \in OrgsOf(t)'
  <2>1. ~(\E v \in Bad : Stops(v))
    BY <1>2, Stopping
  <2>2. CASE \E i \in IF What = Default THEN OrgsOf(Default) ELSE Found(What) : cur' = i /\ UNCHANGED org
    BY <1>1, <2>2 DEF Found, OrgsOf
  <2>3. CASE FreeOrgs # {} /\ org' = WithOrg(What) /\ cur' = NewOrg
    <3>1. NewOrg \in 1 .. MaxOrg /\ DOMAIN org = 1 .. MaxOrg
      BY <1>2, <2>3, OrgType DEF TypeOK
    <3>2. NewOrg \in DOMAIN org' /\ org'[NewOrg].tenant = t
      BY <1>1, <2>3, <3>1 DEF WithOrg
    <3> QED BY <2>3, <3>2 DEF OrgsOf
  <2> QED BY <2>1, <2>2, <2>3, EndsOrGoes DEF EnsureOrg
<1> QED BY <1>3

\* The organisation is looked for or made: its parts are due.
LEMMA OrgServed ==
    ASSUME HostInv, OrderInv, EnsureOrg, Live', NEW t, Head(todo) = <<"org", t>>
    PROVE  Served(t)'
<1>1. ZitadelStep /\ Kind = KindAt[1] /\ 1 \in 1 .. 8 /\ What = t
  <2>1. KindAt[1] = "org"
    BY KindsAre
  <2> QED BY <2>1 DEF ZitadelStep, Kind, What
<1>2. /\ at = "deploy" /\ todo # <<>> /\ todo \in Seq(Post) /\ todo \in Seq(Stmt) /\ Blocks(todo) /\ TypeOK
      /\ Skips
  BY <1>1, ZitadelDue, StatementMoves DEF OrderInv, InOrder, Ordered
<1>3. t \in Tenant /\ \A j \in 1 .. 8 : Has(<<KindAt[j], t>>, todo)
  BY <1>1, <1>2, TenantDue
<1>4. \A p \in SeedParts : Has(<<p, t>>, todo')
  <2>1. ASSUME NEW p \in SeedParts PROVE Has(<<p, t>>, todo')
    <3>1. PICK j \in 1 .. 8 : KindAt[j] = p
      <4>1. 2 \in 1 .. 8 /\ 3 \in 1 .. 8 /\ 7 \in 1 .. 8 /\ 8 \in 1 .. 8
        OBVIOUS
      <4> QED BY <4>1, SeedPartsAre, KindsAre
    <3>2. Has(<<p, t>>, todo)
      BY <1>3, <3>1
    <3>3. <<p, t>> # <<"org", t>>
      <4>1. p # "org" /\ <<p, t>>[1] = p /\ <<"org", t>>[1] = "org"
        BY SeedPartsAre
      <4> QED BY <4>1
    <3>4. ~UserNotFound
      <4>1. UserNotFound => Kind = "user"
        BY DEF UserNotFound, Now, Kind
      <4> QED BY <1>1, <4>1, KindsAre
    <3> QED BY <1>2, <3>2, <3>3, <3>4, PartsLeft
  <2> QED BY <2>1
<1>5. cur' \in OrgsOf(t)'
  BY OrgChosen
<1> QED BY <1>4, <1>5 DEF Served, PartOf

\* A part is there once it was due.
LEMMA PartMade ==
    ASSUME HostInv, OrderInv, ZitadelStep, Live', NEW p \in SeedParts, Kind = p, cur \in DOMAIN org
    PROVE  p \in org'[cur].has /\ cur' = cur
<1>1. TypeOK /\ at = "deploy" /\ todo # <<>>
  BY ZitadelDue
<1>2. EnsurePart(p) \/ (UserNotFound /\ p = "user")
  <2>1. Kind \in {"project", "role", "user", "grant"}
    BY SeedPartsAre
  <2> QED BY <2>1 DEF ZitadelStep, ReadPAT, WaitAPI, EnsureOrg, EnsurePart, UserNotFound, CreateClient, OpenClient, WriteClient,
         Now, Kind
<1>3. ~(\E v \in Bad : Stops(v))
  BY <1>1, Stopping
<1>4. org \in [1 .. MaxOrg -> [tenant : Tenant \cup {"none"}, has : SUBSET Parts]]
  BY <1>1 DEF TypeOK
<1>5. CASE EnsurePart(p)
  <2>1. cur' = cur /\ (org' = [org EXCEPT ![cur].has = @ \cup {p}] \/ (p \in org[cur].has /\ org' = org))
    BY <1>5 DEF EnsurePart
  <2>2. p \in Parts
    BY DEF SeedParts
  <2>3. CASE p \in org[cur].has /\ org' = org
    BY <2>1, <2>3
  <2>4. CASE org' = [org EXCEPT ![cur].has = @ \cup {p}]
    <3>1. org'[cur].has = org[cur].has \cup {p}
      BY <1>4, <2>2, <2>4
    <3> QED BY <2>1, <3>1
  <2> QED BY <2>1, <2>3, <2>4
<1>6. CASE UserNotFound /\ p = "user"
  BY <1>6 DEF UserNotFound, zVars
<1> QED BY <1>2, <1>5, <1>6
\* A tenant that is served stays served, whatever other statement is next.
LEMMA ServedStays ==
    ASSUME HostInv, OrderInv, [Next]_svars, ZitadelStep \/ (DeployerStep /\ UNCHANGED <<pat, org, cf, cur>>), Live', svc = "zitadel",
           NEW t \in Tenant, Served(t)
    PROVE  Served(t)'
<1>1. /\ at = "deploy" /\ todo # <<>> /\ todo \in Seq(Stmt) /\ Skips /\ TypeOK /\ Blocks(todo)
  BY StatementMoves DEF HostInv, OrderInv, InOrder, Ordered
<1>2. OrgMoves /\ (Spent({"search"}) => Spent({"search"})')
  <2>1. ~ObeysPAT
    BY <1>1 DEF ObeysPAT, Idle, HostInv, TypeOK
  <2> QED BY <2>1, OrgNext, BudgetNext
<1>3. CASE Head(todo) = <<"org", t>>
  <2>1. Kind = "org"
    BY <1>3 DEF Kind
  <2>2. EnsureOrg
    BY <2>1 DEF DeployerStep, Guard, Vars, CAReady, IssueCert, Build, OpenFile, WriteFile, Down, Prepare, FindPort, Bind, Up, Wait,
       Login, Dial, Ensure, SetPassword, Clear, Forget, ZitadelStep, ReadPAT, WaitAPI, EnsurePart, UserNotFound, CreateClient,
       OpenClient, WriteClient, Now, Kind, Parts
  <2> QED BY <1>3, <2>2, OrgServed
<1>4. CASE Has(<<"org", t>>, todo) /\ Head(todo) # <<"org", t>>
  <2>1. Has(<<"org", t>>, todo')
    BY <1>1, <1>4, PartsLeft
  <2> QED BY <2>1 DEF Served
<1>5. CASE ~Has(<<"org", t>>, todo)
  <2>1. PICK i \in OrgsOf(t) : \A p \in SeedParts : PartOf(p, i, t)
    BY <1>5 DEF Served
  <2>2. i \in DOMAIN org /\ i \in DOMAIN org' /\ i \in OrgsOf(t)' /\ org[i].has \subseteq org'[i].has
    BY <1>1, <1>2, OrgsStay
  <2>3. ASSUME NEW p \in SeedParts PROVE PartOf(p, i, t)'
    <3>1. CASE p \in org[i].has \/ (p = "grant" /\ Spent({"search"}))
      BY <1>2, <2>2, <3>1 DEF PartOf
    <3>2. CASE Has(<<p, t>>, todo) /\ cur = i
      <4>1. Kind # "org"
        <5> SUFFICES ASSUME Kind = "org" PROVE FALSE
          OBVIOUS
        <5>1. Kind \in PostKinds /\ Kind \in TenantKinds
          BY DEF PostKinds, TenantKinds
        <5>2. todo \in Seq(Post)
          BY <1>1, <5>1, WhereTo, AtPost DEF HostInv, Provisions
        <5>3. What \in Tenant /\ Head(todo) = <<"org", What>>
          BY <1>1, <5>1, <5>2, TenantHead
        <5>4. PICK k \in 1 .. 8 : KindAt[k] = p
          <6>1. 2 \in 1 .. 8 /\ 3 \in 1 .. 8 /\ 7 \in 1 .. 8 /\ 8 \in 1 .. 8
            OBVIOUS
          <6> QED BY <6>1, SeedPartsAre, KindsAre
        <5>5. Has(<<KindAt[k], t>>, todo)
          BY <3>2, <5>4
        <5> QED BY <1>1, <1>5, <5>3, <5>5, OrgFirst
      <4>2. cur' = cur
        <5>1. ~EnsureOrg
          BY <4>1 DEF EnsureOrg, Now, Kind
        <5>2. ZitadelStep => cur' = cur
          BY <5>1 DEF ZitadelStep, ReadPAT, WaitAPI, EnsurePart, UserNotFound, CreateClient, OpenClient, WriteClient, zVars
        <5> QED BY <5>2
      <4>3. CASE Has(<<p, t>>, todo')
        BY <3>2, <4>2, <4>3 DEF PartOf
      <4>4. CASE Head(todo) = <<p, t>>
        <5>1. Kind = p
          BY <4>4 DEF Kind
        <5>2. ZitadelStep
          <6>1. p \in {"project", "role", "user", "grant"}
            BY SeedPartsAre
          <6> QED BY <5>1, <6>1 DEF DeployerStep, Guard, Vars, CAReady, IssueCert, Build, OpenFile, WriteFile, Down, Prepare, FindPort,
                 Bind, Up, Wait, Login, Dial, Ensure, SetPassword, Clear, Forget, Now, Kind
        <5>3. p \in org'[i].has
          BY <2>2, <3>2, <5>1, <5>2, PartMade
        <5> QED BY <5>3 DEF PartOf
      <4>5. CASE UserNotFound /\ p = "grant" /\ t = What
        <5>1. Spent({"search"})'
          BY <4>5, SpendKeeps DEF UserNotFound, HostInv
        <5> QED BY <4>5, <5>1 DEF PartOf
      <4> QED BY <1>1, <3>2, <4>3, <4>4, <4>5, PartsLeft
    <3> QED BY <2>1, <3>1, <3>2 DEF PartOf
  <2> QED BY <2>2, <2>3 DEF Served
<1> QED BY <1>3, <1>4, <1>5

LEMMA ServedNext ==
    ASSUME HostInv, OrderInv, ServedInv, [Next]_svars
    PROVE  ServedInv'
<1> SUFFICES ASSUME svc' = "zitadel", Live' PROVE \A t \in ToSet(ConfTenants') : Served(t)'
  BY DEF ServedInv
<1>0. TypeOK /\ svc' = svc
  BY OrderNext DEF HostInv
<1>1. CASE Begun
  <2>1. todo' = StepsOf /\ ConfTenants' = ConfTenants
    BY <1>1 DEF Begun, Deploys, ConfTenants
  <2>2. \A t \in ToSet(ConfTenants) : Has(<<"org", t>>, StepsOf)
    <3>1. \A t \in ToSet(ConfTenants), k \in 1 .. 8 : Has(<<KindAt[k], t>>, StepsOf)
      BY <1>0, StepsOrder
    <3>2. 1 \in 1 .. 8
      OBVIOUS
    <3>3. KindAt[1] = "org"
      BY KindsAre
    <3> QED BY <3>1, <3>2, <3>3
  <2> QED BY <2>1, <2>2 DEF Served
<1>2. CASE Rested
  <2>1. Live /\ UNCHANGED <<svc, conf, todo, cur>>
    BY <1>2 DEF Rested
  <2>2. ASSUME NEW t \in ToSet(ConfTenants) PROVE Served(t)'
    <3>1. Served(t) /\ t \in Tenant
      <4>1. ConfTenants \in Seq(Tenant)
        BY <1>0, ConfTenantsType
      <4>2. t \in Tenant
        BY <4>1 DEF ToSet
      <4> QED BY <1>0, <2>1, <4>2 DEF ServedInv
    <3>2. OrgMoves /\ (Spent({"search"}) => Spent({"search"})')
      <4>1. OrgMoves
        BY <1>2, ZitadelAssumption DEF Rested, FirstStart, OrgMoves
      <4> QED BY <4>1, BudgetNext
    <3>3. CASE Has(<<"org", t>>, todo)
      BY <2>1, <3>3 DEF Served
    <3>4. CASE \E i \in OrgsOf(t) : \A p \in SeedParts : PartOf(p, i, t)
      <4>1. PICK i \in OrgsOf(t) : \A p \in SeedParts : PartOf(p, i, t)
        BY <3>4
      <4>2. i \in OrgsOf(t)' /\ org[i].has \subseteq org'[i].has
        BY <1>0, <3>1, <3>2, OrgsStay
      <4>3. \A p \in SeedParts : PartOf(p, i, t)'
        BY <2>1, <3>2, <4>1, <4>2 DEF PartOf
      <4> QED BY <4>2, <4>3 DEF Served
    <3> QED BY <3>1, <3>3, <3>4 DEF Served
  <2>3. ConfTenants' = ConfTenants
    BY <2>1 DEF ConfTenants
  <2> QED BY <2>2, <2>3
<1>3. CASE ZitadelStep \/ (DeployerStep /\ UNCHANGED <<pat, org, cf, cur>>)
  <2>1. at = "deploy" /\ conf' = conf
    BY <1>3, StatementMoves
  <2>2. ConfTenants' = ConfTenants /\ Live
    BY <2>1 DEF ConfTenants, Live
  <2>3. ConfTenants \in Seq(Tenant)
    BY <1>0, ConfTenantsType
  <2>4. \A t \in ToSet(ConfTenants) : t \in Tenant /\ Served(t)
    BY <1>0, <2>2, <2>3 DEF ServedInv, ToSet
  <2> QED BY <1>0, <1>3, <2>2, <2>4, ServedStays
<1> QED BY <1>1, <1>2, <1>3, Steps2, Rests

\* The two: what ends well is whole.
LEMMA WholeInv ==
    ASSUME HostInv, SeedInv, ServedInv
    PROVE  SuccessIsWhole
<1>1. TypeOK
  BY DEF HostInv
<1>2. RunsWhole
  <2> SUFFICES ASSUME Ok, DownWorks PROVE Runs
    BY DEF RunsWhole, DownWorks, Runs, ReadsWhole
  <2>1. at = "idle"
    BY DEF HostInv, Control, Ok
  <2> QED BY <2>1 DEF HostInv, Control, IdlePart, Ok
<1>3. SeedIsComplete
  <2> SUFFICES ASSUME Ok
               PROVE  /\ \A o \in Seeded : objs[o] # 0 \/ (svc = "sftp" /\ conf.backup = "none")
                      /\ svc = "lldap" => \A u \in Passwords : objs[u] = conf.v
                      /\ svc = "zitadel" => \A t \in ToSet(ConfTenants) : \E i \in OrgsOf(t) :
                            \/ Parts \ {"app"} \subseteq org[i].has
                            \/ Spent({"search"}) /\ Parts \ {"app", "grant"} \subseteq org[i].has
    BY DEF SeedIsComplete
  <2>1. Live /\ \A x : ~Has(x, todo)
    <3>1. todo = <<>>
      BY <1>1 DEF TypeOK, Ok
    <3>2. DOMAIN todo = {}
      BY <3>1
    <3> QED BY <3>2 DEF Has, Live
  <2>2. at = "idle" /\ Runs
    BY DEF HostInv, Control, IdlePart, Ok
  <2>3. \A o \in Seeded : objs[o] # 0 \/ (svc = "sftp" /\ conf.backup = "none")
    BY <2>1, <2>2 DEF SeedInv, SeedOf, Runs, Seeded
  <2>4. svc = "lldap" => \A u \in Passwords : objs[u] = conf.v
    BY <2>1 DEF SeedInv, PasswordOf
  <2>5. ASSUME svc = "zitadel", NEW t \in ToSet(ConfTenants)
        PROVE  \E i \in OrgsOf(t) :
                   \/ Parts \ {"app"} \subseteq org[i].has
                   \/ Spent({"search"}) /\ Parts \ {"app", "grant"} \subseteq org[i].has
    <3>1. PICK i \in OrgsOf(t) : \A p \in SeedParts : p \in org[i].has \/ (p = "grant" /\ Spent({"search"}))
      BY <2>1, <2>5 DEF ServedInv, Served, PartOf
    <3>2. Parts \ {"app", "grant"} \subseteq SeedParts /\ Parts \ {"app"} = SeedParts
      BY DEF SeedParts
    <3> QED BY <3>1, <3>2
  <2> QED BY <2>3, <2>4, <2>5
<1> QED BY <1>1, <1>2, <1>3 DEF SuccessIsWhole

\* A deployment that ends well runs one whole configuration and has seeded all that its
\* deployer promises, for every list of tenants, wherever earlier deployments were cut:
\* compose.go, render.go, and the provisioning of keycloak.go, lldap.go, sftp.go, zitadel.go.
THEOREM SuccessIsWholeHolds == Spec => []SuccessIsWhole
<1>1. Init => SeedInv /\ ServedInv
  <2> SUFFICES ASSUME Init PROVE SeedInv /\ ServedInv
    OBVIOUS
  <2>1. op = "none" /\ at = "idle" /\ verdict[svc] = "none" /\ data = FALSE
    BY DEF Init, DeployersInit, RunInit
  <2> QED BY <2>1 DEF SeedInv, ServedInv, Live, Ok
<1>2. StepInv /\ SeedInv /\ ServedInv /\ [Next]_svars => (SeedInv /\ ServedInv)'
  BY SeedNext, ServedNext DEF StepInv
<1>3. StepInv /\ SeedInv /\ ServedInv => SuccessIsWhole
  BY WholeInv DEF StepInv
<1> QED BY StepInvHolds, <1>1, <1>2, <1>3, PTL DEF Spec
-----------------------------------------------------------------------------
(***************************************************************************)
(* The tenants: one organisation, one client, and a file that names it.    *)
(***************************************************************************)
\* The statement due to a deployment.
Due(k, t) == at = "deploy" /\ todo # <<>> /\ Head(todo) = <<k, t>>

\* The token is of a whole instance; files are written with it, and it goes only when it is lost.
PATInv ==
    /\ pat => inst = "whole"
    /\ inst = "none" => \A i \in DOMAIN org : org[i].tenant = "none"
    /\ svc = "zitadel" /\ at = "deploy" => pat \/ Has(<<"pat">>, todo)
    /\ ~pat /\ ~Spent({"lose pat"}) => \A f \in ClientFile : cf[f] = 0
    /\ verdict[svc] = "pat" => ~pat /\ inst \in {"whole", "stuck"}

\* A tenant's parts are made in an organisation of the tenant, and its file is written for a client.
CurInv ==
    \A t \in Tenant :
        /\ \A k \in 2 .. 8 : Due(KindAt[k], t) => cur \in OrgsOf(t)
        /\ Due("open client", t) \/ Due("write client", t) => "app" \in org[cur].has

\* A client that exists has a file, or is about to, or was cut or lost, or its file is under
\* another name.
AppInv ==
    \A t \in Tenant : FileOf(t) = 0 =>
        \A i \in OrgsOf(t) : "app" \in org[i].has => Due("open client", t) \/ Spent({"cut", "lost", "rename"})

\* What a tenant's file says under either name, when no other tenant has that file.
Alone(t) == \A u \in Tenant \ {t} : LabelOf[u] # LabelOf[t]
FileAt(q, t) == cf[<<q, LabelOf[t]>>]
FileSays(q, t) ==
    \/ FileAt(q, t) = 0
    \/ FileAt(q, t) \in OrgsOf(t) /\ "app" \in org[FileAt(q, t)].has
    \/ FileAt(q, t) = TornFile /\ ((Due("write client", t) /\ q = conf.fqdn) \/ Spent({"cut"}))
    \/ FileAt(q, t) \in OrgsOf("none") /\ Spent({"lose pat"})
ClientInv ==
    /\ \A q \in 1 .. 2, t \in Tenant : Alone(t) => FileSays(q, t)
    /\ svc = "zitadel" /\ Live =>
           \A t \in ToSet(ConfTenants) : Has(<<"write client", t>>, todo) \/ FileOf(t) # 0

TenantInv == PATInv /\ CurInv /\ AppInv /\ ClientInv /\ OneOrgPerTenant /\ ConflictIsExplained

\* The steps, by what they do to Zitadel.
InstStays == inst' = inst \/ (inst = "half" /\ inst' = "stuck")
Aside ==
    /\ UNCHANGED <<pat, org, cf, cur>> /\ InstStays
    /\ UNCHANGED <<at, todo>> \/ (at' # "deploy" /\ (at = "deploy" => Spent({"cut"})'))
Stating == DeployerStep /\ UNCHANGED <<pat, org, cf, cur>> /\ InstStays

LEMMA Sides ==
    ASSUME HostInv, [Next]_svars
    PROVE  Begun \/ Aside \/ Stating \/ FirstStart \/ ObeysPAT \/ LosesPAT \/ ZitadelStep
<1>1. Interrupted => InstStays
  BY DEF Interrupted, InstStays
<1>2. at = "idle" <=> Idle
  BY DEF HostInv, Control
<1>3. CASE Removes /\ UNCHANGED zVars
  <2>1. at' # "deploy" /\ at = "idle" /\ UNCHANGED <<pat, org, cf, cur, inst>>
    BY <1>2, <1>3 DEF Removes, zVars
  <2> QED BY <2>1 DEF Aside, InstStays
<1>4. CASE Cut /\ UNCHANGED zVars
  <2>1. at' # "deploy" /\ Spent({"cut"})' /\ UNCHANGED <<pat, org, cf, cur, inst>>
    <3>1. at' = "idle" /\ Spend("cut") /\ UNCHANGED <<pat, org, cf, cur, inst>>
      BY <1>4 DEF Cut, CutShort, Ends, zVars
    <3> QED BY <3>1, SpendKeeps DEF HostInv
  <2> QED BY <2>1 DEF Aside, InstStays
<1>5. CASE (Watch \/ Configures) /\ UNCHANGED zVars
  BY <1>5 DEF Watch, Configures, zVars, runVars, Aside, InstStays
<1>6. CASE Reboot /\ Interrupted /\ UNCHANGED <<pat, org, cf, cur>>
  BY <1>1, <1>6 DEF Reboot, Aside
<1>7. CASE UNCHANGED svars
  BY <1>7 DEF svars, dvars, runVars, svcVars, zVars, Aside, InstStays
<1>8. CASE Statement
  <2>1. CASE DeployerStep /\ UNCHANGED <<pat, org, cf, cur>> /\ (Interrupted \/ inst' = inst)
    BY <1>1, <2>1 DEF Stating, InstStays
  <2> QED BY <1>8, <2>1 DEF Statement
<1> QED BY <1>3, <1>4, <1>5, <1>6, <1>7, <1>8 DEF Next, Begun

\* What stood before a tenant's statement.
LEMMA BlockBefore ==
    ASSUME NEW s \in Seq(Stmt), s # <<>>, Blocks(s), Tail(s) # <<>>, NEW k \in 2 .. 8, NEW t \in Tenant,
           Head(Tail(s)) = <<KindAt[k], t>>
    PROVE  Head(s) = <<KindAt[k - 1], t>>
<1>1. Tail(s) \in Seq(Stmt)
  OBVIOUS
<1>2. Head(Tail(s)) = Tail(s)[1] /\ 1 \in DOMAIN Tail(s) /\ Head(s) = s[1]
  BY <1>1, TailPlaces
<1>3. 1 + 1 \in DOMAIN s /\ Tail(s)[1] = s[1 + 1]
  BY <1>2, TailPlaces
<1>4. s[2] = <<KindAt[k], t>> /\ 2 \in DOMAIN s
  <2>1. 1 + 1 = 2
    OBVIOUS
  <2> QED BY <1>2, <1>3, <2>1
<1>5. k \in 1 .. 8 /\ k - 1 \in 1 .. 8 /\ 2 + (k - 1) - k = 1 /\ 2 + (k - 1) - k >= 1
  OBVIOUS
<1>6. s[2 + (k - 1) - k] = <<KindAt[k - 1], t>>
  BY <1>4, <1>5 DEF Blocks
<1> QED BY <1>2, <1>5, <1>6

\* A tenant's statement is due to Zitadel's deployment, which has read the token.
LEMMA TenantKindDue ==
    ASSUME HostInv, OrderInv, at = "deploy", todo # <<>>, todo \in Seq(Stmt), Kind \in TenantKinds
    PROVE  svc = "zitadel" /\ ~Has(<<"pat">>, todo)
<1>1. InOrder(todo) /\ Ordered(todo)
  BY DEF OrderInv, InOrder
<1>2. Head(todo) = todo[1] /\ 1 \in DOMAIN todo
  BY TailPlaces
<1>3. svc = "zitadel"
  BY <1>1, <1>2 DEF InOrder, Kind
<1>4. ~Has(<<"pat">>, Tail(todo))
  BY <1>1, PatFirstTail DEF Ordered, Kind
<1>5. Head(todo) # <<"pat">>
  <2>1. Kind # "pat"
    BY DEF TenantKinds
  <2>2. <<"pat">>[1] = "pat"
    OBVIOUS
  <2> QED BY <2>1, <2>2 DEF Kind
<1> QED BY <1>3, <1>4, <1>5, TailHas

LEMMA BegunPlain ==
    ASSUME HostInv, StepsOf # <<>>, StepsOf \in Seq(Stmt)
    PROVE  Head(StepsOf)[1] \notin TenantKinds
<1>1. TypeOK /\ Head(StepsOf) = StepsOf[1] /\ 1 \in DOMAIN StepsOf
  BY TailPlaces DEF HostInv
<1>2. CASE svc # "zitadel"
  BY <1>1, <1>2, StepsOrder
<1>3. CASE svc = "zitadel"
  <2>1. Has(<<"pat">>, StepsOf) /\ PatFirst(StepsOf)
    BY <1>1, <1>3, StepsOrder DEF Ordered
  <2>2. Has(<<"pat">>, Tail(StepsOf)) \/ StepsOf[1] = <<"pat">>
    BY <1>1, <2>1, TailHas
  <2>3. Has(<<"pat">>, Tail(StepsOf)) => Head(StepsOf)[1] \notin TenantKinds
    BY <2>1, PatFirstTail
  <2>4. StepsOf[1] = <<"pat">> => Head(StepsOf)[1] \notin TenantKinds
    <3>1. <<"pat">>[1] = "pat" /\ "pat" \notin TenantKinds
      BY DEF TenantKinds
    <3> QED BY <1>1, <3>1
  <2> QED BY <2>2, <2>3, <2>4
<1> QED BY <1>2, <1>3

LEMMA StatementKinds ==
    /\ DeployerStep => todo # <<>> /\ Kind \notin TenantKinds /\ Kind # "pat"
    /\ DeployerStep => ~ZitadelStep
<1>1. DeployerStep => todo # <<>> /\ Kind \notin TenantKinds /\ Kind \notin {"pat", "api"}
  BY DEF DeployerStep, Guard, Vars, CAReady, IssueCert, Build, OpenFile, WriteFile, Down, Prepare, FindPort, Bind, Up, Wait,
         Login, Dial, Ensure, SetPassword, Clear, Forget, Now, Kind, TenantKinds
<1>2. ZitadelStep => Kind \in TenantKinds \cup {"pat", "api"}
  BY DEF ZitadelStep, ReadPAT, WaitAPI, EnsureOrg, EnsurePart, UserNotFound, CreateClient, OpenClient, WriteClient, Now, Kind,
         TenantKinds, Parts
<1> QED BY <1>1, <1>2

\* What Zitadel's statements are, by their kind.
LEMMA ByKind ==
    ASSUME ZitadelStep
    PROVE  /\ Kind = "org" <=> EnsureOrg
           /\ Kind = "client" <=> CreateClient
           /\ Kind = "open client" <=> OpenClient
           /\ Kind = "write client" <=> WriteClient
           /\ Kind = "pat" <=> ReadPAT
  BY DEF ZitadelStep, ReadPAT, WaitAPI, EnsureOrg, EnsurePart, UserNotFound, CreateClient, OpenClient, WriteClient, Now, Kind, Parts

\* The client is made, or was there.
Skipped == Tail(Tail(Tail(todo)))
LEMMA ClientMade ==
    ASSUME HostInv, OrderInv, CreateClient, Live'
    PROVE  /\ What \in Tenant
           /\ \/ ~HasClient /\ todo' = Tail(todo) /\ org' = [org EXCEPT ![cur].has = @ \cup {"app"}]
                 /\ at' = "deploy" /\ todo' # <<>> /\ Head(todo') = <<"open client", What>>
              \/ HasClient /\ todo' = Skipped /\ todo' # <<>> /\ Head(todo') = <<"user", What>> /\ org' = org
<1>1. ZitadelStep /\ Kind = KindAt[4] /\ 4 \in 1 .. 8 /\ 4 < 8 /\ 4 + 1 = 5
  <2>1. KindAt[4] = "client"
    BY KindsAre
  <2>2. 4 \in 1 .. 8 /\ 4 < 8 /\ 4 + 1 = 5
    OBVIOUS
  <2> QED BY <2>1, <2>2 DEF ZitadelStep, CreateClient, Now, Kind
<1>2. /\ at = "deploy" /\ todo # <<>> /\ todo \in Seq(Post) /\ todo \in Seq(Stmt) /\ Blocks(todo) /\ TypeOK /\ op = svc
      /\ svc # "none" /\ at \in {"deploy", "remove", "cancelled"}
  BY <1>1, ZitadelDue DEF OrderInv, InOrder, Ordered
<1>3. What \in Tenant /\ Tail(todo) # <<>> /\ Head(Tail(todo)) = <<"open client", What>>
  <2>1. KindAt[5] = "open client"
    BY KindsAre
  <2> QED BY <1>1, <1>2, <2>1, TenantDue
<1>4. Tail(todo) \in Seq(Stmt) /\ Blocks(Tail(todo))
  BY <1>2, BlocksTail
<1>5. Tail(Tail(todo)) # <<>> /\ Head(Tail(Tail(todo))) = <<"write client", What>>
  <2>1. 5 \in 1 .. 8 /\ 5 < 8 /\ 5 + 1 = 6
    OBVIOUS
  <2>2. KindAt[5] = "open client" /\ KindAt[6] = "write client"
    BY KindsAre
  <2> QED BY <1>3, <1>4, <2>1, <2>2, BlockHead
<1>6. Tail(Tail(todo)) \in Seq(Stmt) /\ Blocks(Tail(Tail(todo)))
  <2>1. Tail(Tail(todo)) \in Seq(Stmt)
    BY <1>3, <1>4, TailPlaces
  <2> QED BY <1>3, <1>4, <2>1, BlocksTail
<1>7. Skipped # <<>> /\ Head(Skipped) = <<"user", What>>
  <2>1. 6 \in 1 .. 8 /\ 6 < 8 /\ 6 + 1 = 7
    OBVIOUS
  <2>2. KindAt[6] = "write client" /\ KindAt[7] = "user"
    BY KindsAre
  <2> QED BY <1>3, <1>5, <1>6, <2>1, <2>2, BlockHead DEF Skipped
<1>8. ~(\E v \in Bad : Stops(v))
  BY <1>2, Stopping
<1>9. CASE HasClient
  <2>1. SkipClient /\ org' = org
    BY <1>9 DEF CreateClient
  <2>2. todo' = Skipped
    BY <1>2, <1>3, <1>5, <2>1, ThreeTails DEF SkipClient, Then, Skipped
  <2> QED BY <1>3, <1>7, <1>9, <2>1, <2>2
<1>10. CASE ~HasClient
  <2>1. Done /\ org' = [org EXCEPT ![cur].has = @ \cup {"app"}]
    BY <1>8, <1>10, EndsOrGoes DEF CreateClient, Conflict
  <2>2. todo' = Tail(todo) /\ at' = at
    BY <1>3, <2>1 DEF Done, Then
  <2> QED BY <1>2, <1>3, <1>10, <2>1, <2>2
<1> QED BY <1>9, <1>10

\* Where a tenant's statement goes, and where it came from.
LEMMA DueGoes ==
    ASSUME HostInv, [Next]_svars, NEW k \in TenantKinds, NEW t, Due(k, t)
    PROVE  (UNCHANGED <<at, todo>> /\ Due(k, t)' /\ ~ZitadelStep) \/ Spent({"cut"})' \/ (ZitadelStep /\ Kind = k /\ What = t)
<1>1. Kind = k /\ What = t /\ at = "deploy" /\ ~Idle
  BY DEF Due, Kind, What, HostInv, Control
<1>2. CASE ZitadelStep
  BY <1>1, <1>2
<1>3. CASE Aside /\ ~ZitadelStep
  BY <1>1, <1>3 DEF Aside, Due
<1>4. CASE FirstStart /\ ~ZitadelStep
  BY <1>4 DEF FirstStart, dvars, runVars, svcVars, Due
<1>5. ~Begun /\ ~ObeysPAT /\ ~LosesPAT /\ ~Stating
  BY <1>1, StatementKinds DEF Begun, Deploys, Begins, ObeysPAT, LosesPAT, Stating
<1> QED BY <1>2, <1>3, <1>4, <1>5, Sides

LEMMA PairFirst == \A s, a, b : s = <<a, b>> => s[1] = a /\ s[2] = b
  OBVIOUS

LEMMA DueFrom ==
    ASSUME HostInv, OrderInv, [Next]_svars, NEW k \in 2 .. 8, NEW t \in Tenant, Due(KindAt[k], t)'
    PROVE  \/ Due(KindAt[k], t) /\ cur' = cur /\ ~ZitadelStep /\ ~ObeysPAT
           \/ ZitadelStep /\ Due(KindAt[k - 1], t) /\ todo' = Tail(todo)
           \/ CreateClient /\ Due("client", t) /\ KindAt[k] = "user"
<1>1. at' = "deploy" /\ todo' # <<>> /\ Head(todo') = <<KindAt[k], t>> /\ Live' /\ KindAt[k] \in TenantKinds
  <2>1. k \in 1 .. 8
    OBVIOUS
  <2> QED BY <2>1, KindsAre DEF Due, Live
<1>2. Head(todo')[1] \in TenantKinds
  BY <1>1
<1>3. at # "idle" => ~Idle
  BY DEF HostInv, Control
<1>4. ~Begun
  <2>1. Begun => todo' = StepsOf
    BY DEF Begun, Deploys
  <2>2. StepsOf \in Seq(Stmt) /\ StepsOf # <<>>
    <3>1. svc # "harbor" => Renders(StepsOf)
      BY StepsShape DEF HostInv
    <3>2. svc = "harbor" => HarborRenders(StepsOf)
      BY StepsShape DEF HostInv
    <3>3. Renders(StepsOf) => StepsOf \in Seq(Stmt) /\ StepsOf # <<>>
      BY RendersNext
    <3>4. HarborRenders(StepsOf) => StepsOf \in Seq(Stmt) /\ StepsOf # <<>>
      BY HarborRendersNext
    <3> QED BY <3>1, <3>2, <3>3, <3>4
  <2> QED BY <1>1, <1>2, <2>1, <2>2, BegunPlain
<1>5. CASE Aside /\ ~ZitadelStep
  BY <1>1, <1>3, <1>5 DEF Aside, Due, ObeysPAT
<1>6. CASE FirstStart /\ ~ZitadelStep
  BY <1>1, <1>3, <1>6 DEF FirstStart, dvars, runVars, svcVars, Due, ObeysPAT
<1>7. ~ObeysPAT /\ ~LosesPAT
  <2>1. ObeysPAT \/ LosesPAT => at' = at /\ Idle
    BY DEF ObeysPAT, LosesPAT
  <2> QED BY <1>1, <1>3, <2>1
<1>8. CASE Stating \/ ZitadelStep
  <2>1. at = "deploy" /\ Skips /\ todo # <<>> /\ todo \in Seq(Stmt)
    BY <1>1, <1>8, StatementMoves DEF Stating
  <2>2. Blocks(todo)
    BY <2>1 DEF OrderInv, InOrder, Ordered
  <2>3. CASE todo' = Tail(todo)
    <3>1. Head(todo) = <<KindAt[k - 1], t>>
      BY <1>1, <2>1, <2>2, <2>3, BlockBefore
    <3>2. k - 1 \in 1 .. 8
      OBVIOUS
    <3>3. Kind \in TenantKinds
      <4>1. Kind = KindAt[k - 1]
        BY <3>1 DEF Kind
      <4> DEFINE j == k - 1
      <4>2. j \in 1 .. 8 /\ Kind = KindAt[j]
        BY <3>2, <4>1
      <4> HIDE DEF j
      <4> QED BY <4>2, KindsAre
    <3>4. ~Stating
      BY <3>3, StatementKinds DEF Stating
    <3> QED BY <1>8, <2>1, <2>3, <3>1, <3>4 DEF Due
  <2>4. CASE UserNotFound /\ Tail(todo) # <<>> /\ todo' = Tail(Tail(todo))
    <3>1. Tail(todo) \in Seq(Stmt) /\ Blocks(Tail(todo))
      BY <2>1, <2>2, BlocksTail, TailPlaces
    <3>2. Head(Tail(todo)) = <<KindAt[k - 1], t>>
      BY <1>1, <2>4, <3>1, BlockBefore
    <3>3. Kind = KindAt[7] /\ 7 \in 1 .. 8 /\ 7 < 8 /\ 7 + 1 = 8
      <4>1. KindAt[7] = "user"
        BY KindsAre
      <4>2. 7 \in 1 .. 8 /\ 7 < 8 /\ 7 + 1 = 8
        OBVIOUS
      <4> QED BY <2>4, <4>1, <4>2 DEF UserNotFound, Now, Kind
    <3>4. ZitadelStep
      BY <2>4 DEF ZitadelStep
    <3>5. Head(Tail(todo)) = <<KindAt[8], What>>
      BY <2>1, <2>2, <3>3, <3>4, ZitadelDue, TenantDue
    <3>6. KindAt[k - 1] = KindAt[8]
      <4>1. Head(Tail(todo))[1] = KindAt[k - 1]
        BY <3>2, PairFirst
      <4>2. Head(Tail(todo))[1] = KindAt[8]
        BY <3>5, PairFirst
      <4> QED BY <4>1, <4>2
    <3>7. k - 1 \in 1 .. 8 /\ 8 \in 1 .. 8 /\ k - 1 # 8
      OBVIOUS
    <3> DEFINE j == k - 1
    <3>8. j \in 1 .. 8 /\ KindAt[j] = KindAt[8] /\ j # 8
      BY <3>6, <3>7
    <3> HIDE DEF j
    <3> QED BY <3>7, <3>8, KindsAre
  <2>5. CASE CreateClient /\ Tail(todo) # <<>> /\ Tail(Tail(todo)) # <<>> /\ todo' = Tail(Tail(Tail(todo)))
    <3>1. Head(todo) = <<"client", What>>
      <4>1. ZitadelStep /\ Kind = "client"
        BY <2>5 DEF ZitadelStep, CreateClient, Now, Kind
      <4> QED BY <4>1, ZitadelDue, TenantHead DEF TenantKinds
    <3>2. CASE Head(todo') = <<"user", What>>
      <4>1. KindAt[k] = "user" /\ t = What
        BY <1>1, <3>2
      <4> QED BY <2>1, <2>5, <3>1, <4>1 DEF Due
    <3>3. CASE ~HasClient /\ todo' = Tail(todo)
      BY <2>3, <3>3
    <3> QED BY <1>1, <2>5, <3>2, <3>3, ClientMade
  <2> QED BY <2>1, <2>3, <2>4, <2>5 DEF Skips
<1> QED BY <1>4, <1>5, <1>6, <1>7, <1>8, Sides DEF Stating
\* A deployment is refused for the token, or for the client, that its statement did not find.
LEMMA NewVerdict ==
    ASSUME HostInv, OrderInv, [Next]_svars
    PROVE  /\ verdict'[svc] = "pat" => verdict[svc] = "pat" \/ (ReadPAT /\ ~pat /\ inst \in {"whole", "stuck"})
           /\ verdict'[svc] = "conflict" => verdict[svc] = "conflict" \/ (CreateClient /\ ~HasClient /\ "app" \in org[cur].has)
<1> DEFINE Asks == ReadPAT /\ ~pat /\ inst \in {"whole", "stuck"}
           Finds == CreateClient /\ ~HasClient /\ "app" \in org[cur].has
<1>0. TypeOK /\ svc \in DOMAIN verdict
  BY DEF HostInv, TypeOK
<1>1. CASE Ended(Verdicts \ {"pat", "conflict"})
  BY <1>1 DEF Ended
<1>2. CASE Deploys(StepsOf) \/ Removes \/ Watch \/ Reboot \/ FirstStart \/ UNCHANGED svars
  BY <1>1, <1>2 DEF Deploys, Removes, Watch, Reboot, FirstStart, svars, dvars, runVars, Ended
<1>3. CASE Cut \/ ObeysPAT \/ Configures \/ LosesPAT
  <2>1. "failed" \notin {"pat", "conflict"} /\ "ok" \notin {"pat", "conflict"} /\ "changed" \notin {"pat", "conflict"}
    OBVIOUS
  <2> QED BY <1>0, <1>3, <2>1 DEF Cut, CutShort, Ends, ObeysPAT, Configures, LosesPAT, Changed, TypeOK, Idle
<1>4. ASSUME todo # <<>>
      PROVE  /\ (\E rest : Move(rest)) \/ Done => Ended(Verdicts \ {"pat", "conflict"})
             /\ \A v \in Bad : Stops(v) => Ended({v})
  <2>1. {"ok", "removed", "failed"} \subseteq Verdicts \ {"pat", "conflict"}
    BY DEF Verdicts
  <2>2. \A rest : Move(rest) => Ended(Verdicts \ {"pat", "conflict"})
    BY <1>4, <2>1, Endings DEF Ended
  <2> QED BY <1>4, <2>2, Endings, EndsOrGoes
<1>5. CASE ZitadelStep
  <2>1. /\ todo # <<>>
        /\ \/ Done \/ Stops("failed") \/ verdict' = verdict \/ UserNotFound \/ SkipClient
           \/ (Asks /\ Stops("pat")) \/ (Finds /\ Stops("conflict"))
    BY <1>5 DEF ZitadelStep, ReadPAT, WaitAPI, EnsureOrg, EnsurePart, CreateClient, OpenClient, WriteClient, Fails, Outside,
           Conflict, UserNotFound, Now, Tolerates
  <2>2. UserNotFound => Move(Tail(Tail(todo)))
    BY <1>5, ZitadelDue DEF UserNotFound, Move, Outcome
  <2>3. SkipClient => Move(SubSeq(todo, 4, Len(todo)))
    BY DEF SkipClient, Then, Move
  <2>4. {"failed", "pat", "conflict"} \subseteq Bad /\ "failed" \in Verdicts \ {"pat", "conflict"}
    BY DEF Bad, Verdicts
  <2>5. Stops("failed") => Ended(Verdicts \ {"pat", "conflict"})
    BY <1>4, <2>1, <2>4 DEF Ended
  <2>6. (Stops("pat") => Ended({"pat"})) /\ (Stops("conflict") => Ended({"conflict"}))
    BY <1>4, <2>1, <2>4
  <2>7. verdict' = verdict => Ended(Verdicts \ {"pat", "conflict"})
    BY DEF Ended
  <2>8. \/ Ended(Verdicts \ {"pat", "conflict"}) \/ (Asks /\ Ended({"pat"})) \/ (Finds /\ Ended({"conflict"}))
    BY <1>4, <2>1, <2>2, <2>3, <2>5, <2>6, <2>7
  <2> QED BY <1>1, <2>8 DEF Ended
<1>6. CASE DeployerStep
  <2>1. /\ todo # <<>>
        /\ \/ Done \/ verdict' = verdict
           \/ (\E v \in {"failed", "config", "not ready", "login", "unreachable", "shape"} : Stops(v))
    BY <1>6 DEF DeployerStep, Guard, Vars, CAReady, IssueCert, Build, OpenFile, WriteFile, Down, Prepare, FindPort, Bind, Up, Wait,
       Login, Dial, Ensure, SetPassword, Clear, Forget, Now, Outside, Fails, PortMissing
  <2>2. {"failed", "config", "not ready", "login", "unreachable", "shape"} \subseteq Bad \ {"pat", "conflict"}
    BY DEF Bad, Verdicts
  <2>3. {"failed", "config", "not ready", "login", "unreachable", "shape"} \subseteq Verdicts \ {"pat", "conflict"}
    BY DEF Verdicts
  <2>4. \A v \in {"failed", "config", "not ready", "login", "unreachable", "shape"} : Stops(v) =>
            Ended(Verdicts \ {"pat", "conflict"})
    BY <1>4, <2>1, <2>2, <2>3 DEF Ended
  <2> QED BY <1>1, <1>4, <2>1, <2>4 DEF Ended
<1> QED BY <1>2, <1>3, <1>5, <1>6 DEF Next, Statement

\* Who makes a tenant's part has the token, and knows the tenant.
LEMMA Tokened ==
    ASSUME HostInv, OrderInv, PATInv, ZitadelStep, Kind \in TenantKinds
    PROVE  /\ pat /\ inst = "whole" /\ svc = "zitadel" /\ What \in Tenant /\ Head(todo) = <<Kind, What>> /\ Due(Kind, What)
           /\ at = "deploy" /\ todo # <<>> /\ todo \in Seq(Stmt) /\ Blocks(todo) /\ TypeOK
<1>1. /\ todo # <<>> /\ at = "deploy" /\ todo \in Seq(Post) /\ todo \in Seq(Stmt) /\ Kind \in PostKinds /\ TypeOK
  BY ZitadelDue
<1>2. svc = "zitadel" /\ ~Has(<<"pat">>, todo)
  BY <1>1, TenantKindDue
<1>3. What \in Tenant /\ Head(todo) = <<Kind, What>>
  BY <1>1, TenantHead
<1>4. Blocks(todo)
  BY <1>1 DEF OrderInv, InOrder, Ordered
<1> QED BY <1>1, <1>2, <1>3, <1>4 DEF PATInv, Due
\* What Zitadel's statements change.
LEMMA ZitadelChanges ==
    ASSUME ZitadelStep
    PROVE  /\ pat' = pat /\ inst' = inst
           /\ org' # org => Kind \in TenantKinds
           /\ cf' # cf => OpenClient \/ WriteClient
           /\ cur' # cur => EnsureOrg
           /\ OpenClient \/ WriteClient \/ EnsureOrg \/ CreateClient \/ UserNotFound => Kind \in TenantKinds
<1>1. /\ pat' = pat /\ inst' = inst
      /\ org' # org => Kind \in {"org", "project", "role", "client", "user", "grant"}
      /\ cf' # cf => OpenClient \/ WriteClient
      /\ cur' # cur => EnsureOrg
  BY DEF ZitadelStep, ReadPAT, WaitAPI, EnsureOrg, EnsurePart, UserNotFound, CreateClient, OpenClient, WriteClient, zVars, Now,
         Kind, Parts
<1>2. OpenClient \/ WriteClient \/ EnsureOrg \/ CreateClient \/ UserNotFound =>
          Kind \in {"org", "client", "open client", "write client", "user"}
  BY DEF EnsureOrg, UserNotFound, CreateClient, OpenClient, WriteClient, Now, Kind
<1> QED BY <1>1, <1>2 DEF TenantKinds

\* A deployment of Zitadel that goes on has read the token, or will.
LEMMA TokenAsked ==
    ASSUME HostInv, OrderInv, PATInv, [Next]_svars, svc = "zitadel", at' = "deploy"
    PROVE  pat' \/ Has(<<"pat">>, todo')
<1>0. TypeOK /\ (at = "idle" <=> Idle) /\ Live'
  BY DEF HostInv, Control, Live
<1>1. CASE Begun
  <2>1. Has(<<"pat">>, StepsOf)
    BY <1>0, StepsOrder
  <2> QED BY <1>1, <2>1 DEF Begun, Deploys
<1>2. CASE Aside
  <2>1. at = "deploy" /\ todo' = todo /\ pat' = pat
    BY <1>2 DEF Aside
  <2>2. pat \/ Has(<<"pat">>, todo)
    BY <2>1 DEF PATInv
  <2> QED BY <2>1, <2>2, Zenon
<1>3. CASE FirstStart
  BY <1>3 DEF FirstStart, dvars, runVars, svcVars, PATInv
<1>4. ~ObeysPAT /\ ~LosesPAT
  BY <1>0 DEF ObeysPAT, LosesPAT
<1>5. CASE Stating \/ ZitadelStep
  <2>1. /\ at = "deploy" /\ Skips /\ todo # <<>> /\ todo \in Seq(Stmt) /\ pat' = pat
    BY <1>0, <1>5, StatementMoves, ZitadelChanges DEF Stating
  <2>2. CASE pat
    BY <2>1, <2>2
  <2>3. CASE Has(<<"pat">>, todo)
    <3>1. \A x : <<"pat">> # <<"grant", x>> /\ <<"pat">> # <<"open client", x>> /\ <<"pat">> # <<"write client", x>>
      <4>1. <<"pat">>[1] = "pat"
        OBVIOUS
      <4>2. \A x : <<"grant", x>>[1] = "grant" /\ <<"open client", x>>[1] = "open client" /\ <<"write client", x>>[1] = "write client"
        OBVIOUS
      <4> QED BY <4>1, <4>2
    <3>2. CASE Has(<<"pat">>, todo')
      BY <3>2
    <3>3. CASE Head(todo) = <<"pat">>
      <4>1. Kind = "pat"
        BY <3>3 DEF Kind
      <4>2. ReadPAT
        BY <1>5, <4>1, StatementKinds, ByKind DEF Stating
      <4>3. \A v \in {"failed", "pat"} : ~Stops(v)
        <5>1. {"failed", "pat"} \subseteq Bad
          BY DEF Bad, Verdicts
        <5> QED BY <1>0, <5>1, Stopping
      <4> QED BY <2>1, <4>2, <4>3 DEF ReadPAT, Fails, Outside
    <3>4. \/ Has(<<"pat">>, todo') \/ <<"pat">> = Head(todo)
          \/ UserNotFound /\ <<"pat">> = <<"grant", What>>
          \/ CreateClient /\ (<<"pat">> = <<"open client", What>> \/ <<"pat">> = <<"write client", What>>)
      <4> DEFINE x == <<"pat">>
      <4>1. Has(x, todo)
        BY <2>3
      <4> HIDE DEF x
      <4>2. \/ Has(x, todo') \/ x = Head(todo)
            \/ UserNotFound /\ x = <<"grant", What>>
            \/ CreateClient /\ (x = <<"open client", What>> \/ x = <<"write client", What>>)
        BY <2>1, <4>1, Dropped
      <4> QED BY <4>2 DEF x
    <3> QED BY <3>1, <3>2, <3>3, <3>4
  <2>4. pat \/ Has(<<"pat">>, todo)
    BY <2>1 DEF PATInv
  <2> QED BY <2>2, <2>3, <2>4, Zenon
<1> QED BY <1>1, <1>2, <1>3, <1>4, <1>5, Sides

LEMMA PATNext ==
    ASSUME HostInv, OrderInv, PATInv, [Next]_svars
    PROVE  PATInv'
<1>0. TypeOK /\ svc' = svc /\ svc \in DOMAIN verdict /\ (Spent({"lose pat"}) => Spent({"lose pat"})')
  BY OrderNext, BudgetNext DEF HostInv, TypeOK
<1>1. svc' = "zitadel" /\ at' = "deploy" => pat' \/ Has(<<"pat">>, todo')
  BY <1>0, TokenAsked
<1>2. verdict'[svc'] = "pat" => (verdict[svc] = "pat" /\ ~ObeysPAT) \/ (ReadPAT /\ ~pat /\ inst \in {"whole", "stuck"})
  BY <1>0, NewVerdict DEF ObeysPAT
<1>3. CASE UNCHANGED <<pat, org, cf, cur>> /\ InstStays
  <2>1. inst \in {"whole", "stuck"} => inst' = inst
    BY <1>3 DEF InstStays
  <2>2. inst' = "none" => inst = "none"
    BY <1>3 DEF InstStays
  <2>3. verdict'[svc'] = "pat" => ~pat' /\ inst' \in {"whole", "stuck"}
    BY <1>2, <1>3, <2>1 DEF PATInv
  <2> QED BY <1>0, <1>1, <1>3, <2>1, <2>2, <2>3 DEF PATInv
<1>4. Aside \/ Stating \/ Begun => UNCHANGED <<pat, org, cf, cur>> /\ InstStays
  BY DEF Aside, Stating, Begun, zVars, InstStays
<1>5. CASE FirstStart
  <2>1. inst \in {"none", "half"} /\ inst' \in {"half", "whole"} /\ cf' = cf /\ (inst' = "whole" \/ pat' = pat)
    BY <1>5 DEF FirstStart
  <2>2. ~pat /\ (pat' => inst' = "whole")
    <3>1. inst # "whole"
      BY <2>1
    <3>2. pat => inst = "whole"
      BY DEF PATInv
    <3>3. ~pat
      BY <3>1, <3>2, Zenon
    <3>4. pat = FALSE
      BY <1>0, <3>3 DEF TypeOK
    <3>5. inst' = "whole" \/ pat' = FALSE
      BY <2>1, <3>4
    <3> QED BY <3>3, <3>5, Zenon
  <2>3. verdict'[svc'] # "pat"
    BY <1>2, <2>1 DEF PATInv
  <2> QED BY <1>0, <1>1, <2>1, <2>2, <2>3 DEF PATInv
<1>6. CASE ObeysPAT
  <2>1. ~pat' /\ inst' = "none" /\ org' = NoOrgs /\ cf' = cf /\ verdict[svc] = "pat" /\ ~(ReadPAT)
    BY <1>6 DEF ObeysPAT, ReadPAT, Now, Idle, HostInv, TypeOK
  <2>2. \A i \in DOMAIN org' : org'[i].tenant = "none"
    BY <2>1 DEF NoOrgs, NoOrg
  <2>3. verdict'[svc'] # "pat"
    BY <1>2, <1>6, <2>1
  <2>4. ~pat /\ (~Spent({"lose pat"}) => \A f \in ClientFile : cf[f] = 0)
    BY <2>1 DEF PATInv
  <2> QED BY <1>0, <1>1, <2>1, <2>2, <2>3, <2>4 DEF PATInv
<1>7. CASE LosesPAT
  <2>1. pat /\ ~pat' /\ Spend("lose pat") /\ UNCHANGED <<inst, org, cf>>
    BY <1>7 DEF LosesPAT
  <2>2. Spent({"lose pat"})'
    BY <2>1, SpendKeeps DEF HostInv
  <2>3. verdict'[svc'] # "pat"
    BY <1>2, <2>1 DEF PATInv
  <2> QED BY <1>0, <1>1, <2>1, <2>2, <2>3 DEF PATInv
<1>8. CASE ZitadelStep
  <2>1. pat' = pat /\ inst' = inst /\ (org' # org \/ cf' # cf => Kind \in TenantKinds)
    BY <1>8, ZitadelChanges
  <2>2. org' # org \/ cf' # cf => pat /\ inst = "whole"
    BY <1>8, <2>1, Tokened
  <2>3. verdict'[svc'] = "pat" => ~pat' /\ inst' \in {"whole", "stuck"}
    BY <1>2, <2>1 DEF PATInv
  <2>4. inst' = "none" => \A i \in DOMAIN org' : org'[i].tenant = "none"
    BY <2>1, <2>2 DEF PATInv
  <2>5. ~pat' /\ ~Spent({"lose pat"})' => \A f \in ClientFile : cf'[f] = 0
    BY <1>0, <2>1, <2>2 DEF PATInv
  <2> QED BY <1>1, <2>1, <2>3, <2>4, <2>5 DEF PATInv
<1> QED BY <1>3, <1>4, <1>5, <1>6, <1>7, <1>8, Sides
LEMMA CurNext ==
    ASSUME HostInv, OrderInv, PATInv, CurInv, [Next]_svars
    PROVE  CurInv'
<1>1. ASSUME NEW t \in Tenant, NEW k \in 2 .. 8, Due(KindAt[k], t)'
      PROVE  /\ cur' \in OrgsOf(t)'
             /\ KindAt[k] \in {"open client", "write client"} => "app" \in org'[cur'].has
  <2>0. Live' /\ TypeOK /\ Head(todo') = <<KindAt[k], t>>
    BY <1>1 DEF Due, Live, HostInv
  <2>1. CASE Due(KindAt[k], t) /\ cur' = cur /\ ~ZitadelStep /\ ~ObeysPAT
    <3>1. cur \in OrgsOf(t)
      BY <2>1 DEF CurInv
    <3>2. cur \in OrgsOf(t)' /\ org[cur].has \subseteq org'[cur].has
      BY <2>0, <2>1, <3>1, OrgNext, OrgsStay
    <3>3. KindAt[k] \in {"open client", "write client"} => "app" \in org[cur].has
      BY <2>1 DEF CurInv
    <3> QED BY <2>1, <3>2, <3>3
  <2>2. CASE CreateClient /\ Due("client", t) /\ KindAt[k] = "user"
    <3>1. 4 \in 2 .. 8
      OBVIOUS
    <3>2. cur \in OrgsOf(t)
      <4>1. KindAt[4] = "client"
        BY KindsAre
      <4> QED BY <2>2, <3>1, <4>1 DEF CurInv
    <3>3. ~ObeysPAT /\ cur' = cur
      BY <2>2 DEF CreateClient, ObeysPAT, Now, Idle, HostInv, TypeOK
    <3> QED BY <2>0, <2>2, <3>2, <3>3, OrgNext, OrgsStay
  <2>3. CASE ZitadelStep /\ Due(KindAt[k - 1], t) /\ todo' = Tail(todo)
    <3>1. Kind = KindAt[k - 1] /\ What = t /\ ~ObeysPAT
      BY <2>3, PairFirst DEF Due, Kind, What, ObeysPAT, Idle, HostInv, TypeOK
    <3>2. CASE k = 2
      <4>0. k - 1 = 1
        BY <3>2
      <4>1. KindAt[k - 1] = "org" /\ KindAt[k] = "project"
        BY <3>2, <4>0, KindsAre
      <4>2. EnsureOrg /\ Head(todo) = <<"org", t>>
        BY <2>3, <3>1, <4>1, ByKind DEF Due
      <4> QED BY <2>0, <3>2, <4>1, <4>2, OrgChosen
    <3>3. CASE k # 2
      <4> DEFINE j == k - 1
      <4>1. j \in 2 .. 8 /\ j \in 1 .. 8 /\ 1 \in 1 .. 8 /\ j # 1 /\ j + 1 = k /\ Kind = KindAt[j] /\ Due(KindAt[j], t)
        BY <2>3, <3>1, <3>3
      <4> HIDE DEF j
      <4>2. cur \in OrgsOf(t)
        BY <4>1 DEF CurInv
      <4>3. cur' = cur
        <5>1. Kind # "org"
          BY <4>1, KindsAre
        <5> QED BY <2>3, <5>1, ByKind, ZitadelChanges
      <4>4. cur \in OrgsOf(t)' /\ org[cur].has \subseteq org'[cur].has
        BY <2>0, <3>1, <4>2, OrgNext, OrgsStay
      <4>5. CASE KindAt[k] = "open client"
        <5>1. j = 4 /\ k = 5
          <6>1. k \in 1 .. 8 /\ 5 \in 1 .. 8
            OBVIOUS
          <6>2. k = 5
            BY <4>5, <6>1, KindsAre
          <6> QED BY <4>1, <6>2
        <5>2. CreateClient
          BY <2>3, <4>1, <5>1, ByKind, KindsAre
        <5>3. ~(HasClient /\ Head(todo') = <<"user", What>>)
          <6>1. Head(todo')[1] = "open client"
            BY <2>0, <4>5, PairFirst
          <6>2. Head(todo') = <<"user", What>> => Head(todo')[1] = "user"
            BY PairFirst
          <6> QED BY <6>1, <6>2
        <5>4. org' = [org EXCEPT ![cur].has = @ \cup {"app"}]
          BY <2>0, <5>2, <5>3, ClientMade
        <5>5. cur \in DOMAIN org
          BY <4>2 DEF OrgsOf
        <5>6. org'[cur].has = org[cur].has \cup {"app"}
          BY <2>0, <5>4, <5>5 DEF TypeOK
        <5> QED BY <4>3, <4>4, <5>6
      <4>6. CASE KindAt[k] = "write client"
        <5>1. j = 5 /\ k = 6
          <6>1. k \in 1 .. 8 /\ 6 \in 1 .. 8
            OBVIOUS
          <6>2. k = 6
            BY <4>6, <6>1, KindsAre
          <6> QED BY <4>1, <6>2
        <5>2. "app" \in org[cur].has
          <6>1. Due("open client", t)
            BY <4>1, <5>1, KindsAre
          <6> QED BY <6>1 DEF CurInv
        <5> QED BY <4>3, <4>4, <5>2
      <4> QED BY <4>3, <4>4, <4>5, <4>6
    <3> QED BY <3>2, <3>3
  <2> QED BY <1>1, <2>1, <2>2, <2>3, DueFrom
<1>2. ASSUME NEW t \in Tenant, Due("open client", t)' \/ Due("write client", t)'
      PROVE  "app" \in org'[cur'].has
  <2>1. KindAt[5] = "open client" /\ KindAt[6] = "write client"
    BY KindsAre
  <2>2. 5 \in 2 .. 8 /\ 6 \in 2 .. 8
    OBVIOUS
  <2> QED BY <1>1, <1>2, <2>1, <2>2
<1> QED BY <1>1, <1>2 DEF CurInv
\* A client file is opened, and written with the organisation that the deployment is at.
Here(q, t) == q = conf.fqdn /\ LabelOf[t] = LabelOf[What]
OpensFile ==
    /\ OpenClient /\ Due("open client", What) /\ What \in Tenant /\ todo' = Tail(todo) /\ UNCHANGED <<org, conf>>
    /\ \A q \in 1 .. 2, t \in Tenant : FileAt(q, t)' = IF Here(q, t) THEN TornFile ELSE FileAt(q, t)
WritesFile ==
    /\ WriteClient /\ Due("write client", What) /\ What \in Tenant /\ UNCHANGED <<org, conf>>
    /\ cur \in OrgsOf(What) /\ "app" \in org[cur].has
    /\ \A q \in 1 .. 2, t \in Tenant : FileAt(q, t)' = IF Here(q, t) THEN cur ELSE FileAt(q, t)

\* The file of the configuration is one of them; an edit of the name is counted.
LEMMA FileHere ==
    ASSUME TypeOK
    PROVE  conf.fqdn \in 1 .. 2 /\ \A t : FileOf(t) = FileAt(conf.fqdn, t)
  BY DEF TypeOK, Config, FileOf, PathOf, FileAt

LEMMA NameKept ==
    ASSUME HostInv, OrderInv, [Next]_svars
    PROVE  \/ conf'.fqdn = conf.fqdn
           \/ Configures /\ Spent({"rename"})' /\ at = "idle" /\ at' = "idle" /\ UNCHANGED <<cf, org>>
<1>1. CASE Configures /\ UNCHANGED zVars
  <2>1. CASE Spend("settings") /\ Settings
    <3>1. conf \in Config
      BY DEF HostInv, TypeOK
    <3> QED BY <2>1, <3>1 DEF Settings, Config
  <2>2. CASE Spend("rename")
    <3>1. Spent({"rename"})'
      BY <2>2, SpendKeeps DEF HostInv
    <3>2. at = "idle"
      BY <1>1 DEF HostInv, Control, Configures
    <3> QED BY <1>1, <3>1, <3>2 DEF Configures, zVars
  <2> QED BY <1>1, <2>1, <2>2 DEF Configures
<1>2. conf' # conf => Configures /\ UNCHANGED zVars
  <2>1. DeployerStep \/ ZitadelStep => conf' = conf
    BY StatementMoves
  <2> QED BY <2>1 DEF Next, Statement, Deploys, Removes, Cut, Watch, Reboot, FirstStart, ObeysPAT, LosesPAT, svars, dvars, svcVars
<1> QED BY <1>1, <1>2

LEMMA OrgNumbers ==
    ASSUME TypeOK, NEW t
    PROVE  OrgsOf(t) \subseteq 1 .. MaxOrg /\ TornFile \notin OrgsOf(t) /\ 0 \notin OrgsOf(t) /\ TornFile # 0
<1>1. DOMAIN org = 1 .. MaxOrg /\ MaxOrg \in Nat
  BY ZitadelAssumption DEF TypeOK
<1> QED BY <1>1 DEF OrgsOf, TornFile

LEMMA FilesChange ==
    ASSUME HostInv, OrderInv, PATInv, CurInv, [Next]_svars
    PROVE  /\ UNCHANGED cf \/ OpensFile \/ WritesFile
           /\ OpenClient => OpensFile
           /\ WriteClient => WritesFile
           /\ \A t \in Tenant : FileOf(t) # 0 => FileOf(t)' # 0 \/ conf'.fqdn # conf.fqdn
<1>0. TypeOK /\ cf \in [ClientFile -> 0 .. TornFile] /\ (\A t \in Tenant : LabelOf[t] \in Label) /\ conf.fqdn \in 1 .. 2
  BY FileHere, ZitadelAssumption DEF HostInv, TypeOK
<1>1. ASSUME OpenClient PROVE OpensFile
  <2>1. /\ ZitadelStep /\ Kind = "open client" /\ Kind \in TenantKinds /\ todo' = Tail(todo) /\ org' = org /\ conf' = conf
        /\ cf' = [cf EXCEPT ![PathOf(What)] = TornFile]
    BY <1>1 DEF ZitadelStep, OpenClient, Now, Kind, TenantKinds, Done, Then
  <2>2. What \in Tenant /\ Due("open client", What)
    BY <2>1, Tokened
  <2>3. \A q \in 1 .. 2, t \in Tenant : FileAt(q, t)' = IF Here(q, t) THEN TornFile ELSE FileAt(q, t)
    BY <1>0, <2>1, <2>2 DEF FileAt, PathOf, Here, ClientFile
  <2> QED BY <1>1, <2>1, <2>2, <2>3 DEF OpensFile
<1>2. ASSUME WriteClient PROVE WritesFile
  <2>1. /\ ZitadelStep /\ Kind = "write client" /\ Kind \in TenantKinds /\ org' = org /\ conf' = conf
        /\ cf' = [cf EXCEPT ![PathOf(What)] = cur]
    BY <1>2 DEF ZitadelStep, WriteClient, Now, Kind, TenantKinds, Done, Then
  <2>2. What \in Tenant /\ Due("write client", What)
    BY <2>1, Tokened
  <2>3. \A q \in 1 .. 2, t \in Tenant : FileAt(q, t)' = IF Here(q, t) THEN cur ELSE FileAt(q, t)
    BY <1>0, <2>1, <2>2 DEF FileAt, PathOf, Here, ClientFile
  <2>4. 6 \in 2 .. 8
    OBVIOUS
  <2>5. KindAt[6] = "write client"
    BY KindsAre
  <2>6. cur \in OrgsOf(What) /\ "app" \in org[cur].has
    BY <2>2, <2>4, <2>5 DEF CurInv
  <2> QED BY <1>2, <2>1, <2>2, <2>3, <2>6 DEF WritesFile
<1>3. cf' # cf => OpenClient \/ WriteClient
  <2>1. FirstStart \/ ObeysPAT \/ LosesPAT => cf' = cf
    BY DEF FirstStart, ObeysPAT, LosesPAT
  <2>2. Begun \/ Aside \/ Stating => cf' = cf
    BY DEF Begun, Aside, Stating, zVars
  <2> QED BY <2>1, <2>2, Sides, ZitadelChanges
<1>4. ASSUME NEW t \in Tenant, FileOf(t) # 0, conf'.fqdn = conf.fqdn PROVE FileOf(t)' # 0
  <2> DEFINE q == conf.fqdn
  <2>1. FileOf(t) = FileAt(q, t) /\ FileOf(t)' = FileAt(q, t)'
    BY <1>4 DEF FileOf, PathOf, FileAt
  <2>2. CASE OpensFile
    BY <1>0, <1>4, <2>1, <2>2, OrgNumbers DEF OpensFile
  <2>3. CASE WritesFile
    BY <1>0, <1>4, <2>1, <2>3, OrgNumbers DEF WritesFile
  <2>4. CASE UNCHANGED cf
    BY <1>4, <2>1, <2>4 DEF FileAt
  <2> QED BY <1>1, <1>2, <1>3, <2>2, <2>3, <2>4
<1> QED BY <1>1, <1>2, <1>3, <1>4

\* Only CreateClient makes a client.
LEMMA AppsCame ==
    ASSUME HostInv, OrderInv, PATInv, [Next]_svars, ~ObeysPAT, NEW t \in Tenant, NEW i \in OrgsOf(t)', "app" \in org'[i].has
    PROVE  \/ i \in OrgsOf(t) /\ "app" \in org[i].has
           \/ /\ CreateClient /\ ~HasClient /\ i = cur /\ i \in OrgsOf(t) /\ (Done \/ (Spend("lost") /\ Stops("failed")))
<1>0. TypeOK /\ DOMAIN org = 1 .. MaxOrg
  BY DEF HostInv, TypeOK
<1>1. CASE org' = org
  BY <1>1 DEF OrgsOf
<1>2. CASE \E u \in Tenant : FreeOrgs # {} /\ org' = WithOrg(u)
  <2>1. PICK u \in Tenant : FreeOrgs # {} /\ org' = WithOrg(u)
    BY <1>2
  <2>2. i \in DOMAIN org' /\ org'[i].tenant = t /\ DOMAIN org' = DOMAIN org
    BY <2>1 DEF WithOrg, OrgsOf
  <2>3. i # NewOrg
    BY <2>1, <2>2 DEF WithOrg
  <2>4. org'[i] = org[i]
    BY <2>1, <2>2, <2>3 DEF WithOrg
  <2> QED BY <2>2, <2>4 DEF OrgsOf
<1>3. ASSUME NEW part \in Parts, org' = [org EXCEPT ![cur].has = @ \cup {part}]
      PROVE  /\ i \in OrgsOf(t)
             /\ part # "app" \/ i # cur => "app" \in org[i].has
  <2>1. i \in DOMAIN org' /\ org'[i].tenant = t /\ DOMAIN org' = DOMAIN org
    BY <1>3 DEF OrgsOf
  <2>2. org'[i].tenant = org[i].tenant
    BY <1>0, <1>3, <2>1 DEF TypeOK
  <2>3. i \in OrgsOf(t)
    BY <2>1, <2>2 DEF OrgsOf
  <2>4. org'[i].has = IF i = cur THEN org[i].has \cup {part} ELSE org[i].has
    BY <1>0, <1>3, <2>1 DEF TypeOK
  <2> QED BY <2>3, <2>4
<1>4. FirstStart \/ LosesPAT \/ Begun \/ Aside \/ Stating => org' = org \/ \E u \in Tenant : FreeOrgs # {} /\ org' = WithOrg(u)
  BY ZitadelAssumption DEF FirstStart, LosesPAT, Begun, Aside, Stating, zVars
<1>5. CASE ZitadelStep
  <2>1. \/ org' = org
        \/ FreeOrgs # {} /\ org' = WithOrg(What) /\ Kind = "org"
        \/ \E part \in Parts \ {"app"} : org' = [org EXCEPT ![cur].has = @ \cup {part}]
        \/ /\ org' = [org EXCEPT ![cur].has = @ \cup {"app"}] /\ CreateClient /\ ~HasClient
           /\ Done \/ (Spend("lost") /\ Stops("failed"))
    BY <1>5 DEF ZitadelStep, ReadPAT, WaitAPI, EnsureOrg, EnsurePart, UserNotFound, CreateClient, OpenClient, WriteClient, zVars,
           Now, Kind, SkipClient
  <2>2. Kind = "org" => What \in Tenant
    BY <1>5, Tokened DEF TenantKinds
  <2>3. "app" \in Parts
    BY DEF Parts
  <2> QED BY <1>1, <1>2, <1>3, <2>1, <2>2, <2>3
<1> QED BY <1>1, <1>2, <1>4, <1>5, Sides
\* The client is made in an organisation of the tenant.
LEMMA ClientAt ==
    ASSUME HostInv, OrderInv, PATInv, CurInv, CreateClient
    PROVE  /\ What \in Tenant /\ cur \in OrgsOf(What) /\ TypeOK /\ ~Due("open client", What)
           /\ \A t : Done /\ t = What => Due("open client", t)'
<1>1. ZitadelStep /\ Kind = "client" /\ Kind \in TenantKinds
  BY DEF ZitadelStep, CreateClient, Now, Kind, TenantKinds
<1>2. /\ What \in Tenant /\ Head(todo) = <<Kind, What>> /\ Due("client", What) /\ TypeOK /\ at = "deploy" /\ todo # <<>>
      /\ todo \in Seq(Stmt) /\ Blocks(todo)
  BY <1>1, Tokened
<1>3. KindAt[4] = "client" /\ KindAt[5] = "open client"
  BY KindsAre
<1>4. 4 \in 2 .. 8 /\ 4 \in 1 .. 8 /\ 4 < 8 /\ 4 + 1 = 5
  OBVIOUS
<1>5. cur \in OrgsOf(What)
  BY <1>2, <1>3, <1>4 DEF CurInv
<1>6. ~Due("open client", What)
  <2>1. Head(todo) = <<"open client", What>> => Kind = "open client"
    BY PairFirst DEF Kind
  <2> QED BY <1>1, <2>1 DEF Due
<1>7. todo \in Seq(Post)
  BY <1>1, ZitadelDue
<1>8. Tail(todo) # <<>> /\ Head(Tail(todo)) = <<"open client", What>>
  BY <1>1, <1>2, <1>3, <1>4, <1>7, TenantDue
<1>9. ASSUME Done, NEW t, t = What PROVE Due("open client", t)'
  <2>1. todo' = Tail(todo) /\ at' = at
    BY <1>8, <1>9 DEF Done, Then
  <2> QED BY <1>2, <1>8, <1>9, <2>1 DEF Due
<1> QED BY <1>2, <1>5, <1>6, <1>9
LEMMA AppNext ==
    ASSUME HostInv, OrderInv, PATInv, CurInv, AppInv, [Next]_svars
    PROVE  AppInv'
<1> SUFFICES ASSUME NEW t \in Tenant, FileOf(t)' = 0, NEW i \in OrgsOf(t)', "app" \in org'[i].has
             PROVE  Due("open client", t)' \/ Spent({"cut", "lost", "rename"})'
  BY DEF AppInv
<1>0. CASE conf'.fqdn # conf.fqdn
  <2>1. Spent({"rename"})'
    BY <1>0, NameKept
  <2> QED BY <2>1 DEF Spent
<1> SUFFICES ASSUME conf'.fqdn = conf.fqdn PROVE Due("open client", t)' \/ Spent({"cut", "lost", "rename"})'
  BY <1>0
<1>1. TypeOK /\ FileOf(t) = 0 /\ t # "none"
  BY FilesChange, ZitadelAssumption DEF HostInv
<1>2. \A K : Spent(K) => Spent(K)'
  BY BudgetNext
<1>3. Spent({"cut"})' => Spent({"cut", "lost", "rename"})'
  BY DEF Spent
<1>4. ~ObeysPAT
  <2>1. ObeysPAT => org' = NoOrgs
    BY DEF ObeysPAT
  <2>2. org' = NoOrgs => i \notin OrgsOf(t)'
    BY <1>1 DEF OrgsOf, NoOrgs, NoOrg
  <2> QED BY <2>1, <2>2
<1>5. CASE i \in OrgsOf(t) /\ "app" \in org[i].has
  <2>1. CASE Spent({"cut", "lost", "rename"})
    BY <1>2, <2>1
  <2>2. CASE Due("open client", t)
    <3>1. "open client" \in TenantKinds
      BY DEF TenantKinds
    <3>2. ~(ZitadelStep /\ Kind = "open client" /\ What = t)
      <4>1. ZitadelStep /\ Kind = "open client" /\ What = t => FileAt(conf.fqdn, t)' = TornFile
        BY <1>1, ByKind, FilesChange, FileHere DEF OpensFile, Here
      <4>2. FileOf(t)' = FileAt(conf.fqdn, t)'
        BY DEF FileOf, PathOf, FileAt
      <4> QED BY <1>1, <4>1, <4>2, OrgNumbers
    <3> QED BY <1>3, <2>2, <3>1, <3>2, DueGoes
  <2> QED BY <1>1, <1>5, <2>1, <2>2 DEF AppInv
<1>6. CASE CreateClient /\ i = cur /\ i \in OrgsOf(t) /\ (Done \/ (Spend("lost") /\ Stops("failed")))
  <2>1. t = What
    BY <1>6, ClientAt DEF OrgsOf
  <2>2. Spend("lost") => Spent({"cut", "lost", "rename"})'
    BY SpendKeeps DEF HostInv
  <2> QED BY <1>6, <2>1, <2>2, ClientAt
<1> QED BY <1>4, <1>5, <1>6, AppsCame

LEMMA ConflictNext ==
    ASSUME HostInv, OrderInv, PATInv, CurInv, AppInv, ConflictIsExplained, [Next]_svars
    PROVE  ConflictIsExplained'
<1> SUFFICES ASSUME verdict'[svc'] = "conflict" PROVE Spent({"cut", "lost", "rename"})'
  BY DEF ConflictIsExplained
<1>1. verdict[svc] = "conflict" \/ (CreateClient /\ ~HasClient /\ "app" \in org[cur].has)
  BY NewVerdict, OrderNext
<1>2. CreateClient /\ ~HasClient /\ "app" \in org[cur].has => Spent({"cut", "lost", "rename"})
  BY ClientAt DEF AppInv, HasClient
<1> QED BY <1>1, <1>2, BudgetNext DEF ConflictIsExplained

\* What is free has no tenant, and no file names it; what is not free stays as it is.
LEMMA NoneStays ==
    ASSUME TypeOK, OrgMoves, NEW l \in ClientFile, cf[l] \in OrgsOf("none")
    PROVE  cf[l] \in OrgsOf("none")'
<1>1. DOMAIN org = 1 .. MaxOrg /\ cf[l] \in DOMAIN org /\ org[cf[l]].tenant = "none"
  BY DEF TypeOK, OrgsOf
<1>2. CASE org' = org
  BY <1>2 DEF OrgsOf
<1>3. CASE \E part \in Parts : org' = [org EXCEPT ![cur].has = @ \cup {part}]
  <2>1. PICK part \in Parts : org' = [org EXCEPT ![cur].has = @ \cup {part}]
    BY <1>3
  <2>2. DOMAIN org' = DOMAIN org /\ org'[cf[l]].tenant = "none"
    BY <1>1, <2>1 DEF TypeOK
  <2> QED BY <1>1, <2>2 DEF OrgsOf
<1>4. CASE \E u \in Tenant : FreeOrgs # {} /\ org' = WithOrg(u)
  <2>1. PICK u \in Tenant : FreeOrgs # {} /\ org' = WithOrg(u)
    BY <1>4
  <2>2. NewOrg # cf[l]
    BY <2>1, NewOrgFree DEF FreeOrgs
  <2>3. DOMAIN org' = DOMAIN org /\ org'[cf[l]] = org[cf[l]]
    BY <1>1, <2>1, <2>2 DEF WithOrg
  <2> QED BY <1>1, <2>3 DEF OrgsOf
<1> QED BY <1>2, <1>3, <1>4 DEF OrgMoves
\* The searches that failed are counted.
LEMMA SearchesCount ==
    ASSUME HostInv, [Next]_svars
    PROVE  /\ Times("search") \in Nat /\ Times("search")' \in Nat /\ Times("search") <= Times("search")'
           /\ Spend("search") => Times("search")' = Times("search") + 1
<1>1. /\ budget.left \in [Disturbance -> Nat] /\ MaxOf \in [Disturbance -> Nat]
      /\ \A d \in Disturbance : budget.left[d] <= MaxOf[d]
  BY DisturbanceAssumption DEF HostInv, BudgetOK
<1>2. UNCHANGED budget \/ \E d : Spend(d)
  BY BudgetNext DEF BudgetStep
<1>3. CASE "search" \notin Disturbance
  BY <1>3 DEF Times, Spend
<1>4. CASE "search" \in Disturbance /\ UNCHANGED budget
  <2>1. budget.left["search"] \in Nat /\ MaxOf["search"] \in Nat /\ budget.left["search"] <= MaxOf["search"]
    BY <1>1, <1>4
  <2>2. ~Spend("search")
    <3>1. Spend("search") => budget'.left["search"] = budget.left["search"] - 1
      BY <1>1, <1>4 DEF Spend
    <3> QED BY <1>4, <2>1, <3>1
  <2>3. Times("search")' = Times("search") /\ Times("search") = MaxOf["search"] - budget.left["search"]
    BY <1>4 DEF Times
  <2> QED BY <2>1, <2>2, <2>3
<1>5. ASSUME NEW d, Spend(d), "search" \in Disturbance
      PROVE  /\ Times("search") \in Nat /\ Times("search")' \in Nat /\ Times("search") <= Times("search")'
             /\ Spend("search") => Times("search")' = Times("search") + 1
  <2>1. budget.left["search"] \in Nat /\ MaxOf["search"] \in Nat /\ budget.left["search"] <= MaxOf["search"]
    BY <1>1, <1>5
  <2>2. /\ d \in Disturbance /\ budget.left[d] > 0
        /\ budget'.left = [budget.left EXCEPT ![d] = @ - 1]
    BY <1>5 DEF Spend
  <2>3. budget'.left["search"] = IF d = "search" THEN budget.left["search"] - 1 ELSE budget.left["search"]
    BY <1>1, <1>5, <2>2
  <2>4. d = "search" => budget.left["search"] > 0
    BY <2>2
  <2>5. Times("search")' = MaxOf["search"] - budget'.left["search"] /\ Times("search") = MaxOf["search"] - budget.left["search"]
    BY <1>5 DEF Times
  <2>6. Spend("search") => budget'.left["search"] = budget.left["search"] - 1
    BY <1>1, <1>5 DEF Spend
  <2> QED BY <2>1, <2>3, <2>4, <2>5, <2>6
<1> QED BY <1>2, <1>3, <1>4, <1>5
\* A tenant gains an organisation at the first start, or when a search finds none.
LEMMA OrgsGrow ==
    ASSUME HostInv, OrderInv, PATInv, [Next]_svars, ~ObeysPAT, NEW t \in Tenant
    PROVE  \/ OrgsOf(t)' = OrgsOf(t)
           \/ OrgsOf(t)' = OrgsOf(t) \cup {NewOrg} /\ (OrgsOf(t) = {} \/ Spend("search"))
<1>0. TypeOK /\ DOMAIN org = 1 .. MaxOrg
  BY DEF HostInv, TypeOK
<1>1. CASE org' = org
  BY <1>1 DEF OrgsOf
<1>2. CASE \E part \in Parts : org' = [org EXCEPT ![cur].has = @ \cup {part}]
  <2>1. PICK part \in Parts : org' = [org EXCEPT ![cur].has = @ \cup {part}]
    BY <1>2
  <2>2. DOMAIN org' = DOMAIN org /\ \A i \in DOMAIN org : org'[i].tenant = org[i].tenant
    BY <1>0, <2>1 DEF TypeOK
  <2> QED BY <2>2 DEF OrgsOf
<1>3. ASSUME NEW u \in Tenant, FreeOrgs # {}, org' = WithOrg(u)
      PROVE  OrgsOf(t)' = IF t = u THEN OrgsOf(t) \cup {NewOrg} ELSE OrgsOf(t)
  <2>1. NewOrg \in DOMAIN org /\ org[NewOrg].tenant = "none"
    BY <1>0, <1>3, NewOrgFree DEF FreeOrgs, OrgsOf
  <2>2. DOMAIN org' = DOMAIN org /\ \A i \in DOMAIN org : org'[i].tenant = IF i = NewOrg THEN u ELSE org[i].tenant
    BY <1>0, <1>3 DEF WithOrg
  <2>3. t # "none"
    BY ZitadelAssumption
  <2> QED BY <2>1, <2>2, <2>3 DEF OrgsOf
<1>4. CASE FirstStart
  <2>1. org' = org \/ (inst = "none" /\ FreeOrgs # {} /\ org' = WithOrg(Default))
    BY <1>4 DEF FirstStart
  <2>2. inst = "none" => OrgsOf(t) = {}
    BY ZitadelAssumption DEF PATInv, OrgsOf
  <2> QED BY <1>1, <1>3, <2>1, <2>2, ZitadelAssumption
<1>5. LosesPAT \/ Begun \/ Aside \/ Stating => org' = org
  BY DEF LosesPAT, Begun, Aside, Stating, zVars
<1>6. CASE ZitadelStep
  <2>1. \/ org' = org
        \/ /\ FreeOrgs # {} /\ org' = WithOrg(What) /\ Kind = "org"
           /\ Found(What) = {} \/ Spend("search")
        \/ \E part \in Parts : org' = [org EXCEPT ![cur].has = @ \cup {part}]
    <3>1. "app" \in Parts
      BY DEF Parts
    <3> QED BY <1>6, <3>1 DEF ZitadelStep, ReadPAT, WaitAPI, EnsureOrg, EnsurePart, UserNotFound, CreateClient, OpenClient,
               WriteClient, zVars, Now, Kind, SkipClient
  <2>2. Kind = "org" => What \in Tenant
    BY <1>6, Tokened DEF TenantKinds
  <2> QED BY <1>1, <1>2, <1>3, <2>1, <2>2 DEF Found
<1> QED BY <1>1, <1>4, <1>5, <1>6, Sides

LEMMA OneOrgNext ==
    ASSUME HostInv, OrderInv, PATInv, OneOrgPerTenant, [Next]_svars
    PROVE  OneOrgPerTenant'
<1> SUFFICES ASSUME NEW t \in Tenant PROVE Cardinality(OrgsOf(t)') <= 1 + Times("search")'
  BY DEF OneOrgPerTenant
<1> DEFINE S == OrgsOf(t)
<1>1. IsFiniteSet(S) /\ Cardinality(S) \in Nat
  <2>1. TypeOK /\ MaxOrg \in Nat
    BY ZitadelAssumption DEF HostInv
  <2>2. S \subseteq 1 .. MaxOrg
    BY <2>1, OrgNumbers
  <2>3. IsFiniteSet(1 .. MaxOrg)
    BY <2>1, FS_Interval
  <2>4. IsFiniteSet(S)
    BY <2>2, <2>3, FS_Subset
  <2> QED BY <2>4, FS_CardinalityType
<1>2. Cardinality(S) <= 1 + Times("search")
  BY DEF OneOrgPerTenant
<1>3. /\ Times("search") \in Nat /\ Times("search")' \in Nat /\ Times("search") <= Times("search")'
      /\ Spend("search") => Times("search")' = Times("search") + 1
  BY SearchesCount
<1>4. CASE ObeysPAT
  <2>1. org' = NoOrgs /\ t # "none"
    BY <1>4, ZitadelAssumption DEF ObeysPAT
  <2>2. OrgsOf(t)' = {}
    BY <2>1 DEF OrgsOf, NoOrgs, NoOrg
  <2>3. Cardinality(OrgsOf(t)') = 0
    BY <2>2, FS_EmptySet
  <2> QED BY <1>3, <2>3
<1>5. CASE ~ObeysPAT
  <2>1. OrgsOf(t)' = S \/ (OrgsOf(t)' = S \cup {NewOrg} /\ (S = {} \/ Spend("search")))
    BY <1>5, OrgsGrow
  <2>2. Cardinality(S \cup {NewOrg}) <= Cardinality(S) + 1
    <3> HIDE DEF S
    <3>1. Cardinality(S \cup {NewOrg}) = IF NewOrg \in S THEN Cardinality(S) ELSE Cardinality(S) + 1
      BY <1>1, FS_AddElement
    <3> QED BY <1>1, <3>1
  <2>3. CASE OrgsOf(t)' = S
    <3>1. Cardinality(OrgsOf(t)') = Cardinality(S)
      BY <2>3
    <3> HIDE DEF S
    <3> QED BY <1>1, <1>2, <1>3, <3>1
  <2>4. CASE OrgsOf(t)' = S \cup {NewOrg} /\ S = {}
    <3>1. OrgsOf(t)' = {NewOrg}
      BY <2>4
    <3>2. Cardinality({NewOrg}) = 1
      BY FS_Singleton
    <3>3. Cardinality(OrgsOf(t)') = 1
      BY <3>1, <3>2
    <3> QED BY <1>3, <3>3
  <2>5. CASE OrgsOf(t)' = S \cup {NewOrg} /\ Spend("search")
    <3>1. Cardinality(OrgsOf(t)') = Cardinality(S \cup {NewOrg})
      BY <2>5
    <3>2. Cardinality(S \cup {NewOrg}) \in Int
      <4> HIDE DEF S
      <4>1. IsFiniteSet(S \cup {NewOrg})
        BY <1>1, FS_AddElement
      <4> QED BY <4>1, FS_CardinalityType
    <3>3. Times("search")' = Times("search") + 1
      BY <1>3, <2>5
    <3> HIDE DEF S
    <3> QED BY <1>1, <1>2, <1>3, <2>2, <3>1, <3>2, <3>3
  <2> QED BY <2>1, <2>3, <2>4, <2>5
<1> QED BY <1>4, <1>5
\* What a tenant's own file says stays explained.
LEMMA FileSaysNext ==
    ASSUME HostInv, OrderInv, PATInv, CurInv, [Next]_svars, NEW q \in 1 .. 2, NEW t \in Tenant, Alone(t), FileSays(q, t)
    PROVE  FileSays(q, t)'
<1>0. TypeOK /\ <<q, LabelOf[t]>> \in ClientFile /\ \A K : Spent(K) => Spent(K)'
  BY BudgetNext, ZitadelAssumption DEF HostInv, ClientFile
<1>1. CASE OpensFile /\ Here(q, t)
  <2>1. What = t /\ FileAt(q, t)' = TornFile
    BY <1>1 DEF Alone, OpensFile, Here
  <2>2. Due("open client", t) /\ ZitadelStep /\ todo' = Tail(todo)
    BY <1>1, <2>1 DEF OpensFile, ZitadelStep
  <2>9. q = conf'.fqdn
    BY <1>1 DEF OpensFile, Here
  <2>3. Kind = "open client" /\ Kind \in TenantKinds
    BY <2>2, PairFirst DEF Due, Kind, TenantKinds
  <2>4. at = "deploy" /\ todo # <<>> /\ todo \in Seq(Stmt) /\ Blocks(todo) /\ todo \in Seq(Post)
    BY <2>2, <2>3, Tokened, ZitadelDue
  <2>5. KindAt[5] = "open client" /\ KindAt[6] = "write client"
    BY KindsAre
  <2>6. 5 \in 1 .. 8 /\ 5 < 8 /\ 5 + 1 = 6
    OBVIOUS
  <2>7. Tail(todo) # <<>> /\ Head(Tail(todo)) = <<"write client", t>>
    BY <2>1, <2>3, <2>4, <2>5, <2>6, TenantDue
  <2>8. at' = at
    BY <1>1, <2>7 DEF OpensFile, OpenClient, Done, Then
  <2> QED BY <2>1, <2>2, <2>4, <2>7, <2>8, <2>9 DEF FileSays, Due
<1>2. CASE WritesFile /\ Here(q, t)
  <2>1. What = t /\ FileAt(q, t)' = cur /\ cur \in OrgsOf(t) /\ "app" \in org[cur].has /\ org' = org
    BY <1>2 DEF Alone, WritesFile, Here
  <2> QED BY <2>1 DEF FileSays, OrgsOf
<1>3. CASE /\ ~(OpensFile /\ Here(q, t)) /\ ~(WritesFile /\ Here(q, t))
  <2>1. FileAt(q, t)' = FileAt(q, t)
    <3>1. UNCHANGED cf \/ OpensFile \/ WritesFile
      BY FilesChange
    <3>2. CASE UNCHANGED cf
      BY <3>2 DEF FileAt
    <3>3. CASE OpensFile
      BY <1>3, <3>3 DEF OpensFile
    <3>4. CASE WritesFile
      BY <1>3, <3>4 DEF WritesFile
    <3> QED BY <3>1, <3>2, <3>3, <3>4
  <2>2. CASE FileAt(q, t) = 0
    BY <2>1, <2>2 DEF FileSays
  <2>3. CASE ObeysPAT /\ FileAt(q, t) # 0 /\ FileAt(q, t) # TornFile
    <3>1. FileAt(q, t) \in 1 .. MaxOrg
      <4>1. FileAt(q, t) \in 0 .. TornFile
        BY <1>0, ZitadelAssumption DEF TypeOK, FileAt
      <4> QED BY <2>3, <4>1, ZitadelAssumption DEF TornFile
    <3>2. org' = NoOrgs /\ ~pat
      BY <2>3 DEF ObeysPAT, PATInv
    <3>3. FileAt(q, t) \in OrgsOf("none")'
      BY <3>1, <3>2 DEF OrgsOf, NoOrgs, NoOrg
    <3>4. cf[<<q, LabelOf[t]>>] # 0
      BY <2>3 DEF FileAt
    <3>5. Spent({"lose pat"})
      BY <1>0, <3>2, <3>4 DEF PATInv
    <3> QED BY <1>0, <2>1, <3>3, <3>5 DEF FileSays
  <2>4. CASE FileAt(q, t) \in OrgsOf(t) /\ "app" \in org[FileAt(q, t)].has /\ ~ObeysPAT
    <3>1. FileAt(q, t) \in OrgsOf(t) /\ "app" \in org[FileAt(q, t)].has
      BY <2>4
    <3>2. FileAt(q, t) \in OrgsOf(t)' /\ "app" \in org'[FileAt(q, t)].has
      BY <1>0, <2>4, <3>1, OrgNext, OrgsStay
    <3> QED BY <2>1, <3>2 DEF FileSays
  <2>5. CASE FileAt(q, t) = TornFile /\ ((Due("write client", t) /\ q = conf.fqdn) \/ Spent({"cut"}))
    <3>1. CASE Spent({"cut"})
      BY <1>0, <2>1, <2>5, <3>1 DEF FileSays
    <3>2. CASE Due("write client", t) /\ q = conf.fqdn
      <4>1. "write client" \in TenantKinds
        BY DEF TenantKinds
      <4>2. ~(ZitadelStep /\ Kind = "write client" /\ What = t)
        <5>1. ZitadelStep /\ Kind = "write client" => WritesFile
          BY ByKind, FilesChange
        <5> QED BY <1>3, <3>2, <5>1 DEF Here
      <4>3. Due("write client", t)' \/ Spent({"cut"})'
        BY <3>2, <4>1, <4>2, DueGoes
      <4>4. q = conf'.fqdn
        BY <3>2, NameKept DEF Due
      <4> QED BY <2>1, <2>5, <4>3, <4>4 DEF FileSays
    <3> QED BY <2>5, <3>1, <3>2
  <2>6. CASE FileAt(q, t) \in OrgsOf("none") /\ Spent({"lose pat"}) /\ ~ObeysPAT
    <3>1. cf[<<q, LabelOf[t]>>] \in OrgsOf("none")
      BY <2>6 DEF FileAt
    <3>2. cf[<<q, LabelOf[t]>>] \in OrgsOf("none")'
      BY <1>0, <2>6, <3>1, OrgNext, NoneStays
    <3>3. FileAt(q, t) \in OrgsOf("none")'
      BY <3>2 DEF FileAt
    <3> QED BY <1>0, <2>1, <2>6, <3>3 DEF FileSays
  <2>7. FileAt(q, t) \in OrgsOf(t) \/ FileAt(q, t) \in OrgsOf("none") => FileAt(q, t) # TornFile
    BY <1>0, OrgNumbers
  <2>8. CASE ObeysPAT
    <3>1. CASE FileAt(q, t) = 0 \/ FileAt(q, t) # TornFile
      BY <2>2, <2>3, <2>8, <3>1
    <3>2. CASE FileAt(q, t) # 0 /\ FileAt(q, t) = TornFile
      BY <2>5, <2>7, <3>2 DEF FileSays
    <3> QED BY <3>1, <3>2
  <2>9. CASE ~ObeysPAT
    BY <2>2, <2>4, <2>5, <2>6, <2>9 DEF FileSays
  <2> QED BY <2>8, <2>9
<1> QED BY <1>1, <1>2, <1>3

\* Each tenant of the deployment has a file, or will have one.
Filed(t) == Has(<<"write client", t>>, todo) \/ FileOf(t) # 0
LEMMA FiledStays ==
    ASSUME HostInv, OrderInv, PATInv, CurInv, [Next]_svars, ZitadelStep \/ (DeployerStep /\ UNCHANGED <<pat, org, cf, cur>>), Live',
           NEW t \in Tenant, Filed(t)
    PROVE  Filed(t)'
<1>0. /\ at = "deploy" /\ todo # <<>> /\ todo \in Seq(Stmt) /\ Skips /\ TypeOK /\ conf' = conf
  BY StatementMoves DEF HostInv
<1>1. CASE FileOf(t) # 0
  BY <1>0, <1>1, FilesChange DEF Filed
<1>2. CASE Has(<<"write client", t>>, todo)
  <2> DEFINE x == <<"write client", t>>
  <2>0. x[1] = "write client" /\ x[2] = t
    OBVIOUS
  <2>1. Has(x, todo)
    BY <1>2
  <2>2. CASE x = Head(todo)
    <3>1. Kind = "write client" /\ What = t
      BY <2>2, PairFirst DEF Kind, What
    <3>2. WritesFile
      BY <3>1, StatementKinds, ByKind, FilesChange DEF TenantKinds
    <3>3. FileOf(t)' # 0
      <4>1. FileAt(conf.fqdn, t)' = cur /\ FileOf(t)' = FileAt(conf.fqdn, t)'
        <5>1. FileAt(conf.fqdn, t)' = cur
          BY <1>0, <3>1, <3>2, FileHere DEF WritesFile, Here
        <5>2. FileOf(t)' = FileAt(conf.fqdn, t)'
          BY <1>0 DEF FileOf, PathOf, FileAt
        <5> QED BY <5>1, <5>2
      <4> QED BY <1>0, <3>1, <3>2, <4>1, OrgNumbers DEF WritesFile
    <3> QED BY <3>3 DEF Filed
  <2>3. CASE CreateClient /\ x = <<"write client", What>> /\ x # Head(todo)
    <3>1. t = What
      BY <2>3, PairFirst
    <3>2. CASE HasClient
      BY <1>1, <3>1, <3>2 DEF HasClient
    <3>3. CASE todo' = Tail(todo)
      <4> HIDE DEF x
      <4>1. Has(x, todo')
        BY <1>0, <2>1, <2>3, <3>3, TailHas
      <4> QED BY <4>1 DEF x, Filed
    <3> QED BY <2>3, <3>2, <3>3, ClientMade
  <2>4. x # <<"grant", What>> /\ x # <<"open client", What>>
    BY <2>0, PairFirst
  <2>5. CASE Has(x, todo')
    BY <2>5 DEF Filed
  <2> HIDE DEF x
  <2>6. \/ Has(x, todo') \/ x = Head(todo)
        \/ UserNotFound /\ x = <<"grant", What>>
        \/ CreateClient /\ (x = <<"open client", What>> \/ x = <<"write client", What>>)
    BY <1>0, <2>1, Dropped
  <2> QED BY <2>2, <2>3, <2>4, <2>5, <2>6
<1> QED BY <1>1, <1>2 DEF Filed

LEMMA ClientNext ==
    ASSUME HostInv, OrderInv, PATInv, CurInv, ClientInv, [Next]_svars
    PROVE  ClientInv'
<1>0. TypeOK /\ svc' = svc
  BY OrderNext DEF HostInv
<1>1. \A q \in 1 .. 2, t \in Tenant : Alone(t) => FileSays(q, t)'
  BY FileSaysNext DEF ClientInv
<1>2. ASSUME svc' = "zitadel", Live', NEW t \in ToSet(ConfTenants') PROVE Filed(t)'
  <2>1. CASE Begun
    <3>1. todo' = StepsOf /\ ConfTenants' = ConfTenants
      BY <2>1 DEF Begun, Deploys, ConfTenants
    <3>2. \A u \in ToSet(ConfTenants), k \in 1 .. 8 : Has(<<KindAt[k], u>>, StepsOf)
      BY <1>0, <1>2, StepsOrder
    <3>3. 6 \in 1 .. 8
      OBVIOUS
    <3>4. Has(<<KindAt[6], t>>, StepsOf)
      BY <1>2, <3>1, <3>2, <3>3
    <3>5. KindAt[6] = "write client"
      BY KindsAre
    <3> QED BY <3>1, <3>4, <3>5 DEF Filed
  <2>2. CASE ~Begun
    <3>1. Rested \/ ZitadelStep \/ (DeployerStep /\ UNCHANGED <<pat, org, cf, cur>>)
      BY <1>2, <2>2, Steps2, Rests
    <3>2. Live /\ conf' = conf
      <4>1. Rested => Live /\ conf' = conf
        BY DEF Rested
      <4>2. ZitadelStep \/ DeployerStep => Live /\ conf' = conf
        BY <1>2, StatementMoves DEF Live
      <4> QED BY <3>1, <4>1, <4>2
    <3>3. ConfTenants' = ConfTenants /\ ConfTenants \in Seq(Tenant)
      BY <1>0, <3>2, ConfTenantsType DEF ConfTenants
    <3>4. t \in Tenant /\ Filed(t)
      <4>1. t \in ToSet(ConfTenants)
        BY <1>2, <3>3
      <4>2. t \in Tenant
        BY <3>3, <4>1 DEF ToSet
      <4>3. Filed(t)
        BY <1>0, <1>2, <3>2, <4>1 DEF ClientInv, Filed
      <4> QED BY <4>2, <4>3
    <3>5. CASE Rested
      BY <3>4, <3>5 DEF Rested, Filed, FileOf, PathOf
    <3> QED BY <1>2, <3>1, <3>4, <3>5, FiledStays
  <2> QED BY <2>1, <2>2
<1>3. \A t \in Tenant : Alone(t)' => Alone(t)
  BY DEF Alone
<1> QED BY <1>1, <1>2, <1>3 DEF ClientInv, Filed
LEMMA TenantInit ==
    ASSUME Init
    PROVE  TenantInv
<1>1. /\ at = "idle" /\ verdict[svc] = "none" /\ pat = FALSE /\ inst = "none" /\ org = NoOrgs /\ cf = [f \in ClientFile |-> 0]
  BY DEF Init, DeployersInit, RunInit, ZitadelInit
<1>2. DOMAIN org = 1 .. MaxOrg /\ \A i \in DOMAIN org : org[i].tenant = "none"
  BY <1>1 DEF NoOrgs, NoOrg
<1>3. ~Live /\ \A k, t : ~Due(k, t)
  BY <1>1 DEF Live, Ok, Due
<1>4. /\ \A q \in 1 .. 2, t \in Tenant : FileAt(q, t) = 0
      /\ \A t \in Tenant : OrgsOf(t) = {}
  <2>1. \A q \in 1 .. 2, t \in Tenant : <<q, LabelOf[t]>> \in ClientFile
    BY ZitadelAssumption DEF ClientFile
  <2>2. \A q \in 1 .. 2, t \in Tenant : FileAt(q, t) = 0
    BY <1>1, <2>1 DEF FileAt
  <2>3. \A t \in Tenant : OrgsOf(t) = {}
    BY <1>2, ZitadelAssumption DEF OrgsOf
  <2> QED BY <2>2, <2>3
<1>5. PATInv
  BY <1>1, <1>2 DEF PATInv
<1>6. CurInv /\ AppInv /\ ConflictIsExplained
  <2>1. CurInv
    BY <1>3 DEF CurInv
  <2>2. AppInv
    BY <1>4 DEF AppInv
  <2>3. ConflictIsExplained
    BY <1>1 DEF ConflictIsExplained
  <2> QED BY <2>1, <2>2, <2>3
<1>7. ClientInv
  BY <1>3, <1>4 DEF ClientInv, FileSays
<1>8. OneOrgPerTenant
  <2>1. Times("search") = 0
    BY <1>1, DisturbanceAssumption DEF Init, DeployersInit, RunInit, Times
  <2>2. Cardinality({}) = 0
    BY FS_EmptySet
  <2> QED BY <1>4, <2>1, <2>2 DEF OneOrgPerTenant
<1> QED BY <1>5, <1>6, <1>7, <1>8 DEF TenantInv

LEMMA TenantNext ==
    ASSUME HostInv, OrderInv, TenantInv, [Next]_svars
    PROVE  TenantInv'
<1>1. PATInv /\ CurInv /\ AppInv /\ ClientInv /\ OneOrgPerTenant /\ ConflictIsExplained
  BY DEF TenantInv
<1>2. PATInv' /\ CurInv'
  BY <1>1, PATNext, CurNext
<1>3. AppInv' /\ ClientInv'
  BY <1>1, AppNext, ClientNext
<1>4. OneOrgPerTenant' /\ ConflictIsExplained'
  BY <1>1, OneOrgNext, ConflictNext
<1> QED BY <1>2, <1>3, <1>4 DEF TenantInv

\* What Zitadel has of a tenant is one organisation, but for a search that failed; a client that
\* exists and has no file was cut, or its answer lost, or its file is under another name; and after
\* success each tenant's file names the tenant's client, but for what a cut or a lost token explains:
\* zitadel.go:276-415.
THEOREM TenantsAreServedHolds == Spec => []TenantsAreServed
<1>1. TenantInv /\ HostInv => TenantsAreServed
  <2> SUFFICES ASSUME TenantInv, HostInv PROVE TenantsAreServed
    OBVIOUS
  <2>1. OneOrgPerTenant /\ ConflictIsExplained /\ ClientInv /\ TypeOK
    BY DEF TenantInv, HostInv
  <2>2. ASSUME Ok, svc = "zitadel", NEW t \in ToSet(ConfTenants)
        PROVE  \/ NamesClient(t)
               \/ FileOf(t) = TornFile /\ Spent({"cut"})
               \/ FileOf(t) \in OrgsOf("none") /\ Spent({"lose pat"})
               \/ \E u \in Tenant \ {t} : LabelOf[u] = LabelOf[t]
    <3>1. todo = <<>> /\ at # "deploy"
      <4>1. at = "idle"
        BY <2>2 DEF HostInv, Control, Ok
      <4> QED BY <2>1, <2>2, <4>1 DEF TypeOK, Ok
    <3>2. ~Has(<<"write client", t>>, todo)
      BY <3>1 DEF Has
    <3>3. FileOf(t) # 0
      BY <2>1, <2>2, <3>2 DEF ClientInv, Live
    <3>4. t \in Tenant
      <4>1. ConfTenants \in Seq(Tenant)
        BY <2>1, ConfTenantsType
      <4> QED BY <2>2, <4>1 DEF ToSet
    <3>5. Alone(t) => FileSays(conf.fqdn, t)
      BY <2>1, <3>4, FileHere DEF ClientInv
    <3>6. FileOf(t) = FileAt(conf.fqdn, t)
      BY DEF FileOf, PathOf, FileAt
    <3> QED BY <3>1, <3>3, <3>5, <3>6 DEF Alone, FileSays, NamesClient, Due
  <2>3. CredentialsAreExplained
    BY <2>2 DEF CredentialsAreExplained
  <2> QED BY <2>1, <2>3 DEF TenantsAreServed
<1>2. StepInv /\ TenantInv /\ [Next]_svars => TenantInv'
  BY TenantNext DEF StepInv
<1>3. StepInv => HostInv
  BY DEF StepInv
<1>4. Spec => []StepInv
  BY StepInvHolds
<1> QED BY <1>1, <1>2, <1>3, <1>4, TenantInit, PTL DEF Spec
=============================================================================
