------------------------- MODULE NetboxDeployProofs -------------------------
(***************************************************************************)
(* What the deployments of NetBox and of dns-sync leave behind, for any    *)
(* addresses, seed files and numbers of peppers and tokens, and for every  *)
(* budget of cuts, wipes, faults and reconfigurations: an inventory that   *)
(* is whole, tokens that are accepted, and no others.                      *)
(*                                                                         *)
(* The inductive invariant has a part for each of the things a deployment  *)
(* builds on: the pepper, the inventory, whose token is which, how many    *)
(* tokens there are, and what holds while nothing went wrong that the      *)
(* operator or the network did.  Each part says what holds wherever the    *)
(* last deployment stopped and what the one under way has established.     *)
(***************************************************************************)
EXTENDS NetboxDeploy, FiniteSetTheorems, SequenceTheorems, WellFoundedInduction, TLAPS

At(s, points) == op = s /\ at \in points

\* The statements of a NetBox deployment, from the last back to those a fact holds at.
Minted    == {"probe", "open", "write"}
Replacing == {"retire", "mint"} \cup Minted
Tokens    == {"token", "panel"} \cup Replacing
Inventoried == Tokens \cup {"retire seeding"}
Addressed == Inventoried \cup {"services", "seed"}
Authed    == Addressed \cup {"inventory", "host prefix", "host address"}
Served    == Authed \cup {"wait", "seeding"}
Peppered  == Served \cup {"down", "up"}
SyncPoints == {"build", "import prefixes", "import addresses", "render", "down", "up", "verify"}
-----------------------------------------------------------------------------
\* Where a deployment can be.
PointInv ==
    /\ op = "netbox" => at \in Peppered \cup {"pepper", "pepper write"}
    /\ op = "dns-sync" => at \in SyncPoints

\* The pepper: there are numbers left for one that is missing or torn, the server
\* of a deployment runs with the one in the file, and the message that tells the
\* operator to delete it is only given of one that was torn.
PepperInv ==
    /\ secret.pepper \in {0, Torn} => secret.made < MaxPepper
    /\ At("netbox", {"pepper write"}) => secret.pepper = Torn
    /\ At("netbox", Peppered) => secret.pepper \in 1 .. MaxPepper
    /\ At("netbox", Served) => server.up /\ server.pepper = secret.pepper
    /\ server.up => server.pepper # 0
    /\ verdict["netbox"] = "pepper" /\ ~At("netbox", Peppered) => secret.pepper \in {0, Torn}

\* The inventory, while NetBox's deployment or the import adds to it.
HasPrefix(a) == a \in Plain \/ NetworkOf(a) \in db.prefixes
InventoryInv ==
    /\ CanonicalNameIsKept /\ AddressHasPrefix
    /\ ToSet(loc.todo) \subseteq ToSet(conf.seed)
    /\ At("netbox", {"host address"}) => HasPrefix(conf.host)
    /\ At("netbox", Addressed) => db.ipam[conf.host] = Lab
    /\ At("netbox", {"seed"}) => \A r \in ToSet(conf.seed) : r \in ToSet(loc.todo) \/ db.ipam[r.addr] # 0
    /\ At("netbox", Inventoried) => \A r \in ToSet(conf.seed) : db.ipam[r.addr] # 0
    /\ At("dns-sync", {"import prefixes"}) =>
         \A r \in ToSet(conf.seed) : r \in ToSet(loc.todo) \/ HasPrefix(r.addr)
    /\ At("dns-sync", {"import addresses"}) => \A r \in ToSet(conf.seed) : HasPrefix(r.addr)

\* Whose token is which, and which of them the server accepts.
Alive(id) == \E t \in db.tokens : t.id = id /\ t.pepper = server.pepper
PanelReady == Missing(PanelParts, db.panel) = {}
TokenOwner ==
    /\ \A t, u \in db.tokens : t.id = u.id => t = u
    /\ \A t \in db.tokens :
         /\ t.id \in {file.sync, sync.tok} => t.use = "sync"
         /\ t.id = file.dash => t.use = "dash"
         /\ t.id = loc.minted => t.use = loc.use
         /\ t.id = loc.auth => t.use = "seeding"
TokenPoints ==
    /\ loc.minted # 0 => At("netbox", Minted)
    /\ At("netbox", Tokens) => loc.use \in {"sync", "dash"}
    /\ At("netbox", {"panel"}) => loc.use = "dash"
    /\ At("netbox", {"open", "write"}) => Alive(loc.minted) /\ ReadsIPAM
    /\ At("netbox", Tokens) /\ loc.use = "dash" => Alive(file.sync)
    /\ At("netbox", {"retire seeding"}) => Alive(file.sync) /\ Alive(file.dash) /\ PanelReady
TokenInv == TokenOwner /\ TokenPoints

\* How many there are.
Blamed == Times("cut") + Times("unreachable") + Times("unretired")
CountInv ==
    /\ IsFiniteSet(db.tokens)
    /\ \A use \in {"sync", "dash"} : Cardinality(Of(use)) <= 1 + Times("unretired")
    /\ At("netbox", {"mint"}) => Cardinality(Of(loc.use)) <= Times("unretired")
    /\ Cardinality(Of("seeding")) <= Blamed + (IF At("netbox", Authed) THEN 1 ELSE 0)

\* As long as every probe was answered and neither pepper nor database wiped: the
\* token in the file is good, and the container has it, if any.
Quiet == ~Spent({"unreachable", "wipe pepper", "wipe db"})
QuietFacts ==
    /\ file.sync # 0 => \E t \in db.tokens : t.id = file.sync /\ t.pepper = secret.pepper
    /\ sync.tok # 0 => sync.tok = file.sync
    /\ server.up => server.pepper = secret.pepper
    /\ At("netbox", Replacing) /\ loc.use = "sync" => file.sync = 0
QuietInv == Quiet => QuietFacts

IInv == TypeOK /\ PointInv /\ PepperInv /\ InventoryInv /\ TokenInv /\ CountInv /\ QuietInv
-----------------------------------------------------------------------------
\* Which steps change what.
LEMMA BudgetSteps == [Next]_vars => UNCHANGED budget \/ \E d \in Disturbance : Spend(d)
BY DEF Next, NetboxBegins, SyncBegins, NetboxStep, NetboxRemoved, SyncStep, SyncRemoved, SyncStarts, Reconciles, Cut,
       Between, ObeysPepper, Reboot, CutShort, WipeDB, WipePepper, WipeZone, Reconfigure, KeepPepper, OpenPepper,
       WritePepper, StackDown, StackUp, WaitReady, SeedingToken, SeedInventory, HostPrefix, HostAddress, SeedServices,
       SeedRecord, KeepToken, ReplaceToken, Panel, RetireOld, Mint, Probe, OpenToken, WriteToken, RetireSeeding,
       BuildImage, Import, SyncRender, SyncDown, SyncUp, SyncVerify, NB, DS, Step, Goes, Begins, Fails, Outside, Spend,
       vars, runVars

LEMMA SecretSteps ==
    [Next]_vars => UNCHANGED secret \/ OpenPepper \/ WritePepper \/ (Between /\ WipePepper) \/ ObeysPepper
BY DEF Next, NetboxBegins, SyncBegins, NetboxStep, NetboxRemoved, SyncStep, SyncRemoved, SyncStarts, Reconciles, Cut,
       Between, Reboot, WipeDB, WipeZone, Reconfigure, KeepPepper, StackDown, StackUp, WaitReady, SeedingToken,
       SeedInventory, HostPrefix, HostAddress, SeedServices, SeedRecord, KeepToken, ReplaceToken, Panel, RetireOld,
       Mint, Probe, OpenToken, WriteToken, RetireSeeding, BuildImage, Import, SyncRender, SyncDown, SyncUp, SyncVerify,
       vars, nbVars

LEMMA ServerSteps ==
    [Next]_vars => UNCHANGED server \/ StackDown \/ StackUp \/ NetboxRemoved \/ (Between /\ WipeDB)
BY DEF Next, NetboxBegins, SyncBegins, NetboxStep, SyncStep, SyncRemoved, SyncStarts, Reconciles, Cut,
       Between, ObeysPepper, Reboot, WipePepper, WipeZone, Reconfigure, KeepPepper, OpenPepper, WritePepper, WaitReady,
       SeedingToken, SeedInventory, HostPrefix, HostAddress, SeedServices, SeedRecord, KeepToken, ReplaceToken, Panel,
       RetireOld, Mint, Probe, OpenToken, WriteToken, RetireSeeding, BuildImage, Import, SyncRender, SyncDown, SyncUp,
       SyncVerify, vars, nbVars

DatabaseStep == StackUp \/ SeedingToken \/ SeedInventory \/ HostPrefix \/ HostAddress \/ SeedServices \/ SeedRecord
                \/ Panel \/ RetireOld \/ Mint \/ RetireSeeding \/ (\E pass \in 1 .. 2 : Import(pass)) \/ (Between /\ WipeDB)
LEMMA DatabaseSteps == [Next]_vars => UNCHANGED db \/ DatabaseStep
BY DEF Next, NetboxBegins, SyncBegins, NetboxStep, NetboxRemoved, SyncStep, SyncRemoved, SyncStarts, Reconciles, Cut,
       Between, ObeysPepper, Reboot, WipePepper, WipeZone, Reconfigure, KeepPepper, OpenPepper, WritePepper, StackDown,
       WaitReady, KeepToken, ReplaceToken, Probe, OpenToken, WriteToken, BuildImage, SyncRender, SyncDown, SyncUp,
       SyncVerify, vars, nbVars, DatabaseStep

LEMMA FileSteps == [Next]_vars => UNCHANGED file \/ OpenToken \/ WriteToken
BY DEF Next, NetboxBegins, SyncBegins, NetboxStep, NetboxRemoved, SyncStep, SyncRemoved, SyncStarts, Reconciles, Cut,
       Between, ObeysPepper, Reboot, WipeDB, WipePepper, WipeZone, Reconfigure, KeepPepper, OpenPepper, WritePepper,
       StackDown, StackUp, WaitReady, SeedingToken, SeedInventory, HostPrefix, HostAddress, SeedServices, SeedRecord,
       KeepToken, ReplaceToken, Panel, RetireOld, Mint, Probe, RetireSeeding, BuildImage, Import, SyncRender, SyncDown,
       SyncUp, SyncVerify, vars, nbVars

LEMMA SyncSteps ==
    [Next]_vars => UNCHANGED sync \/ SyncDown \/ SyncUp \/ SyncRemoved \/ SyncStarts \/ Reboot
BY DEF Next, NetboxBegins, SyncBegins, NetboxStep, NetboxRemoved, SyncStep, Reconciles, Cut,
       Between, ObeysPepper, WipeDB, WipePepper, WipeZone, Reconfigure, KeepPepper, OpenPepper, WritePepper, StackDown,
       StackUp, WaitReady, SeedingToken, SeedInventory, HostPrefix, HostAddress, SeedServices, SeedRecord, KeepToken,
       ReplaceToken, Panel, RetireOld, Mint, Probe, OpenToken, WriteToken, RetireSeeding, BuildImage, Import,
       SyncRender, SyncVerify, vars, nbVars

LEMMA ConfSteps == [Next]_vars => UNCHANGED conf \/ (Between /\ Reconfigure)
BY DEF Next, NetboxBegins, SyncBegins, NetboxStep, NetboxRemoved, SyncStep, SyncRemoved, SyncStarts, Reconciles, Cut,
       Between, ObeysPepper, Reboot, WipeDB, WipePepper, WipeZone, KeepPepper, OpenPepper, WritePepper, StackDown,
       StackUp, WaitReady, SeedingToken, SeedInventory, HostPrefix, HostAddress, SeedServices, SeedRecord, KeepToken,
       ReplaceToken, Panel, RetireOld, Mint, Probe, OpenToken, WriteToken, RetireSeeding, BuildImage, Import,
       SyncRender, SyncDown, SyncUp, SyncVerify, vars, nbVars
-----------------------------------------------------------------------------
\* Facts about the model's operators.
Below == {p \in Nat \X Nat : p[1] < p[2]}

LEMMA Least ==
    ASSUME NEW S \in SUBSET Nat, S # {}
    PROVE  \E i \in S : \A j \in S : i <= j
<1>1. IsWellFoundedOn(Below, Nat)
  BY NatLessThanWellFounded DEF OpToRel, Below
<1>2. PICK i \in S : \A j \in S : <<j, i>> \notin Below
  BY <1>1, WFMin
<1>3. ASSUME NEW j \in S PROVE i <= j
  <2>1. j \in Nat /\ i \in Nat
    OBVIOUS
  <2>2. <<j, i>> \in Nat \X Nat => ~(<<j, i>>[1] < <<j, i>>[2])
    BY <1>2 DEF Below
  <2> QED BY <2>1, <2>2
<1> QED BY <1>3

\* The elements of a sequence are its head and those of its tail.
LEMMA HeadAndTail ==
    ASSUME NEW R, NEW s \in Seq(R), s # <<>>
    PROVE  /\ Head(s) \in R /\ Tail(s) \in Seq(R)
           /\ ToSet(s) = {Head(s)} \cup ToSet(Tail(s))
<1>1. ASSUME NEW i \in DOMAIN s PROVE s[i] \in {Head(s)} \cup ToSet(Tail(s))
  <2>1. CASE i = 1
    BY <2>1
  <2>2. CASE i # 1
    <3>1. i - 1 \in DOMAIN Tail(s) /\ Tail(s)[i - 1] = s[i]
      BY <2>2
    <3> QED BY <3>1 DEF ToSet
  <2> QED BY <2>1, <2>2
<1>2. ASSUME NEW i \in DOMAIN Tail(s) PROVE Tail(s)[i] \in ToSet(s)
  <2>1. i + 1 \in DOMAIN s /\ Tail(s)[i] = s[i + 1]
    OBVIOUS
  <2> QED BY <2>1 DEF ToSet
<1>3. 1 \in DOMAIN s /\ Head(s) = s[1]
  OBVIOUS
<1>4. ToSet(s) = {Head(s)} \cup ToSet(Tail(s))
  BY <1>1, <1>2, <1>3 DEF ToSet
<1> QED BY <1>4

\* What is created next is something that is missing.
LEMMA FirstMissingIsMissing ==
    ASSUME NEW R, NEW s \in Seq(R), NEW set, Missing(s, set) # {}
    PROVE  FirstMissing(s, set) \in ToSet(s)
<1>1. Missing(s, set) \in SUBSET Nat /\ Missing(s, set) \subseteq DOMAIN s
  BY DEF Missing
<1>2. \E i \in Missing(s, set) : \A j \in Missing(s, set) : i <= j
  BY <1>1, Least
<1> QED BY <1>1, <1>2 DEF FirstMissing, ToSet

LEMMA Parts ==
    /\ Inventory \in Seq(ToSet(Inventory)) /\ PanelParts \in Seq(ToSet(PanelParts))
<1>1. Inventory \in [1 .. 5 -> ToSet(Inventory)]
  <2>1. DOMAIN Inventory = 1 .. 5
    BY DEF Inventory
  <2> QED BY <2>1, SMTT(40) DEF ToSet, Inventory
<1>2. PanelParts \in [1 .. 3 -> ToSet(PanelParts)]
  <2>1. DOMAIN PanelParts = 1 .. 3
    BY DEF PanelParts
  <2> QED BY <2>1, SMTT(40) DEF ToSet, PanelParts
<1> QED BY <1>1, <1>2, SeqDef

SeedRecords == [addr : Address, name : 1 .. Names]

\* Of the names a seed file gives an address one is taken.
LEMMA NameInIsName ==
    ASSUME NEW s \in SeedFiles, NEW r \in ToSet(s)
    PROVE  NameIn(s, r.addr) \in 1 .. Names
<1> DEFINE N == {n \in 1 .. Names : [addr |-> r.addr, name |-> n] \in ToSet(s)}
<1>1. ToSet(s) \subseteq [addr : Address, name : 1 .. Names]
  <2>1. s \in Seq(SeedRecords)
    BY NetboxAssumption DEF SeedRecords
  <2>2. ToSet(s) \subseteq SeedRecords
    BY <2>1 DEF ToSet
  <2> QED BY <2>2 DEF SeedRecords
<1>2. r.name \in N
  <2>1. r = [addr |-> r.addr, name |-> r.name]
    BY <1>1
  <2> QED BY <1>1, <2>1
<1>3. PICK n \in N : \A m \in N : n <= m
  <2>1. N \in SUBSET Nat
    BY NetboxAssumption
  <2> QED BY <1>2, <2>1, Least
<1>4. ASSUME NEW q \in ToSet(s), q.addr = r.addr PROVE n <= q.name
  <2>1. q = [addr |-> q.addr, name |-> q.name] /\ q.name \in 1 .. Names
    BY <1>1
  <2>2. q.name \in N
    BY <2>1, <1>4
  <2> QED BY <1>3, <2>2
<1> QED BY <1>3, <1>4 DEF NameIn

\* A new token has a number of its own.
LEMMA NewIdIsFresh ==
    ASSUME Fresh # {}
    PROVE  /\ NewId \in Id \ {0}
           /\ NewId \notin {file.sync, file.dash, sync.tok, loc.auth, loc.minted}
           /\ \A t \in db.tokens : t.id # NewId
<1>1. NewId \in Fresh
  BY DEF NewId
<1> QED BY <1>1, NetboxAssumption DEF Fresh, Remembered, Id

LEMMA Numbers == /\ Names \in Nat /\ Lab \in Nat \ {0} /\ Lab \notin 1 .. Names
                 /\ MaxPepper \in Nat \ {0} /\ Torn \in Nat \ {0} /\ Torn \notin 0 .. MaxPepper
BY NetboxAssumption DEF Lab, Torn
-----------------------------------------------------------------------------
(* The types. *)
LEMMA SeedIsTyped ==
    ASSUME TypeOK
    PROVE  conf.seed \in Seq(SeedRecords) /\ ToSet(conf.seed) \subseteq SeedRecords
           /\ loc.todo \in Seq(SeedRecords) /\ ToSet(loc.todo) \subseteq SeedRecords
<1>1. conf.seed \in Seq(SeedRecords) /\ loc.todo \in Seq(SeedRecords)
  BY NetboxAssumption DEF TypeOK, SeedRecords
<1> QED BY <1>1 DEF ToSet

\* What is spent is never more than there was.
BudgetTyped == budget \in [left : [Disturbance -> Nat], all : Nat] /\ \A d \in Disturbance : budget.left[d] <= MaxOf[d]

LEMMA SpendCounts ==
    ASSUME BudgetTyped, NEW d, Spend(d)
    PROVE  /\ BudgetTyped' /\ Times(d)' = Times(d) + 1 /\ \A e : e # d => Times(e)' = Times(e)
           /\ d \in Disturbance /\ budget'.left[d] < MaxOf[d]
           /\ \A e \in Disturbance : budget'.left[e] <= budget.left[e]
<1>1. /\ d \in Disturbance /\ budget.left[d] > 0 /\ budget.all > 0
      /\ budget' = [left |-> [budget.left EXCEPT ![d] = @ - 1], all |-> budget.all - 1]
  BY DEF Spend
<1>2. /\ budget'.left = [budget.left EXCEPT ![d] = @ - 1] /\ budget'.all = budget.all - 1
      /\ budget.left \in [Disturbance -> Nat] /\ budget.all \in Nat
  BY <1>1 DEF BudgetTyped
<1>3. /\ budget'.left \in [Disturbance -> Nat] /\ budget'.left[d] = budget.left[d] - 1
      /\ \A e \in Disturbance : e # d => budget'.left[e] = budget.left[e]
  BY <1>1, <1>2
<1>4. \A e \in Disturbance : budget.left[e] <= MaxOf[e] /\ MaxOf[e] \in Nat
  BY DisturbanceAssumption DEF BudgetTyped
<1>5. BudgetTyped'
  <2>1. budget'.all \in Nat
    BY <1>1, <1>2
  <2>2. \A e \in Disturbance : budget'.left[e] <= MaxOf[e]
    BY <1>1, <1>2, <1>3, <1>4
  <2>3. budget' = [left |-> budget'.left, all |-> budget'.all]
    BY <1>1
  <2> QED BY <1>3, <2>1, <2>2, <2>3 DEF BudgetTyped
<1>6. Times(d)' = Times(d) + 1
  BY <1>1, <1>2, <1>3, <1>4 DEF Times
<1>7. \A e : e # d => Times(e)' = Times(e)
  BY <1>3 DEF Times
<1>8. budget'.left[d] < MaxOf[d] /\ \A e \in Disturbance : budget'.left[e] <= budget.left[e]
  BY <1>1, <1>2, <1>3, <1>4
<1> QED BY <1>1, <1>5, <1>6, <1>7, <1>8

LEMMA TimesAreNumbers ==
    ASSUME BudgetTyped, NEW d
    PROVE  Times(d) \in Nat
<1>1. CASE d \in Disturbance
  <2>1. budget.left[d] \in Nat /\ MaxOf[d] \in Nat /\ budget.left[d] <= MaxOf[d]
    BY <1>1, DisturbanceAssumption DEF BudgetTyped
  <2> QED BY <1>1, <2>1 DEF Times
<1>2. CASE d \notin Disturbance
  BY <1>2 DEF Times
<1> QED BY <1>1, <1>2

LEMMA QuietStays ==
    ASSUME BudgetTyped, BudgetTyped', \A e \in Disturbance : budget'.left[e] <= budget.left[e]
    PROVE  Quiet' => Quiet
<1> DEFINE K == {"unreachable", "wipe pepper", "wipe db"} \cap Disturbance
<1>1. \A e \in K : budget.left[e] \in Nat /\ budget'.left[e] \in Nat /\ MaxOf[e] \in Nat
  BY DisturbanceAssumption DEF BudgetTyped
<1>2. Quiet <=> \A e \in K : ~(budget.left[e] < MaxOf[e])
  BY DEF Quiet, Spent
<1>3. Quiet' <=> \A e \in K : ~(budget'.left[e] < MaxOf[e])
  BY DEF Quiet, Spent
<1>4. \A e \in K : budget'.left[e] <= budget.left[e]
  OBVIOUS
<1> HIDE DEF K
<1> QED BY <1>1, <1>2, <1>3, <1>4

LEMMA BudgetStep ==
    ASSUME TypeOK, [Next]_vars
    PROVE  /\ BudgetTyped /\ BudgetTyped' /\ \A d : Times(d)' >= Times(d)
           /\ Quiet' => Quiet
<1>1. BudgetTyped
  BY DEF TypeOK, BudgetTyped
<1>2. CASE UNCHANGED budget
  <2>1. \A d : Times(d)' = Times(d) /\ Times(d) \in Nat
    BY <1>1, <1>2, TimesAreNumbers DEF Times
  <2>2. BudgetTyped' /\ (Quiet' => Quiet)
    BY <1>1, <1>2 DEF BudgetTyped, Quiet, Spent
  <2>3. \A d : Times(d)' >= Times(d)
    BY <2>1
  <2> QED BY <1>1, <2>2, <2>3
<1>3. ASSUME NEW d \in Disturbance, Spend(d)
      PROVE  BudgetTyped' /\ (\A e : Times(e)' >= Times(e)) /\ (Quiet' => Quiet)
  <2>1. BudgetTyped' /\ Times(d)' = Times(d) + 1 /\ \A e : e # d => Times(e)' = Times(e)
    BY <1>1, <1>3, SpendCounts
  <2>2. \A e : Times(e) \in Nat
    BY <1>1, TimesAreNumbers
  <2>3. \A e : Times(e)' >= Times(e)
    BY <2>1, <2>2
  <2>4. \A e \in Disturbance : budget'.left[e] <= budget.left[e]
    BY <1>1, <1>3, SpendCounts
  <2>5. Quiet' => Quiet
    BY <1>1, <2>1, <2>4, QuietStays
  <2> QED BY <2>1, <2>3, <2>5
<1> QED BY <1>1, <1>2, <1>3, BudgetSteps

\* Where the deployment under way is, and how the last ones ended.
ControlOK ==
    /\ op \in Service \cup {"none"} /\ verdict \in [Service -> Verdict] /\ (at = "idle" <=> Idle)
    /\ (Idle => loc = NoLocals) /\ PointInv

LEMMA NetboxControl ==
    ASSUME ControlOK, NetboxStep
    PROVE  ControlOK'
<1> USE DEF ControlOK, PointInv, Service, Verdict, Idle, NB, Step, On, Goes, Fails, Outside, Finish, Ends, Spend, Peppered,
            Served, Authed, Addressed, Inventoried, Tokens, Replacing, Minted
<1>1. CASE KeepPepper \/ OpenPepper \/ WritePepper \/ StackDown \/ StackUp \/ WaitReady \/ SeedingToken
  BY <1>1 DEF KeepPepper, OpenPepper, WritePepper, StackDown, StackUp, WaitReady, SeedingToken
<1>2. CASE SeedInventory \/ HostPrefix \/ HostAddress \/ SeedServices \/ SeedRecord
  BY <1>2 DEF SeedInventory, HostPrefix, HostAddress, SeedServices, SeedRecord
<1>3. CASE KeepToken \/ ReplaceToken \/ Panel \/ RetireOld \/ Mint \/ Probe \/ OpenToken \/ WriteToken
  BY <1>3 DEF KeepToken, ReplaceToken, Panel, RetireOld, Mint, Probe, OpenToken, WriteToken, AfterToken
<1>4. CASE RetireSeeding
  BY <1>4 DEF RetireSeeding
<1> QED BY <1>1, <1>2, <1>3, <1>4 DEF NetboxStep

LEMMA SyncControl ==
    ASSUME ControlOK, SyncStep
    PROVE  ControlOK'
<1> USE DEF ControlOK, PointInv, Service, Verdict, Idle, DS, Step, On, Goes, Fails, Outside, Finish, Ends, Spend, SyncPoints,
            Peppered, Served, Authed, Addressed, Inventoried, Tokens, Replacing, Minted
<1>1. CASE BuildImage
  BY <1>1 DEF BuildImage, ImportOrder
<1>2. ASSUME NEW pass \in 1 .. 2, Import(pass) PROVE ControlOK'
  BY <1>2 DEF Import, ImportOrder
<1>3. CASE SyncRender \/ SyncDown \/ SyncUp \/ SyncVerify
  BY <1>3 DEF SyncRender, SyncDown, SyncUp, SyncVerify
<1> QED BY <1>1, <1>2, <1>3 DEF SyncStep

LEMMA ControlStep ==
    ASSUME ControlOK, [Next]_vars
    PROVE  ControlOK'
<1> USE DEF ControlOK, PointInv, Service, Verdict, Idle, Ends, Begins, Spend, SyncPoints, nbVars,
            Peppered, Served, Authed, Addressed, Inventoried, Tokens, Replacing, Minted
<1>1. ASSUME NEW valid \in BOOLEAN, NetboxBegins(valid) PROVE ControlOK'
  BY <1>1 DEF NetboxBegins
<1>2. ASSUME NEW valid \in BOOLEAN, SyncBegins(valid) PROVE ControlOK'
  BY <1>2 DEF SyncBegins
<1>3. CASE NetboxRemoved \/ SyncRemoved
  BY <1>3 DEF NetboxRemoved, SyncRemoved
<1>4. CASE SyncStarts \/ Reconciles \/ Reboot
  BY <1>4 DEF SyncStarts, Reconciles, Reboot, runVars
<1>5. CASE Cut
  BY <1>5 DEF Cut, CutShort
<1>6. CASE Between \/ ObeysPepper
  BY <1>6 DEF Between, ObeysPepper, Stale
<1>7. CASE UNCHANGED vars
  BY <1>7 DEF vars, runVars
<1> QED BY <1>1, <1>2, <1>3, <1>4, <1>5, <1>6, <1>7, NetboxControl, SyncControl DEF Next

LEMMA ControlTyped ==
    ASSUME TypeOK, PointInv, [Next]_vars
    PROVE  ControlOK /\ ControlOK'
BY ControlStep DEF TypeOK, ControlOK
-----------------------------------------------------------------------------
\* The pepper and the server that runs with it.
SecretType == [pepper : 0 .. Torn, made : 0 .. MaxPepper]
ServerType == [up : BOOLEAN, pepper : 0 .. MaxPepper]

LEMMA SecretTyped ==
    ASSUME TypeOK, PepperInv, [Next]_vars
    PROVE  /\ secret' \in SecretType
           /\ secret'.pepper \in {0, Torn} => secret'.made < MaxPepper
<1>1. secret \in [pepper : 0 .. Torn, made : 0 .. MaxPepper] /\ (secret.pepper \in {0, Torn} => secret.made < MaxPepper)
  BY DEF TypeOK, PepperInv
<1>2. MaxPepper \in Nat /\ Torn = MaxPepper + 1
  BY Numbers DEF Torn
<1>3. CASE UNCHANGED secret
  BY <1>1, <1>3 DEF SecretType
<1>4. CASE OpenPepper
  <2>1. secret' = [secret EXCEPT !.pepper = Torn] /\ secret.pepper = 0
    BY <1>4 DEF OpenPepper
  <2>2. secret'.pepper = Torn /\ secret'.made = secret.made /\ secret' \in SecretType
    BY <1>1, <1>2, <2>1 DEF SecretType
  <2> QED BY <1>1, <2>1, <2>2
<1>5. CASE WritePepper
  <2>1. secret' = [pepper |-> secret.made + 1, made |-> secret.made + 1]
    BY <1>5 DEF WritePepper
  <2>2. secret.made < MaxPepper
    <3>1. At("netbox", {"pepper write"})
      BY <1>5 DEF WritePepper, NB, Step, On, At
    <3> QED BY <1>1, <3>1 DEF PepperInv
  <2>3. secret.made + 1 \in 1 .. MaxPepper
    BY <1>1, <1>2, <2>2
  <2> QED BY <1>2, <2>1, <2>3 DEF SecretType
<1>6. CASE (Between /\ WipePepper) \/ ObeysPepper
  <2>1. secret' = [secret EXCEPT !.pepper = 0] /\ secret.made < MaxPepper
    BY <1>1, <1>6 DEF WipePepper, ObeysPepper, PepperInv, Idle, At
  <2>2. secret'.made = secret.made /\ secret' \in SecretType
    BY <1>1, <1>2, <2>1 DEF SecretType
  <2> QED BY <2>1, <2>2
<1> QED BY <1>3, <1>4, <1>5, <1>6, SecretSteps

LEMMA ServerTyped ==
    ASSUME TypeOK, PepperInv, [Next]_vars
    PROVE  server' \in ServerType /\ (server'.up => server'.pepper # 0)
<1> USE Numbers DEF ServerType
<1>0. server \in ServerType /\ (server.up => server.pepper # 0)
  BY DEF TypeOK, PepperInv
<1>1. CASE UNCHANGED server
  BY <1>0, <1>1
<1>2. CASE StackDown
  BY <1>0, <1>2 DEF StackDown
<1>3. CASE StackUp
  <2>1. secret.pepper \in 1 .. MaxPepper
    BY <1>3 DEF StackUp, NB, Step, On, PepperInv, At, Peppered
  <2> QED BY <1>3, <2>1 DEF StackUp
<1>4. CASE NetboxRemoved
  BY <1>0, <1>4 DEF NetboxRemoved
<1>5. CASE Between /\ WipeDB
  BY <1>0, <1>5 DEF WipeDB
<1> QED BY <1>1, <1>2, <1>3, <1>4, <1>5, ServerSteps

LEMMA PepperWritten ==
    ASSUME TypeOK, PepperInv, WritePepper
    PROVE  secret'.pepper \in 1 .. MaxPepper
<1>1. At("netbox", {"pepper write"}) /\ secret' = [pepper |-> secret.made + 1, made |-> secret.made + 1]
  BY DEF WritePepper, NB, Step, On, At
<1>2. secret.made < MaxPepper
  BY <1>1 DEF PepperInv
<1>3. secret.made \in 0 .. MaxPepper
  BY DEF TypeOK
<1>4. secret.made + 1 \in 1 .. MaxPepper
  BY <1>2, <1>3, Numbers
<1> QED BY <1>1, <1>4

LEMMA PepperRead ==
    ASSUME TypeOK, secret.pepper \notin {0, Torn}
    PROVE  secret.pepper \in 1 .. MaxPepper
<1>1. secret.pepper \in 0 .. Torn
  BY DEF TypeOK
<1> QED BY <1>1, Numbers DEF Torn

LEMMA PepperNetbox ==
    ASSUME TypeOK, ControlOK, PepperInv, NetboxStep, secret' \in SecretType, server' \in ServerType,
           secret'.pepper \in {0, Torn} => secret'.made < MaxPepper, server'.up => server'.pepper # 0
    PROVE  PepperInv'
<1> USE DEF PepperInv, ControlOK, PointInv, At, Idle, NB, Step, On, Goes, Fails, Outside, Finish, Ends, Spend,
            Peppered, Served, Authed, Addressed, Inventoried, Tokens, Replacing, Minted
<1>1. CASE KeepPepper
  <2>1. secret.pepper # 0 /\ (secret.pepper # Torn => secret.pepper \in 1 .. MaxPepper)
    BY <1>1, PepperRead DEF KeepPepper
  <2> QED BY <1>1, <2>1 DEF KeepPepper, nbVars
<1>2. CASE OpenPepper
  BY <1>2 DEF OpenPepper, TypeOK
<1>3. CASE WritePepper
  BY <1>3, PepperWritten DEF WritePepper, TypeOK
<1>4. CASE StackDown
  BY <1>4 DEF StackDown
<1>5. CASE StackUp
  BY <1>5 DEF StackUp
<1>6. CASE WaitReady \/ SeedingToken \/ SeedInventory \/ HostPrefix \/ HostAddress \/ SeedServices \/ SeedRecord
  BY <1>6 DEF WaitReady, SeedingToken, SeedInventory, HostPrefix, HostAddress, SeedServices, SeedRecord, nbVars
<1>7. CASE KeepToken \/ ReplaceToken \/ Panel \/ RetireOld \/ Mint \/ Probe \/ OpenToken \/ WriteToken
  BY <1>7 DEF KeepToken, ReplaceToken, Panel, RetireOld, Mint, Probe, OpenToken, WriteToken, AfterToken, nbVars
<1>8. CASE RetireSeeding
  BY <1>8 DEF RetireSeeding
<1> QED BY <1>1, <1>2, <1>3, <1>4, <1>5, <1>6, <1>7, <1>8 DEF NetboxStep

LEMMA PepperStep ==
    ASSUME TypeOK, ControlOK, PepperInv, [Next]_vars
    PROVE  PepperInv'
<1>0. /\ secret' \in SecretType /\ (secret'.pepper \in {0, Torn} => secret'.made < MaxPepper)
      /\ server' \in ServerType /\ (server'.up => server'.pepper # 0)
  BY SecretTyped, ServerTyped
<1>1. CASE NetboxStep
  BY <1>0, <1>1, PepperNetbox
<1> USE DEF PepperInv, ControlOK, PointInv, At, Idle, Ends, Begins, Spend, nbVars, Service,
            Peppered, Served, Authed, Addressed, Inventoried, Tokens, Replacing, Minted
<1>2. ASSUME NEW valid \in BOOLEAN, NetboxBegins(valid) PROVE PepperInv'
  BY <1>2 DEF NetboxBegins
<1>3. ASSUME NEW valid \in BOOLEAN, SyncBegins(valid) PROVE PepperInv'
  BY <1>3 DEF SyncBegins
<1>4. CASE SyncStep
  <2>1. UNCHANGED <<secret, server>> /\ op = "dns-sync" /\ op' \in {"none", "dns-sync"}
        /\ verdict'["netbox"] = verdict["netbox"]
    BY <1>4 DEF SyncStep, BuildImage, Import, SyncRender, SyncDown, SyncUp, SyncVerify, DS, Step, On, Goes, Fails, Outside,
                Finish
  <2> QED BY <1>0, <2>1
<1>5. CASE NetboxRemoved
  BY <1>0, <1>5 DEF NetboxRemoved
<1>6. CASE SyncRemoved \/ SyncStarts \/ Reconciles \/ Reboot
  BY <1>0, <1>6 DEF SyncRemoved, SyncStarts, Reconciles, Reboot, runVars
<1>7. CASE Cut
  BY <1>0, <1>7 DEF Cut, CutShort
<1>8. CASE Between /\ WipeDB
  BY <1>0, <1>8 DEF Between, Stale, WipeDB
<1>9. CASE Between /\ WipePepper
  BY <1>0, <1>9 DEF Between, Stale, WipePepper, TypeOK
<1>10. CASE Between /\ (WipeZone \/ Reconfigure)
  BY <1>0, <1>10 DEF Between, Stale, WipeZone, Reconfigure
<1>11. CASE ObeysPepper
  BY <1>0, <1>11 DEF ObeysPepper, TypeOK
<1>12. CASE UNCHANGED vars
  BY <1>12 DEF vars, runVars
<1> QED BY <1>1, <1>2, <1>3, <1>4, <1>5, <1>6, <1>7, <1>8, <1>9, <1>10, <1>11, <1>12 DEF Next, Between
-----------------------------------------------------------------------------
\* The database.
TokenType == [id : Id \ {0}, use : Use, pepper : 1 .. MaxPepper]
DatabaseType ==
    [tokens : SUBSET TokenType, objects : SUBSET (ToSet(Inventory) \cup {"services"}), panel : SUBSET ToSet(PanelParts),
     prefixes : SUBSET {NetworkOf(a) : a \in Address}, ipam : [Address -> 0 .. Lab], superuser : 0 .. 2]

LEMMA DatabaseShape == TypeOK => db \in DatabaseType
BY DEF TypeOK, DatabaseType, TokenType

LEMMA NewTokenTyped ==
    ASSUME TypeOK, PepperInv, Fresh # {}, op = "netbox", at \in Served, NEW use \in Use
    PROVE  NewToken(use) \in TokenType
<1>1. server.pepper \in 1 .. MaxPepper
  BY DEF PepperInv, At, Peppered
<1>2. NewId \in Id \ {0}
  BY NewIdIsFresh
<1> QED BY <1>1, <1>2 DEF NewToken, TokenType

LEMMA RecordTyped ==
    ASSUME TypeOK, InventoryInv, loc.todo # <<>>
    PROVE  /\ Head(loc.todo) \in ToSet(conf.seed) /\ Head(loc.todo).addr \in Address /\ Head(loc.todo).name \in 1 .. Names
           /\ Tail(loc.todo) \in Seq(SeedRecords) /\ ToSet(loc.todo) = {Head(loc.todo)} \cup ToSet(Tail(loc.todo))
           /\ ToSet(Tail(loc.todo)) \subseteq ToSet(conf.seed)
           /\ NameIn(conf.seed, Head(loc.todo).addr) \in 1 .. Names
<1>1. loc.todo \in Seq(SeedRecords) /\ ToSet(loc.todo) \subseteq ToSet(conf.seed) /\ conf.seed \in SeedFiles
  BY SeedIsTyped DEF InventoryInv, TypeOK
<1>2. /\ Head(loc.todo) \in SeedRecords /\ Tail(loc.todo) \in Seq(SeedRecords)
      /\ ToSet(loc.todo) = {Head(loc.todo)} \cup ToSet(Tail(loc.todo))
  BY <1>1, HeadAndTail
<1>3. Head(loc.todo) \in ToSet(conf.seed) /\ ToSet(Tail(loc.todo)) \subseteq ToSet(conf.seed)
  BY <1>1, <1>2
<1>4. NameIn(conf.seed, Head(loc.todo).addr) \in 1 .. Names
  BY <1>1, <1>3, NameInIsName
<1>5. Head(loc.todo).addr \in Address /\ Head(loc.todo).name \in 1 .. Names
  BY <1>2 DEF SeedRecords
<1> QED BY <1>2, <1>3, <1>4, <1>5

LEMMA DatabaseTyped ==
    ASSUME TypeOK, PepperInv, InventoryInv, TokenInv, [Next]_vars
    PROVE  db' \in DatabaseType
<1>0. db \in DatabaseType
  BY DatabaseShape
<1> USE DEF NB, Step, On
<1>1. CASE UNCHANGED db
  BY <1>0, <1>1
<1>2. CASE StackUp
  <2>1. conf.password \in 1 .. 2
    BY DEF TypeOK
  <2> QED BY <1>0, <1>2, <2>1 DEF StackUp, DatabaseType
<1>3. CASE SeedingToken
  <2>1. CASE UNCHANGED db
    BY <1>0, <2>1
  <2>2. CASE Fresh # {} /\ db' = [db EXCEPT !.tokens = @ \cup {NewToken("seeding")}]
    <3>1. NewToken("seeding") \in TokenType
      BY <1>3, <2>2, NewTokenTyped DEF SeedingToken, Served, Use
    <3> QED BY <1>0, <2>2, <3>1 DEF DatabaseType
  <2> QED BY <1>3, <2>1, <2>2 DEF SeedingToken
<1>4. CASE SeedInventory
  <2>1. CASE UNCHANGED db
    BY <1>0, <2>1
  <2>2. CASE Missing(Inventory, db.objects) # {} /\ db' = [db EXCEPT !.objects = @ \cup {FirstMissing(Inventory, @)}]
    <3>1. FirstMissing(Inventory, db.objects) \in ToSet(Inventory)
      BY <2>2, Parts, FirstMissingIsMissing
    <3> QED BY <1>0, <2>2, <3>1 DEF DatabaseType
  <2> QED BY <1>4, <2>1, <2>2 DEF SeedInventory
<1>5. CASE HostPrefix
  <2>1. conf.host \in Address
    BY DEF TypeOK
  <2> QED BY <1>0, <1>5, <2>1 DEF HostPrefix, DatabaseType
<1>6. CASE HostAddress
  <2>1. conf.host \in Address /\ Lab \in 0 .. Lab
    BY Numbers DEF TypeOK
  <2> QED BY <1>0, <1>6, <2>1 DEF HostAddress, DatabaseType
<1>7. CASE SeedServices
  BY <1>0, <1>7 DEF SeedServices, DatabaseType
<1> DEFINE a == Head(loc.todo).addr
<1>8. CASE SeedRecord
  <2>1. CASE UNCHANGED db
    BY <1>0, <2>1
  <2>2. CASE loc.todo # <<>> /\ db' = [db EXCEPT !.prefixes = @ \cup {NetworkOf(a)}]
    <3>1. a \in Address
      BY <2>2, RecordTyped
    <3> QED BY <1>0, <2>2, <3>1 DEF DatabaseType
  <2>3. CASE loc.todo # <<>> /\ db' = [db EXCEPT !.ipam[a] = NameAfter(a, Head(loc.todo).name)]
    <3>1. a \in Address /\ Head(loc.todo).name \in 0 .. Lab
      BY <2>3, RecordTyped, Numbers DEF Lab
    <3>2. NameAfter(a, Head(loc.todo).name) \in 0 .. Lab
      BY <1>0, <3>1 DEF NameAfter, DatabaseType
    <3> QED BY <1>0, <2>3, <3>1, <3>2 DEF DatabaseType
  <2> QED BY <1>8, <2>1, <2>2, <2>3 DEF SeedRecord
<1>9. CASE Panel
  <2>1. CASE UNCHANGED db
    BY <1>0, <2>1
  <2>2. CASE Missing(PanelParts, db.panel) # {} /\ db' = [db EXCEPT !.panel = @ \cup {FirstMissing(PanelParts, @)}]
    <3>1. FirstMissing(PanelParts, db.panel) \in ToSet(PanelParts)
      BY <2>2, Parts, FirstMissingIsMissing
    <3> QED BY <1>0, <2>2, <3>1 DEF DatabaseType
  <2> QED BY <1>9, <2>1, <2>2 DEF Panel
<1>10. CASE RetireOld \/ RetireSeeding
  BY <1>0, <1>10 DEF RetireOld, RetireSeeding, Retired, DatabaseType
<1>11. CASE Mint
  <2>1. NewToken(loc.use) \in TokenType
    <3>1. loc.use \in Use
      BY <1>11 DEF Mint, TokenInv, TokenPoints, At, Tokens, Replacing, Use
    <3> QED BY <1>11, <3>1, NewTokenTyped DEF Mint, Served, Authed, Addressed, Inventoried, Tokens, Replacing
  <2> QED BY <1>0, <1>11, <2>1 DEF Mint, DatabaseType
<1>12. ASSUME NEW pass \in 1 .. 2, Import(pass) PROVE db' \in DatabaseType
  <2>1. CASE UNCHANGED db
    BY <1>0, <2>1
  <2>2. CASE loc.todo # <<>> /\ db' = [db EXCEPT !.prefixes = IF a \in Plain THEN @ ELSE @ \cup {NetworkOf(a)}]
    <3>1. a \in Address
      BY <2>2, RecordTyped
    <3> QED BY <1>0, <2>2, <3>1 DEF DatabaseType
  <2>3. CASE loc.todo # <<>> /\ db' = [db EXCEPT !.ipam[a] = NameAfter(a, NameIn(conf.seed, a))]
    <3>1. a \in Address /\ NameIn(conf.seed, a) \in 0 .. Lab
      BY <2>3, RecordTyped, Numbers DEF Lab
    <3>2. NameAfter(a, NameIn(conf.seed, a)) \in 0 .. Lab
      BY <1>0, <3>1 DEF NameAfter, DatabaseType
    <3> QED BY <1>0, <2>3, <3>1, <3>2 DEF DatabaseType
  <2> QED BY <1>12, <2>1, <2>2, <2>3 DEF Import
<1>13. CASE Between /\ WipeDB
  <2>1. [x \in Address |-> 0] \in [Address -> 0 .. Lab] /\ 0 \in 0 .. 2
    <3>1. 0 \in 0 .. Lab
      BY Numbers
    <3> QED BY <3>1
  <2> HIDE DEF a
  <2> QED BY <1>13, <2>1 DEF WipeDB, EmptyDB, DatabaseType
<1> QED
  BY <1>1, <1>2, <1>3, <1>4, <1>5, <1>6, <1>7, <1>8, <1>9, <1>10, <1>11, <1>12, <1>13, DatabaseSteps DEF DatabaseStep
-----------------------------------------------------------------------------
\* The files, the container, the zone, the configuration and the locals.
LEMMA FileTyped ==
    ASSUME TypeOK, TokenInv, [Next]_vars
    PROVE  file' \in [sync : Id, dash : Id]
<1>0. file \in [sync : Id, dash : Id] /\ loc.minted \in Id /\ 0 \in Id
  BY NetboxAssumption DEF TypeOK, Id
<1>1. CASE UNCHANGED file
  BY <1>0, <1>1
<1>2. CASE OpenToken
  BY <1>0, <1>2 DEF OpenToken
<1>3. CASE WriteToken
  BY <1>0, <1>3 DEF WriteToken
<1> QED BY <1>1, <1>2, <1>3, FileSteps

LEMMA SyncTyped ==
    ASSUME TypeOK, [Next]_vars
    PROVE  sync' \in [up : BOOLEAN, tok : Id]
<1>0. sync \in [up : BOOLEAN, tok : Id] /\ file.sync \in Id /\ 0 \in Id
  BY NetboxAssumption DEF TypeOK, Id
<1>1. CASE UNCHANGED sync
  BY <1>0, <1>1
<1>2. CASE SyncDown \/ SyncUp \/ SyncRemoved
  <2>1. sync' = sync \/ sync' \in {[up |-> u, tok |-> 0] : u \in BOOLEAN}
    BY <1>2 DEF SyncDown, SyncUp, SyncRemoved, NoSync
  <2> QED BY <1>0, <2>1
<1>3. CASE SyncStarts \/ Reboot
  BY <1>0, <1>3 DEF SyncStarts, Reboot
<1> QED BY <1>1, <1>2, <1>3, SyncSteps

LEMMA ConfTyped ==
    ASSUME TypeOK, [Next]_vars
    PROVE  conf' \in [host : Address \ Plain, seed : SeedFiles, password : 1 .. 2]
<1>0. conf \in [host : Address \ Plain, seed : SeedFiles, password : 1 .. 2]
  BY DEF TypeOK
<1>1. CASE UNCHANGED conf
  BY <1>0, <1>1
<1>2. CASE Reconfigure
  <2>1. 3 - conf.password \in 1 .. 2
    BY <1>0
  <2> QED BY <1>0, <1>2, <2>1 DEF Reconfigure
<1> QED BY <1>1, <1>2, ConfSteps

LEMMA ZoneTyped ==
    ASSUME TypeOK, [Next]_vars
    PROVE  zone' \in BOOLEAN
<1>1. UNCHANGED zone \/ Reconciles \/ WipeZone
  BY DEF Next, NetboxBegins, SyncBegins, NetboxStep, NetboxRemoved, SyncStep, SyncRemoved, SyncStarts, Cut,
         Between, ObeysPepper, Reboot, WipeDB, WipePepper, Reconfigure, KeepPepper, OpenPepper, WritePepper, StackDown,
         StackUp, WaitReady, SeedingToken, SeedInventory, HostPrefix, HostAddress, SeedServices, SeedRecord, KeepToken,
         ReplaceToken, Panel, RetireOld, Mint, Probe, OpenToken, WriteToken, RetireSeeding, BuildImage, Import,
         SyncRender, SyncDown, SyncUp, SyncVerify, vars, nbVars
<1>2. zone \in BOOLEAN
  BY DEF TypeOK
<1>3. CASE UNCHANGED zone
  BY <1>2, <1>3
<1>4. CASE Reconciles \/ WipeZone
  BY <1>4 DEF Reconciles, WipeZone
<1> QED BY <1>1, <1>3, <1>4

LocalsType == [auth : Id, minted : Id, use : Use \cup {"none"}, todo : Seq(SeedRecords)]

LEMMA LocalSteps ==
    [Next]_vars => \/ UNCHANGED loc \/ loc' = NoLocals
                   \/ SeedingToken \/ SeedServices \/ SeedRecord \/ KeepToken \/ Mint \/ WriteToken
                   \/ BuildImage \/ (\E pass \in 1 .. 2 : Import(pass))
BY DEF Next, NetboxBegins, SyncBegins, NetboxStep, NetboxRemoved, SyncStep, SyncRemoved, SyncStarts, Reconciles, Cut,
       Between, ObeysPepper, Reboot, WipeDB, WipePepper, WipeZone, Reconfigure, KeepPepper, OpenPepper, WritePepper,
       StackDown, StackUp, WaitReady, SeedInventory, HostPrefix, HostAddress, Panel, ReplaceToken, RetireOld, Probe,
       OpenToken, RetireSeeding, SyncRender, SyncDown, SyncUp, SyncVerify, Fails, Outside, Finish, vars

LEMMA LocalsTyped ==
    ASSUME TypeOK, InventoryInv, [Next]_vars
    PROVE  loc' \in LocalsType
<1>0. /\ loc \in LocalsType /\ conf.seed \in Seq(SeedRecords) /\ <<>> \in Seq(SeedRecords) /\ 0 \in Id
      /\ (loc.todo # <<>> => Tail(loc.todo) \in Seq(SeedRecords))
  <2>1. loc \in LocalsType
    BY DEF TypeOK, LocalsType, SeedRecords
  <2>2. 0 \in Id
    BY NetboxAssumption DEF Id
  <2> QED BY <2>1, <2>2, SeedIsTyped, RecordTyped
<1>5. NextUse \in Use \cup {"none"} /\ NoLocals \in LocalsType
  BY <1>0 DEF NextUse, Use, NoLocals, LocalsType
<1>1. CASE UNCHANGED loc \/ loc' = NoLocals
  BY <1>0, <1>1, <1>5
<1>2. CASE SeedingToken \/ Mint
  <2>1. loc' = NoLocals \/ (Fresh # {} /\ (loc' = [loc EXCEPT !.auth = NewId] \/ loc' = [loc EXCEPT !.minted = NewId]))
    BY <1>2 DEF SeedingToken, Mint, Fails, Finish
  <2>2. CASE loc' = NoLocals
    BY <1>5, <2>2
  <2>3. CASE Fresh # {} /\ (loc' = [loc EXCEPT !.auth = NewId] \/ loc' = [loc EXCEPT !.minted = NewId])
    <3>1. NewId \in Id
      BY <2>3, NewIdIsFresh
    <3> QED BY <1>0, <2>3, <3>1 DEF LocalsType
  <2> QED BY <2>1, <2>2, <2>3
<1>3. CASE SeedServices \/ SeedRecord
  BY <1>0, <1>3 DEF SeedServices, SeedRecord, LocalsType, Use
<1>4. CASE KeepToken \/ WriteToken
  BY <1>0, <1>4, <1>5 DEF KeepToken, WriteToken, LocalsType
<1>6. CASE BuildImage
  <2>1. loc' = NoLocals \/ loc' = [loc EXCEPT !.todo = conf.seed]
    BY <1>6 DEF BuildImage, Outside, Finish
  <2> QED BY <1>0, <1>5, <2>1 DEF LocalsType
<1>7. ASSUME NEW pass \in 1 .. 2, Import(pass) PROVE loc' \in LocalsType
  <2>1. \/ loc' = NoLocals \/ loc' = [loc EXCEPT !.todo = conf.seed] \/ loc' = [loc EXCEPT !.todo = <<>>]
        \/ (loc.todo # <<>> /\ loc' = [loc EXCEPT !.todo = Tail(@)])
    BY <1>7 DEF Import, Fails, Finish
  <2> QED BY <1>0, <1>5, <2>1 DEF LocalsType
<1> QED BY <1>1, <1>2, <1>3, <1>4, <1>6, <1>7, LocalSteps

LEMMA TypeStep ==
    ASSUME TypeOK, PointInv, PepperInv, InventoryInv, TokenInv, [Next]_vars
    PROVE  TypeOK' /\ PointInv'
<1>1. ControlOK' /\ BudgetTyped'
  BY ControlTyped, BudgetStep
<1>2. db' \in DatabaseType /\ secret' \in SecretType /\ server' \in ServerType
  BY DatabaseTyped, SecretTyped, ServerTyped
<1>3. /\ file' \in [sync : Id, dash : Id] /\ sync' \in [up : BOOLEAN, tok : Id] /\ zone' \in BOOLEAN
      /\ conf' \in [host : Address \ Plain, seed : SeedFiles, password : 1 .. 2] /\ loc' \in LocalsType
  BY FileTyped, SyncTyped, ZoneTyped, ConfTyped, LocalsTyped
<1> QED BY <1>1, <1>2, <1>3
  DEF TypeOK, ControlOK, BudgetTyped, DatabaseType, TokenType, SecretType, ServerType, LocalsType, SeedRecords
-----------------------------------------------------------------------------
\* The inventory.  Names are given to addresses that have their prefix, and an
\* address that has a name keeps it or takes the host's.
Named(a, n) ==
    /\ HasPrefix(a) /\ db'.ipam = [db.ipam EXCEPT ![a] = n] /\ db'.prefixes = db.prefixes
    /\ db.ipam[a] # 0 => n \in {db.ipam[a], Lab}
InventoryChange ==
    \/ db'.ipam = db.ipam /\ db.prefixes \subseteq db'.prefixes
    \/ \E a \in Address, n \in 1 .. Lab : Named(a, n)

LEMMA ImportPoints == ImportOrder[1] = "import prefixes" /\ ImportOrder[2] = "import addresses"
BY DEF ImportOrder

LEMMA NamesGiven ==
    ASSUME TypeOK, NEW a \in Address, NEW n \in 1 .. Names
    PROVE  /\ NameAfter(a, n) \in 1 .. Lab
           /\ db.ipam[a] # 0 => NameAfter(a, n) = db.ipam[a]
<1>1. db.ipam[a] \in 0 .. Lab /\ n \in 1 .. Lab
  BY Numbers DEF TypeOK, Lab
<1> QED BY <1>1, Numbers DEF NameAfter

LEMMA InventorySteps ==
    ASSUME TypeOK, InventoryInv, [Next]_vars, ~(Between /\ WipeDB)
    PROVE  InventoryChange
<1> USE DEF InventoryChange
<1> DEFINE a == Head(loc.todo).addr
<1>0. db \in DatabaseType
  BY DatabaseShape
<1>1. CASE UNCHANGED db
  BY <1>1
<1>2. CASE StackUp \/ SeedInventory \/ SeedServices \/ Panel \/ RetireOld \/ Mint \/ RetireSeeding \/ SeedingToken
  BY <1>0, <1>2 DEF StackUp, SeedInventory, SeedServices, Panel, RetireOld, Mint, RetireSeeding, SeedingToken, DatabaseType
<1>3. CASE HostPrefix
  BY <1>0, <1>3 DEF HostPrefix, DatabaseType
<1>4. CASE HostAddress
  <2>1. conf.host \in Address /\ Lab \in 1 .. Lab /\ HasPrefix(conf.host)
    <3>1. conf.host \in Address
      BY DEF TypeOK
    <3>2. HasPrefix(conf.host)
      BY <1>4 DEF InventoryInv, HostAddress, NB, Step, On, At
    <3> QED BY <3>1, <3>2, Numbers
  <2>2. Named(conf.host, Lab)
    BY <1>0, <1>4, <2>1 DEF HostAddress, Named, DatabaseType
  <2> QED BY <2>1, <2>2
<1>5. CASE SeedRecord
  <2>1. CASE UNCHANGED db
    BY <2>1
  <2>2. CASE db' = [db EXCEPT !.prefixes = @ \cup {NetworkOf(a)}]
    BY <1>0, <2>2 DEF DatabaseType
  <2>3. CASE /\ loc.todo # <<>> /\ ~LacksPrefix(a)
             /\ db' = [db EXCEPT !.ipam[a] = NameAfter(a, Head(loc.todo).name)]
    <3>1. a \in Address /\ Head(loc.todo).name \in 1 .. Names
      BY <2>3, RecordTyped
    <3>2. HasPrefix(a)
      BY <2>3 DEF LacksPrefix, HasPrefix
    <3>3. /\ NameAfter(a, Head(loc.todo).name) \in 1 .. Lab
          /\ db.ipam[a] # 0 => NameAfter(a, Head(loc.todo).name) = db.ipam[a]
      BY <3>1, NamesGiven
    <3>4. Named(a, NameAfter(a, Head(loc.todo).name))
      BY <1>0, <2>3, <3>1, <3>2, <3>3 DEF Named, DatabaseType
    <3> QED BY <3>1, <3>3, <3>4
  <2> QED BY <1>5, <2>1, <2>2, <2>3 DEF SeedRecord
<1>6. ASSUME NEW pass \in 1 .. 2, Import(pass) PROVE InventoryChange
  <2>1. CASE UNCHANGED db
    BY <2>1
  <2>2. CASE db' = [db EXCEPT !.prefixes = IF a \in Plain THEN @ ELSE @ \cup {NetworkOf(a)}]
    BY <1>0, <2>2 DEF DatabaseType
  <2>3. CASE loc.todo # <<>> /\ at # "import prefixes" /\ db' = [db EXCEPT !.ipam[a] = NameAfter(a, NameIn(conf.seed, a))]
    <3>1. a \in Address /\ NameIn(conf.seed, a) \in 1 .. Names /\ Head(loc.todo) \in ToSet(conf.seed)
      BY <2>3, RecordTyped
    <3>2. HasPrefix(a)
      <4>1. At("dns-sync", {"import addresses"})
        <5>1. ImportOrder[pass] \in {"import prefixes", "import addresses"}
          <6>1. pass = 1 \/ pass = 2
            OBVIOUS
          <6> QED BY <6>1, ImportPoints
        <5> QED BY <1>6, <2>3, <5>1 DEF Import, On, At
      <4> QED BY <3>1, <4>1 DEF InventoryInv
    <3>3. /\ NameAfter(a, NameIn(conf.seed, a)) \in 1 .. Lab
          /\ db.ipam[a] # 0 => NameAfter(a, NameIn(conf.seed, a)) = db.ipam[a]
      BY <3>1, NamesGiven
    <3>4. Named(a, NameAfter(a, NameIn(conf.seed, a)))
      BY <1>0, <2>3, <3>1, <3>2, <3>3 DEF Named, DatabaseType
    <3> QED BY <3>1, <3>3, <3>4
  <2> QED BY <1>6, <2>1, <2>2, <2>3 DEF Import
<1> QED BY <1>1, <1>2, <1>3, <1>4, <1>5, <1>6, DatabaseSteps DEF DatabaseStep

\* Nothing is lost, and the order of prefix and address is kept.
Grows ==
    /\ \A a \in Address : db.ipam[a] # 0 => db'.ipam[a] # 0
    /\ db.ipam[conf.host] = Lab => db'.ipam[conf.host] = Lab
    /\ db.prefixes \subseteq db'.prefixes

LEMMA InventoryGrows ==
    ASSUME TypeOK, AddressHasPrefix, InventoryChange
    PROVE  Grows /\ AddressHasPrefix'
<1>0. db.ipam \in [Address -> 0 .. Lab] /\ conf.host \in Address
  BY DEF TypeOK
<1>1. CASE db'.ipam = db.ipam /\ db.prefixes \subseteq db'.prefixes
  BY <1>1 DEF Grows, AddressHasPrefix
<1>2. ASSUME NEW a \in Address, NEW n \in 1 .. Lab, Named(a, n)
      PROVE  Grows /\ AddressHasPrefix'
  <2>1. /\ db'.ipam[a] = n /\ \A b \in Address : b # a => db'.ipam[b] = db.ipam[b]
        /\ db'.prefixes = db.prefixes
    BY <1>0, <1>2 DEF Named
  <2>2. n # 0 /\ Lab # 0
    BY Numbers
  <2>3. Grows
    BY <1>0, <1>2, <2>1, <2>2 DEF Grows, Named
  <2>4. AddressHasPrefix'
    BY <1>2, <2>1 DEF AddressHasPrefix, Named, HasPrefix
  <2> QED BY <2>3, <2>4
<1> QED BY <1>1, <1>2 DEF InventoryChange

LEMMA NothingInEmpty == ToSet(<<>>) = {}
<1>1. DOMAIN <<>> = {}
  OBVIOUS
<1> QED BY <1>1 DEF ToSet

\* What is still to be created is part of the seed file.
LEMMA TodoStep ==
    ASSUME TypeOK, InventoryInv, [Next]_vars
    PROVE  ToSet(loc'.todo) \subseteq ToSet(conf'.seed)
<1>0. /\ ToSet(loc.todo) \subseteq ToSet(conf.seed) /\ ToSet(<<>>) = {} /\ loc \in LocalsType
      /\ (Idle => loc = NoLocals)
  BY NothingInEmpty DEF InventoryInv, TypeOK, LocalsType, SeedRecords
<1>1. CASE loc' = NoLocals
  BY <1>0, <1>1 DEF NoLocals
<1>2. CASE UNCHANGED loc
  <2>1. CASE UNCHANGED conf
    BY <1>0, <1>2, <2>1
  <2>2. CASE Between
    BY <1>0, <1>1, <1>2, <2>2 DEF Between
  <2> QED BY <2>1, <2>2, ConfSteps
<1> SUFFICES ASSUME \/ SeedingToken \/ SeedServices \/ SeedRecord \/ KeepToken \/ Mint \/ WriteToken
                    \/ BuildImage \/ (\E pass \in 1 .. 2 : Import(pass)), loc' # NoLocals
             PROVE  ToSet(loc'.todo) \subseteq ToSet(conf'.seed)
  BY <1>1, <1>2, LocalSteps
<1>3. conf' = conf
  BY DEF SeedingToken, SeedServices, SeedRecord, KeepToken, Mint, WriteToken, BuildImage, Import, nbVars
<1>4. CASE SeedingToken \/ KeepToken \/ Mint \/ WriteToken
  <2>1. loc'.todo = loc.todo
    BY <1>0, <1>4 DEF SeedingToken, KeepToken, Mint, WriteToken, Fails, Finish, LocalsType
  <2> QED BY <1>0, <1>3, <2>1
<1>5. CASE SeedServices \/ SeedRecord \/ BuildImage \/ (\E pass \in 1 .. 2 : Import(pass))
  <2>1. \/ loc'.todo \in {conf.seed, loc.todo, <<>>}
        \/ loc.todo # <<>> /\ loc'.todo = Tail(loc.todo)
    BY <1>0, <1>5 DEF SeedServices, SeedRecord, BuildImage, Import, Fails, Finish, Outside, LocalsType
  <2>2. loc.todo # <<>> => ToSet(Tail(loc.todo)) \subseteq ToSet(conf.seed)
    BY RecordTyped
  <2> QED BY <1>0, <1>3, <2>1, <2>2
<1> QED BY <1>4, <1>5

\* A new state of the control, where the inventory stays good.
LEMMA InventoryNetbox ==
    ASSUME TypeOK, ControlOK, InventoryInv, NetboxStep, Grows, AddressHasPrefix', conf' = conf,
           ToSet(loc'.todo) \subseteq ToSet(conf.seed)
    PROVE  InventoryInv'
<1>1. /\ op = "netbox" /\ conf.host \in Address /\ db \in DatabaseType /\ loc \in LocalsType
      /\ \A r \in ToSet(conf.seed) : r.addr \in Address
  <2>1. op = "netbox"
    BY DEF NetboxStep, KeepPepper, OpenPepper, WritePepper, StackDown, StackUp, WaitReady, SeedingToken, SeedInventory,
           HostPrefix, HostAddress, SeedServices, SeedRecord, KeepToken, ReplaceToken, Panel, RetireOld, Mint, Probe,
           OpenToken, WriteToken, RetireSeeding, NB, Step, On
  <2>2. \A r \in ToSet(conf.seed) : r.addr \in Address
    BY SeedIsTyped DEF SeedRecords
  <2> QED BY <2>1, <2>2, DatabaseShape DEF TypeOK, LocalsType, SeedRecords
<1>2. /\ db.ipam[conf.host] = Lab => db'.ipam[conf.host] = Lab
      /\ \A r \in ToSet(conf.seed) : db.ipam[r.addr] # 0 => db'.ipam[r.addr] # 0
  BY <1>1 DEF Grows
<1>10. loc.todo # <<>> => NameAfter(Head(loc.todo).addr, Head(loc.todo).name) # 0
  <2> DEFINE n == NameAfter(Head(loc.todo).addr, Head(loc.todo).name)
  <2>1. ASSUME loc.todo # <<>> PROVE n \in 1 .. Lab
    <3>1. Head(loc.todo).addr \in Address /\ Head(loc.todo).name \in 1 .. Names
      BY <2>1, RecordTyped
    <3> QED BY <3>1, NamesGiven
  <2> HIDE DEF n
  <2>2. n \in 1 .. Lab => n # 0
    OBVIOUS
  <2> QED BY <2>1, <2>2 DEF n
<1> USE DEF ControlOK, PointInv, At, NB, Step, On, Goes, Fails, Outside, Finish, Ends, Spend, Idle, Service,
            Peppered, Served, Authed, Addressed, Inventoried, Tokens, Replacing, Minted, CanonicalNameIsKept, InventoryInv
<1>3. CASE KeepPepper \/ OpenPepper \/ WritePepper \/ StackDown \/ StackUp \/ WaitReady \/ SeedingToken \/ SeedInventory
  BY <1>1, <1>2, <1>3 DEF KeepPepper, OpenPepper, WritePepper, StackDown, StackUp, WaitReady, SeedingToken, SeedInventory
<1>4. CASE HostPrefix
  <2>1. HasPrefix(conf.host)'
    BY <1>1, <1>4 DEF HostPrefix, HasPrefix, DatabaseType
  <2> QED BY <1>1, <1>2, <1>4, <2>1 DEF HostPrefix
<1>5. CASE HostAddress
  <2>1. db'.ipam[conf.host] = Lab
    BY <1>1, <1>5 DEF HostAddress, DatabaseType
  <2> QED BY <1>1, <1>2, <1>5, <2>1 DEF HostAddress
<1>6. CASE SeedServices
  <2>1. loc'.todo = conf.seed
    BY <1>1, <1>6 DEF SeedServices, LocalsType
  <2> QED BY <1>1, <1>2, <1>6, <2>1 DEF SeedServices
<1>7. CASE SeedRecord
  <2> DEFINE a == Head(loc.todo).addr
  <2>1. CASE loc.todo = <<>>
    <3>1. ToSet(loc.todo) = {}
      BY <2>1, NothingInEmpty
    <3> QED BY <1>1, <1>2, <1>7, <2>1, <3>1 DEF SeedRecord
  <2>2. CASE loc.todo # <<>> /\ LacksPrefix(a)
    BY <1>1, <1>2, <1>7, <2>2 DEF SeedRecord
  <2>3. CASE loc.todo # <<>> /\ ~LacksPrefix(a)
    <3>1. /\ ToSet(loc.todo) = {Head(loc.todo)} \cup ToSet(Tail(loc.todo)) /\ a \in Address
          /\ Head(loc.todo).name \in 1 .. Names
      BY <2>3, RecordTyped
    <3>2. loc'.todo = Tail(loc.todo) /\ db' = [db EXCEPT !.ipam[a] = NameAfter(a, Head(loc.todo).name)]
      BY <1>1, <1>7, <2>3 DEF SeedRecord, LocalsType
    <3>3. NameAfter(a, Head(loc.todo).name) # 0
      BY <2>3, <1>10
    <3>4. db'.ipam[a] # 0
      BY <1>1, <3>1, <3>2, <3>3 DEF DatabaseType
    <3>5. \A r \in ToSet(conf.seed) : r \in ToSet(loc'.todo) \/ db'.ipam[r.addr] # 0 \/ ~At("netbox", {"seed"})
      BY <1>2, <3>1, <3>2, <3>4
    <3> QED BY <1>1, <1>2, <1>7, <2>3, <3>5 DEF SeedRecord
  <2> QED BY <2>1, <2>2, <2>3
<1>8. CASE KeepToken \/ ReplaceToken \/ Panel \/ RetireOld \/ Mint \/ Probe \/ OpenToken \/ WriteToken
  BY <1>1, <1>2, <1>8 DEF KeepToken, ReplaceToken, Panel, RetireOld, Mint, Probe, OpenToken, WriteToken, AfterToken
<1>9. CASE RetireSeeding
  BY <1>1, <1>2, <1>9 DEF RetireSeeding
<1> QED BY <1>3, <1>4, <1>5, <1>6, <1>7, <1>8, <1>9 DEF NetboxStep

LEMMA InventorySync ==
    ASSUME TypeOK, ControlOK, InventoryInv, SyncStep, Grows, AddressHasPrefix', conf' = conf,
           ToSet(loc'.todo) \subseteq ToSet(conf.seed)
    PROVE  InventoryInv'
<1>1. /\ op = "dns-sync" /\ op' \in {"none", "dns-sync"} /\ verdict'["netbox"] = verdict["netbox"]
      /\ conf.host \in Address /\ db \in DatabaseType /\ loc \in LocalsType
      /\ \A r \in ToSet(conf.seed) : r.addr \in Address
  <2>1. op = "dns-sync" /\ op' \in {"none", "dns-sync"} /\ verdict'["netbox"] = verdict["netbox"]
    BY DEF SyncStep, BuildImage, Import, SyncRender, SyncDown, SyncUp, SyncVerify, DS, Step, On, Goes, Fails, Outside,
           Finish, Ends, ControlOK, Service
  <2>2. \A r \in ToSet(conf.seed) : r.addr \in Address
    BY SeedIsTyped DEF SeedRecords
  <2> QED BY <2>1, <2>2, DatabaseShape DEF TypeOK, LocalsType, SeedRecords
<1>2. CanonicalNameIsKept'
  BY <1>1 DEF InventoryInv, CanonicalNameIsKept, Grows
<1>3. \A a : HasPrefix(a) => HasPrefix(a)'
  BY DEF Grows, HasPrefix
<1> SUFFICES ASSUME op' = "dns-sync", NEW r \in ToSet(conf.seed)
             PROVE  /\ at' = "import prefixes" => r \in ToSet(loc'.todo) \/ HasPrefix(r.addr)'
                    /\ at' = "import addresses" => HasPrefix(r.addr)'
  BY <1>1, <1>2 DEF InventoryInv, At
<1> USE DEF DS, Step, On, Goes, Fails, Outside, Finish, Ends
<1>4. CASE BuildImage
  <2>1. at' = "import prefixes" => loc'.todo = conf.seed
    BY <1>1, <1>4 DEF BuildImage, LocalsType
  <2> QED BY <1>4, <2>1, ImportPoints DEF BuildImage
<1>5. ASSUME NEW pass \in 1 .. 2, Import(pass)
      PROVE  /\ at' = "import prefixes" => r \in ToSet(loc'.todo) \/ HasPrefix(r.addr)'
             /\ at' = "import addresses" => HasPrefix(r.addr)'
  <2> DEFINE a == Head(loc.todo).addr
  <2>1. /\ at = "import prefixes" => r \in ToSet(loc.todo) \/ HasPrefix(r.addr)
        /\ at = "import addresses" => HasPrefix(r.addr)
    BY <1>1 DEF InventoryInv, At
  <2>2. CASE loc.todo = <<>>
    <3>1. ToSet(loc.todo) = {}
      BY <2>2, NothingInEmpty
    <3>2. (pass = 1 /\ at = "import prefixes") \/ (pass = 2 /\ at = "import addresses")
      <4>1. pass = 1 \/ pass = 2
        OBVIOUS
      <4>2. at = ImportOrder[pass]
        BY <1>5 DEF Import
      <4>3. CASE pass = 1
        BY <4>2, <4>3, ImportPoints
      <4>4. CASE pass = 2
        BY <4>2, <4>4, ImportPoints
      <4> QED BY <4>1, <4>3, <4>4
    <3> QED BY <1>3, <1>5, <2>1, <2>2, <3>1, <3>2, ImportPoints DEF Import
  <2>3. CASE loc.todo # <<>>
    <3>1. ToSet(loc.todo) = {Head(loc.todo)} \cup ToSet(Tail(loc.todo)) /\ a \in Address
      BY <2>3, RecordTyped
    <3>2. /\ at' = at /\ loc'.todo = Tail(loc.todo)
          /\ at = "import prefixes" => db' = [db EXCEPT !.prefixes = IF a \in Plain THEN @ ELSE @ \cup {NetworkOf(a)}]
      BY <1>1, <1>5, <2>3 DEF Import, LocalsType
    <3>3. at = "import prefixes" => a \in Plain \/ NetworkOf(a) \in db'.prefixes
      BY <1>1, <3>1, <3>2 DEF DatabaseType
    <3>4. r = Head(loc.todo) => r.addr = a
      OBVIOUS
    <3> HIDE DEF a
    <3> QED BY <1>3, <2>1, <3>1, <3>2, <3>3, <3>4 DEF HasPrefix
  <2> QED BY <2>2, <2>3
<1>6. CASE SyncRender \/ SyncDown \/ SyncUp \/ SyncVerify
  BY <1>6 DEF SyncRender, SyncDown, SyncUp, SyncVerify
<1> QED BY <1>4, <1>5, <1>6 DEF SyncStep

LEMMA InventoryStep ==
    ASSUME TypeOK, ControlOK, InventoryInv, [Next]_vars
    PROVE  InventoryInv'
<1>1. ToSet(loc'.todo) \subseteq ToSet(conf'.seed)
  BY TodoStep
<1>2. CASE Between
  <2>1. op' = "none" /\ verdict'["netbox"] # "ok"
    BY <1>2 DEF Between, Stale, Idle, ControlOK, Service
  <2>2. AddressHasPrefix'
    <3>1. CASE WipeDB
      BY <3>1 DEF WipeDB, EmptyDB, AddressHasPrefix
    <3>2. CASE ~WipeDB
      BY <3>2, InventorySteps, InventoryGrows DEF InventoryInv
    <3> QED BY <3>1, <3>2
  <2> QED BY <1>1, <2>1, <2>2 DEF InventoryInv, CanonicalNameIsKept, At
<1>3. CASE ~Between
  <2>1. Grows /\ AddressHasPrefix' /\ conf' = conf
    BY <1>3, InventorySteps, InventoryGrows, ConfSteps DEF InventoryInv
  <2>2. CASE NetboxStep \/ SyncStep
    BY <1>1, <2>1, <2>2, InventoryNetbox, InventorySync
  <2> SUFFICES ASSUME ~NetboxStep, ~SyncStep PROVE InventoryInv'
    BY <2>2
  <2>3. CASE Cut
    BY <1>1, <2>1, <2>3 DEF Cut, CutShort, Ends, nbVars, InventoryInv, CanonicalNameIsKept, At, ControlOK, Service, Idle
  <2>4. CASE \E valid \in BOOLEAN : NetboxBegins(valid) \/ SyncBegins(valid)
    <3>1. UNCHANGED <<db, conf, loc>> /\ verdict'["netbox"] \in {verdict["netbox"], "config", "not ready"}
          /\ (op' = "none" \/ (op' = "netbox" /\ at' = "pepper") \/ (op' = "dns-sync" /\ at' = "build"))
      <4>1. verdict \in [Service -> Verdict] /\ "netbox" \in Service
        BY DEF ControlOK, Service
      <4>2. UNCHANGED <<nbVars, loc>>
        BY <2>4 DEF NetboxBegins, SyncBegins
      <4>3. op' = "none" \/ (op' = "netbox" /\ at' = "pepper") \/ (op' = "dns-sync" /\ at' = "build")
        BY <2>4 DEF NetboxBegins, SyncBegins, Begins, Ends
      <4>4. \/ verdict' = verdict
            \/ \E v \in {"config", "not ready"} : verdict' = [verdict EXCEPT !["netbox"] = v]
            \/ \E v \in {"config", "not ready", "no token"} : verdict' = [verdict EXCEPT !["dns-sync"] = v]
        BY <2>4 DEF NetboxBegins, SyncBegins, Ends
      <4> QED BY <4>1, <4>2, <4>3, <4>4 DEF nbVars
    <3> QED BY <1>1, <2>1, <3>1 DEF InventoryInv, CanonicalNameIsKept, At, Addressed, Inventoried, Tokens, Replacing, Minted
  <2>5. CASE NetboxRemoved \/ SyncRemoved \/ ObeysPepper
    <3>1. UNCHANGED <<op, at, db, conf, loc>> /\ verdict'["netbox"] \in {verdict["netbox"], "removed", "changed"}
      BY <2>5 DEF NetboxRemoved, SyncRemoved, ObeysPepper, ControlOK, Service
    <3> QED BY <1>1, <2>1, <3>1 DEF InventoryInv, CanonicalNameIsKept, At, HasPrefix
  <2>6. CASE SyncStarts \/ Reconciles \/ Reboot \/ UNCHANGED vars
    <3>1. UNCHANGED <<op, at, verdict, db, conf, loc>>
      BY <2>6 DEF SyncStarts, Reconciles, Reboot, vars, runVars, nbVars
    <3> QED BY <1>1, <2>1, <3>1 DEF InventoryInv, CanonicalNameIsKept, At, HasPrefix
  <2> QED BY <1>3, <2>3, <2>4, <2>5, <2>6 DEF Next
<1> QED BY <1>2, <1>3
-----------------------------------------------------------------------------
\* Whose token is which.
TokenNumbers == \A t \in db.tokens : t.id # 0

LEMMA TokenSteps ==
    ASSUME TypeOK, [Next]_vars
    PROVE  /\ db.tokens \in SUBSET TokenType /\ TokenNumbers
           /\ db'.tokens \subseteq db.tokens \/ SeedingToken \/ Mint
<1>0. db \in DatabaseType
  BY DatabaseShape
<1>1. db.tokens \in SUBSET TokenType /\ TokenNumbers
  BY <1>0 DEF DatabaseType, TokenType, TokenNumbers
<1> SUFFICES db'.tokens \subseteq db.tokens \/ SeedingToken \/ Mint
  BY <1>1
<1>2. CASE UNCHANGED db
  BY <1>2
<1>3. CASE StackUp \/ SeedInventory \/ HostPrefix \/ HostAddress \/ SeedServices \/ Panel \/ SeedRecord
  BY <1>0, <1>3 DEF StackUp, SeedInventory, HostPrefix, HostAddress, SeedServices, Panel, SeedRecord, DatabaseType
<1>4. CASE RetireOld \/ RetireSeeding
  BY <1>0, <1>4 DEF RetireOld, RetireSeeding, Retired, DatabaseType
<1>5. ASSUME NEW pass \in 1 .. 2, Import(pass) PROVE db'.tokens \subseteq db.tokens
  BY <1>0, <1>5 DEF Import, DatabaseType
<1>6. CASE WipeDB
  BY <1>6 DEF WipeDB, EmptyDB
<1> QED BY <1>2, <1>3, <1>4, <1>5, <1>6, DatabaseSteps DEF DatabaseStep

\* The two steps that make one.
LEMMA SeedingTokenMakes ==
    ASSUME TypeOK, SeedingToken
    PROVE  \/ db' = db /\ loc' = NoLocals /\ op' = "none"
           \/ /\ Fresh # {} /\ loc'.auth = NewId /\ loc'.minted = loc.minted /\ loc'.use = loc.use
              /\ db'.tokens = db.tokens \cup {NewToken("seeding")} /\ op' = "netbox" /\ at' = "inventory"
<1>1. db \in DatabaseType /\ loc \in LocalsType
  BY DatabaseShape DEF TypeOK, LocalsType, SeedRecords
<1> QED BY <1>1 DEF SeedingToken, DatabaseType, LocalsType, Goes, On, Fails, Finish, Ends

LEMMA MintMakes ==
    ASSUME TypeOK, Mint
    PROVE  /\ Fresh # {} /\ loc'.minted = NewId /\ loc'.auth = loc.auth /\ loc'.use = loc.use
           /\ db'.tokens = db.tokens \cup {NewToken(loc.use)} /\ db'.panel = db.panel
           /\ op = "netbox" /\ at = "mint" /\ op' = "netbox" /\ at' = "probe" /\ UNCHANGED <<server, file, sync, budget, secret>>
<1>1. db \in DatabaseType /\ loc \in LocalsType
  BY DatabaseShape DEF TypeOK, LocalsType, SeedRecords
<1> QED BY <1>1 DEF Mint, DatabaseType, LocalsType, NB, Step, On, Goes

\* What the names of tokens may become in the other steps.
LEMMA NameSteps ==
    ASSUME TypeOK, TokenInv, [Next]_vars, ~SeedingToken, ~Mint
    PROVE  /\ sync'.tok \in {sync.tok, file.sync, 0}
           /\ \/ file'.sync \in {file.sync, 0} /\ file'.dash \in {file.dash, 0}
              \/ loc.use = "sync" /\ file'.sync = loc.minted /\ file'.dash = file.dash
              \/ loc.use = "dash" /\ file'.dash = loc.minted /\ file'.sync = file.sync
           /\ loc'.auth \in {loc.auth, 0}
           /\ loc'.minted = 0 \/ (loc'.minted = loc.minted /\ loc'.use = loc.use)
<1>0. /\ loc \in LocalsType /\ file \in [sync : Id, dash : Id] /\ sync \in [up : BOOLEAN, tok : Id]
      /\ NoLocals.auth = 0 /\ NoLocals.minted = 0
  BY DEF TypeOK, LocalsType, SeedRecords, NoLocals
<1>1. sync'.tok \in {sync.tok, file.sync, 0}
  <2>1. CASE UNCHANGED sync
    BY <2>1
  <2>2. CASE SyncDown \/ SyncUp \/ SyncRemoved
    BY <2>2 DEF SyncDown, SyncUp, SyncRemoved, NoSync
  <2>3. CASE SyncStarts \/ Reboot
    BY <1>0, <2>3 DEF SyncStarts, Reboot
  <2> QED BY <2>1, <2>2, <2>3, SyncSteps
<1>2. \/ file'.sync \in {file.sync, 0} /\ file'.dash \in {file.dash, 0}
      \/ loc.use = "sync" /\ file'.sync = loc.minted /\ file'.dash = file.dash
      \/ loc.use = "dash" /\ file'.dash = loc.minted /\ file'.sync = file.sync
  <2>1. CASE UNCHANGED file
    BY <2>1
  <2>2. CASE OpenToken \/ WriteToken
    <3>1. loc.use \in {"sync", "dash"}
      BY <2>2 DEF OpenToken, WriteToken, NB, Step, On, TokenInv, TokenPoints, At, Tokens, Replacing, Minted
    <3>2. file' = [file EXCEPT ![loc.use] = 0] \/ file' = [file EXCEPT ![loc.use] = loc.minted]
      BY <2>2 DEF OpenToken, WriteToken
    <3> QED BY <1>0, <3>1, <3>2
  <2> QED BY <2>1, <2>2, FileSteps
<1>3. loc'.auth \in {loc.auth, 0} /\ (loc'.minted = 0 \/ (loc'.minted = loc.minted /\ loc'.use = loc.use))
  <2>1. CASE UNCHANGED loc \/ loc' = NoLocals
    BY <1>0, <2>1
  <2>2. CASE SeedServices \/ SeedRecord
    <3>1. loc.minted = 0
      BY <2>2 DEF TokenInv, TokenPoints, SeedServices, SeedRecord, NB, Step, On, At, Minted
    <3> QED BY <1>0, <2>2, <3>1 DEF SeedServices, SeedRecord, LocalsType
  <2>3. CASE KeepToken
    <3>1. loc.minted = 0
      BY <2>3 DEF TokenInv, TokenPoints, KeepToken, NB, Step, On, At, Minted
    <3> QED BY <1>0, <2>3, <3>1 DEF KeepToken, LocalsType
  <2>4. CASE WriteToken
    BY <1>0, <2>4 DEF WriteToken, LocalsType
  <2>5. CASE BuildImage \/ (\E pass \in 1 .. 2 : Import(pass))
    BY <1>0, <2>5 DEF BuildImage, Import, Fails, Outside, Finish, LocalsType
  <2> QED BY <2>1, <2>2, <2>3, <2>4, <2>5, LocalSteps
<1> QED BY <1>1, <1>2, <1>3

LEMMA OwnerStep ==
    ASSUME TypeOK, TokenInv, [Next]_vars
    PROVE  TokenOwner'
<1>0. /\ db.tokens \in SUBSET TokenType /\ TokenNumbers /\ TokenOwner
      /\ db'.tokens \subseteq db.tokens \/ SeedingToken \/ Mint
  BY TokenSteps DEF TokenInv
<1>1. CASE Mint
  <2>1. /\ Fresh # {} /\ loc'.minted = NewId /\ loc'.auth = loc.auth /\ loc'.use = loc.use
        /\ db'.tokens = db.tokens \cup {NewToken(loc.use)} /\ UNCHANGED <<file, sync>>
    BY <1>1, MintMakes
  <2>2. /\ NewId \notin {file.sync, file.dash, sync.tok, loc.auth, loc.minted}
        /\ \A t \in db.tokens : t.id # NewId
    BY <2>1, NewIdIsFresh
  <2>3. NewToken(loc.use).id = NewId /\ NewToken(loc.use).use = loc.use
    BY DEF NewToken
  <2> QED BY <1>0, <2>1, <2>2, <2>3 DEF TokenOwner
<1>2. CASE SeedingToken
  <2>0. UNCHANGED <<file, sync>> /\ NoLocals.auth = 0 /\ NoLocals.minted = 0
    BY <1>2 DEF SeedingToken, NoLocals
  <2>1. CASE db' = db /\ loc' = NoLocals
    BY <1>0, <2>0, <2>1 DEF TokenOwner, TokenNumbers
  <2>2. CASE /\ Fresh # {} /\ loc'.auth = NewId /\ loc'.minted = loc.minted /\ loc'.use = loc.use
             /\ db'.tokens = db.tokens \cup {NewToken("seeding")}
    <3>2. /\ NewId \notin {file.sync, file.dash, sync.tok, loc.auth, loc.minted}
          /\ \A t \in db.tokens : t.id # NewId
      BY <2>2, NewIdIsFresh
    <3>3. NewToken("seeding").id = NewId /\ NewToken("seeding").use = "seeding"
      BY DEF NewToken
    <3> QED BY <1>0, <2>0, <2>2, <3>2, <3>3 DEF TokenOwner
  <2> QED BY <1>2, <2>1, <2>2, SeedingTokenMakes
<1>3. CASE ~SeedingToken /\ ~Mint
  BY <1>0, <1>3, NameSteps DEF TokenOwner, TokenNumbers
<1> QED BY <1>1, <1>2, <1>3

\* What the deployment under way knows of them.
LEMMA PointsNetbox ==
    ASSUME TypeOK, ControlOK, PepperInv, TokenInv, NetboxStep
    PROVE  TokenPoints'
<1>0. /\ TokenOwner /\ TokenPoints /\ loc \in LocalsType /\ file \in [sync : Id, dash : Id] /\ db \in DatabaseType
      /\ NoLocals.minted = 0
  BY DatabaseShape DEF TypeOK, LocalsType, SeedRecords, NoLocals, TokenInv
<1> USE DEF TokenPoints, ControlOK, PointInv, At, NB, Step, On, Goes, Fails, Outside, Finish, Ends, Spend, Idle, Service,
            Peppered, Served, Authed, Addressed, Inventoried, Tokens, Replacing, Minted
<1>1. CASE KeepPepper \/ OpenPepper \/ WritePepper \/ StackDown \/ StackUp \/ WaitReady
  BY <1>0, <1>1 DEF KeepPepper, OpenPepper, WritePepper, StackDown, StackUp, WaitReady
<1>2. CASE SeedInventory \/ HostPrefix \/ HostAddress
  BY <1>0, <1>2 DEF SeedInventory, HostPrefix, HostAddress
<1>3. CASE SeedServices \/ SeedRecord
  <2>1. loc.minted = 0 /\ loc'.minted = 0 /\ op' = "netbox" /\ at' \in {"seed", "token"}
        /\ (at' = "token" => loc'.use = "sync")
    BY <1>0, <1>3 DEF SeedServices, SeedRecord, LocalsType
  <2> QED BY <2>1
<1>4. CASE SeedingToken
  <2>1. loc.minted = 0
    BY <1>0, <1>4 DEF SeedingToken
  <2> QED BY <1>0, <1>4, <2>1, SeedingTokenMakes
<1>5. CASE KeepToken
  <2>1. /\ loc.minted = 0 /\ loc'.minted = 0 /\ loc'.use = NextUse /\ at' = AfterToken /\ op' = "netbox" /\ op = "netbox"
        /\ at = "token" /\ UNCHANGED <<db, server, file>> /\ Accepted(Stored) /\ ReadsIPAM
    BY <1>0, <1>5 DEF KeepToken, LocalsType, nbVars
  <2>2. CASE loc.use = "sync"
    <3>1. Alive(file.sync)'
      BY <2>1, <2>2 DEF Accepted, Stored, Alive
    <3> QED BY <2>1, <2>2, <3>1 DEF NextUse, AfterToken
  <2>3. CASE loc.use = "dash"
    <3>1. Alive(file.sync)' /\ Alive(file.dash)' /\ PanelReady'
      BY <1>0, <2>1, <2>3 DEF Accepted, Stored, Alive, ReadsIPAM, PanelReady, Missing
    <3> QED BY <2>1, <2>3, <3>1 DEF NextUse, AfterToken
  <2> QED BY <1>0, <2>1, <2>2, <2>3
<1>6. CASE ReplaceToken \/ Panel
  <2>1. /\ UNCHANGED <<server, file, loc>> /\ db'.tokens = db.tokens /\ op' = "netbox" /\ op = "netbox"
        /\ at \in {"token", "panel"} /\ at' \in {"retire", "panel"} /\ (at' = "panel" => loc.use = "dash")
    BY <1>0, <1>6 DEF ReplaceToken, Panel, DatabaseType, nbVars
  <2>2. Alive(file.sync)' <=> Alive(file.sync)
    BY <2>1 DEF Alive
  <2> QED BY <1>0, <2>1, <2>2
<1>7. CASE RetireOld
  <2>1. /\ UNCHANGED <<server, file, loc>> /\ db'.tokens \in {db.tokens, Retired(loc.use)} /\ op' = "netbox"
        /\ op = "netbox" /\ at = "retire" /\ at' = "mint"
    BY <1>0, <1>7 DEF RetireOld, DatabaseType
  <2>2. loc.use = "dash" /\ Alive(file.sync) => Alive(file.sync)'
    BY <1>0, <2>1 DEF Alive, Retired, Of, TokenOwner
  <2> QED BY <1>0, <2>1, <2>2
<1>8. CASE Mint
  <2>1. /\ loc'.use = loc.use /\ db.tokens \subseteq db'.tokens /\ op = "netbox" /\ at = "mint" /\ op' = "netbox"
        /\ at' = "probe" /\ UNCHANGED <<server, file>>
    BY <1>8, MintMakes
  <2>2. Alive(file.sync) => Alive(file.sync)'
    BY <2>1 DEF Alive
  <2> QED BY <1>0, <2>1, <2>2
<1>9. CASE Probe
  <2>1. UNCHANGED <<server, file, db>> /\ op = "netbox" /\ at = "probe"
        /\ \/ op' = "none" /\ loc' = NoLocals
           \/ op' = "netbox" /\ at' = "open" /\ UNCHANGED loc /\ Accepted(loc.minted) /\ ReadsIPAM
    BY <1>9 DEF Probe, nbVars
  <2>2. CASE op' = "none" /\ loc' = NoLocals
    BY <1>0, <2>2
  <2>3. CASE op' = "netbox" /\ at' = "open" /\ UNCHANGED loc /\ Accepted(loc.minted) /\ ReadsIPAM
    <3>1. Alive(loc.minted)' /\ ReadsIPAM' /\ (Alive(file.sync) => Alive(file.sync)')
      BY <2>1, <2>3 DEF Accepted, Alive, ReadsIPAM, Missing
    <3> QED BY <1>0, <2>1, <2>3, <3>1
  <2> QED BY <2>1, <2>2, <2>3
<1>10. CASE OpenToken
  <2>1. /\ UNCHANGED <<server, db, loc>> /\ op = "netbox" /\ at = "open" /\ op' = "netbox" /\ at' = "write"
        /\ file' = [file EXCEPT ![loc.use] = 0]
    BY <1>10 DEF OpenToken
  <2>2. loc.use = "dash" => file'.sync = file.sync
    BY <1>0, <2>1
  <2>3. /\ Alive(loc.minted) => Alive(loc.minted)'
        /\ ReadsIPAM => ReadsIPAM'
        /\ loc.use = "dash" /\ Alive(file.sync) => Alive(file.sync)'
    BY <2>1, <2>2 DEF Alive, ReadsIPAM, Missing
  <2> QED BY <1>0, <2>1, <2>3
<1>11. CASE WriteToken
  <2>1. /\ UNCHANGED <<server, db>> /\ op = "netbox" /\ at = "write" /\ op' = "netbox" /\ at' = AfterToken
        /\ file' = [file EXCEPT ![loc.use] = loc.minted] /\ loc'.minted = 0 /\ loc'.use = NextUse
    BY <1>0, <1>11 DEF WriteToken, LocalsType
  <2>2. CASE loc.use = "sync"
    <3>1. file'.sync = loc.minted /\ Alive(loc.minted)
      BY <1>0, <2>1, <2>2
    <3>2. Alive(file.sync)'
      BY <2>1, <3>1 DEF Alive
    <3> QED BY <2>1, <2>2, <3>2 DEF NextUse, AfterToken
  <2>3. CASE loc.use = "dash"
    <3>1. file'.dash = loc.minted /\ file'.sync = file.sync /\ Alive(loc.minted) /\ Alive(file.sync) /\ ReadsIPAM
      BY <1>0, <2>1, <2>3
    <3>2. Alive(file.sync)' /\ Alive(file.dash)' /\ PanelReady'
      BY <2>1, <2>3, <3>1 DEF Alive, ReadsIPAM, PanelReady, Missing
    <3> QED BY <2>1, <2>3, <3>2 DEF NextUse, AfterToken
  <2> QED BY <1>0, <2>1, <2>2, <2>3
<1>12. CASE RetireSeeding
  BY <1>0, <1>12 DEF RetireSeeding
<1> QED BY <1>1, <1>2, <1>3, <1>4, <1>5, <1>6, <1>7, <1>8, <1>9, <1>10, <1>11, <1>12 DEF NetboxStep

\* Outside the deployment's own steps.
LEMMA TokenStep ==
    ASSUME TypeOK, ControlOK, PepperInv, TokenInv, [Next]_vars
    PROVE  TokenInv'
<1>0. TokenOwner' /\ TokenPoints
  BY OwnerStep DEF TokenInv
<1> SUFFICES TokenPoints'
  BY <1>0 DEF TokenInv
<1>1. CASE NetboxStep
  BY <1>1, PointsNetbox
<1>2. CASE op # "netbox" /\ op' # "netbox" /\ ~NetboxStep
  <2>1. loc.minted = 0 /\ loc \in LocalsType /\ NoLocals.minted = 0
    BY <1>0, <1>2 DEF TokenPoints, At, TypeOK, LocalsType, SeedRecords, NoLocals
  <2>2. loc'.minted = 0
    <3>1. CASE loc' = loc \/ loc' = NoLocals
      BY <2>1, <3>1
    <3>2. CASE BuildImage \/ (\E pass \in 1 .. 2 : Import(pass))
      BY <2>1, <3>2 DEF BuildImage, Import, Fails, Outside, Finish, LocalsType
    <3> QED BY <1>2, <3>1, <3>2, LocalSteps DEF NetboxStep
  <2> QED BY <1>2, <2>2 DEF TokenPoints, At
<1> USE DEF Tokens, Replacing, Minted, Inventoried
<1>3. ASSUME NEW valid \in BOOLEAN, NetboxBegins(valid) \/ SyncBegins(valid) PROVE TokenPoints'
  <2>1. UNCHANGED loc /\ loc = NoLocals /\ (op' # "netbox" \/ at' = "pepper")
    BY <1>3 DEF NetboxBegins, SyncBegins, Idle, Begins, Ends, ControlOK
  <2> QED BY <2>1 DEF TokenPoints, At, NoLocals
<1>4. CASE SyncStarts \/ Reconciles \/ Reboot \/ UNCHANGED vars
  <2>1. UNCHANGED <<op, at, server, db, file, loc>>
    BY <1>4 DEF SyncStarts, Reconciles, Reboot, vars, runVars, nbVars
  <2>2. /\ Alive(loc.minted)' <=> Alive(loc.minted)
        /\ Alive(file.sync)' <=> Alive(file.sync)
        /\ Alive(file.dash)' <=> Alive(file.dash)
        /\ ReadsIPAM' <=> ReadsIPAM
        /\ PanelReady' <=> PanelReady
    BY <2>1 DEF Alive, ReadsIPAM, PanelReady, Missing
  <2> QED BY <1>0, <2>1, <2>2 DEF TokenPoints, At
<1>5. CASE Cut
  <2>1. op' = "none" /\ loc' = NoLocals
    BY <1>5 DEF Cut, CutShort, Ends
  <2> QED BY <2>1 DEF TokenPoints, At, NoLocals
<1>6. CASE NetboxRemoved \/ SyncRemoved \/ Between \/ ObeysPepper \/ SyncStep
  <2>1. op # "netbox" /\ op' # "netbox"
    BY <1>6 DEF NetboxRemoved, SyncRemoved, Between, ObeysPepper, Idle, SyncStep, BuildImage, Import, SyncRender,
                SyncDown, SyncUp, SyncVerify, DS, Step, On, Goes, Fails, Outside, Finish, Ends
  <2> QED BY <1>1, <1>2, <2>1
<1> QED BY <1>1, <1>3, <1>4, <1>5, <1>6 DEF Next
-----------------------------------------------------------------------------
\* How many tokens there are.  What is to blame for a seeding token that stays
\* is counted where its deployment ends.
LEMMA Sums ==
    \A c, u, r, c1, u1, r1 \in Nat :
       /\ c + u + r \in Nat
       /\ c1 >= c /\ u1 >= u /\ r1 >= r => c1 + u1 + r1 >= c + u + r
OBVIOUS

LEMMA BlamedCounts ==
    ASSUME TypeOK, [Next]_vars
    PROVE  /\ Blamed \in Nat /\ Blamed' \in Nat /\ Blamed' >= Blamed
           /\ Times("unretired") \in Nat /\ Times("unretired")' \in Nat /\ Times("unretired")' >= Times("unretired")
           /\ Spend("unretired") => Times("unretired")' = Times("unretired") + 1
           /\ Spend("cut") \/ Spend("unreachable") \/ Spend("unretired") => Blamed' = Blamed + 1
<1>1. BudgetTyped /\ BudgetTyped' /\ \A d : Times(d)' >= Times(d)
  BY BudgetStep
<1>2. \A d : Times(d) \in Nat
  BY <1>1, TimesAreNumbers
<1>3. \A d : Times(d)' \in Nat
  <2>1. ASSUME NEW d PROVE Times(d)' \in Nat
    <3>1. CASE d \in Disturbance
      <4>1. budget'.left[d] \in Nat /\ MaxOf[d] \in Nat /\ budget'.left[d] <= MaxOf[d]
        BY <1>1, <3>1, DisturbanceAssumption DEF BudgetTyped
      <4> QED BY <3>1, <4>1 DEF Times
    <3>2. CASE d \notin Disturbance
      BY <3>2 DEF Times
    <3> QED BY <3>1, <3>2
  <2> QED BY <2>1
<1>4. ASSUME NEW d, Spend(d) PROVE Times(d)' = Times(d) + 1 /\ \A e : e # d => Times(e)' = Times(e)
  BY <1>1, <1>4, SpendCounts
<1> DEFINE c == Times("cut")  u == Times("unreachable")  r == Times("unretired")
<1>5. /\ c \in Nat /\ u \in Nat /\ r \in Nat /\ c' \in Nat /\ u' \in Nat /\ r' \in Nat
      /\ c' >= c /\ u' >= u /\ r' >= r
  BY <1>1, <1>2, <1>3
<1>6. /\ Spend("cut") => c' = c + 1 /\ u' = u /\ r' = r
      /\ Spend("unreachable") => c' = c /\ u' = u + 1 /\ r' = r
      /\ Spend("unretired") => c' = c /\ u' = u /\ r' = r + 1
  BY <1>4
<1>7. Blamed = c + u + r /\ Blamed' = c' + u' + r'
  BY DEF Blamed
<1>8. Blamed \in Nat /\ Blamed' \in Nat /\ Blamed' >= Blamed
  BY <1>5, <1>7, Sums
<1>9. Spend("cut") \/ Spend("unreachable") \/ Spend("unretired") => Blamed' = Blamed + 1
  <2>1. c + 1 + u + r = c + u + r + 1 /\ c + (u + 1) + r = c + u + r + 1 /\ c + u + (r + 1) = c + u + r + 1
    BY <1>5
  <2> QED BY <1>6, <1>7, <2>1
<1> QED BY <1>5, <1>6, <1>8, <1>9

\* A deployment logs in at one place, and ends in few.
LEMMA AuthedSteps ==
    ASSUME ControlOK, [Next]_vars
    PROVE  /\ At("netbox", Authed)' => At("netbox", Authed) \/ SeedingToken
           /\ At("netbox", Authed) /\ ~At("netbox", Authed)' =>
                Spend("cut") \/ Spend("unreachable") \/ Spend("unretired") \/ RetireSeeding
           /\ At("netbox", {"mint"})' =>
                RetireOld \/ (At("netbox", {"mint"}) /\ db' = db /\ loc' = loc)
<1> USE DEF ControlOK, At, NB, DS, Step, On, Goes, Fails, Outside, Finish, Begins, Ends, Idle,
            Authed, Addressed, Inventoried, Tokens, Replacing, Minted
<1>1. CASE NetboxStep
  <2>1. CASE KeepPepper \/ OpenPepper \/ WritePepper \/ StackDown \/ StackUp \/ WaitReady
    BY <2>1 DEF KeepPepper, OpenPepper, WritePepper, StackDown, StackUp, WaitReady
  <2>2. CASE SeedingToken \/ RetireSeeding \/ RetireOld
    BY <2>2 DEF SeedingToken, RetireSeeding, RetireOld
  <2>3. CASE SeedInventory \/ HostPrefix \/ HostAddress \/ SeedServices \/ SeedRecord
    BY <2>3 DEF SeedInventory, HostPrefix, HostAddress, SeedServices, SeedRecord
  <2>4. CASE KeepToken \/ ReplaceToken \/ Panel \/ Mint \/ Probe \/ OpenToken \/ WriteToken
    BY <2>4 DEF KeepToken, ReplaceToken, Panel, Mint, Probe, OpenToken, WriteToken, AfterToken
  <2> QED BY <1>1, <2>1, <2>2, <2>3, <2>4 DEF NetboxStep
<1>2. CASE SyncStep
  BY <1>2 DEF SyncStep, BuildImage, Import, SyncRender, SyncDown, SyncUp, SyncVerify
<1>3. CASE Cut
  BY <1>3 DEF Cut, CutShort
<1>4. CASE (\E valid \in BOOLEAN : NetboxBegins(valid) \/ SyncBegins(valid)) \/ NetboxRemoved \/ SyncRemoved
           \/ Between \/ ObeysPepper
  BY <1>4 DEF NetboxBegins, SyncBegins, NetboxRemoved, SyncRemoved, Between, ObeysPepper
<1>5. CASE SyncStarts \/ Reconciles \/ Reboot \/ UNCHANGED vars
  BY <1>5 DEF SyncStarts, Reconciles, Reboot, vars, runVars, nbVars
<1> QED BY <1>1, <1>2, <1>3, <1>4, <1>5 DEF Next

\* Of a use there are no more than before unless one is made.
LEMMA OfCounts ==
    ASSUME IsFiniteSet(db.tokens)
    PROVE  /\ \A use : IsFiniteSet(Of(use)) /\ Cardinality(Of(use)) \in Nat
           /\ db'.tokens \subseteq db.tokens =>
                IsFiniteSet(db'.tokens) /\ \A use : Cardinality(Of(use)') <= Cardinality(Of(use))
           /\ \A t : db'.tokens = db.tokens \cup {t} =>
                /\ IsFiniteSet(db'.tokens)
                /\ Cardinality(Of(t.use)') <= Cardinality(Of(t.use)) + 1
                /\ \A use : use # t.use => Of(use)' = Of(use)
<1>1. \A use : IsFiniteSet(Of(use)) /\ Cardinality(Of(use)) \in Nat
  <2>1. \A use : Of(use) \subseteq db.tokens
    BY DEF Of
  <2> QED BY <2>1, FS_Subset, FS_CardinalityType
<1>2. ASSUME db'.tokens \subseteq db.tokens
      PROVE  IsFiniteSet(db'.tokens) /\ \A use : Cardinality(Of(use)') <= Cardinality(Of(use))
  <2>1. \A use : Of(use)' \subseteq Of(use)
    BY <1>2 DEF Of
  <2> QED BY <1>1, <1>2, <2>1, FS_Subset
<1>3. ASSUME NEW t, db'.tokens = db.tokens \cup {t}
      PROVE  /\ IsFiniteSet(db'.tokens)
             /\ Cardinality(Of(t.use)') <= Cardinality(Of(t.use)) + 1
             /\ \A use : use # t.use => Of(use)' = Of(use)
  <2>1. Of(t.use)' = Of(t.use) \cup {t} /\ \A use : use # t.use => Of(use)' = Of(use)
    BY <1>3 DEF Of
  <2>2. Cardinality(Of(t.use) \cup {t}) \in {Cardinality(Of(t.use)), Cardinality(Of(t.use)) + 1}
    BY <1>1, FS_AddElement
  <2>3. IsFiniteSet(db'.tokens)
    BY <1>3, FS_AddElement
  <2> QED BY <1>1, <2>1, <2>2, <2>3
<1> QED BY <1>1, <1>2, <1>3

LEMMA OneMore ==
    ASSUME IsFiniteSet(db.tokens), NEW use, db'.tokens = db.tokens \cup {NewToken(use)}
    PROVE  /\ IsFiniteSet(db'.tokens) /\ Cardinality(Of(use)') <= Cardinality(Of(use)) + 1
           /\ Cardinality(Of(use)') \in Nat
           /\ \A other : other # use => Of(other)' = Of(other)
<1>1. NewToken(use).use = use
  BY DEF NewToken
<1>2. IsFiniteSet(db'.tokens) /\ Of(use)' \subseteq db'.tokens
  BY <1>1, OfCounts DEF Of
<1>3. Cardinality(Of(use)') \in Nat
  BY <1>2, FS_Subset, FS_CardinalityType
<1> QED BY <1>1, <1>3, OfCounts

\* One seeding token is gone when a deployment ends well and is not to blame.
LEMMA SeedingRetired ==
    ASSUME TypeOK, IsFiniteSet(db.tokens), RetireSeeding
    PROVE  /\ IsFiniteSet(db'.tokens) /\ \A use : Cardinality(Of(use)') <= Cardinality(Of(use))
           /\ Cardinality(Of("seeding")') <= Cardinality(Of("seeding")) - 1 \/ Spend("unretired")
<1>1. db \in DatabaseType
  BY DatabaseShape
<1>2. db'.tokens \subseteq db.tokens
  BY <1>1 DEF RetireSeeding, DatabaseType
<1>3. ASSUME ~Spend("unretired")
      PROVE  Cardinality(Of("seeding")') <= Cardinality(Of("seeding")) - 1
  <2>1. PICK gone \in SUBSET Of("seeding") :
          (\E t \in gone : t.id = loc.auth) /\ db' = [db EXCEPT !.tokens = @ \ gone]
    BY <1>3 DEF RetireSeeding
  <2>2. PICK t \in gone : TRUE
    BY <2>1
  <2>3. t \in Of("seeding") /\ Of("seeding")' \subseteq Of("seeding") \ {t}
    BY <1>1, <2>1, <2>2 DEF Of, DatabaseType
  <2>4. /\ IsFiniteSet(Of("seeding")) /\ Cardinality(Of("seeding")) \in Nat
        /\ IsFiniteSet(Of("seeding") \ {t})
        /\ Cardinality(Of("seeding") \ {t}) = Cardinality(Of("seeding")) - 1
    BY <2>3, OfCounts, FS_RemoveElement
  <2> QED BY <2>3, <2>4, FS_Subset
<1> QED BY <1>2, <1>3, OfCounts

LEMMA CountStep ==
    ASSUME TypeOK, ControlOK, TokenInv, CountInv, [Next]_vars
    PROVE  CountInv'
<1> DEFINE r == Times("unretired")
           a == IF At("netbox", Authed) THEN 1 ELSE 0
           n(use) == Cardinality(Of(use))
<1>1. /\ Blamed \in Nat /\ Blamed' \in Nat /\ Blamed' >= Blamed /\ r \in Nat /\ r' \in Nat /\ r' >= r
      /\ Spend("unretired") => r' = r + 1
      /\ Spend("cut") \/ Spend("unreachable") \/ Spend("unretired") => Blamed' = Blamed + 1
  BY BlamedCounts
<1>2. /\ IsFiniteSet(db.tokens) /\ n("sync") <= 1 + r /\ n("dash") <= 1 + r /\ n("seeding") <= Blamed + a
      /\ At("netbox", {"mint"}) => n(loc.use) <= r
  BY DEF CountInv
<1>3. \A use : n(use) \in Nat
  BY <1>2, OfCounts
<1>4. a \in {0, 1} /\ a' \in {0, 1}
  OBVIOUS
<1> SUFFICES /\ IsFiniteSet(db'.tokens) /\ n("sync")' <= 1 + r' /\ n("dash")' <= 1 + r'
             /\ n("seeding")' <= Blamed' + a' /\ (At("netbox", {"mint"})' => n(loc.use)' <= r')
  BY DEF CountInv
<1>5. db'.tokens \subseteq db.tokens =>
        IsFiniteSet(db'.tokens) /\ \A use : Cardinality(Of(use)') \in Nat /\ Cardinality(Of(use)') <= n(use)
  <2>1. ASSUME db'.tokens \subseteq db.tokens, NEW use
        PROVE  Cardinality(Of(use)') \in Nat
    <3>1. Of(use)' \subseteq Of(use) /\ IsFiniteSet(Of(use))
      BY <1>2, <2>1, OfCounts DEF Of
    <3> QED BY <3>1, FS_Subset, FS_CardinalityType
  <2> QED BY <1>2, <2>1, OfCounts
<1>6. CASE SeedingToken
  <2>1. a = 0 /\ ~At("netbox", {"mint"})'
    BY <1>6, SeedingTokenMakes DEF SeedingToken, On, At, Authed, Addressed, Inventoried, Tokens, Replacing, Minted
  <2>2. CASE db' = db
    BY <1>1, <1>2, <1>3, <1>4, <1>5, <2>1, <2>2
  <2>3. CASE db'.tokens = db.tokens \cup {NewToken("seeding")} /\ op' = "netbox" /\ at' = "inventory"
    <3>1. a' = 1
      BY <2>3 DEF At, Authed
    <3>2. /\ IsFiniteSet(db'.tokens) /\ Cardinality(Of("seeding")') <= n("seeding") + 1
          /\ Cardinality(Of("seeding")') \in Nat /\ Of("sync")' = Of("sync") /\ Of("dash")' = Of("dash")
      BY <1>2, <2>3, OneMore
    <3> QED BY <1>1, <1>2, <1>3, <2>1, <3>1, <3>2
  <2> QED BY <1>6, <2>2, <2>3, SeedingTokenMakes
<1>7. CASE Mint
  <2>1. /\ db'.tokens = db.tokens \cup {NewToken(loc.use)}
        /\ op = "netbox" /\ at = "mint" /\ op' = "netbox" /\ at' = "probe"
    BY <1>7, MintMakes
  <2>2. a = 1 /\ a' = 1 /\ At("netbox", {"mint"}) /\ ~At("netbox", {"mint"})' /\ loc.use \in {"sync", "dash"}
    BY <2>1 DEF At, TokenInv, TokenPoints, Authed, Addressed, Inventoried, Tokens, Replacing, Minted
  <2>3. ASSUME NEW use \in {"sync", "dash"}, loc.use = use
        PROVE  /\ IsFiniteSet(db'.tokens) /\ Cardinality(Of(use)') <= n(use) + 1 /\ n(use) <= r
               /\ Cardinality(Of(use)') \in Nat
               /\ \A other : other # use => Of(other)' = Of(other)
    BY <1>2, <2>1, <2>2, <2>3, OneMore
  <2>4. CASE loc.use = "sync"
    BY <1>1, <1>2, <1>3, <2>2, <2>3, <2>4
  <2>5. CASE loc.use = "dash"
    BY <1>1, <1>2, <1>3, <2>2, <2>3, <2>5
  <2> QED BY <2>2, <2>4, <2>5
<1>8. CASE RetireOld
  <2>1. db'.tokens \subseteq db.tokens /\ a = 1 /\ a' = 1 /\ loc' = loc /\ loc.use \in {"sync", "dash"}
    BY <1>8, DatabaseShape DEF RetireOld, DatabaseType, Retired, On, At, TokenInv, TokenPoints, Authed, Addressed,
                               Inventoried, Tokens, Replacing, Minted
  <2>2. n(loc.use)' <= r'
    <3>1. CASE Spend("unretired") /\ db' = db
      BY <1>1, <1>2, <2>1, <3>1 DEF Of
    <3>2. CASE db' = [db EXCEPT !.tokens = Retired(loc.use)]
      <4>1. Of(loc.use)' = {}
        BY <2>1, <3>2, DatabaseShape DEF DatabaseType, Retired, Of
      <4> QED BY <1>1, <2>1, <4>1, FS_EmptySet
    <3> QED BY <1>8, <3>1, <3>2 DEF RetireOld
  <2> QED BY <1>1, <1>2, <1>3, <1>5, <2>1, <2>2
<1>9. CASE RetireSeeding
  <2>1. a = 1 /\ a' = 0 /\ ~At("netbox", {"mint"})' /\ db'.tokens \subseteq db.tokens
    BY <1>9, DatabaseShape DEF RetireSeeding, DatabaseType, On, Fails, Finish, Ends, At, Authed, Addressed, Inventoried
  <2>2. Cardinality(Of("seeding")') <= n("seeding") - 1 \/ Spend("unretired")
    BY <1>2, <1>9, SeedingRetired
  <2> QED BY <1>1, <1>2, <1>3, <1>5, <2>1, <2>2
<1>10. CASE ~SeedingToken /\ ~Mint /\ ~RetireOld /\ ~RetireSeeding
  <2>1. db'.tokens \subseteq db.tokens
    BY <1>10, TokenSteps
  <2>2. /\ a' = 1 => a = 1
        /\ a = 1 /\ a' = 0 => Blamed' = Blamed + 1
    BY <1>1, <1>10, AuthedSteps
  <2>3. At("netbox", {"mint"})' => n(loc.use)' = n(loc.use) /\ At("netbox", {"mint"})
    BY <1>10, AuthedSteps DEF Of
  <2> QED BY <1>1, <1>2, <1>3, <1>4, <1>5, <2>1, <2>2, <2>3
<1> QED BY <1>6, <1>7, <1>8, <1>9, <1>10
-----------------------------------------------------------------------------
\* While nothing went wrong that the operator or the network did.
LEMMA NotQuiet ==
    ASSUME TypeOK, NEW d \in {"unreachable", "wipe pepper", "wipe db"}, Spend(d)
    PROVE  ~Quiet'
<1>1. BudgetTyped
  BY DEF TypeOK, BudgetTyped
<1>2. d \in Disturbance /\ budget'.left[d] < MaxOf[d]
  BY <1>1, SpendCounts
<1> QED BY <1>2 DEF Quiet, Spent

\* Without a pepper nothing runs and nothing is in the file.
LEMMA QuietPepper ==
    ASSUME TypeOK, PepperInv, QuietFacts, secret.pepper \in {0, Torn}
    PROVE  file.sync = 0 /\ sync.tok = 0 /\ ~server.up
<1>1. db.tokens \in SUBSET TokenType /\ server \in ServerType
  BY DatabaseShape DEF DatabaseType, TypeOK, ServerType
<1>2. \A p \in 1 .. MaxPepper : p # secret.pepper
  BY Numbers
<1>3. file.sync = 0
  BY <1>1, <1>2 DEF QuietFacts, TokenType
<1>4. ~server.up
  BY <1>1, Numbers DEF QuietFacts, PepperInv, ServerType
<1> QED BY <1>3, <1>4 DEF QuietFacts

\* A token of dns-sync goes only when it is replaced or the database is wiped.
LEMMA SyncTokensKept ==
    ASSUME TypeOK, TokenInv, [Next]_vars, ~(Between /\ WipeDB), ~(RetireOld /\ loc.use = "sync"),
           NEW t \in db.tokens, t.use = "sync"
    PROVE  t \in db'.tokens
<1>0. db \in DatabaseType
  BY DatabaseShape
<1>1. CASE UNCHANGED db
  BY <1>1
<1>2. CASE StackUp \/ SeedInventory \/ HostPrefix \/ HostAddress \/ SeedServices \/ Panel \/ SeedRecord
  BY <1>0, <1>2 DEF StackUp, SeedInventory, HostPrefix, HostAddress, SeedServices, Panel, SeedRecord, DatabaseType
<1>3. CASE SeedingToken \/ Mint
  BY <1>0, <1>3 DEF SeedingToken, Mint, DatabaseType
<1>4. CASE RetireSeeding
  BY <1>0, <1>4 DEF RetireSeeding, DatabaseType, Of
<1>5. CASE RetireOld
  <2>1. loc.use # "sync"
    BY <1>5
  <2> QED BY <1>0, <1>5, <2>1 DEF RetireOld, DatabaseType, Retired, Of
<1>6. ASSUME NEW pass \in 1 .. 2, Import(pass) PROVE t \in db'.tokens
  BY <1>0, <1>6 DEF Import, DatabaseType
<1> QED BY <1>1, <1>2, <1>3, <1>4, <1>5, <1>6, DatabaseSteps DEF DatabaseStep

\* How a deployment comes to replace a token.
LEMMA ReplacingSteps ==
    ASSUME TypeOK, ControlOK, TokenInv, [Next]_vars, At("netbox", Replacing)'
    PROVE  \/ At("netbox", Replacing) /\ loc'.use = loc.use
           \/ ReplaceToken /\ loc' = loc
           \/ loc'.use = "dash"
<1> USE DEF ControlOK, At, NB, DS, Step, On, Goes, Fails, Outside, Finish, Begins, Ends, Idle, Replacing, Minted
<1>1. CASE NetboxStep
  <2>1. CASE KeepPepper \/ OpenPepper \/ WritePepper \/ StackDown \/ StackUp \/ WaitReady
    BY <2>1 DEF KeepPepper, OpenPepper, WritePepper, StackDown, StackUp, WaitReady
  <2>2. CASE SeedingToken \/ RetireSeeding \/ RetireOld \/ KeepToken \/ ReplaceToken \/ Probe \/ OpenToken
    BY <2>2 DEF SeedingToken, RetireSeeding, RetireOld, KeepToken, ReplaceToken, AfterToken, Probe, OpenToken
  <2>3. CASE SeedInventory \/ HostPrefix \/ HostAddress \/ SeedServices \/ SeedRecord
    BY <2>3 DEF SeedInventory, HostPrefix, HostAddress, SeedServices, SeedRecord
  <2>4. CASE Panel
    BY <2>4 DEF Panel, TokenInv, TokenPoints
  <2>5. CASE Mint
    BY <2>5, MintMakes
  <2>6. CASE WriteToken
    BY <2>6 DEF WriteToken, AfterToken
  <2> QED BY <1>1, <2>1, <2>2, <2>3, <2>4, <2>5, <2>6 DEF NetboxStep
<1>2. CASE SyncStep
  BY <1>2 DEF SyncStep, BuildImage, Import, SyncRender, SyncDown, SyncUp, SyncVerify
<1>3. CASE Cut
  BY <1>3 DEF Cut, CutShort
<1>4. CASE (\E valid \in BOOLEAN : NetboxBegins(valid) \/ SyncBegins(valid)) \/ NetboxRemoved \/ SyncRemoved
           \/ Between \/ ObeysPepper
  BY <1>4 DEF NetboxBegins, SyncBegins, NetboxRemoved, SyncRemoved, Between, ObeysPepper
<1>5. CASE SyncStarts \/ Reconciles \/ Reboot \/ UNCHANGED vars
  BY <1>5 DEF SyncStarts, Reconciles, Reboot, vars, runVars, nbVars
<1> QED BY <1>1, <1>2, <1>3, <1>4, <1>5 DEF Next

LEMMA QuietStep ==
    ASSUME TypeOK, ControlOK, PepperInv, TokenInv, QuietInv, [Next]_vars
    PROVE  QuietInv'
<1> SUFFICES ASSUME Quiet' PROVE QuietFacts'
  BY DEF QuietInv
<1>0. /\ QuietFacts /\ TokenOwner /\ TokenPoints /\ TokenNumbers /\ server \in ServerType /\ loc \in LocalsType
      /\ file \in [sync : Id, dash : Id] /\ sync \in [up : BOOLEAN, tok : Id]
  BY BudgetStep, TokenSteps DEF QuietInv, TokenInv, TypeOK, ServerType, LocalsType, SeedRecords
<1>1. ~(Between /\ WipeDB) /\ ~(Between /\ WipePepper)
  BY NotQuiet DEF WipeDB, WipePepper
<1>2. CASE OpenPepper \/ WritePepper \/ ObeysPepper
  <2>1. /\ UNCHANGED <<server, file, sync>> /\ secret.pepper \in {0, Torn} /\ ~At("netbox", Replacing)'
    BY <1>2 DEF OpenPepper, WritePepper, ObeysPepper, PepperInv, NB, Step, On, Goes, At, Idle, Replacing, Minted
  <2>2. file.sync = 0 /\ sync.tok = 0 /\ ~server.up
    BY <1>0, <2>1, QuietPepper
  <2> QED BY <2>1, <2>2 DEF QuietFacts
<1>3. CASE UNCHANGED secret
  <2>1. server'.up => server'.pepper = secret'.pepper
    <3>1. CASE UNCHANGED server
      BY <1>0, <1>3, <3>1 DEF QuietFacts
    <3>2. CASE StackDown \/ NetboxRemoved
      <4>1. server' = server \/ ~server'.up
        BY <1>0, <3>2 DEF StackDown, NetboxRemoved, ServerType
      <4> QED BY <1>0, <1>3, <4>1 DEF QuietFacts
    <3>3. CASE StackUp
      BY <1>3, <3>3 DEF StackUp
    <3> QED BY <1>1, <3>1, <3>2, <3>3, ServerSteps
  <2>2. CASE WriteToken /\ loc.use = "sync"
    <3>1. /\ UNCHANGED <<server, db, sync>> /\ file'.sync = loc.minted /\ at = "write" /\ op = "netbox"
      BY <1>0, <2>2 DEF WriteToken, NB, Step, On
    <3>2. file.sync = 0 /\ Alive(loc.minted) /\ server.up
      BY <1>0, <2>2, <3>1 DEF QuietFacts, TokenPoints, PepperInv, At, Replacing, Minted, Served, Authed, Addressed,
                              Inventoried, Tokens
    <3>3. server.pepper = secret.pepper /\ sync.tok = 0
      BY <1>0, <3>2 DEF QuietFacts
    <3>4. \E t \in db'.tokens : t.id = file'.sync /\ t.pepper = secret'.pepper
      BY <1>3, <3>1, <3>2, <3>3 DEF Alive
    <3>5. ~(At("netbox", Replacing)' /\ loc'.use = "sync")
      BY <2>2 DEF WriteToken, AfterToken, NB, Step, On, Goes, At, Replacing, Minted
    <3> QED BY <2>1, <3>1, <3>3, <3>4, <3>5 DEF QuietFacts
  <2>3. CASE ~(WriteToken /\ loc.use = "sync")
    <3>1. file'.sync \in {file.sync, 0} /\ (file'.sync = 0 => file.sync = 0)
      <4>1. CASE UNCHANGED file
        BY <4>1
      <4>2. CASE OpenToken
        <5>1. /\ loc.use \in {"sync", "dash"} /\ (loc.use = "sync" => file.sync = 0)
              /\ file' = [file EXCEPT ![loc.use] = 0]
          BY <1>0, <4>2 DEF OpenToken, NB, Step, On, TokenPoints, QuietFacts, At, Tokens, Replacing, Minted
        <5> QED BY <1>0, <5>1
      <4>3. CASE WriteToken
        <5>1. /\ loc.use \in {"sync", "dash"} /\ loc.use # "sync" /\ file' = [file EXCEPT ![loc.use] = loc.minted]
          BY <1>0, <2>3, <4>3 DEF WriteToken, NB, Step, On, TokenPoints, At, Tokens, Replacing, Minted
        <5> QED BY <1>0, <5>1
      <4> QED BY <4>1, <4>2, <4>3, FileSteps
    <3>2. file'.sync # 0 => \E t \in db'.tokens : t.id = file'.sync /\ t.pepper = secret'.pepper
      <4>1. SUFFICES ASSUME file'.sync # 0 PROVE \E t \in db'.tokens : t.id = file.sync /\ t.pepper = secret.pepper
        BY <1>3, <3>1
      <4>2. PICK t \in db.tokens : t.id = file.sync /\ t.pepper = secret.pepper
        BY <1>0, <3>1, <4>1 DEF QuietFacts
      <4>3. t.use = "sync"
        BY <1>0, <4>2 DEF TokenOwner
      <4>4. ~(RetireOld /\ loc.use = "sync")
        BY <1>0, <3>1, <4>1 DEF RetireOld, On, QuietFacts, At, Replacing
      <4> QED BY <1>1, <4>2, <4>3, <4>4, SyncTokensKept
    <3>3. sync'.tok # 0 => sync'.tok = file'.sync
      <4>1. sync'.tok \in {sync.tok, file.sync, 0}
        <5>1. CASE UNCHANGED sync
          BY <5>1
        <5>2. CASE SyncDown \/ SyncUp \/ SyncRemoved
          BY <5>2 DEF SyncDown, SyncUp, SyncRemoved, NoSync
        <5>3. CASE SyncStarts \/ Reboot
          BY <1>0, <5>3 DEF SyncStarts, Reboot
        <5> QED BY <5>1, <5>2, <5>3, SyncSteps
      <4> QED BY <1>0, <3>1, <4>1 DEF QuietFacts
    <3>4. At("netbox", Replacing)' /\ loc'.use = "sync" => file'.sync = 0
      <4>1. SUFFICES ASSUME At("netbox", Replacing)', loc'.use = "sync" PROVE file.sync = 0
        BY <3>1
      <4>2. CASE At("netbox", Replacing) /\ loc'.use = loc.use
        BY <1>0, <4>1, <4>2 DEF QuietFacts
      <4>3. CASE ReplaceToken /\ loc' = loc
        <5>1. ~Accepted(file.sync)
          BY <4>1, <4>3, NotQuiet DEF ReplaceToken, Stored, ReadsIPAM
        <5>2. server.up /\ server.pepper = secret.pepper
          BY <1>0, <4>3 DEF ReplaceToken, On, PepperInv, At, Served, Authed, Addressed, Inventoried, Tokens
        <5> QED BY <1>0, <5>1, <5>2 DEF QuietFacts, Accepted
      <4> QED BY <4>1, <4>2, <4>3, ReplacingSteps
    <3> QED BY <2>1, <3>2, <3>3, <3>4 DEF QuietFacts
  <2> QED BY <2>2, <2>3
<1> QED BY <1>1, <1>2, <1>3, SecretSteps
-----------------------------------------------------------------------------
LEMMA InitInv == Init => IInv
<1> SUFFICES ASSUME Init PROVE IInv
  OBVIOUS
<1> USE DEF Init, RunInit
<1>1. /\ op = "none" /\ at = "idle" /\ loc = NoLocals /\ verdict = [s \in Service |-> "none"] /\ "netbox" \in Service
      /\ budget = [left |-> MaxOf, all |-> MaxAll] /\ db = EmptyDB
  BY DEF Service
<1>2. verdict["netbox"] = "none" /\ verdict \in [Service -> Verdict]
  BY <1>1 DEF Verdict
<1>3. BudgetTyped
  <2>1. \A d \in Disturbance : MaxOf[d] \in Nat
    BY DisturbanceAssumption
  <2> QED BY <1>1, <2>1, DisturbanceAssumption DEF BudgetTyped
<1>4. 0 \in Id /\ 0 \in 0 .. MaxPepper /\ 0 \in 0 .. Torn /\ 0 \in 0 .. Lab /\ 0 < MaxPepper /\ 0 \in 0 .. 2 /\ 1 \in 1 .. 2
  BY NetboxAssumption, Numbers DEF Id
<1>5. secret \in SecretType /\ server \in ServerType /\ secret.made < MaxPepper /\ secret.pepper = 0 /\ ~server.up
  BY <1>4 DEF SecretType, ServerType
<1>6. db \in DatabaseType
  <2>1. [a \in Address |-> 0] \in [Address -> 0 .. Lab]
    BY <1>4
  <2> QED BY <1>1, <1>4, <2>1 DEF EmptyDB, DatabaseType
<1>7. file \in [sync : Id, dash : Id] /\ zone \in BOOLEAN /\ file.sync = 0
  BY <1>4
<1>8. sync \in [up : BOOLEAN, tok : Id] /\ sync.tok = 0
  <2>1. sync \in {[up |-> u, tok |-> 0] : u \in BOOLEAN}
    BY DEF NoSync
  <2> QED BY <1>4, <2>1 DEF NoSync
<1>9. conf \in [host : Address \ Plain, seed : SeedFiles, password : 1 .. 2]
  BY <1>4
<1>10. loc \in LocalsType /\ loc.minted = 0 /\ loc.todo = <<>>
  BY <1>1, <1>4 DEF NoLocals, LocalsType, Use
<1>11. TypeOK
  BY <1>1, <1>2, <1>3, <1>5, <1>6, <1>7, <1>8, <1>9, <1>10
     DEF TypeOK, BudgetTyped, DatabaseType, TokenType, SecretType, ServerType, LocalsType, SeedRecords, Idle
<1>12. PointInv /\ PepperInv
  BY <1>1, <1>2, <1>5 DEF PointInv, PepperInv, At
<1>13. InventoryInv
  <2>1. \A a \in Address : db.ipam[a] = 0
    BY <1>1 DEF EmptyDB
  <2> QED BY <1>1, <1>2, <1>10, <2>1, NothingInEmpty DEF InventoryInv, CanonicalNameIsKept, AddressHasPrefix, At
<1>14. db.tokens = {} /\ \A use : Of(use) = {}
  BY <1>1 DEF EmptyDB, Of
<1>15. TokenInv
  BY <1>1, <1>10, <1>14 DEF TokenInv, TokenOwner, TokenPoints, At
<1>16. CountInv
  <2>1. \A d : Times(d) \in Nat
    BY <1>3, TimesAreNumbers
  <2>2. Times("unretired") \in Nat /\ Blamed \in Nat
    BY <2>1 DEF Blamed
  <2>3. \A b \in Nat : 0 <= b /\ 0 <= 1 + b /\ 0 <= b + 0 /\ 0 <= b + 1
    OBVIOUS
  <2>4. IsFiniteSet(db.tokens) /\ \A use : Cardinality(Of(use)) = 0
    BY <1>14, FS_EmptySet
  <2>5. ~At("netbox", {"mint"}) /\ ~At("netbox", Authed)
    BY <1>1 DEF At
  <2> QED BY <2>2, <2>3, <2>4, <2>5 DEF CountInv
<1>17. QuietInv
  BY <1>1, <1>5, <1>7, <1>8 DEF QuietInv, QuietFacts, At
<1> QED BY <1>11, <1>12, <1>13, <1>15, <1>16, <1>17 DEF IInv

\* The inductive invariant holds of every state of the two deployments.
THEOREM Invariant == Spec => []IInv
<1>1. IInv /\ [Next]_vars => IInv'
  <2> SUFFICES ASSUME IInv, [Next]_vars PROVE IInv'
    OBVIOUS
  <2>1. TypeOK /\ PointInv /\ PepperInv /\ InventoryInv /\ TokenInv /\ CountInv /\ QuietInv
    BY DEF IInv
  <2>2. ControlOK
    BY <2>1, ControlTyped
  <2>3. TypeOK' /\ PointInv' /\ PepperInv'
    BY <2>1, <2>2, TypeStep, PepperStep
  <2>4. InventoryInv' /\ TokenInv'
    BY <2>1, <2>2, InventoryStep, TokenStep
  <2>5. CountInv' /\ QuietInv'
    BY <2>1, <2>2, CountStep, QuietStep
  <2> QED BY <2>3, <2>4, <2>5 DEF IInv
<1> QED BY <1>1, InitInv, PTL DEF Spec

\* What the two importers write together is whole: an address with a mask is
\* never in IPAM without its prefix, and what a successful NetBox deployment
\* put there keeps its name, whatever later imports bring.
THEOREM InventoryIsKeptHolds == Spec => []InventoryIsKept
<1>1. IInv => InventoryIsKept
  BY DEF IInv, InventoryInv, InventoryIsKept
<1> QED BY <1>1, Invariant, PTL

\* A NetBox deployment ends well in one place, where both files hold a token
\* that the server accepts and the dashboard's user may read IPAM.
LEMMA SuccessStep ==
    ASSUME IInv, [Next]_vars, op = "netbox", op' = "none", verdict'["netbox"] = "ok"
    PROVE  Accepted(file.sync)' /\ Accepted(file.dash)' /\ Missing(PanelParts, db'.panel) = {}
<1>0. TypeOK /\ PepperInv /\ TokenOwner /\ TokenPoints /\ verdict \in [Service -> Verdict] /\ "netbox" \in Service
      /\ db \in DatabaseType
  BY DatabaseShape DEF IInv, TokenInv, TypeOK, Service
<1>1. RetireSeeding
  <2> USE DEF NB, DS, Step, On, Goes, Fails, Outside, Finish, Begins, Ends, Idle
  <2>1. CASE NetboxStep
    BY <1>0, <2>1 DEF NetboxStep, KeepPepper, OpenPepper, WritePepper, StackDown, StackUp, WaitReady, SeedingToken,
         SeedInventory, HostPrefix, HostAddress, SeedServices, SeedRecord, KeepToken, ReplaceToken, Panel, RetireOld,
         Mint, Probe, OpenToken, WriteToken
  <2>2. CASE Cut
    BY <1>0, <2>2 DEF Cut, CutShort
  <2>3. CASE ~NetboxStep /\ ~Cut
    BY <2>3 DEF Next, NetboxBegins, SyncBegins, NetboxRemoved, SyncRemoved, Between, ObeysPepper, SyncStep, BuildImage,
         Import, SyncRender, SyncDown, SyncUp, SyncVerify, SyncStarts, Reconciles, Reboot, vars, runVars
  <2> QED BY <2>1, <2>2, <2>3
<1>2. At("netbox", {"retire seeding"}) /\ UNCHANGED <<server, file>>
  BY <1>1 DEF RetireSeeding, On, At
<1>3. server.up /\ Alive(file.sync) /\ Alive(file.dash) /\ PanelReady
  BY <1>0, <1>2 DEF PepperInv, TokenPoints, At, Served, Authed, Addressed, Inventoried
<1>4. db'.panel = db.panel /\ \A t \in db.tokens : t.use # "seeding" => t \in db'.tokens
  BY <1>0, <1>1 DEF RetireSeeding, DatabaseType, Of
<1>5. \A t \in db.tokens : t.id \in {file.sync, file.dash} => t.use # "seeding"
  BY <1>0 DEF TokenOwner
<1> QED BY <1>2, <1>3, <1>4, <1>5 DEF Alive, Accepted, PanelReady

\* The tokens of a deployment that succeeded are accepted, live ones do not
\* accumulate over redeployments, and a dns-sync that runs with one that NetBox
\* rejects is explained by a probe without an answer or by a wipe.
THEOREM TokensAreSoundHolds == Spec => TokensAreSound
<1>1. IInv /\ [Next]_vars =>
        [op = "netbox" /\ op' = "none" /\ verdict'["netbox"] = "ok"
           => Accepted(file.sync)' /\ Accepted(file.dash)' /\ Missing(PanelParts, db'.panel) = {}]_vars
  BY SuccessStep
<1>2. IInv => TokensDoNotAccumulate
  <2> SUFFICES ASSUME IInv, Idle PROVE Cardinality(Of("seeding")) <= Blamed
    BY DEF IInv, CountInv, TokensDoNotAccumulate, Blamed
  <2>1. BudgetTyped
    BY DEF IInv, TypeOK, BudgetTyped
  <2>2. Blamed \in Nat
    BY <2>1, TimesAreNumbers DEF Blamed
  <2>3. ~At("netbox", Authed)
    BY DEF At, Idle
  <2>4. Blamed + 0 = Blamed
    BY <2>2
  <2> QED BY <2>3, <2>4 DEF IInv, CountInv
<1>3. IInv => (server.up /\ sync.tok # 0 /\ ~Accepted(sync.tok) => Spent({"unreachable", "wipe pepper", "wipe db"}))
  <2> SUFFICES ASSUME IInv, server.up, sync.tok # 0, ~Accepted(sync.tok), Quiet PROVE FALSE
    BY DEF Quiet
  <2>1. QuietFacts
    BY DEF IInv, QuietInv
  <2> QED BY <2>1 DEF QuietFacts, Accepted
<1> QED BY <1>1, <1>2, <1>3, Invariant, PTL DEF TokensAreSound, NetboxSuccessIsUsable, Spec
=============================================================================
