------------------------- MODULE DnsReconcileProofs -------------------------
(***************************************************************************)
(* Proofs about DnsReconcile, for any set of rows, names and writers, any  *)
(* page size and any number of edits, faults, saves and crashes.           *)
(***************************************************************************)
EXTENDS DnsReconcile, FiniteSetTheorems, TLAPS

Busy == {"loaded", "opened", "written", "renamed"}
EnvLoaded == \A w \in Writer : writer[w].at \in Busy => writer[w].env \in Configs

\* From the moment the built-in names are read, a pass wants the core names.
CoreWanted ==
    pass.at \in {"zones", "records"} => \A n \in Core : A(n, Host) \in pass.want

TypeInv == TypeOK /\ EnvLoaded
CoreInv == TypeInv /\ CoreWanted /\ NeverRetiresCore

-----------------------------------------------------------------------------
(* The operators.                                                          *)

LEMMA RecordTypes ==
    /\ \A rows \in SUBSET Row : BuildRecords(rows) \subseteq Record
    /\ \A rows \in SUBSET Row : \A i \in rows : A(NameOf[i], AddrOf[i]) \in BuildRecords(rows)
    /\ \A names \in SUBSET (Service \cup {Scrap}) : Builtins(names) \subseteq Record
    /\ \A names \in SUBSET (Service \cup {Scrap}) : \A n \in names : A(n, Host) \in Builtins(names)
    /\ \A rs \in SUBSET Record : Zones(rs) \subseteq Zone
<1>1. ASSUME NEW rows \in SUBSET Row PROVE BuildRecords(rows) \subseteq Record
  BY <1>1 DEF BuildRecords, Record, Name, Addr
<1>2. ASSUME NEW rows \in SUBSET Row, NEW i \in rows
      PROVE  A(NameOf[i], AddrOf[i]) \in BuildRecords(rows)
  BY <1>2 DEF BuildRecords
<1>3. ASSUME NEW names \in SUBSET (Service \cup {Scrap}) PROVE Builtins(names) \subseteq Record
  BY <1>3 DEF Builtins, Record, Name, Addr
<1>4. ASSUME NEW names \in SUBSET (Service \cup {Scrap}), NEW n \in names
      PROVE  A(n, Host) \in Builtins(names)
  BY <1>4 DEF Builtins
<1>5. ASSUME NEW rs \in SUBSET Record PROVE Zones(rs) \subseteq Zone
  BY <1>5 DEF Zones, ZoneOf, Zone, Record, A, PTR, ForwardZone
<1>6. QED
  BY <1>1, <1>2, <1>3, <1>4, <1>5

LEMMA ConfigTypes ==
    /\ Configs \subseteq Texts
    /\ \A s \in Texts : s \subseteq Service \cup {Scrap} /\ Core \subseteq s /\ s # {}
BY DnsAssumption DEF Configs, Texts

LEMMA ContentTypes ==
    /\ \A s \in Texts : Whole(s) \in Content \ {NoFile} /\ Torn(s) \in Content \ {NoFile}
    /\ \A c \in Content : c.kind = "whole" => c.names \in Texts
    /\ Truncated \in Content \ {NoFile} /\ NoFile \in Content
<1>1. /\ NoFile.kind = "absent" /\ Truncated.kind = "empty"
      /\ \A s : Torn(s).kind = "torn" /\ Whole(s).kind = "whole" /\ Whole(s).names = s
  BY DEF NoFile, Truncated, Torn, Whole
<1> HIDE DEF NoFile, Truncated, Torn, Whole
<1>2. \A s \in Texts : Whole(s) \in Content \ {NoFile} /\ Torn(s) \in Content \ {NoFile}
  BY <1>1 DEF Content
<1>3. \A c \in Content : c.kind = "whole" => c.names \in Texts
  BY <1>1 DEF Content
<1>4. QED
  BY <1>1, <1>2, <1>3 DEF Content

\* Whatever two writers make of one file, the bytes hold some text's names or more.
LEMMA WrittenTypes ==
    ASSUME NEW old \in Content, NEW s \in Configs
    PROVE  Written(old, s) \subseteq Content \ {NoFile}
<1>1. old.names \subseteq Service \cup {Scrap}
  BY DEF Content, NoFile, Truncated, Torn, Whole, Texts
<1>2. \A t \in SUBSET (Service \cup {Scrap}) : s \cup t \in Texts
  BY DEF Configs, Texts
<1>3. /\ Whole(s) \in Content \ {NoFile} /\ Torn(s \cup old.names) \in Content \ {NoFile}
      /\ \A t \in SUBSET (old.names \cup {Scrap}) : Whole(s \cup t) \in Content \ {NoFile}
  BY <1>1, <1>2, ConfigTypes, ContentTypes
<1>4. QED
  BY <1>3 DEF Written

\* A pass that has been planned is at its calls or over, and deletes nothing it wants.
LEMMA DiffTypes ==
    ASSUME NEW p \in PassType
    PROVE  /\ Diff(p) \in PassType
           /\ Diff(p).at \in {"idle", "apply"}
           /\ Diff(p).delete \cap p.want = {}
<1>1. Zones(p.want) \subseteq Zone
  BY RecordTypes DEF PassType
<1>2. QED
  BY <1>1 DEF Diff, EnsureOps, CreateOps, DeleteOps, Resting, PassType

LEMMA AdvanceTypes ==
    ASSUME NEW p \in PassType, Advance(p)
    PROVE  /\ pass' \in PassType
           /\ pass' = p \/ pass' = Resting
BY DEF Advance, Resting, PassType

LEMMA RestingType == Resting \in PassType /\ Resting.at = "idle" /\ Resting.delete = {}
BY DEF Resting, PassType
-----------------------------------------------------------------------------
(* Types.                                                                  *)

LEMMA TypeInit == Init => TypeInv
<1> SUFFICES ASSUME Init PROVE TypeInv
  OBVIOUS
<1>1. config \in Configs /\ Whole(config) \in Content \ {NoFile}
  BY ContentTypes, ConfigTypes DEF Init
<1>2. writer \in [Writer -> [at : {"idle", "saved", "loaded", "opened", "written", "renamed"},
                             env : Configs \cup {{}}, fd : {"none", "tmp", "live", "gone"}]]
  BY DEF Init, Idle
<1>3. EnvLoaded
  BY DEF Init, Idle, EnvLoaded, Busy
<1>4. QED
  BY <1>1, <1>2, <1>3, RestingType, ContentTypes DEF Init, TypeInv, TypeOK

\* The writers of the live file, and what they write.
WriterOK ==
    /\ writer \in [Writer -> [at : {"idle", "saved", "loaded", "opened", "written", "renamed"},
                              env : Configs \cup {{}}, fd : {"none", "tmp", "live", "gone"}]]
    /\ EnvLoaded
FilesOK == config \in Configs /\ static \in Configs /\ tmp \in Content /\ live \in Content \ {NoFile}
SyncOK == lastGood \in Texts \cup {{}} /\ pass \in PassType /\ kept \subseteq netbox /\ shifted \in BOOLEAN
ServedOK ==
    /\ zones \subseteq Zone /\ recs \subseteq Record /\ granted \subseteq zones
    /\ \A r \in recs : ZoneOf(r) \in zones

LEMMA TypeParts ==
    TypeInv <=> WriterOK /\ FilesOK /\ SyncOK /\ ServedOK /\ netbox \subseteq Row /\ alone \in BOOLEAN
BY DEF TypeInv, TypeOK, WriterOK, FilesOK, SyncOK, ServedOK

LEMMA TypePartsNext ==
    TypeInv' <=> WriterOK' /\ FilesOK' /\ SyncOK' /\ ServedOK' /\ netbox' \subseteq Row /\ alone' \in BOOLEAN
BY DEF TypeInv, TypeOK, WriterOK, FilesOK, SyncOK, ServedOK

LEMMA AloneTypes ==
    ASSUME alone \in BOOLEAN, Next
    PROVE  alone' \in BOOLEAN
<1>1. ASSUME NEW w \in Saver, NEW s \in Configs, SaveConfig(w, s) PROVE alone' \in BOOLEAN
  BY <1>1 DEF SaveConfig, OthersRest
<1>2. ASSUME NEW w \in Writer, LoadEnv(w) \/ RefreshFails(w) PROVE alone' \in BOOLEAN
  BY <1>2 DEF LoadEnv, RefreshFails, OthersRest
<1>3. ASSUME NEW w \in Writer, OpenTmp(w) \/ WriteTmp(w) \/ Rename(w) PROVE alone' \in BOOLEAN
  BY <1>3 DEF OpenTmp, WriteTmp, Rename
<1>4. CASE CrashControlPlane
  BY <1>4 DEF CrashControlPlane
<1>5. CASE PassStep \/ Redeploy \/ CallFails \/ AnswerLost \/ CrashDnsSync
  BY <1>5 DEF PassStep, Tick, ReadPage, ReadBuiltins, ListZones, GrantDashboardZoneView, ReadZone,
     EnsureZone, AddRecord, DeleteRecord, Redeploy, CallFails, AnswerLost, CrashDnsSync, cpVars
<1>6. CASE Edit /\ ~(\E w \in Saver, s \in Configs : SaveConfig(w, s))
  BY <1>6 DEF Edit, AddRow, RemoveRow, DropRecord, DropZone, cpVars
<1>7. QED
  BY <1>1, <1>2, <1>3, <1>4, <1>5, <1>6 DEF Next, Publish, Edit

LEMMA EditTypes ==
    ASSUME TypeInv, Edit
    PROVE  TypeInv'
<1>a. alone' \in BOOLEAN
  BY AloneTypes DEF Next, TypeInv, TypeOK
<1> USE <1>a, TypeParts, TypePartsNext DEF cpVars, dnsVars
<1>1. ASSUME NEW i \in Row, AddRow(i) PROVE TypeInv'
  BY <1>1 DEF AddRow, WriterOK, EnvLoaded, FilesOK, SyncOK, ServedOK
<1>2. ASSUME NEW i \in Row, RemoveRow(i) PROVE TypeInv'
  BY <1>2 DEF RemoveRow, WriterOK, EnvLoaded, FilesOK, SyncOK, ServedOK
<1>3. ASSUME NEW r \in Record, DropRecord(r) PROVE TypeInv'
  BY <1>3 DEF DropRecord, WriterOK, EnvLoaded, FilesOK, SyncOK, ServedOK
<1>4. ASSUME NEW z \in Zone, DropZone(z) PROVE TypeInv'
  BY <1>4 DEF DropZone, WriterOK, EnvLoaded, FilesOK, SyncOK, ServedOK
<1>5. ASSUME NEW w \in Saver, NEW s \in Configs, SaveConfig(w, s) PROVE TypeInv'
  <2>1. WriterOK'
    BY <1>5 DEF SaveConfig, Goto, WriterOK, EnvLoaded, Busy
  <2>2. QED
    BY <1>5, <2>1 DEF SaveConfig, FilesOK, SyncOK, ServedOK
<1>6. QED
  BY <1>1, <1>2, <1>3, <1>4, <1>5 DEF Edit

LEMMA PublishTypes ==
    ASSUME TypeInv, NEW w \in Writer, Publish(w) \/ RefreshFails(w)
    PROVE  TypeInv'
<1>a. alone' \in BOOLEAN
  BY AloneTypes DEF Next, TypeInv, TypeOK
<1> USE <1>a, TypeParts, TypePartsNext DEF cpVars, dnsVars
<1>0. WriterOK /\ FilesOK
  OBVIOUS
<1>1. CASE LoadEnv(w)
  <2>1. WriterOK'
    BY <1>1, <1>0 DEF LoadEnv, WriterOK, FilesOK, EnvLoaded, Busy
  <2>2. QED
    BY <1>1, <2>1 DEF LoadEnv, FilesOK, SyncOK, ServedOK
<1>2. CASE OpenTmp(w)
  <2>1. WriterOK'
    BY <1>2, <1>0 DEF OpenTmp, WriterOK, EnvLoaded, Busy
  <2>2. QED
    BY <1>2, <2>1, ContentTypes DEF OpenTmp, FilesOK, SyncOK, ServedOK
<1>3. CASE WriteTmp(w)
  <2>1. WriterOK'
    BY <1>3, <1>0 DEF WriteTmp, Goto, WriterOK, EnvLoaded, Busy
  <2>2. writer[w].env \in Configs
    BY <1>3, <1>0 DEF WriteTmp, WriterOK, EnvLoaded, Busy
  <2>3. \A old \in Content : Written(old, writer[w].env) \subseteq Content \ {NoFile}
    BY <2>2, WrittenTypes
  <2>4. FilesOK'
    BY <1>3, <1>0, <2>3 DEF WriteTmp, FilesOK
  <2>5. QED
    BY <1>3, <2>1, <2>4 DEF WriteTmp, SyncOK, ServedOK
<1>4. CASE Rename(w)
  <2>1. WriterOK'
    <3>1. CASE RenameFails
      BY <1>4, <3>1, <1>0 DEF Rename, Idle, WriterOK, EnvLoaded, Busy
    <3>2. CASE ~RenameFails
      <4>1. \A fd \in {"none", "tmp", "live", "gone"} :
              AfterRename(fd) \in {"none", "tmp", "live", "gone"}
        BY DEF AfterRename
      <4>2. writer[w].env \in Configs
        BY <1>4, <1>0 DEF Rename, WriterOK, EnvLoaded, Busy
      <4>3. \A v \in Writer : v # w =>
              /\ writer'[v] \in [at : {"idle", "saved", "loaded", "opened", "written", "renamed"},
                                 env : Configs \cup {{}}, fd : {"none", "tmp", "live", "gone"}]
              /\ writer'[v].at = writer[v].at /\ writer'[v].env = writer[v].env
        BY <1>4, <3>2, <1>0, <4>1 DEF Rename, WriterOK
      <4>4. /\ writer'[w] \in [at : {"idle", "saved", "loaded", "opened", "written", "renamed"},
                               env : Configs \cup {{}}, fd : {"none", "tmp", "live", "gone"}]
            /\ writer'[w].at \in Busy => writer'[w].env \in Configs
        BY <1>4, <3>2, <4>2 DEF Rename, Busy
      <4>5. writer' = [v \in Writer |-> writer'[v]]
        BY <1>4, <3>2 DEF Rename
      <4>6. QED
        BY <4>3, <4>4, <4>5, <1>0 DEF WriterOK, EnvLoaded
    <3>3. QED
      BY <3>1, <3>2
  <2>2. FilesOK'
    BY <1>4, <1>0, ContentTypes DEF Rename, RenameFails, FilesOK
  <2>3. QED
    BY <1>4, <2>1, <2>2 DEF Rename, SyncOK, ServedOK
<1>5. CASE RefreshFails(w)
  <2>1. WriterOK'
    BY <1>5, <1>0 DEF RefreshFails, Idle, WriterOK, EnvLoaded, Busy
  <2>2. QED
    BY <1>5, <2>1 DEF RefreshFails, FilesOK, SyncOK, ServedOK
<1>6. QED
  BY <1>1, <1>2, <1>3, <1>4, <1>5 DEF Publish

LEMMA FinishedPassTypes ==
    ASSUME TypeInv, GiveUp \/ Restart
    PROVE  pass' = Resting /\ pass' \in PassType /\ kept' = {} /\ shifted' = FALSE
BY RestingType DEF GiveUp, Restart

LEMMA ReadTypes ==
    ASSUME TypeInv, Tick \/ ReadPage \/ ReadBuiltins \/ ListZones \/ \E z \in Zone : ReadZone(z)
    PROVE  TypeInv'
<1>a. alone' \in BOOLEAN
  BY AloneTypes DEF Next, PassStep, TypeInv, TypeOK
<1> USE <1>a, TypeParts, TypePartsNext DEF cpVars, dnsVars
<1>0. WriterOK /\ FilesOK /\ SyncOK /\ ServedOK /\ netbox \subseteq Row
  OBVIOUS
<1>1. CASE Tick
  <2>1. pass' \in PassType
    BY <1>1, RestingType DEF Tick, PassType
  <2>2. QED
    BY <1>1, <2>1 DEF Tick, WriterOK, EnvLoaded, FilesOK, SyncOK, ServedOK
<1>2. CASE ReadPage
  <2>1. Page(pass.offset) \subseteq Row
    BY <1>0 DEF Page
  <2>2. NextOffset(pass.offset) \in Nat
    BY <1>0, DnsAssumption DEF NextOffset, SyncOK, PassType
  <2>3. pass' \in PassType
    BY <1>2, <1>0, <2>1, <2>2 DEF ReadPage, SyncOK, PassType
  <2>4. QED
    BY <1>2, <2>3 DEF ReadPage, WriterOK, EnvLoaded, FilesOK, SyncOK, ServedOK
<1>3. CASE ReadBuiltins
  <2>1. PICK readable \in BOOLEAN :
          LET good  == readable /\ live.kind = "whole"
              names == IF good THEN live.names ELSE Fallback
          IN /\ pass' = [pass EXCEPT !.want = BuildRecords(pass.got) \cup Builtins(names),
                                     !.got = {}, !.at = "zones"]
             /\ lastGood' = IF good THEN names ELSE lastGood
    BY <1>3 DEF ReadBuiltins
  <2> DEFINE good  == readable /\ live.kind = "whole"
             names == IF good THEN live.names ELSE Fallback
  <2>2. names \in Texts
    BY <1>0, ContentTypes, ConfigTypes DEF FilesOK, SyncOK, Fallback
  <2>3. BuildRecords(pass.got) \cup Builtins(names) \subseteq Record
    BY <1>0, <2>2, RecordTypes, ConfigTypes DEF SyncOK, PassType
  <2>4. /\ pass' = [pass EXCEPT !.want = BuildRecords(pass.got) \cup Builtins(names),
                                !.got = {}, !.at = "zones"]
        /\ lastGood' = IF good THEN names ELSE lastGood
    BY <2>1
  <2> HIDE DEF good, names
  <2>5. pass' \in PassType /\ lastGood' \in Texts \cup {{}}
    BY <1>0, <2>2, <2>3, <2>4 DEF SyncOK, PassType
  <2>6. QED
    BY <1>3, <2>5 DEF ReadBuiltins, WriterOK, EnvLoaded, FilesOK, SyncOK, ServedOK
<1>4. CASE ListZones
  <2> DEFINE p == [pass EXCEPT !.seen = zones, !.unread = zones, !.at = "records"]
  <2>1. p \in PassType
    BY <1>0 DEF SyncOK, ServedOK, PassType
  <2>2. pass' = IF zones = {} THEN Diff(p) ELSE p
    BY <1>4 DEF ListZones
  <2> HIDE DEF p
  <2>3. pass' \in PassType
    BY <2>1, <2>2, DiffTypes
  <2>4. QED
    BY <1>4, <2>3 DEF ListZones, WriterOK, EnvLoaded, FilesOK, SyncOK, ServedOK
<1>5. ASSUME NEW z \in Zone, ReadZone(z) PROVE TypeInv'
  <2>1. CASE z \notin zones
    <3>1. GiveUp
      BY <1>5, <2>1 DEF ReadZone
    <3>2. QED
      BY <1>5, <3>1, FinishedPassTypes DEF ReadZone, WriterOK, EnvLoaded, FilesOK, SyncOK, ServedOK
  <2>2. CASE z \in zones
    <3> DEFINE p == [pass EXCEPT !.unread = @ \ {z}, !.have = @ \cup {r \in recs : ZoneOf(r) = z}]
    <3>1. p \in PassType
      BY <1>0 DEF SyncOK, ServedOK, PassType
    <3>2. pass' = (IF p.unread = {} THEN Diff(p) ELSE p) /\ kept' = kept /\ shifted' = shifted
      BY <1>5, <2>2 DEF ReadZone
    <3> HIDE DEF p
    <3>3. pass' \in PassType
      BY <3>1, <3>2, DiffTypes
    <3>4. QED
      BY <1>5, <3>2, <3>3 DEF ReadZone, WriterOK, EnvLoaded, FilesOK, SyncOK, ServedOK
  <2>3. QED
    BY <2>1, <2>2
<1>6. QED
  BY <1>1, <1>2, <1>3, <1>4, <1>5

LEMMA ApplyTypes ==
    ASSUME TypeInv,
           \/ GrantDashboardZoneView
           \/ \E z \in Zone : EnsureZone(z)
           \/ \E r \in Record : AddRecord(r) \/ DeleteRecord(r)
    PROVE  TypeInv'
<1>a. alone' \in BOOLEAN
  BY AloneTypes DEF Next, PassStep, TypeInv, TypeOK
<1> USE <1>a, TypeParts, TypePartsNext DEF cpVars, dnsVars
<1>0. WriterOK /\ FilesOK /\ SyncOK /\ ServedOK /\ netbox \subseteq Row
  OBVIOUS
<1>1. CASE GrantDashboardZoneView
  <2> DEFINE p == [pass EXCEPT !.granting = {}]
  <2>1. p \in PassType /\ Advance(p)
    BY <1>1, <1>0 DEF GrantDashboardZoneView, SyncOK, PassType
  <2> HIDE DEF p
  <2>2. pass' \in PassType
    BY <2>1, AdvanceTypes
  <2>3. QED
    BY <1>1, <2>2 DEF GrantDashboardZoneView, WriterOK, EnvLoaded, FilesOK, SyncOK, ServedOK
<1>2. ASSUME NEW z \in Zone, EnsureZone(z) PROVE TypeInv'
  <2> DEFINE p == [pass EXCEPT !.ensure = @ \ {z}, !.granting = IF z \in zones THEN {} ELSE {z}]
  <2>1. p \in PassType /\ Advance(p)
    BY <1>2, <1>0 DEF EnsureZone, SyncOK, PassType
  <2> HIDE DEF p
  <2>2. pass' \in PassType
    BY <2>1, AdvanceTypes
  <2>3. QED
    BY <1>2, <2>2 DEF EnsureZone, WriterOK, EnvLoaded, FilesOK, SyncOK, ServedOK
<1>3. ASSUME NEW r \in Record, AddRecord(r) PROVE TypeInv'
  <2> DEFINE p == [pass EXCEPT !.create = @ \ {r}]
  <2>1. CASE ZoneOf(r) \in zones
    <3>1. p \in PassType /\ Advance(p)
      BY <1>3, <2>1, <1>0 DEF AddRecord, SyncOK, PassType
    <3> HIDE DEF p
    <3>2. pass' \in PassType
      BY <3>1, AdvanceTypes
    <3>3. QED
      BY <1>3, <2>1, <3>2 DEF AddRecord, WriterOK, EnvLoaded, FilesOK, SyncOK, ServedOK
  <2>2. CASE ZoneOf(r) \notin zones
    <3>1. GiveUp
      BY <1>3, <2>2 DEF AddRecord
    <3>2. QED
      BY <1>3, <2>2, <3>1, FinishedPassTypes DEF AddRecord, WriterOK, EnvLoaded, FilesOK, SyncOK, ServedOK
  <2>3. QED
    BY <2>1, <2>2
<1>4. ASSUME NEW r \in Record, DeleteRecord(r) PROVE TypeInv'
  <2> DEFINE p == [pass EXCEPT !.delete = @ \ {r}]
  <2>1. CASE r \in recs
    <3>1. p \in PassType /\ Advance(p)
      BY <1>4, <2>1, <1>0 DEF DeleteRecord, SyncOK, PassType
    <3> HIDE DEF p
    <3>2. pass' \in PassType
      BY <3>1, AdvanceTypes
    <3>3. QED
      BY <1>4, <2>1, <3>2 DEF DeleteRecord, WriterOK, EnvLoaded, FilesOK, SyncOK, ServedOK
  <2>2. CASE r \notin recs
    <3>1. GiveUp
      BY <1>4, <2>2 DEF DeleteRecord
    <3>2. QED
      BY <1>4, <2>2, <3>1, FinishedPassTypes DEF DeleteRecord, WriterOK, EnvLoaded, FilesOK, SyncOK, ServedOK
  <2>3. QED
    BY <2>1, <2>2
<1>5. QED
  BY <1>1, <1>2, <1>3, <1>4

LEMMA FaultTypes ==
    ASSUME TypeInv, Redeploy \/ CallFails \/ AnswerLost \/ CrashDnsSync \/ CrashControlPlane
    PROVE  TypeInv'
<1>a. alone' \in BOOLEAN
  BY AloneTypes DEF Next, TypeInv, TypeOK
<1> USE <1>a, TypeParts, TypePartsNext DEF cpVars, dnsVars
<1>0. WriterOK /\ FilesOK /\ SyncOK /\ ServedOK /\ netbox \subseteq Row
  OBVIOUS
<1>1. CASE Redeploy
  <2>1. WriterOK' /\ static' \in Configs
    BY <1>1, <1>0 DEF Redeploy, Idle, Writer, WriterOK, EnvLoaded, Busy
  <2>2. pass' \in PassType /\ kept' = {} /\ shifted' = FALSE /\ lastGood' = {}
    BY <1>1, RestingType DEF Redeploy, Restart
  <2>3. QED
    BY <1>1, <2>1, <2>2 DEF Redeploy, FilesOK, SyncOK, ServedOK
<1>2. CASE CallFails
  <2>1. pass' \in PassType /\ kept' = {} /\ shifted' = FALSE
    BY <1>2, FinishedPassTypes DEF CallFails
  <2>2. QED
    BY <1>2, <2>1 DEF CallFails, WriterOK, EnvLoaded, FilesOK, SyncOK, ServedOK
<1>3. CASE AnswerLost
  <2>1. pass' \in PassType /\ kept' = {} /\ shifted' = FALSE
    BY <1>3, FinishedPassTypes DEF AnswerLost
  <2>2. pass.ensure \subseteq Zone /\ pass.create \subseteq Record
    BY <1>0 DEF SyncOK, PassType
  <2>3. ServedOK'
    BY <1>3, <1>0, <2>2 DEF AnswerLost, ServedOK
  <2>4. QED
    BY <1>3, <2>1, <2>3 DEF AnswerLost, WriterOK, EnvLoaded, FilesOK, SyncOK
<1>4. CASE CrashDnsSync
  <2>1. pass' \in PassType /\ kept' = {} /\ shifted' = FALSE /\ lastGood' = {}
    BY <1>4, RestingType DEF CrashDnsSync, Restart
  <2>2. QED
    BY <1>4, <2>1 DEF CrashDnsSync, WriterOK, EnvLoaded, FilesOK, SyncOK, ServedOK
<1>5. CASE CrashControlPlane
  <2>1. WriterOK'
    BY <1>5, <1>0 DEF CrashControlPlane, Idle, WriterOK, EnvLoaded, Busy
  <2>2. QED
    BY <1>5, <2>1 DEF CrashControlPlane, FilesOK, SyncOK, ServedOK
<1>6. QED
  BY <1>1, <1>2, <1>3, <1>4, <1>5

LEMMA TypeStep == TypeInv /\ [Next]_vars => TypeInv'
<1> SUFFICES ASSUME TypeInv, [Next]_vars PROVE TypeInv'
  OBVIOUS
<1>1. CASE UNCHANGED vars
  BY <1>1 DEF vars, TypeInv, TypeOK, EnvLoaded, PassType
<1>2. CASE Next
  BY <1>2, EditTypes, PublishTypes, ReadTypes, ApplyTypes, FaultTypes DEF Next, PassStep
<1>3. QED
  BY <1>1, <1>2

\* Every reachable state is in the types, the live file is never taken away, and what is
\* served is served from a zone that exists.
THEOREM TypeCorrect == Spec => []TypeOK
<1>1. TypeInv => TypeOK
  BY DEF TypeInv
<1>2. QED
  BY <1>1, TypeInit, TypeStep, PTL DEF Spec
-----------------------------------------------------------------------------
(* The core names.                                                         *)

\* Steps that leave the plan of the pass alone.
LEMMA PassUntouched ==
    ASSUME Edit \/ (\E w \in Writer : Publish(w) \/ RefreshFails(w)) \/ CrashControlPlane
    PROVE  pass' = pass
BY DEF Edit, AddRow, RemoveRow, DropRecord, DropZone, SaveConfig, cpVars, dnsVars,
       Publish, LoadEnv, RefreshFails, OpenTmp, WriteTmp, Rename, CrashControlPlane

\* Steps that end the pass where it stands.
LEMMA PassEnded ==
    ASSUME Redeploy \/ CrashDnsSync \/ CallFails \/ AnswerLost
    PROVE  pass' = Resting /\ kept' = {} /\ shifted' = FALSE
BY DEF Redeploy, CrashDnsSync, CallFails, AnswerLost, Restart, GiveUp

\* While the operations are carried out, deletions only become fewer.
LEMMA ApplyDeletes ==
    ASSUME TypeInv,
           \/ GrantDashboardZoneView
           \/ \E z \in Zone : EnsureZone(z)
           \/ \E r \in Record : AddRecord(r) \/ DeleteRecord(r)
    PROVE  /\ pass'.at \in {"idle", "apply"}
           /\ pass'.delete \subseteq pass.delete
           /\ kept' \subseteq kept
           /\ shifted' = shifted \/ kept' = {}
<1>0. pass \in PassType
  BY DEF TypeInv, TypeOK
<1>1. CASE GrantDashboardZoneView
  BY <1>1, <1>0, RestingType DEF GrantDashboardZoneView, Advance, PassType, Resting
<1>2. ASSUME NEW z \in Zone, EnsureZone(z)
      PROVE  /\ pass'.at \in {"idle", "apply"} /\ pass'.delete \subseteq pass.delete
             /\ kept' = kept /\ shifted' = shifted
  BY <1>2, <1>0, RestingType DEF EnsureZone, Applying, Advance, PassType, Resting
<1>3. ASSUME NEW r \in Record, AddRecord(r) \/ DeleteRecord(r)
      PROVE  /\ pass'.at \in {"idle", "apply"} /\ pass'.delete \subseteq pass.delete
             /\ (kept' = kept /\ shifted' = shifted) \/ kept' = {}
  BY <1>3, <1>0, RestingType DEF AddRecord, DeleteRecord, GiveUp, Applying, Advance, PassType, Resting
<1>4. QED
  BY <1>1, <1>2, <1>3 DEF GrantDashboardZoneView

LEMMA CoreStep == CoreInv /\ [Next]_vars => CoreInv'
<1> SUFFICES ASSUME CoreInv, [Next]_vars PROVE CoreWanted' /\ NeverRetiresCore'
  BY TypeStep DEF CoreInv
<1>0. TypeInv /\ CoreWanted /\ NeverRetiresCore /\ pass \in PassType
  BY DEF CoreInv, TypeInv, TypeOK
<1>1. CASE pass' = pass
  BY <1>0, <1>1 DEF CoreWanted, NeverRetiresCore
<1>2. CASE pass' = Resting
  BY <1>2, RestingType DEF CoreWanted, NeverRetiresCore
<1>3. CASE Tick \/ ReadPage
  BY <1>3, <1>0, RestingType DEF Tick, ReadPage, CoreWanted, NeverRetiresCore, PassType, Resting
<1>4. CASE ReadBuiltins
  <2>1. PICK names \in Texts : pass' = [pass EXCEPT !.want = BuildRecords(pass.got) \cup Builtins(names),
                                                      !.got = {}, !.at = "zones"]
    <3>1. live.kind = "whole" => live.names \in Texts
      BY <1>0, ContentTypes DEF TypeInv, TypeOK
    <3>2. Fallback \in Texts
      BY <1>0, ConfigTypes DEF TypeInv, TypeOK, Fallback
    <3>3. QED
      BY <1>4, <3>1, <3>2 DEF ReadBuiltins
  <2>2. \A n \in Core : A(n, Host) \in Builtins(names)
    BY RecordTypes, ConfigTypes
  <2>3. pass'.want = BuildRecords(pass.got) \cup Builtins(names) /\ pass'.delete = pass.delete
    BY <2>1, <1>0 DEF PassType
  <2>4. QED
    BY <2>2, <2>3, <1>0 DEF CoreWanted, NeverRetiresCore
<1>5. CASE ListZones \/ \E z \in Zone : ReadZone(z)
  <2>1. CASE GiveUp
    BY <2>1, <1>2 DEF GiveUp
  <2>2. CASE ~GiveUp
    <3>1. PICK p \in PassType :
            /\ p.want = pass.want /\ p.delete = pass.delete /\ pass.at \in {"zones", "records"}
            /\ pass' = p \/ pass' = Diff(p)
      <4>1. CASE ListZones
        <5> DEFINE q == [pass EXCEPT !.seen = zones, !.unread = zones, !.at = "records"]
        <5>1. q \in PassType /\ q.want = pass.want /\ q.delete = pass.delete
          BY <1>0 DEF TypeInv, TypeOK, PassType
        <5>2. pass.at = "zones" /\ (pass' = q \/ pass' = Diff(q))
          BY <4>1 DEF ListZones
        <5> HIDE DEF q
        <5>3. QED
          BY <5>1, <5>2
      <4>2. ASSUME NEW z \in Zone, ReadZone(z)
            PROVE  \E p \in PassType :
                     /\ p.want = pass.want /\ p.delete = pass.delete /\ pass.at \in {"zones", "records"}
                     /\ pass' = p \/ pass' = Diff(p)
        <5> DEFINE q == [pass EXCEPT !.unread = @ \ {z}, !.have = @ \cup {r \in recs : ZoneOf(r) = z}]
        <5>1. q \in PassType /\ q.want = pass.want /\ q.delete = pass.delete
          BY <1>0 DEF TypeInv, TypeOK, PassType
        <5>2. pass.at = "records" /\ (pass' = q \/ pass' = Diff(q))
          BY <4>2, <2>2 DEF ReadZone
        <5> HIDE DEF q
        <5>3. QED
          BY <5>1, <5>2
      <4>3. QED
        BY <1>5, <4>1, <4>2
    <3>2. \A n \in Core : A(n, Host) \in p.want
      BY <1>0, <3>1 DEF CoreWanted
    <3>3. CASE pass' = p
      BY <3>1, <3>2, <3>3, <1>0 DEF CoreWanted, NeverRetiresCore
    <3>4. CASE pass' = Diff(p)
      <4>1. Diff(p).at \in {"idle", "apply"} /\ Diff(p).delete \cap p.want = {}
        BY DiffTypes
      <4>2. QED
        BY <3>2, <3>4, <4>1 DEF CoreWanted, NeverRetiresCore
    <3>5. QED
      BY <3>1, <3>3, <3>4
  <2>3. QED
    BY <2>1, <2>2
<1>6. CASE \/ GrantDashboardZoneView
           \/ \E z \in Zone : EnsureZone(z)
           \/ \E r \in Record : AddRecord(r) \/ DeleteRecord(r)
  <2>1. pass'.at \in {"idle", "apply"} /\ pass'.delete \subseteq pass.delete
    BY <1>6, <1>0, ApplyDeletes
  <2>2. QED
    BY <2>1, <1>0 DEF CoreWanted, NeverRetiresCore
<1>7. CASE UNCHANGED vars
  BY <1>7, <1>1 DEF vars
<1>8. QED
  BY <1>1, <1>2, <1>3, <1>4, <1>5, <1>6, <1>7, PassUntouched, PassEnded DEF Next, PassStep

\* Whatever two writers do to the live file and a restarted dns-sync reads of it, no pass
\* decides to delete a name that every configuration publishes.
THEOREM NeverRetiresCoreHolds == Spec => []NeverRetiresCore
<1>1. Init => CoreInv
  <2> SUFFICES ASSUME Init PROVE CoreInv
    OBVIOUS
  <2>1. pass = Resting
    BY DEF Init
  <2>2. QED
    BY <2>1, TypeInit, RestingType DEF CoreInv, CoreWanted, NeverRetiresCore
<1>2. CoreInv => NeverRetiresCore
  BY DEF CoreInv
<1>3. QED
  BY <1>1, <1>2, CoreStep, PTL DEF Spec
-----------------------------------------------------------------------------
(* The rows of NetBox.                                                     *)

RowRecord(i) == A(NameOf[i], AddrOf[i])

\* Unless a row went from under the pass, the rows that stayed are read up to the offset,
\* then all of them, then wanted, then never deleted.
RowsAccounted ==
    \/ shifted
    \/ /\ pass.at = "rows" => \A i \in kept : Rank(i) <= pass.offset => i \in pass.got
       /\ pass.at = "builtins" => kept \subseteq pass.got
       /\ pass.at \in {"zones", "records"} => \A i \in kept : RowRecord(i) \in pass.want
       /\ \A i \in kept : RowRecord(i) \notin pass.delete

RowsInv == TypeInv /\ RowsAccounted

\* The position of a row in the listing.
LEMMA RankType ==
    ASSUME NEW S \in SUBSET Row, NEW i
    PROVE  /\ IsFiniteSet({j \in S : j <= i})
           /\ Cardinality({j \in S : j <= i}) \in Nat
           /\ Cardinality({j \in S : j <= i}) <= Cardinality(S)
<1>1. IsFiniteSet(S)
  BY FS_Subset, DnsAssumption
<1>2. {j \in S : j <= i} \in SUBSET S
  OBVIOUS
<1>3. QED
  BY <1>1, <1>2, FS_Subset, FS_CardinalityType

\* A row that is added moves others only towards the end.
LEMMA RankAfterAdd ==
    ASSUME NEW S \in SUBSET Row, NEW x \in Row, NEW i \in Row
    PROVE  Cardinality({j \in S : j <= i}) <= Cardinality({j \in S \cup {x} : j <= i})
<1>1. S \cup {x} \in SUBSET Row
  OBVIOUS
<1>2. IsFiniteSet({j \in S \cup {x} : j <= i})
  BY <1>1, RankType
<1>3. {j \in S : j <= i} \in SUBSET {j \in S \cup {x} : j <= i}
  OBVIOUS
<1>4. QED
  BY <1>2, <1>3, FS_Subset

\* A row that is removed behind the offset brings none of the others up to it.
LEMMA RankAfterRemove ==
    ASSUME NEW S \in SUBSET Row, NEW x \in S, NEW i \in S, i # x, NEW o \in Nat,
           o < Cardinality({j \in S : j <= x}),
           Cardinality({j \in S \ {x} : j <= i}) <= o
    PROVE  Cardinality({j \in S : j <= i}) <= o
<1> DEFINE U(k) == {j \in S : j <= k}
<1>1. x \in Nat /\ i \in Nat
  BY DnsAssumption
<1>2. CASE i < x
  <2>1. {j \in S \ {x} : j <= i} = U(i)
    BY <1>1, <1>2
  <2>2. QED
    BY <2>1
<1>3. CASE x < i
  <2>1. {j \in S \ {x} : j <= i} = U(i) \ {x} /\ x \in U(i) /\ i \in U(i) /\ i \notin U(x)
    BY <1>1, <1>3
  <2>2. IsFiniteSet(U(i)) /\ Cardinality(U(i)) \in Nat /\ Cardinality(U(x)) \in Nat
    BY RankType
  <2>3. Cardinality(U(i) \ {x}) = Cardinality(U(i)) - 1
    BY <2>1, <2>2, FS_RemoveElement
  <2>4. U(x) \in SUBSET U(i) /\ U(x) # U(i)
    <3>1. \A j \in S : j \in Nat
      BY DnsAssumption
    <3>2. \A j \in S : j <= x => j <= i
      BY <1>1, <1>3, <3>1
    <3>3. U(x) \in SUBSET U(i)
      BY <3>2
    <3>4. QED
      BY <2>1, <3>3, Zenon
  <2>5. Cardinality(U(x)) < Cardinality(U(i))
    BY <2>2, <2>4, FS_Subset
  <2>6. QED
    BY <2>1, <2>2, <2>3, <2>5
<1>4. QED
  BY <1>1, <1>2, <1>3

LEMMA RowsEdit ==
    ASSUME RowsInv, Edit
    PROVE  RowsAccounted'
<1>0. /\ RowsAccounted /\ pass \in PassType /\ netbox \subseteq Row /\ kept \subseteq netbox
      /\ pass' = pass /\ pass.offset \in Nat
  BY PassUntouched DEF RowsInv, TypeInv, TypeOK, PassType
<1>1. ASSUME NEW x \in Row, AddRow(x) PROVE RowsAccounted'
  <2>1. netbox' = netbox \cup {x} /\ kept' = kept /\ shifted' = shifted
    BY <1>1 DEF AddRow
  <2>2. \A i \in kept : Rank(i) <= Rank(i)' /\ Rank(i) \in Nat /\ Rank(i)' \in Nat
    <3>1. netbox' \in SUBSET Row
      BY <1>0, <2>1
    <3>2. ASSUME NEW i \in kept PROVE Rank(i) <= Rank(i)' /\ Rank(i) \in Nat /\ Rank(i)' \in Nat
      <4>1. Rank(i) = Cardinality({j \in netbox : j <= i})
        BY DEF Rank
      <4>2. Rank(i)' = Cardinality({j \in netbox \cup {x} : j <= i})
        BY <2>1 DEF Rank
      <4>3. i \in Row /\ netbox \in SUBSET Row /\ netbox \cup {x} \in SUBSET Row
        BY <1>0, <2>1, <3>1
      <4>4. QED
        BY <4>1, <4>2, <4>3, RankAfterAdd, RankType
    <3>3. QED
      BY <3>2
  <2>3. \A i \in kept : Rank(i)' <= pass.offset => Rank(i) <= pass.offset
    BY <2>2, <1>0
  <2>4. QED
    BY <1>0, <2>1, <2>3 DEF RowsAccounted
<1>2. ASSUME NEW x \in Row, RemoveRow(x) PROVE RowsAccounted'
  <2>1. /\ x \in netbox /\ netbox' = netbox \ {x} /\ kept' = kept \ {x}
        /\ shifted' = (shifted \/ (pass.at = "rows" /\ Rank(x) <= pass.offset))
    BY <1>2 DEF RemoveRow
  <2>2. CASE shifted \/ (pass.at = "rows" /\ Rank(x) <= pass.offset)
    BY <2>1, <2>2 DEF RowsAccounted
  <2>3. CASE ~shifted /\ pass.at # "rows"
    BY <1>0, <2>1, <2>3 DEF RowsAccounted
  <2>4. CASE ~shifted /\ pass.at = "rows" /\ ~(Rank(x) <= pass.offset)
    <3>1. pass.offset < Rank(x)
      BY <1>0, <2>4, RankType DEF Rank
    <3>2. \A i \in kept' : Rank(i)' <= pass.offset => Rank(i) <= pass.offset
      BY <1>0, <2>1, <3>1, RankAfterRemove DEF Rank
    <3>3. QED
      BY <1>0, <2>1, <2>4, <3>2 DEF RowsAccounted
  <2>5. QED
    BY <2>2, <2>3, <2>4
<1>3. CASE netbox' = netbox /\ kept' = kept /\ shifted' = shifted
  BY <1>0, <1>3 DEF RowsAccounted, Rank
<1>4. QED
  BY <1>1, <1>2, <1>3 DEF Edit, DropRecord, DropZone, SaveConfig

LEMMA RowsRead ==
    ASSUME RowsInv, Tick \/ ReadPage \/ ReadBuiltins \/ ListZones \/ \E z \in Zone : ReadZone(z)
    PROVE  RowsAccounted'
<1>0. /\ RowsAccounted /\ pass \in PassType /\ netbox \subseteq Row /\ kept \subseteq netbox
      /\ pass.offset \in Nat /\ pass.got \subseteq Row /\ PageSize \in Nat
  BY DnsAssumption DEF RowsInv, TypeInv, TypeOK, PassType
<1>1. CASE Tick
  <2>1. pass'.at = "rows" /\ pass'.offset = 0 /\ pass'.delete = {} /\ kept' = netbox /\ netbox' = netbox
    BY <1>1 DEF Tick, Resting
  <2>2. \A i \in netbox : 0 < Rank(i)
    <3> SUFFICES ASSUME NEW i \in netbox PROVE 0 < Rank(i)
      OBVIOUS
    <3>0. i \in Nat
      BY <1>0, DnsAssumption
    <3>1. i \in {j \in netbox : j <= i}
      BY <3>0
    <3>2. IsFiniteSet({j \in netbox : j <= i}) /\ Rank(i) \in Nat
      BY <1>0, RankType DEF Rank
    <3>3. Rank(i) # 0
      BY <3>1, <3>2, FS_EmptySet DEF Rank
    <3>4. QED
      BY <3>2, <3>3
  <2>3. \A i \in netbox : Rank(i) \in Nat /\ Rank(i)' = Rank(i)
    BY <1>0, <2>1, RankType DEF Rank
  <2>4. \A i \in kept' : ~(Rank(i)' <= pass'.offset)
    BY <2>1, <2>2, <2>3
  <2>5. QED
    BY <2>1, <2>4 DEF RowsAccounted
<1>2. CASE ReadPage
  <2>1. /\ pass.at = "rows" /\ netbox' = netbox /\ kept' = kept /\ shifted' = shifted
        /\ pass'.got = pass.got \cup Page(pass.offset)
        /\ pass'.offset = (IF HasNext(pass.offset) THEN pass.offset + PageSize ELSE 0)
        /\ pass'.at = (IF HasNext(pass.offset) THEN "rows" ELSE "builtins")
        /\ pass'.delete = pass.delete
    BY <1>2, <1>0 DEF ReadPage, PassType, NextOffset
  <2>2. \A i \in netbox : Rank(i)' = Rank(i) /\ Rank(i) \in Nat /\ Rank(i) <= Cardinality(netbox)
    BY <1>0, <2>1, RankType DEF Rank
  <2>3. ~shifted => \A i \in kept : Rank(i) <= pass.offset + PageSize => i \in pass'.got
    BY <1>0, <2>1, <2>2 DEF RowsAccounted, Page
  <2>4. CASE HasNext(pass.offset)
    BY <1>0, <2>1, <2>2, <2>3, <2>4 DEF RowsAccounted
  <2>5. CASE ~HasNext(pass.offset)
    <3>1. Cardinality(netbox) \in Nat
      BY <1>0, FS_Subset, FS_CardinalityType, DnsAssumption
    <3>2. Cardinality(netbox) <= pass.offset + PageSize
      BY <2>5, <1>0, <3>1 DEF HasNext
    <3>3. \A i \in kept : Rank(i) <= pass.offset + PageSize
      BY <1>0, <2>2, <3>1, <3>2
    <3>4. ~shifted => kept \subseteq pass'.got
      BY <2>3, <3>3
    <3>5. QED
      BY <1>0, <2>1, <2>5, <3>4 DEF RowsAccounted
  <2>6. QED
    BY <2>4, <2>5
<1>3. CASE ReadBuiltins
  <2>0. PICK names : pass' = [pass EXCEPT !.want = BuildRecords(pass.got) \cup Builtins(names),
                                          !.got = {}, !.at = "zones"]
    BY <1>3 DEF ReadBuiltins
  <2>1. /\ pass.at = "builtins" /\ kept' = kept /\ shifted' = shifted /\ netbox' = netbox
        /\ pass'.at = "zones" /\ pass'.delete = pass.delete
        /\ BuildRecords(pass.got) \subseteq pass'.want
    BY <1>3, <1>0, <2>0 DEF ReadBuiltins, PassType
  <2>2. \A i \in pass.got : RowRecord(i) \in pass'.want
    BY <1>0, <2>1, RecordTypes DEF RowRecord
  <2>3. QED
    BY <1>0, <2>1, <2>2 DEF RowsAccounted
<1>4. CASE ListZones \/ \E z \in Zone : ReadZone(z)
  <2>1. CASE GiveUp
    BY <2>1, RestingType DEF GiveUp, RowsAccounted
  <2>2. CASE ~GiveUp
    <3>1. PICK p \in PassType :
            /\ p.at = "records" /\ p.want = pass.want /\ p.delete = pass.delete
            /\ pass.at \in {"zones", "records"} /\ kept' = kept /\ shifted' = shifted
            /\ pass' = p \/ pass' = Diff(p)
      <4>1. CASE ListZones
        <5> DEFINE q == [pass EXCEPT !.seen = zones, !.unread = zones, !.at = "records"]
        <5>1. q \in PassType /\ q.want = pass.want /\ q.delete = pass.delete /\ q.at = "records"
          BY <1>0 DEF RowsInv, TypeInv, TypeOK, PassType
        <5>2. pass.at = "zones" /\ (pass' = q \/ pass' = Diff(q)) /\ kept' = kept /\ shifted' = shifted
          BY <4>1 DEF ListZones
        <5> HIDE DEF q
        <5>3. QED
          BY <5>1, <5>2
      <4>2. ASSUME NEW z \in Zone, ReadZone(z)
            PROVE  \E p \in PassType :
                     /\ p.at = "records" /\ p.want = pass.want /\ p.delete = pass.delete
                     /\ pass.at \in {"zones", "records"} /\ kept' = kept /\ shifted' = shifted
                     /\ pass' = p \/ pass' = Diff(p)
        <5> DEFINE q == [pass EXCEPT !.unread = @ \ {z}, !.have = @ \cup {r \in recs : ZoneOf(r) = z}]
        <5>1. q \in PassType /\ q.want = pass.want /\ q.delete = pass.delete /\ q.at = pass.at
          BY <1>0 DEF RowsInv, TypeInv, TypeOK, PassType
        <5>2. pass.at = "records" /\ (pass' = q \/ pass' = Diff(q)) /\ kept' = kept /\ shifted' = shifted
          BY <4>2, <2>2 DEF ReadZone
        <5> HIDE DEF q
        <5>3. QED
          BY <5>1, <5>2
      <4>3. QED
        BY <1>4, <4>1, <4>2
    <3>2. ~shifted => \A i \in kept : RowRecord(i) \in p.want /\ RowRecord(i) \notin p.delete
      BY <1>0, <3>1 DEF RowsAccounted
    <3>3. CASE pass' = p
      BY <3>1, <3>2, <3>3 DEF RowsAccounted
    <3>4. CASE pass' = Diff(p)
      <4>1. Diff(p).at \in {"idle", "apply"} /\ Diff(p).delete \cap p.want = {}
        BY DiffTypes
      <4>2. QED
        BY <3>1, <3>2, <3>4, <4>1 DEF RowsAccounted
    <3>5. QED
      BY <3>1, <3>3, <3>4
  <2>3. QED
    BY <2>1, <2>2
<1>5. QED
  BY <1>1, <1>2, <1>3, <1>4

LEMMA RowsStep == RowsInv /\ [Next]_vars => RowsInv'
<1> SUFFICES ASSUME RowsInv, [Next]_vars PROVE RowsAccounted'
  BY TypeStep DEF RowsInv
<1>0. TypeInv /\ RowsAccounted
  BY DEF RowsInv
<1>1. CASE Edit
  BY <1>1, RowsEdit
<1>2. CASE Tick \/ ReadPage \/ ReadBuiltins \/ ListZones \/ \E z \in Zone : ReadZone(z)
  BY <1>2, RowsRead
<1>3. CASE \/ GrantDashboardZoneView
           \/ \E z \in Zone : EnsureZone(z)
           \/ \E r \in Record : AddRecord(r) \/ DeleteRecord(r)
  BY <1>0, <1>3, ApplyDeletes DEF RowsAccounted
<1>4. CASE Redeploy \/ CrashDnsSync \/ CallFails \/ AnswerLost
  BY <1>4, PassEnded, RestingType DEF RowsAccounted
<1>5. CASE (\E w \in Writer : Publish(w) \/ RefreshFails(w)) \/ CrashControlPlane \/ UNCHANGED vars
  <2>1. pass' = pass /\ kept' = kept /\ shifted' = shifted /\ netbox' = netbox
    BY <1>5, PassUntouched DEF Publish, LoadEnv, RefreshFails, OpenTmp, WriteTmp, Rename, CrashControlPlane, vars
  <2>2. QED
    BY <1>0, <2>1 DEF RowsAccounted, Rank
<1>6. QED
  BY <1>1, <1>2, <1>3, <1>4, <1>5 DEF Next, PassStep

\* A pass deletes the record of a row only if the row was missing at some moment of the
\* pass, or a row before it went away while the pages were read.
THEOREM DeletesWereGoneHolds == Spec => []DeletesWereGone
<1>1. Init => RowsInv
  <2> SUFFICES ASSUME Init PROVE RowsInv
    OBVIOUS
  <2>1. kept = {} /\ pass = Resting
    BY DEF Init
  <2>2. QED
    BY <2>1, TypeInit, RestingType DEF RowsInv, RowsAccounted
<1>2. RowsInv => DeletesWereGone
  BY DEF RowsInv, RowsAccounted, DeletesWereGone, RowRecord
<1>3. QED
  BY <1>1, <1>2, RowsStep, PTL DEF Spec
=============================================================================
