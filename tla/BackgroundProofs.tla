-------------------------- MODULE BackgroundProofs --------------------------
(***************************************************************************)
(* Proofs about the two goroutines that outlive the request that started   *)
(* them: a transfer into the depot and the server of certsrv.              *)
(*                                                                         *)
(* DepotFetch, for any number of URLs, destinations, contents of any size, *)
(* cancelling handlers and faults.  The invariant follows the part file:   *)
(* its blocks were all offered to its destination since the last rename,   *)
(* and while a transfer writes, it is as long as the transfer believes, or *)
(* one block shorter while that block is read and not yet written.         *)
(*                                                                         *)
(* CertsrvListener, in the second half, for any number of savers, clients, *)
(* saves, requests and restarts, and a table of any size.  The inductive   *)
(* invariant has three parts.  ServInv: only the server that               *)
(* mscaManager.srv names is not told to close, it has the newest saved     *)
(* configuration that was answered, and between the two halves of a        *)
(* Reconcile there is none.  TableInv: what is too old is gone.  ClientInv *)
(* follows one request: its directory holds its own request and            *)
(* certificate, and the id it was told is that certificate's place.        *)
(***************************************************************************)
EXTENDS DepotFetch, CertsrvListener, SequenceTheorems, FiniteSetTheorems, TLAPS

Writing == {"copy", "write", "verify", "rename"}

\* Every block of a part file is of a version that was offered.
PartsOffered ==
    \A d \in Dest : part[d] # NoFile => \A k \in 1 .. Len(part[d]) : part[d][k] \in offered[d]

\* What the transfer has been answered, what it believes, and what it has found out.
Answered ==
    job.pc \in {"open"} \cup Writing =>
        /\ job.src \in offered[D] /\ job.err = "none"
        /\ job.total = IF job.framed THEN Size[job.src] ELSE 0
        /\ job.pos = job.received /\ job.received <= Size[job.src]
        /\ job.pc # "open" => part[D] # NoFile
        /\ job.pc \in {"copy", "verify", "rename"} => Len(part[D]) = job.received
        /\ job.pc = "write" => Len(part[D]) + 1 = job.received
OpenOK ==
    job.pc = "open" =>
        /\ job.received = job.resumed /\ ~job.hit
        /\ job.resumed > 0 => part[D] # NoFile /\ Len(part[D]) = job.resumed
CopiedOK ==
    /\ job.pc \in {"verify", "rename"} => (job.framed \/ ~job.hit => job.received = Size[job.src])
    /\ job.pc = "verify" => job.sum # NoSum
    /\ job.pc = "rename" /\ job.sum # NoSum => part[D] = Whole(job.sum)
    /\ job.pc \in {"copy", "write"} => ~job.hit
    /\ job.pc = "request" => job.err = "none" /\ ~job.hit

\* What a transfer that has ended leaves, as its job and then as its last status.
DoneOK(d, received, total) ==
    /\ final[d] # Absent /\ Len(final[d].data) = received
    /\ total # 0 => received = total
RefusedOK(d) == part[d] # NoFile /\ \E v \in Version : Len(part[d]) >= Size[v]
MismatchOK(d, sum) == part[d] # NoFile /\ offered[d] # {sum}
EndedOK ==
    job.pc = "ended" =>
        /\ job.err = "none" => DoneOK(D, job.received, job.total)
        /\ ~job.hit => job.err \in {"none", "refused", "mismatch"}
        /\ ~job.hit /\ job.err = "refused" => RefusedOK(D)
        /\ ~job.hit /\ job.err = "mismatch" => MismatchOK(D, job.sum)
LastOK ==
    job = NoJob =>
        /\ last.stage = "done" => DoneOK(last.dest, last.received, last.total)
        /\ last.stage = "failed" /\ ~last.hit =>
             /\ last.err \in {"refused", "mismatch"}
             /\ last.err = "refused" => RefusedOK(last.dest)
             /\ last.err = "mismatch" => MismatchOK(last.dest, last.sum)

TransferInv == PartsOffered /\ Answered /\ OpenOK /\ CopiedOK /\ EndedOK /\ LastOK
FetchInv == DepotTypeOK /\ VerifiedIsWanted /\ SingleSourceIsWhole /\ TransferInv

\* A bundle on disk, as opposed to its absence.
Bundles == [data : Seq(Version), sum : Version \cup {NoSum}, sole : BOOLEAN]
-----------------------------------------------------------------------------
(* Facts about the state.                                                  *)

\* A transfer that is somewhere is a job.
LEMMA JobIsTyped ==
  ASSUME DepotTypeOK, job.pc # "none"
  PROVE  /\ job \in JobType /\ job # NoJob /\ D \in Dest
         /\ DOMAIN part = Dest /\ DOMAIN offered = Dest /\ DOMAIN final = Dest
<1>1. job # NoJob
  BY DEF NoJob
<1> QED BY <1>1 DEF DepotTypeOK, JobType, D

\* A file of the right length, all of whose blocks are of one version, is that version.
LEMMA SoleBlocksAreWhole ==
  ASSUME NEW v \in Version, NEW s \in Seq(Version), Len(s) = Size[v], \A k \in 1 .. Len(s) : s[k] = v
  PROVE  s = Whole(v)
<1>1. s = [k \in 1 .. Len(s) |-> s[k]]
  OBVIOUS
<1> QED BY <1>1 DEF Whole

\* A block written to the part file.
LEMMA AppendAddsBlock ==
  ASSUME NEW s \in Seq(Version), NEW v \in Version
  PROVE  /\ Append(s, v) \in Seq(Version) /\ Len(Append(s, v)) = Len(s) + 1
         /\ \A k \in 1 .. Len(s) + 1 : Append(s, v)[k] = IF k = Len(s) + 1 THEN v ELSE s[k]
  BY AppendProperties

LEMMA InitFetch == DepotInit => FetchInv
<1> SUFFICES ASSUME DepotInit PROVE FetchInv
  OBVIOUS
<1>1. DepotTypeOK
  BY DEF DepotInit, DepotTypeOK, NoJob, IdleStatus
<1>2. VerifiedIsWanted /\ SingleSourceIsWhole
  BY DEF DepotInit, VerifiedIsWanted, SingleSourceIsWhole
<1>3. PartsOffered
  BY DEF DepotInit, PartsOffered
<1>4. Answered /\ OpenOK /\ CopiedOK /\ EndedOK
  BY DEF DepotInit, NoJob, Answered, OpenOK, CopiedOK, EndedOK, Writing
<1>5. LastOK
  BY DEF DepotInit, LastOK, IdleStatus
<1> QED BY <1>1, <1>2, <1>3, <1>4, <1>5 DEF FetchInv, TransferInv
-----------------------------------------------------------------------------
(* Steps that write nothing.                                               *)

\* Nothing but the environment, the handlers and the context changes.
LEMMA ElsewhereFetch ==
  ASSUME FetchInv, UNCHANGED <<part, final, offered, job, last>>, served' \in [Url -> Version],
         live' \in BOOLEAN, holder' \in [Canceller -> {"none", "cur", "old"}]
  PROVE  FetchInv'
<1>1. DepotTypeOK'
  BY DEF FetchInv, DepotTypeOK, D
<1>2. (VerifiedIsWanted /\ SingleSourceIsWhole)'
  BY DEF FetchInv, VerifiedIsWanted, SingleSourceIsWhole
<1>3. (PartsOffered /\ Answered /\ OpenOK)'
  BY DEF FetchInv, TransferInv, PartsOffered, Answered, OpenOK, D
<1>4. (CopiedOK /\ EndedOK /\ LastOK)'
  BY DEF FetchInv, TransferInv, CopiedOK, EndedOK, LastOK, DoneOK, RefusedOK, MismatchOK, D
<1> QED BY <1>1, <1>2, <1>3, <1>4 DEF FetchInv, TransferInv

LEMMA EnvironmentFetch ==
  ASSUME FetchInv,
         \/ \E u \in Url, v \in Version : Replace(u, v)
         \/ \E c \in Canceller : CancelLook(c) \/ CancelFire(c)
         \/ UNCHANGED depotVars
  PROVE  FetchInv'
<1>1. UNCHANGED <<part, final, offered, job, last>>
  BY DEF Replace, CancelLook, CancelFire, disk, depotVars
<1>2. served' \in [Url -> Version]
  BY DEF Replace, CancelLook, CancelFire, depotVars, FetchInv, DepotTypeOK
<1>3. holder' \in [Canceller -> {"none", "cur", "old"}]
  BY DEF Replace, CancelLook, CancelFire, depotVars, FetchInv, DepotTypeOK
<1>4. live' \in BOOLEAN
  <2>1. ASSUME NEW c \in Canceller, CancelFire(c)
        PROVE  live' \in BOOLEAN
    BY <2>1 DEF CancelFire
  <2>2. live \in BOOLEAN
    BY DEF FetchInv, DepotTypeOK
  <2>3. ASSUME UNCHANGED live
        PROVE  live' \in BOOLEAN
    BY <2>2, <2>3
  <2> QED BY <2>1, <2>3 DEF Replace, CancelLook, depotVars
<1> QED BY <1>1, <1>2, <1>3, <1>4, ElsewhereFetch

\* Files and offers stay: only what the job and the status say is left to show.
LEMMA DiskStaysFetch ==
  ASSUME FetchInv, UNCHANGED <<served, part, final, offered>>, DepotTypeOK',
         (Answered /\ OpenOK /\ CopiedOK /\ EndedOK /\ LastOK)'
  PROVE  FetchInv'
<1>1. (VerifiedIsWanted /\ SingleSourceIsWhole)'
  BY DEF FetchInv, VerifiedIsWanted, SingleSourceIsWhole
<1>2. PartsOffered'
  BY DEF FetchInv, TransferInv, PartsOffered
<1> QED BY <1>1, <1>2 DEF FetchInv, TransferInv

LEMMA StartFetch ==
  ASSUME FetchInv, HandleDepotFetch
  PROVE  FetchInv'
<1>1. PICK u \in Url, d \in Dest, s \in Version \cup {NoSum} : Start(u, d, s)
  BY DEF HandleDepotFetch
<1>2. /\ job' = NewJob(u, d, s) /\ live' = TRUE
      /\ UNCHANGED <<served, part, final, offered, last>>
      /\ holder' = [c \in Canceller |-> IF holder[c] = "cur" THEN "old" ELSE holder[c]]
  BY <1>1 DEF Start, disk
<1>3. job' \in JobType /\ job'.pc = "request" /\ job'.err = "none" /\ job'.hit = FALSE /\ job' # NoJob
  BY <1>2 DEF NewJob, JobType, NoJob
<1>4. DepotTypeOK'
  <2>1. holder' \in [Canceller -> {"none", "cur", "old"}]
    BY <1>2 DEF FetchInv, DepotTypeOK
  <2> QED BY <1>2, <1>3, <2>1 DEF FetchInv, DepotTypeOK
<1>5. (Answered /\ OpenOK /\ CopiedOK /\ EndedOK /\ LastOK)'
  BY <1>3 DEF Answered, OpenOK, CopiedOK, EndedOK, LastOK, Writing
<1> QED BY <1>2, <1>4, <1>5, DiskStaysFetch

LEMMA CrashFetch ==
  ASSUME FetchInv, Crash
  PROVE  FetchInv'
<1>1. /\ job' = NoJob /\ live' = TRUE /\ last' = IdleStatus
      /\ UNCHANGED <<served, part, final, offered>>
      /\ holder' = [c \in Canceller |-> "none"]
  BY DEF Crash, disk
<1>2. job'.pc = "none" /\ last'.stage = "idle"
  BY <1>1 DEF NoJob, IdleStatus
<1>3. DepotTypeOK'
  BY <1>1, <1>2 DEF FetchInv, DepotTypeOK
<1>4. (Answered /\ OpenOK /\ CopiedOK /\ EndedOK /\ LastOK)'
  BY <1>2 DEF Answered, OpenOK, CopiedOK, EndedOK, LastOK, Writing
<1> QED BY <1>1, <1>3, <1>4, DiskStaysFetch

\* A transfer that ends early: what is left to show is why.
LEMMA EndsFetch ==
  ASSUME FetchInv, job.pc # "none", NEW why \in {"refused", "mismatch", "cancelled", "fault"}, NEW hit \in BOOLEAN,
         job' = [job EXCEPT !.pc = "ended", !.err = why, !.hit = hit],
         UNCHANGED <<served, part, final, offered, live, last, holder>>,
         ~hit => \/ why = "refused" /\ RefusedOK(D)
                 \/ why = "mismatch" /\ MismatchOK(D, job.sum)
  PROVE  FetchInv'
<1>1. job \in JobType
  BY JobIsTyped DEF FetchInv
<1>2. /\ job' \in JobType /\ job'.pc = "ended" /\ job'.err = why /\ job'.hit = hit
      /\ job'.dest = job.dest /\ job'.sum = job.sum /\ job' # NoJob
  BY <1>1 DEF JobType, NoJob
<1>3. DepotTypeOK'
  BY <1>2 DEF FetchInv, DepotTypeOK
<1>4. (Answered /\ OpenOK /\ CopiedOK /\ LastOK)'
  BY <1>2 DEF Answered, OpenOK, CopiedOK, LastOK, Writing
<1>5. EndedOK'
  BY <1>2 DEF EndedOK, RefusedOK, MismatchOK, D
<1> QED BY <1>3, <1>4, <1>5, DiskStaysFetch

LEMMA InterruptedFetch ==
  ASSUME FetchInv, Interrupted
  PROVE  FetchInv'
<1>1. job.pc # "none"
  BY DEF Interrupted, Interruptible
<1> QED BY <1>1, EndsFetch DEF Interrupted, disk

LEMMA FinishFetch ==
  ASSUME FetchInv, Finish
  PROVE  FetchInv'
<1>1. job.pc = "ended" /\ job \in JobType /\ EndedOK
  BY JobIsTyped DEF FetchInv, TransferInv, Finish, At
<1>2. /\ job' = NoJob /\ UNCHANGED <<served, part, final, offered, live, holder>>
      /\ last' = [stage |-> IF job.err = "none" THEN "done" ELSE "failed", dest |-> D,
                  received |-> job.received, total |-> job.total, err |-> job.err, hit |-> job.hit,
                  sum |-> IF job.err = "mismatch" THEN job.sum ELSE NoSum]
  BY DEF Finish, disk
<1>3. /\ last'.stage = (IF job.err = "none" THEN "done" ELSE "failed")
      /\ last'.dest = D /\ last'.received = job.received /\ last'.total = job.total
      /\ last'.err = job.err /\ last'.hit = job.hit
      /\ last'.sum = IF job.err = "mismatch" THEN job.sum ELSE NoSum
  BY <1>2
<1>4. last' \in StatusType
  BY <1>1, <1>2 DEF StatusType, JobType, D
<1>5. job'.pc = "none"
  BY <1>2 DEF NoJob
<1>6. DepotTypeOK'
  BY <1>2, <1>4, <1>5 DEF FetchInv, DepotTypeOK
<1>7. (Answered /\ OpenOK /\ CopiedOK /\ EndedOK)'
  BY <1>5 DEF Answered, OpenOK, CopiedOK, EndedOK, Writing
<1>8. LastOK'
  BY <1>1, <1>2, <1>3 DEF LastOK, EndedOK, DoneOK, RefusedOK, MismatchOK
<1> QED BY <1>2, <1>6, <1>7, <1>8, DiskStaysFetch
-----------------------------------------------------------------------------
(* The transfer.                                                           *)

LEMMA RespondFetch ==
  ASSUME FetchInv, NEW status \in {200, 206, 416}, NEW framed \in BOOLEAN, Respond(status, framed)
  PROVE  FetchInv'
<1> DEFINE v == served[job.url]
           kept == Kept(status)
<1>1. job.pc = "request" /\ job \in JobType /\ D \in Dest /\ DOMAIN offered = Dest /\ CopiedOK
  BY JobIsTyped DEF FetchInv, TransferInv, Respond, At
<1>2. job.err = "none" /\ job.hit = FALSE
  BY <1>1 DEF CopiedOK, JobType
<1>3. v \in Version /\ Size[v] \in Nat \ {0}
  BY <1>1, DepotAssumption DEF FetchInv, DepotTypeOK, JobType
<1>4. part[D] = NoFile \/ part[D] \in Seq(Version)
  BY <1>1 DEF FetchInv, DepotTypeOK
<1>5. Offset \in Nat /\ (Offset > 0 => part[D] # NoFile /\ Len(part[D]) = Offset)
  BY <1>4 DEF Offset
<1>6. /\ status = 206 => Offset > 0 /\ Offset < Size[v]
      /\ status = 416 => Offset > 0 /\ Offset >= Size[v]
  BY <1>3, <1>5 DEF Respond, Answers
<1>7. /\ kept \in Nat /\ (status = 200 => kept = 0) /\ (status # 200 => kept = Offset)
      /\ status # 416 => kept <= Size[v]
  BY <1>3, <1>5, <1>6 DEF Kept
<1> HIDE DEF v, kept
<1>8. CASE status \in Accepted
  <2> DEFINE total == IF framed THEN Size[v] ELSE 0
  <2>0. total \in Nat /\ (IF status = 200 THEN 0 ELSE kept) = kept
    BY <1>3, <1>7
  <2>1. /\ job' = [job EXCEPT !.pc = "open", !.src = v, !.framed = framed, !.pos = kept,
                        !.received = kept, !.resumed = kept, !.total = total]
        /\ offered' = [offered EXCEPT ![D] = @ \cup {v}]
        /\ UNCHANGED <<served, part, final, live, last, holder>>
    BY <1>8, <2>0 DEF Respond, Counted, v, kept
  <2> HIDE DEF total
  <2>2. /\ job' \in JobType /\ job'.pc = "open" /\ job'.src = v /\ job'.framed = framed
        /\ job'.pos = kept /\ job'.received = kept /\ job'.resumed = kept
        /\ job'.total = total
        /\ job'.dest = job.dest /\ job'.err = "none" /\ job'.hit = FALSE
    <3>1. /\ job'.pc = "open" /\ job'.src = v /\ job'.pos = kept /\ job'.received = kept /\ job'.resumed = kept
          /\ job'.total = total /\ job'.dest = job.dest /\ job'.err = "none"
      BY <1>1, <1>2, <2>1 DEF JobType
    <3>2. job'.framed = framed /\ job'.hit = FALSE
      BY <1>1, <1>2, <2>1, Zenon DEF JobType
    <3>3. job' \in JobType
      <4> DEFINE j == [job EXCEPT !.framed = framed]
      <4>1. j \in JobType
        BY <1>1, Zenon DEF JobType
      <4>2. job' = [j EXCEPT !.pc = "open", !.src = v, !.pos = kept, !.received = kept, !.resumed = kept, !.total = total]
        BY <1>1, <2>1 DEF JobType
      <4> HIDE DEF j
      <4> QED BY <1>3, <1>7, <2>0, <4>1, <4>2 DEF JobType
    <3> QED BY <3>1, <3>2, <3>3
  <2>3. D' = D /\ offered'[D] = offered[D] \cup {v} /\ \A d \in Dest : offered[d] \subseteq offered'[d]
    BY <1>1, <2>1, <2>2 DEF D
  <2>4. DepotTypeOK'
    <3>1. offered' \in [Dest -> SUBSET Version]
      BY <1>1, <1>3, <2>1 DEF FetchInv, DepotTypeOK
    <3> QED BY <1>3, <2>1, <2>2, <3>1 DEF FetchInv, DepotTypeOK
  <2>5. (VerifiedIsWanted /\ SingleSourceIsWhole)'
    BY <2>1 DEF FetchInv, VerifiedIsWanted, SingleSourceIsWhole
  <2>6. PartsOffered'
    BY <2>1, <2>3 DEF FetchInv, TransferInv, PartsOffered
  <2>7. Answered' /\ OpenOK'
    <3>1. kept <= Size[v] /\ (kept > 0 => part[D] # NoFile /\ Len(part[D]) = kept)
      BY <1>5, <1>7, <1>8 DEF Accepted
    <3> QED BY <2>1, <2>2, <2>3, <3>1 DEF Answered, OpenOK, total
  <2>8. (CopiedOK /\ EndedOK /\ LastOK)'
    BY <2>2 DEF CopiedOK, EndedOK, LastOK, NoJob
  <2> QED BY <2>4, <2>5, <2>6, <2>7, <2>8 DEF FetchInv, TransferInv
<1>9. CASE status \notin Accepted
  <2>1. job' = [job EXCEPT !.pc = "ended", !.err = "refused"] /\ UNCHANGED <<served, part, final, offered, live, last, holder>>
    BY <1>9 DEF Respond, Fails
  <2>2. job' = [job EXCEPT !.pc = "ended", !.err = "refused", !.hit = FALSE]
    BY <1>1, <1>2, <2>1 DEF JobType
  <2>3. RefusedOK(D)
    BY <1>3, <1>5, <1>6, <1>9 DEF Accepted, RefusedOK
  <2> QED BY <1>1, <2>1, <2>2, <2>3, EndsFetch
<1> QED BY <1>8, <1>9

LEMMA OpenPartFetch ==
  ASSUME FetchInv, OpenPart
  PROVE  FetchInv'
<1>1. /\ job.pc = "open" /\ job \in JobType /\ job.src \in Version /\ D \in Dest /\ DOMAIN part = Dest
      /\ Answered /\ OpenOK
  BY JobIsTyped DEF FetchInv, TransferInv, DepotTypeOK, OpenPart, At
<1>2. job' = [job EXCEPT !.pc = "copy"] /\ part' = [part EXCEPT ![D] = Opened]
      /\ UNCHANGED <<served, final, offered, live, last, holder>>
  BY DEF OpenPart
<1>3. /\ job' \in JobType /\ job'.pc = "copy" /\ job' # NoJob
      /\ \A f \in {"src", "dest", "err", "total", "framed", "pos", "received", "hit", "sum"} : job'[f] = job[f]
  BY <1>1, <1>2 DEF JobType, NoJob
<1>4. /\ part'[D] = Opened /\ \A d \in Dest \ {D} : part'[d] = part[d]
      /\ D' = D
  BY <1>1, <1>2, <1>3 DEF D
<1>5. part[D] \in Seq(Version) \cup {NoFile} /\ part \in [Dest -> Seq(Version) \cup {NoFile}]
  BY <1>1 DEF FetchInv, DepotTypeOK
<1>6. job.received \in Nat /\ job.received = job.resumed
  BY <1>1 DEF JobType, OpenOK
<1>7. Opened \in Seq(Version) /\ Opened # NoFile /\ Len(Opened) = job.received
      /\ (Opened = part[D] \/ Len(Opened) = 0)
  <2>1. CASE job.resumed > 0
    BY <1>1, <1>5, <1>6, <2>1, DepotAssumption DEF Opened, OpenOK
  <2>2. CASE ~(job.resumed > 0)
    <3>1. Opened = <<>> /\ job.received = 0
      BY <1>1, <1>6, <2>2 DEF Opened, JobType
    <3>2. <<>> \in Seq(Version) /\ Len(<<>>) = 0
      OBVIOUS
    <3> QED BY <3>1, <3>2, DepotAssumption
  <2> QED BY <2>1, <2>2
<1>8. DepotTypeOK'
  <2>1. part' \in [Dest -> Seq(Version) \cup {NoFile}]
    BY <1>1, <1>2, <1>5, <1>7
  <2> QED BY <1>1, <1>2, <1>3, <1>4, <1>7, <2>1 DEF FetchInv, DepotTypeOK
<1>9. (VerifiedIsWanted /\ SingleSourceIsWhole)'
  BY <1>2 DEF FetchInv, VerifiedIsWanted, SingleSourceIsWhole
<1>10. PartsOffered'
  <2> SUFFICES ASSUME NEW d \in Dest, part'[d] # NoFile, NEW k \in 1 .. Len(part'[d])
               PROVE  part'[d][k] \in offered[d]
    BY <1>2 DEF PartsOffered
  <2>1. part'[d] = part[d]
    BY <1>4, <1>7
  <2> QED BY <2>1 DEF FetchInv, TransferInv, PartsOffered
<1>11. Answered' /\ OpenOK'
  BY <1>1, <1>2, <1>3, <1>4, <1>7 DEF Answered, OpenOK
<1>12. (CopiedOK /\ EndedOK /\ LastOK)'
  BY <1>1, <1>3 DEF CopiedOK, EndedOK, LastOK, OpenOK
<1> QED BY <1>8, <1>9, <1>10, <1>11, <1>12 DEF FetchInv, TransferInv

LEMMA ReadBlockFetch ==
  ASSUME FetchInv, ReadBlock
  PROVE  FetchInv'
<1>1. /\ job.pc = "copy" /\ job \in JobType /\ job.src \in Version /\ D \in Dest /\ part[D] # NoFile
      /\ Answered /\ CopiedOK /\ job.pos < Size[job.src]
  BY JobIsTyped DEF FetchInv, TransferInv, DepotTypeOK, ReadBlock, At
<1>2. /\ job' = [job EXCEPT !.pc = "write", !.pos = @ + 1, !.received = @ + 1]
      /\ UNCHANGED <<served, part, final, offered, live, last, holder>>
  BY DEF ReadBlock, disk
<1>3. /\ job' \in JobType /\ job'.pc = "write" /\ job'.pos = job.pos + 1 /\ job'.received = job.received + 1
      /\ job' # NoJob
      /\ \A f \in {"src", "dest", "err", "total", "framed", "hit", "sum"} : job'[f] = job[f]
  <2> DEFINE pos == job.pos + 1
             received == job.received + 1
  <2>1. pos \in Nat /\ received \in Nat
    BY <1>1 DEF JobType
  <2>2. job' = [job EXCEPT !.pc = "write", !.pos = pos, !.received = received]
    BY <1>1, <1>2 DEF JobType
  <2> HIDE DEF pos, received
  <2>3. /\ job' \in JobType /\ job'.pc = "write" /\ job'.pos = pos /\ job'.received = received
        /\ \A f \in {"src", "dest", "err", "total", "framed", "hit", "sum"} : job'[f] = job[f]
    BY <1>1, <2>1, <2>2 DEF JobType
  <2>4. job' # NoJob
    BY <2>3 DEF NoJob
  <2> QED BY <2>3, <2>4 DEF pos, received
<1>4. DepotTypeOK'
  BY <1>1, <1>2, <1>3 DEF FetchInv, DepotTypeOK, D
<1>5. /\ job.received \in Nat /\ job.pos = job.received /\ job.received < Size[job.src] /\ Size[job.src] \in Nat
      /\ Len(part[D]) = job.received
  BY <1>1, DepotAssumption DEF JobType, Answered, Writing
<1>6. Answered' /\ OpenOK'
  BY <1>1, <1>2, <1>3, <1>5 DEF Answered, OpenOK, Writing, D
<1>7. (CopiedOK /\ EndedOK /\ LastOK)'
  BY <1>1, <1>3 DEF CopiedOK, EndedOK, LastOK
<1> QED BY <1>2, <1>4, <1>6, <1>7, DiskStaysFetch

LEMMA WriteBlockFetch ==
  ASSUME FetchInv, WriteBlock
  PROVE  FetchInv'
<1>1. /\ job.pc = "write" /\ job \in JobType /\ job.src \in Version /\ D \in Dest /\ DOMAIN part = Dest
      /\ Answered /\ CopiedOK
  BY JobIsTyped DEF FetchInv, TransferInv, DepotTypeOK, WriteBlock, At
<1>2. /\ job' = [job EXCEPT !.pc = "copy"]
      /\ part' = [part EXCEPT ![D] = Append(@, job.src)]
      /\ UNCHANGED <<served, final, offered, live, last, holder>>
  BY DEF WriteBlock
<1>3. /\ job' \in JobType /\ job'.pc = "copy" /\ job' # NoJob
      /\ \A f \in {"src", "dest", "err", "total", "framed", "pos", "received", "hit", "sum"} : job'[f] = job[f]
  BY <1>1, <1>2 DEF JobType, NoJob
<1>4. /\ part'[D] = Append(part[D], job.src) /\ \A d \in Dest \ {D} : part'[d] = part[d]
      /\ D' = D
  BY <1>1, <1>2, <1>3 DEF D
<1>5. part[D] \in Seq(Version) /\ part \in [Dest -> Seq(Version) \cup {NoFile}]
  BY <1>1 DEF FetchInv, DepotTypeOK
<1>6. /\ job.received \in Nat /\ Len(part[D]) \in Nat /\ Len(part[D]) + 1 = job.received
      /\ job.src \in offered[D]
  BY <1>1, <1>5 DEF JobType, Answered, Writing
<1>7. /\ part'[D] \in Seq(Version) /\ part'[D] # NoFile /\ Len(part'[D]) = job.received
      /\ \A k \in 1 .. job.received : part'[D][k] = IF k = job.received THEN job.src ELSE part[D][k]
  <2> DEFINE s == part[D]
             t == Append(s, job.src)
  <2>1. s \in Seq(Version) /\ job.src \in Version /\ Len(s) + 1 = job.received /\ part'[D] = t
    BY <1>1, <1>4, <1>5, <1>6
  <2> HIDE DEF s
  <2>2. /\ t \in Seq(Version) /\ Len(t) = Len(s) + 1
        /\ \A k \in 1 .. Len(s) + 1 : t[k] = IF k = Len(s) + 1 THEN job.src ELSE s[k]
    BY <2>1, AppendAddsBlock
  <2>3. t # NoFile
    BY <2>2, DepotAssumption
  <2> HIDE DEF t
  <2> QED BY <2>1, <2>2, <2>3 DEF s
<1>8. DepotTypeOK'
  <2>1. part' \in [Dest -> Seq(Version) \cup {NoFile}]
    BY <1>1, <1>2, <1>4, <1>5, <1>7
  <2> QED BY <1>1, <1>2, <1>3, <1>4, <1>7, <2>1 DEF FetchInv, DepotTypeOK
<1>9. (VerifiedIsWanted /\ SingleSourceIsWhole)'
  BY <1>2 DEF FetchInv, VerifiedIsWanted, SingleSourceIsWhole
<1>10. PartsOffered'
  <2> SUFFICES ASSUME NEW d \in Dest, part'[d] # NoFile, NEW k \in 1 .. Len(part'[d])
               PROVE  part'[d][k] \in offered[d]
    BY <1>2 DEF PartsOffered
  <2>1. CASE d = D
    <3>1. k \in 1 .. job.received /\ (k # job.received => k \in 1 .. Len(part[D]))
      BY <1>6, <1>7, <2>1
    <3>2. part[D] # NoFile => \A n \in 1 .. Len(part[D]) : part[D][n] \in offered[D]
      BY <1>1 DEF FetchInv, TransferInv, PartsOffered
    <3>3. part[D] # NoFile
      BY <1>5, DepotAssumption
    <3> QED BY <1>6, <1>7, <2>1, <3>1, <3>2, <3>3
  <2>2. CASE d # D
    BY <1>4, <2>2 DEF FetchInv, TransferInv, PartsOffered
  <2> QED BY <2>1, <2>2
<1>11. Answered' /\ OpenOK'
  BY <1>1, <1>2, <1>3, <1>4, <1>6, <1>7 DEF Answered, OpenOK, Writing
<1>12. (CopiedOK /\ EndedOK /\ LastOK)'
  BY <1>1, <1>3 DEF CopiedOK, EndedOK, LastOK
<1> QED BY <1>8, <1>9, <1>10, <1>11, <1>12 DEF FetchInv, TransferInv

\* The copy is over: the checksum is next, if one was given, and the name otherwise.
LEMMA CopiedFetch ==
  ASSUME FetchInv, job.pc = "copy", NEW hit \in BOOLEAN,
         job' = [job EXCEPT !.pc = AfterCopy, !.hit = hit],
         job.framed \/ ~hit => job.received = Size[job.src],
         UNCHANGED <<served, part, final, offered, live, last, holder>>
  PROVE  FetchInv'
<1>1. job \in JobType /\ job.src \in Version /\ part[D] # NoFile /\ Answered /\ CopiedOK
  BY JobIsTyped DEF FetchInv, TransferInv, DepotTypeOK
<1>2. AfterCopy \in {"rename", "verify"} /\ (job.sum # NoSum => AfterCopy = "verify") /\ (AfterCopy = "verify" => job.sum # NoSum)
  BY DEF AfterCopy
<1>3. /\ job' \in JobType /\ job'.pc = AfterCopy /\ job'.hit = hit /\ job' # NoJob
      /\ \A f \in {"src", "dest", "err", "total", "framed", "pos", "received", "sum"} : job'[f] = job[f]
  BY <1>1, <1>2 DEF JobType, NoJob
<1>4. DepotTypeOK'
  BY <1>1, <1>2, <1>3 DEF FetchInv, DepotTypeOK, D
<1>5. Answered' /\ OpenOK'
  BY <1>1, <1>2, <1>3 DEF Answered, OpenOK, Writing, D
<1>6. (CopiedOK /\ EndedOK /\ LastOK)'
  BY <1>1, <1>2, <1>3 DEF CopiedOK, EndedOK, LastOK
<1> QED BY <1>4, <1>5, <1>6, DiskStaysFetch

LEMMA CopyEndFetch ==
  ASSUME FetchInv, CopyEnd
  PROVE  FetchInv'
<1>1. job.pc = "copy" /\ job.pos = Size[job.src] /\ job \in JobType /\ Answered /\ CopiedOK
  BY JobIsTyped DEF FetchInv, TransferInv, CopyEnd, At
<1>2. job.hit = FALSE /\ job.received = Size[job.src]
  BY <1>1 DEF CopiedOK, Answered, Writing, JobType
<1>3. job' = [job EXCEPT !.pc = AfterCopy, !.hit = FALSE]
  BY <1>1, <1>2 DEF CopyEnd, JobType
<1> QED BY <1>1, <1>2, <1>3, CopiedFetch DEF CopyEnd, disk

LEMMA FaultFetch ==
  ASSUME FetchInv, Fault
  PROVE  FetchInv'
<1>1. job.pc # "none" /\ job \in JobType
  BY JobIsTyped DEF FetchInv, Fault
<1>2. CASE job' = [job EXCEPT !.pc = "ended", !.err = "fault", !.hit = TRUE]
  BY <1>1, <1>2, EndsFetch DEF Fault, disk
<1>3. CASE Unnoticed /\ job' = [job EXCEPT !.pc = AfterCopy, !.hit = TRUE]
  BY <1>3, CopiedFetch DEF Fault, disk, Unnoticed, At
<1> QED BY <1>2, <1>3 DEF Fault

\* A checksum that does not match although the server marked the end of its body
\* is one of blocks that another version offered.
LEMMA VerifyFetch ==
  ASSUME FetchInv, Verify
  PROVE  FetchInv'
<1>1. /\ job.pc = "verify" /\ job \in JobType /\ job.src \in Version /\ D \in Dest /\ part[D] \in Seq(Version)
      /\ Answered /\ CopiedOK /\ PartsOffered
  BY JobIsTyped DEF FetchInv, TransferInv, DepotTypeOK, Verify, At
<1>2. UNCHANGED <<served, part, final, offered, live, last, holder>>
  BY DEF Verify, disk
<1>3. CASE SumMatches
  <2>1. job' = [job EXCEPT !.pc = "rename"]
    BY <1>3 DEF Verify
  <2>2. /\ job' \in JobType /\ job'.pc = "rename" /\ job' # NoJob
        /\ \A f \in {"src", "dest", "err", "total", "framed", "pos", "received", "hit", "sum"} : job'[f] = job[f]
    BY <1>1, <2>1 DEF JobType, NoJob
  <2>3. D' = D
    BY <2>2 DEF D
  <2>4. DepotTypeOK'
    BY <1>1, <1>2, <2>2, <2>3 DEF FetchInv, DepotTypeOK
  <2>5. Answered' /\ OpenOK'
    BY <1>1, <1>2, <2>2, <2>3 DEF Answered, OpenOK, Writing
  <2>6. (CopiedOK /\ EndedOK /\ LastOK)'
    <3>1. part[D] = Whole(job.sum)
      BY <1>3 DEF SumMatches
    <3> QED BY <1>1, <1>2, <2>2, <2>3, <3>1 DEF CopiedOK, EndedOK, LastOK, Whole
  <2> QED BY <1>2, <2>4, <2>5, <2>6, DiskStaysFetch
<1>4. CASE ~SumMatches
  <2>1. job' = [job EXCEPT !.pc = "ended", !.err = "mismatch", !.hit = job.hit]
    BY <1>1, <1>4 DEF Verify, Fails, JobType
  <2>2. ~job.hit => MismatchOK(D, job.sum)
    <3> SUFFICES ASSUME ~job.hit, offered[D] = {job.sum} PROVE FALSE
      BY <1>1, DepotAssumption DEF MismatchOK
    <3>1. job.src = job.sum /\ Len(part[D]) = Size[job.src]
      BY <1>1 DEF Answered, CopiedOK, Writing
    <3>2. \A k \in 1 .. Len(part[D]) : part[D][k] = job.src
      BY <1>1, <3>1, DepotAssumption DEF PartsOffered
    <3>3. part[D] = Whole(job.src)
      BY <1>1, <3>1, <3>2, SoleBlocksAreWhole
    <3> QED BY <1>4, <3>1, <3>3 DEF SumMatches
  <2>3. job.pc # "none" /\ job.hit \in BOOLEAN
    BY <1>1 DEF JobType
  <2> QED BY <1>2, <2>1, <2>2, <2>3, EndsFetch
<1> QED BY <1>3, <1>4

LEMMA RenameFetch ==
  ASSUME FetchInv, Rename
  PROVE  FetchInv'
<1> DEFINE b == [data |-> part[D], sum |-> job.sum, sole |-> job.framed /\ offered[D] = {job.src}]
<1>1. /\ job.pc = "rename" /\ job \in JobType /\ job.src \in Version /\ D \in Dest /\ part[D] \in Seq(Version)
      /\ part \in [Dest -> Seq(Version) \cup {NoFile}] /\ offered \in [Dest -> SUBSET Version]
      /\ final \in [Dest -> {Absent} \cup Bundles]
      /\ Answered /\ CopiedOK /\ PartsOffered
  BY JobIsTyped DEF FetchInv, TransferInv, DepotTypeOK, Bundles, Rename, At
<1>2. /\ final' = [final EXCEPT ![D] = b] /\ part' = [part EXCEPT ![D] = NoFile]
      /\ offered' = [offered EXCEPT ![D] = {}] /\ job' = [job EXCEPT !.pc = "ended"]
      /\ UNCHANGED <<served, live, last, holder>>
  BY DEF Rename
<1>3. /\ b.data = part[D] /\ b.sum = job.sum /\ b.sole = (job.framed /\ offered[D] = {job.src}) /\ b \in Bundles
  <2>1. (job.framed /\ offered[D] = {job.src}) \in BOOLEAN
    OBVIOUS
  <2>2. job.sum \in Version \cup {NoSum}
    BY <1>1 DEF JobType
  <2> QED BY <1>1, <2>1, <2>2 DEF Bundles
<1>4. b # Absent
  BY <1>1, <1>3, DepotAssumption DEF Absent
<1> HIDE DEF b
<1>5. /\ job' \in JobType /\ job'.pc = "ended" /\ job' # NoJob
      /\ \A f \in {"src", "dest", "err", "total", "received", "hit", "sum"} : job'[f] = job[f]
  BY <1>1, <1>2 DEF JobType, NoJob
<1>6. /\ D' = D /\ final'[D] = b /\ \A d \in Dest \ {D} : final'[d] = final[d]
      /\ part'[D] = NoFile /\ \A d \in Dest \ {D} : part'[d] = part[d] /\ offered'[d] = offered[d]
  BY <1>1, <1>2, <1>5 DEF D
<1>7. DepotTypeOK'
  <2>1. part' \in [Dest -> Seq(Version) \cup {NoFile}] /\ offered' \in [Dest -> SUBSET Version]
    BY <1>1, <1>2
  <2>2. final' \in [Dest -> {Absent} \cup Bundles]
    BY <1>1, <1>2, <1>3
  <2> QED BY <1>2, <1>5, <2>1, <2>2 DEF FetchInv, DepotTypeOK, Bundles
<1>8. VerifiedIsWanted'
  <2>1. b.sum # NoSum => b.data = Whole(b.sum)
    BY <1>1, <1>3 DEF CopiedOK
  <2> QED BY <1>6, <2>1 DEF FetchInv, VerifiedIsWanted
<1>9. SingleSourceIsWhole'
  <2>1. ASSUME b.sole PROVE b.data = Whole(job.src)
    <3>1. job.framed /\ offered[D] = {job.src}
      BY <1>3, <2>1
    <3>2. Len(part[D]) = Size[job.src]
      BY <1>1, <3>1 DEF Answered, CopiedOK, Writing
    <3>3. \A k \in 1 .. Len(part[D]) : part[D][k] = job.src
      BY <1>1, <3>1, DepotAssumption DEF PartsOffered
    <3> QED BY <1>1, <1>3, <3>2, <3>3, SoleBlocksAreWhole
  <2> QED BY <1>1, <1>6, <2>1 DEF FetchInv, SingleSourceIsWhole
<1>10. PartsOffered'
  BY <1>1, <1>6 DEF PartsOffered
<1>11. Answered' /\ OpenOK' /\ CopiedOK' /\ LastOK'
  BY <1>5 DEF Answered, OpenOK, CopiedOK, LastOK, Writing
<1>12. EndedOK'
  <2>1. job.err = "none" /\ Len(part[D]) = job.received /\ (job.total # 0 => job.received = job.total)
    BY <1>1 DEF Answered, CopiedOK, Writing
  <2> QED BY <1>3, <1>4, <1>5, <1>6, <2>1 DEF EndedOK, DoneOK
<1> QED BY <1>7, <1>8, <1>9, <1>10, <1>11, <1>12 DEF FetchInv, TransferInv

LEMMA NextFetch == FetchInv /\ [DepotNext]_depotVars => FetchInv'
<1> SUFFICES ASSUME FetchInv, [DepotNext]_depotVars PROVE FetchInv'
  OBVIOUS
<1>1. CASE Transfer
  BY <1>1, RespondFetch, OpenPartFetch, ReadBlockFetch, WriteBlockFetch, CopyEndFetch, VerifyFetch, RenameFetch, InterruptedFetch,
     FinishFetch DEF Transfer
<1> QED BY <1>1, EnvironmentFetch, StartFetch, CrashFetch, FaultFetch DEF DepotNext
-----------------------------------------------------------------------------
(* The theorems.                                                           *)

LEMMA FetchInvariant == DepotSpec => []FetchInv
  BY InitFetch, NextFetch, PTL DEF DepotSpec

\* fetch.go:39-41 "the final name appears only after the transfer (and its checksum,
\* when given) is good", and server/depot.go's status: whatever attempts, versions,
\* cancels and faults a part file is made of, what was asked for with a checksum is
\* that version, what one version alone was offered for is whole, and the page shows
\* what is on disk, or the one block more that has been read and not yet written.
THEOREM BundlesAreSoundHolds == DepotSpec => []BundlesAreSound
<1>1. FetchInv => BundlesAreSound
  <2> SUFFICES ASSUME FetchInv PROVE ProgressIsOnDisk
    BY DEF FetchInv, BundlesAreSound
  <2>1. /\ job.pc \in {"copy", "verify", "rename"} => StatusSeen.received = Len(part[D])
        /\ job.pc = "write" => StatusSeen.received = Len(part[D]) + 1
    <3> SUFFICES ASSUME job.pc \in Writing PROVE StatusSeen.received = job.received
      BY DEF FetchInv, TransferInv, Answered, Writing
    <3>1. job # NoJob
      BY DEF NoJob, Writing
    <3> QED BY <3>1 DEF StatusSeen
  <2>2. job = NoJob /\ last.stage = "done" => DoneOK(last.dest, last.received, last.total)
    BY DEF FetchInv, TransferInv, LastOK
  <2> QED BY <2>1, <2>2 DEF ProgressIsOnDisk, DoneOK, At
<1> QED BY <1>1, FetchInvariant, PTL

\* fetch.go:222-247 and 283-294: a transfer that nothing disturbed fails only because
\* its part file is already as long as the file on the server, or because another
\* version than the one its checksum names was offered.
THEOREM QuietFailureIsExplainedHolds == DepotSpec => []QuietFailureIsExplained
<1>1. FetchInv => QuietFailureIsExplained
  BY DEF FetchInv, TransferInv, LastOK, RefusedOK, MismatchOK, QuietFailureIsExplained
<1> QED BY <1>1, FetchInvariant, PTL
-----------------------------------------------------------------------------
ServInv ==
    /\ answered <= saved.ver /\ \A t \in Thread : mine[t] <= saved.ver
    /\ \A t \in Thread : thread[t] = "closed" => cur = 0 /\ \A u \in Thread \ {t} : thread[u] # "closed"
    /\ \A i \in DOMAIN server : i # cur => server[i].closing /\ server[i].st # "serving"
    /\ cur # 0 => server[cur].ver >= answered

TableInv ==
    \A i \in DOMAIN server : \A n \in DOMAIN Table(i) : n <= Len(Table(i)) - Retained => Table(i)[n] = None

Told(c) ==
    /\ req[c].srv \in DOMAIN server /\ req[c].id \in DOMAIN Table(req[c].srv)
    /\ Table(req[c].srv)[req[c].id] \in {c, None}
    /\ Len(Table(req[c].srv)) - req[c].id < Retained => Table(req[c].srv)[req[c].id] = c
ClientOK(c) ==
    /\ dir[c].csr \in {c, None} /\ dir[c].crt \in {c, None}
    /\ req[c].pc = "put" => req[c].leaf = c /\ req[c].srv \in DOMAIN server
    /\ req[c].pc = "answered" => Told(c)
    /\ req[c].pc = "done" /\ req[c].at = req[c].srv => req[c].leaf \in {c, None}
ClientInv == \A c \in Client : ClientOK(c)

IInv == TypeOK /\ ServInv /\ TableInv /\ ClientInv
-----------------------------------------------------------------------------
\* A function on the places of a sequence is a sequence as long.
LEMMA MapSeq ==
    ASSUME NEW S, NEW s \in Seq(S), NEW T, NEW f \in [DOMAIN s -> T]
    PROVE  f \in Seq(T) /\ Len(f) = Len(s) /\ DOMAIN f = DOMAIN s
<1>1. Len(s) \in Nat /\ DOMAIN s = 1 .. Len(s)
  BY LenProperties
<1>2. f \in [1 .. Len(s) -> T]
  BY <1>1
<1> QED BY <1>1, <1>2

\* The places of the servers, and their tables.
LEMMA Places ==
    ASSUME TypeOK
    PROVE  /\ Len(server) \in Nat /\ DOMAIN server = 1 .. Len(server)
           /\ \A i \in DOMAIN server : /\ server[i] \in ServerType /\ Table(i) \in Seq(Client \cup {None})
                                       /\ Len(Table(i)) \in Nat /\ DOMAIN Table(i) = 1 .. Len(Table(i))
<1>1. Len(server) \in Nat /\ DOMAIN server = 1 .. Len(server) /\ server \in [1 .. Len(server) -> ServerType]
  BY LenProperties DEF TypeOK
<1>2. ASSUME NEW i \in DOMAIN server
      PROVE  /\ server[i] \in ServerType /\ Table(i) \in Seq(Client \cup {None})
             /\ Len(Table(i)) \in Nat /\ DOMAIN Table(i) = 1 .. Len(Table(i))
  <2>1. server[i] \in ServerType /\ Table(i) \in Seq(Client \cup {None})
    BY <1>1 DEF ServerType, Table
  <2> QED BY <2>1, LenProperties
<1> QED BY <1>1, <1>2

\* The three ways servers change: some of them step, one is added, or they stay.
LEMMA TablesKept ==
    ASSUME IInv, server' \in Seq(ServerType), DOMAIN server' = DOMAIN server,
           \A i \in DOMAIN server : server'[i].issued = server[i].issued
    PROVE  TableInv' /\ Len(server') = Len(server)
<1>1. Len(server') = Len(server)
  BY LenProperties DEF IInv, TypeOK
<1> QED BY <1>1 DEF IInv, TableInv, Table

LEMMA ClientsKept ==
    ASSUME IInv, UNCHANGED <<dir, req>>, DOMAIN server \subseteq DOMAIN server',
           \A i \in DOMAIN server : server'[i].issued = server[i].issued
    PROVE  ClientInv'
  BY DEF IInv, ClientInv, ClientOK, Told, Table

LEMMA ReqTyped ==
    ASSUME IInv, UNCHANGED req, Len(server') \in Nat, Len(server') >= Len(server)
    PROVE  /\ req' \in [Client -> [pc : {"idle", "dir", "sign", "read", "put", "answered", "done", "refused"},
                                   srv : 0 .. Len(server'), at : 0 .. Len(server'), id : Nat,
                                   leaf : Client \cup {None}]]
           /\ \A c \in Client : req'[c].pc = "put" => req'[c].leaf # None
<1>1. 0 .. Len(server) \subseteq 0 .. Len(server')
  BY Places DEF IInv
<1> QED BY <1>1 DEF IInv, TypeOK
-----------------------------------------------------------------------------
LEMMA InitInv == Init => IInv
<1> SUFFICES ASSUME Init PROVE IInv
  OBVIOUS
<1>1. server = <<>> /\ server \in Seq(ServerType) /\ Len(server) = 0 /\ DOMAIN server = {}
  BY DEF Init
<1>2. TypeOK
  <2>1. /\ saved \in [ver : 0 .. MaxSaves, kind : Kind] /\ thread \in [Thread -> {"idle", "saved", "closed"}]
        /\ mine \in [Thread -> 0 .. MaxSaves] /\ answered \in 0 .. MaxSaves
        /\ spent \in [requests : 0 .. MaxRequests, restarts : 0 .. MaxRestarts]
    BY CertsrvAssumption DEF Init
  <2>2. cur \in 0 .. Len(server) /\ port \in 0 .. Len(server)
    BY <1>1 DEF Init
  <2>3. robbed \in BOOLEAN
    BY Zenon DEF Init
  <2>4. dir \in [Client -> [csr : Client \cup {None}, crt : Client \cup {None}]]
    BY DEF Init, NoDir
  <2>5. req \in [Client -> [pc : {"idle", "dir", "sign", "read", "put", "answered", "done", "refused"},
                           srv : 0 .. Len(server), at : 0 .. Len(server), id : Nat,
                           leaf : Client \cup {None}]]
    BY <1>1 DEF Init, Idle
  <2>6. \A c \in Client : req[c].pc = "put" => req[c].leaf # None
    BY DEF Init, Idle
  <2> QED BY <1>1, <2>1, <2>2, <2>3, <2>4, <2>5, <2>6 DEF TypeOK
<1>3. ServInv
  BY <1>1 DEF Init, ServInv, Thread
<1>4. TableInv
  BY <1>1 DEF TableInv
<1>5. ClientInv
  BY DEF Init, ClientInv, ClientOK, NoDir, Idle
<1> QED BY <1>2, <1>3, <1>4, <1>5 DEF IInv
-----------------------------------------------------------------------------
LEMMA SaveInv ==
    ASSUME IInv, NEW t \in Saver, Save(t)
    PROVE  IInv'
<1>1. /\ saved.ver < MaxSaves /\ thread[t] = "idle" /\ mine' = [mine EXCEPT ![t] = saved.ver + 1]
      /\ thread' = [thread EXCEPT ![t] = "saved"] /\ UNCHANGED <<answered, serverVars, dir, req, spent>>
  BY DEF Save
<1>2. saved' \in [ver : {saved.ver + 1}, kind : Kind] /\ t \in Thread
  BY DEF Save, Thread
<1>3. TypeOK'
  <2>1. saved' \in [ver : 0 .. MaxSaves, kind : Kind] /\ mine' \in [Thread -> 0 .. MaxSaves]
        /\ thread' \in [Thread -> {"idle", "saved", "closed"}]
    BY <1>1, <1>2, CertsrvAssumption DEF IInv, TypeOK
  <2> QED BY <1>1, <2>1 DEF IInv, TypeOK, serverVars
<1>4. ServInv'
  BY <1>1, <1>2, CertsrvAssumption DEF IInv, TypeOK, ServInv, serverVars
<1>5. TableInv' /\ ClientInv'
  BY <1>1, TablesKept, ClientsKept DEF IInv, TypeOK, serverVars
<1> QED BY <1>3, <1>4, <1>5 DEF IInv

LEMMA CloseOldInv ==
    ASSUME IInv, NEW t \in Thread, CloseOld(t)
    PROVE  IInv'
<1>1. /\ thread[t] = "saved" /\ LockFree(t) /\ thread' = [thread EXCEPT ![t] = "closed"] /\ cur' = 0
      /\ server' = [i \in DOMAIN server |-> IF i = cur THEN Closed(server[i]) ELSE server[i]]
      /\ port' = (IF port # 0 /\ server'[port].st = "over" THEN 0 ELSE port)
      /\ UNCHANGED <<saved, mine, answered, robbed, dir, req, spent>>
  BY DEF CloseOld
<1>2. server' \in [DOMAIN server -> ServerType]
  <2>1. \A i \in DOMAIN server : Closed(server[i]) \in ServerType
    BY Places DEF IInv, Closed, ServerType
  <2> QED BY <1>1, <2>1, Places DEF IInv
<1>3. server' \in Seq(ServerType) /\ DOMAIN server' = DOMAIN server /\ Len(server') = Len(server)
  BY <1>2, MapSeq DEF IInv, TypeOK
<1>4. \A i \in DOMAIN server : server'[i].issued = server[i].issued
  BY <1>1, Places DEF Closed, IInv, ServerType
<1>5. TypeOK'
  <2>1. /\ thread' \in [Thread -> {"idle", "saved", "closed"}]
        /\ cur' \in 0 .. Len(server') /\ port' \in 0 .. Len(server')
    BY <1>1, <1>3, Places DEF IInv, TypeOK
  <2> QED BY <1>1, <1>3, <2>1, ReqTyped, Places DEF IInv, TypeOK
<1>6. ServInv'
  <2>1. \A i \in DOMAIN server : server'[i].closing /\ server'[i].st # "serving"
    BY <1>1, Places DEF Closed, IInv, ServInv, ServerType
  <2>2. \A u \in Thread : thread'[u] = "closed" => u = t
    BY <1>1 DEF LockFree, IInv, TypeOK
  <2> QED BY <1>1, <1>3, <2>1, <2>2 DEF IInv, ServInv
<1>7. TableInv' /\ ClientInv'
  BY <1>1, <1>3, <1>4, TablesKept, ClientsKept
<1> QED BY <1>5, <1>6, <1>7 DEF IInv

LEMMA RebindInv ==
    ASSUME IInv, NEW t \in Thread, Rebind(t)
    PROVE  IInv'
<1>1. /\ thread[t] = "closed" /\ thread' = [thread EXCEPT ![t] = "idle"]
      /\ answered' = (IF mine[t] > answered THEN mine[t] ELSE answered) /\ robbed' = FALSE
      /\ UNCHANGED <<saved, mine, port, dir, req, spent>>
  BY DEF Rebind
<1>2. saved.ver \in 0 .. MaxSaves /\ mine[t] \in 0 .. MaxSaves /\ answered \in 0 .. MaxSaves /\ MaxSaves \in Nat
  BY CertsrvAssumption DEF IInv, TypeOK
<1>3. answered' \in 0 .. MaxSaves /\ answered' <= saved.ver
  BY <1>1, <1>2 DEF IInv, ServInv
<1>4. cur = 0 /\ \A u \in Thread : thread'[u] # "closed"
  BY <1>1 DEF IInv, ServInv, TypeOK
<1>5. robbed' \in BOOLEAN
  BY <1>1, Zenon
<1>6. thread' \in [Thread -> {"idle", "saved", "closed"}]
  BY <1>1 DEF IInv, TypeOK
<1>7. CASE UNCHANGED <<server, cur>>
  <2>1. TypeOK'
    BY <1>1, <1>3, <1>5, <1>6, <1>7 DEF IInv, TypeOK
  <2>2. ServInv'
    BY <1>1, <1>3, <1>4, <1>7 DEF IInv, ServInv
  <2>3. TableInv' /\ ClientInv'
    BY <1>1, <1>7, TablesKept, ClientsKept DEF IInv, TypeOK
  <2> QED BY <2>1, <2>2, <2>3 DEF IInv
<1> DEFINE s == [st |-> "spawned", closing |-> FALSE, ver |-> saved.ver, issued |-> <<>>]
<1>8. CASE server' = Append(server, s) /\ cur' = Len(server) + 1
  <2>1. s \in ServerType /\ s.closing = FALSE /\ s.ver = saved.ver /\ s.issued = <<>> /\ s.st = "spawned"
    BY <1>2 DEF ServerType
  <2> HIDE DEF s
  <2>2. /\ server' \in Seq(ServerType) /\ Len(server') = Len(server) + 1 /\ server'[Len(server) + 1] = s
        /\ DOMAIN server' = 1 .. Len(server) + 1
        /\ \A i \in DOMAIN server : server'[i] = server[i]
    BY <1>8, <2>1, AppendProperties, LenProperties, Places DEF IInv, TypeOK
  <2>3. TypeOK'
    <3>1. cur' \in 0 .. Len(server') /\ port' \in 0 .. Len(server')
      BY <1>1, <1>8, <2>2, Places DEF IInv, TypeOK
    <3>2. Len(server') \in Nat /\ Len(server') >= Len(server)
      BY <2>2, Places DEF IInv
    <3>3. /\ req' \in [Client -> [pc : {"idle", "dir", "sign", "read", "put", "answered", "done", "refused"},
                                   srv : 0 .. Len(server'), at : 0 .. Len(server'), id : Nat,
                                   leaf : Client \cup {None}]]
          /\ \A c \in Client : req'[c].pc = "put" => req'[c].leaf # None
      BY <1>1, <3>2, ReqTyped
    <3> QED BY <1>1, <1>3, <1>5, <1>6, <2>2, <3>1, <3>3 DEF IInv, TypeOK
  <2>4. ServInv'
    <3>1. \A i \in DOMAIN server' : i # cur' => server'[i].closing /\ server'[i].st # "serving"
      BY <1>4, <1>8, <2>2, Places DEF IInv, ServInv
    <3>2. server'[cur'].ver >= answered'
      BY <1>2, <1>3, <1>8, <2>1, <2>2
    <3> QED BY <1>1, <1>3, <1>4, <3>1, <3>2 DEF IInv, ServInv
  <2>5. TableInv'
    <3> SUFFICES ASSUME NEW i \in DOMAIN server', NEW n \in DOMAIN server'[i].issued,
                        n <= Len(server'[i].issued) - Retained
                 PROVE  server'[i].issued[n] = None
      BY DEF TableInv, Table
    <3>1. CASE i \in DOMAIN server
      BY <2>2, <3>1 DEF IInv, TableInv, Table
    <3>2. CASE i = Len(server) + 1
      BY <2>1, <2>2, <3>2
    <3> QED BY <2>2, <3>1, <3>2, Places DEF IInv
  <2>6. ClientInv'
    BY <1>1, <2>2, ClientsKept, Places DEF IInv
  <2> QED BY <2>3, <2>4, <2>5, <2>6 DEF IInv
<1> QED BY <1>7, <1>8 DEF Rebind, Loaded

\* A goroutine moves its server on; it serves only what was not closed.
LEMMA MovesInv ==
    ASSUME IInv, NEW i \in DOMAIN server, NEW st \in {"checked", "listening", "serving", "over"}, Moves(i, st),
           ServerStep(i), st = "serving" => ~server[i].closing, port' \in 0 .. Len(server), robbed' \in BOOLEAN
    PROVE  IInv'
<1>1. server' = [server EXCEPT ![i].st = st] /\ UNCHANGED <<saved, thread, mine, answered, cur, dir, req, spent>>
  BY DEF Moves, ServerStep, saverVars
<1>2. server' \in [DOMAIN server -> ServerType]
  BY <1>1, Places DEF IInv, ServerType
<1>3. server' \in Seq(ServerType) /\ DOMAIN server' = DOMAIN server /\ Len(server') = Len(server)
  BY <1>2, MapSeq DEF IInv, TypeOK
<1>4. \A j \in DOMAIN server : /\ server'[j].issued = server[j].issued /\ server'[j].closing = server[j].closing
                               /\ server'[j].ver = server[j].ver /\ (j # i => server'[j].st = server[j].st)
                               /\ server'[i].st = st
  BY <1>1, Places DEF IInv, ServerType
<1>5. TypeOK'
  BY <1>1, <1>3, ReqTyped, Places DEF IInv, TypeOK
<1>6. ServInv'
  <2>1. \A j \in DOMAIN server' : j # cur' => server'[j].closing /\ server'[j].st # "serving"
    BY <1>1, <1>3, <1>4 DEF IInv, ServInv
  <2>2. cur' # 0 => server'[cur'].ver >= answered'
    BY <1>1, <1>4, Places DEF IInv, ServInv, TypeOK
  <2> QED BY <1>1, <2>1, <2>2 DEF IInv, ServInv
<1>7. TableInv' /\ ClientInv'
  BY <1>1, <1>3, <1>4, TablesKept, ClientsKept
<1> QED BY <1>5, <1>6, <1>7 DEF IInv

LEMMA GoroutineInv ==
    ASSUME IInv, NEW i \in DOMAIN server, Goroutine(i)
    PROVE  IInv'
<1>1. CASE CheckClosed(i)
  <2>1. port' \in 0 .. Len(server) /\ robbed' \in BOOLEAN
    BY <1>1 DEF CheckClosed, IInv, TypeOK
  <2> QED BY <1>1, <2>1, MovesInv DEF CheckClosed
<1>2. CASE Listen(i)
  <2>1. port' \in 0 .. Len(server)
    BY <1>2, Places DEF Listen, IInv, TypeOK
  <2>2. robbed' \in BOOLEAN
    BY <1>2, Places DEF Listen, IInv, TypeOK, ServerType
  <2> QED BY <1>2, <2>1, <2>2, MovesInv DEF Listen
<1>3. CASE Serve(i)
  <2>1. port' \in 0 .. Len(server) /\ robbed' \in BOOLEAN
    BY <1>3, Places DEF Serve, IInv, TypeOK
  <2> QED BY <1>3, <2>1, MovesInv DEF Serve
<1> QED BY <1>1, <1>2, <1>3 DEF Goroutine
-----------------------------------------------------------------------------
ReqType ==
    [pc : {"idle", "dir", "sign", "read", "put", "answered", "done", "refused"},
     srv : 0 .. Len(server), at : 0 .. Len(server), id : Nat, leaf : Client \cup {None}]
DirType == [csr : Client \cup {None}, crt : Client \cup {None}]

\* A step of client c that leaves the servers alone.
LEMMA ClientStepInv ==
    ASSUME IInv, NEW c \in Client, NEW q \in ReqType, NEW d \in DirType,
           req' = [req EXCEPT ![c] = q], dir' = [dir EXCEPT ![c] = d], UNCHANGED <<saverVars, serverVars>>,
           spent' \in [requests : 0 .. MaxRequests, restarts : 0 .. MaxRestarts],
           d.csr \in {c, None}, d.crt \in {c, None},
           q.pc = "put" => q.leaf = c /\ q.srv \in DOMAIN server,
           q.pc # "answered",
           q.pc = "done" /\ q.at = q.srv => q.leaf \in {c, None}
    PROVE  IInv'
<1>1. UNCHANGED <<saved, thread, mine, answered, cur, server, port, robbed>>
  BY DEF saverVars, serverVars
<1>2. TypeOK'
  <2>1. req' \in [Client -> ReqType] /\ dir' \in [Client -> DirType]
    BY DEF IInv, TypeOK, ReqType, DirType
  <2>2. \A e \in Client : req'[e].pc = "put" => req'[e].leaf # None
    BY CertsrvAssumption DEF IInv, TypeOK
  <2> QED BY <1>1, <2>1, <2>2 DEF IInv, TypeOK, ReqType, DirType
<1>3. ServInv' /\ TableInv'
  BY <1>1 DEF IInv, ServInv, TableInv, Table
<1>4. ClientInv'
  <2> SUFFICES ASSUME NEW e \in Client PROVE ClientOK(e)'
    BY DEF ClientInv
  <2>1. CASE e = c
    <3>1. req'[e] = q /\ dir'[e] = d
      BY <2>1 DEF IInv, TypeOK
    <3> QED BY <1>1, <2>1, <3>1 DEF ClientOK
  <2>2. CASE e # c
    <3>1. req'[e] = req[e] /\ dir'[e] = dir[e]
      BY <2>2 DEF IInv, TypeOK
    <3> QED BY <1>1, <3>1 DEF IInv, ClientInv, ClientOK, Told, Table
  <2> QED BY <2>1, <2>2
<1> QED BY <1>2, <1>3, <1>4 DEF IInv

\* What is known of a client and its directory.
LEMMA ClientFacts ==
    ASSUME IInv, NEW c \in Client
    PROVE  /\ req[c] \in ReqType /\ dir[c] \in DirType /\ ClientOK(c)
           /\ dir' = dir => dir' = [dir EXCEPT ![c] = dir[c]]
           /\ NoDir \in DirType /\ NoDir.csr = None /\ NoDir.crt = None
  BY DEF IInv, TypeOK, ReqType, DirType, ClientInv, NoDir

LEMMA AsksInv ==
    ASSUME IInv, NEW c \in Client, Submit(c) \/ Upload(c)
    PROVE  IInv'
<1>1. spent' \in [requests : 0 .. MaxRequests, restarts : 0 .. MaxRestarts]
  <2>1. MaxRequests \in Nat
    BY CertsrvAssumption
  <2>2. spent.requests < MaxRequests /\ spent' = [spent EXCEPT !.requests = @ + 1]
    BY DEF Submit, Upload, Asks
  <2>3. spent \in [requests : 0 .. MaxRequests, restarts : 0 .. MaxRestarts]
    BY DEF IInv, TypeOK
  <2> QED BY <2>1, <2>2, <2>3
<1>2. dir' = dir /\ UNCHANGED <<saverVars, serverVars>>
  BY DEF Submit, Upload
<1>3. dir' = [dir EXCEPT ![c] = dir[c]] /\ dir[c] \in DirType /\ dir[c].csr \in {c, None} /\ dir[c].crt \in {c, None}
  BY <1>2, ClientFacts DEF ClientOK
<1>4. ASSUME NEW q \in ReqType, q.pc = "dir", req' = [req EXCEPT ![c] = q] PROVE IInv'
  BY <1>1, <1>2, <1>3, <1>4, ClientStepInv
<1>5. CASE Submit(c)
  <2>1. port \in 0 .. Len(server)
    BY DEF IInv, TypeOK
  <2>2. [Idle EXCEPT !.pc = "dir", !.srv = port] \in ReqType /\ [Idle EXCEPT !.pc = "dir", !.srv = port].pc = "dir"
    <3>1. 0 \in 0 .. Len(server)
      BY Places DEF IInv
    <3> QED BY <2>1, <3>1 DEF Idle, ReqType
  <2>3. req' = [req EXCEPT ![c] = [Idle EXCEPT !.pc = "dir", !.srv = port]]
    BY <1>5 DEF Submit
  <2> QED BY <1>4, <2>2, <2>3
<1>6. CASE Upload(c)
  <2>1. [Idle EXCEPT !.pc = "dir"] \in ReqType /\ [Idle EXCEPT !.pc = "dir"].pc = "dir"
    BY Places DEF Idle, ReqType, IInv
  <2>2. req' = [req EXCEPT ![c] = [Idle EXCEPT !.pc = "dir"]]
    BY <1>6 DEF Upload
  <2> QED BY <1>4, <2>1, <2>2
<1> QED BY <1>5, <1>6

LEMMA WriteCSRInv ==
    ASSUME IInv, NEW c \in Client, WriteCSR(c)
    PROVE  IInv'
<1>1. PICK p \in {"sign", "refused"}, x \in {c, dir[c].csr} :
        req' = [req EXCEPT ![c].pc = p] /\ dir' = [dir EXCEPT ![c].csr = x]
  <2>1. CASE Goes(c, "sign") /\ dir' = [dir EXCEPT ![c].csr = c]
    BY <2>1 DEF Goes
  <2>2. CASE Goes(c, "refused") /\ UNCHANGED dir
    <3>1. dir = [dir EXCEPT ![c].csr = dir[c].csr]
      BY DEF IInv, TypeOK
    <3> QED BY <2>2, <3>1 DEF Goes
  <2> QED BY <2>1, <2>2 DEF WriteCSR, Dir
<1>2. UNCHANGED <<saverVars, serverVars>> /\ spent' = spent
  BY DEF WriteCSR
<1> DEFINE q == [req[c] EXCEPT !.pc = p]
<1> DEFINE d == [dir[c] EXCEPT !.csr = x]
<1>3. q \in ReqType /\ q.pc = p /\ d \in DirType /\ d.csr = x /\ d.crt = dir[c].crt
  BY ClientFacts DEF ReqType, DirType
<1>4. req' = [req EXCEPT ![c] = q] /\ dir' = [dir EXCEPT ![c] = d]
  BY <1>1, ClientFacts DEF ReqType, DirType
<1>5. d.csr \in {c, None} /\ d.crt \in {c, None}
  BY <1>3, ClientFacts DEF ClientOK
<1> HIDE DEF q, d
<1> QED BY <1>2, <1>3, <1>4, <1>5, ClientStepInv DEF IInv, TypeOK

LEMMA StepSignInv ==
    ASSUME IInv, NEW c \in Client, StepSign(c)
    PROVE  IInv'
<1>1. UNCHANGED <<saverVars, serverVars>> /\ spent' = spent
  BY DEF StepSign
<1>2. ASSUME NEW x \in {dir[c].csr, None}, Goes(c, "read"), dir' = [dir EXCEPT ![c].crt = x] PROVE IInv'
  <2> DEFINE q == [req[c] EXCEPT !.pc = "read"]
  <2> DEFINE d == [dir[c] EXCEPT !.crt = x]
  <2>1. q \in ReqType /\ q.pc = "read" /\ d \in DirType /\ d.crt = x /\ d.csr = dir[c].csr
    BY ClientFacts DEF ReqType, DirType
  <2>2. req' = [req EXCEPT ![c] = q] /\ dir' = [dir EXCEPT ![c] = d]
    BY <1>2, ClientFacts DEF ReqType, DirType, Goes
  <2>3. d.csr \in {c, None} /\ d.crt \in {c, None}
    BY <2>1, ClientFacts DEF ClientOK
  <2> HIDE DEF q, d
  <2> QED BY <1>1, <2>1, <2>2, <2>3, ClientStepInv DEF IInv, TypeOK
<1>3. CASE Goes(c, "refused") /\ dir' = [dir EXCEPT ![c] = NoDir]
  <2> DEFINE q == [req[c] EXCEPT !.pc = "refused"]
  <2>1. q \in ReqType /\ q.pc = "refused" /\ req' = [req EXCEPT ![c] = q]
    BY <1>3, ClientFacts DEF ReqType, Goes
  <2> HIDE DEF q
  <2> QED BY <1>1, <1>3, <2>1, ClientFacts, ClientStepInv DEF IInv, TypeOK
<1> QED BY <1>2, <1>3 DEF StepSign, Dir

LEMMA ReadCrtInv ==
    ASSUME IInv, NEW c \in Client, ReadCrt(c)
    PROVE  IInv'
<1>1. UNCHANGED <<saverVars, serverVars>> /\ spent' = spent /\ dir' = [dir EXCEPT ![c] = NoDir]
  BY DEF ReadCrt, Dir
<1>2. CASE Goes(c, "refused")
  <2> DEFINE q == [req[c] EXCEPT !.pc = "refused"]
  <2>1. q \in ReqType /\ q.pc = "refused" /\ req' = [req EXCEPT ![c] = q]
    BY <1>2, ClientFacts DEF ReqType, Goes
  <2> HIDE DEF q
  <2> QED BY <1>1, <2>1, ClientFacts, ClientStepInv DEF IInv, TypeOK
<1>3. CASE /\ dir[c].crt # None
           /\ req' = [req EXCEPT ![c].leaf = dir[c].crt, ![c].pc = IF req[c].srv = 0 THEN "done" ELSE "put"]
  <2> DEFINE q == [req[c] EXCEPT !.leaf = dir[c].crt, !.pc = IF req[c].srv = 0 THEN "done" ELSE "put"]
  <2>1. q \in ReqType /\ q.leaf = dir[c].crt /\ q.srv = req[c].srv /\ q.pc = IF req[c].srv = 0 THEN "done" ELSE "put"
    BY ClientFacts DEF ReqType, DirType
  <2>2. req' = [req EXCEPT ![c] = q]
    BY <1>3, ClientFacts DEF ReqType
  <2>3. q.leaf = c /\ (q.pc = "put" => q.srv \in DOMAIN server)
    BY <1>3, <2>1, ClientFacts, Places DEF ClientOK, ReqType, IInv
  <2>4. q.pc # "answered"
    BY <2>1
  <2> HIDE DEF q
  <2> QED BY <1>1, <2>1, <2>2, <2>3, <2>4, ClientFacts, ClientStepInv DEF IInv, TypeOK
<1> QED BY <1>2, <1>3 DEF ReadCrt, HasLeaf, Dir

LEMMA CollectInv ==
    ASSUME IInv, NEW c \in Client, Collect(c)
    PROVE  IInv'
<1>1. /\ Now(c, "answered") /\ port # 0 /\ UNCHANGED <<saverVars, serverVars>> /\ spent' = spent /\ dir' = dir
      /\ port \in DOMAIN server
  BY Places DEF Collect, IInv, TypeOK
<1> DEFINE got == IF req[c].id \in DOMAIN Table(port) THEN Table(port)[req[c].id] ELSE None
<1> DEFINE q == [req[c] EXCEPT !.pc = "done", !.at = port, !.leaf = got]
<1>2. got \in Client \cup {None}
  BY <1>1, Places, LenProperties DEF IInv
<1>3. req' = [req EXCEPT ![c] = q]
  BY <1>1, ClientFacts DEF Collect, ReqType
<1>4. port = req[c].srv => got \in {c, None}
  BY <1>1, ClientFacts DEF ClientOK, Told, Now
<1>5. port \in 0 .. Len(server) /\ req[c] \in ReqType
  BY ClientFacts DEF IInv, TypeOK
<1> HIDE DEF got
<1>6. q \in ReqType /\ q.pc = "done" /\ q.at = port /\ q.srv = req[c].srv /\ q.leaf = got
  BY <1>2, <1>5 DEF ReqType
<1> HIDE DEF q
<1>7. dir' = [dir EXCEPT ![c] = dir[c]] /\ dir[c] \in DirType /\ dir[c].csr \in {c, None} /\ dir[c].crt \in {c, None}
  BY <1>1, ClientFacts DEF ClientOK
<1>8. spent' \in [requests : 0 .. MaxRequests, restarts : 0 .. MaxRestarts]
  BY <1>1 DEF IInv, TypeOK
<1> QED BY <1>1, <1>3, <1>4, <1>6, <1>7, <1>8, ClientStepInv
-----------------------------------------------------------------------------
\* The table after a certificate was added.
LEMMA PutTable ==
    ASSUME NEW t \in Seq(Client \cup {None}), NEW c \in Client
    PROVE  /\ Evicted(Append(t, c)) \in Seq(Client \cup {None})
           /\ Len(Evicted(Append(t, c))) = Len(t) + 1 /\ Len(Append(t, c)) = Len(t) + 1
           /\ DOMAIN Evicted(Append(t, c)) = 1 .. Len(t) + 1
           /\ \A n \in 1 .. Len(t) + 1 :
                 Evicted(Append(t, c))[n] = IF n <= Len(t) + 1 - Retained THEN None
                                            ELSE IF n = Len(t) + 1 THEN c ELSE t[n]
<1>1. /\ Append(t, c) \in Seq(Client \cup {None}) /\ Len(Append(t, c)) = Len(t) + 1 /\ Len(t) \in Nat
      /\ DOMAIN Append(t, c) = 1 .. Len(t) + 1
      /\ \A n \in 1 .. Len(t) + 1 : Append(t, c)[n] = IF n = Len(t) + 1 THEN c ELSE t[n]
  BY AppendProperties, LenProperties
<1>2. \A n \in 1 .. Len(t) + 1 : Append(t, c)[n] \in Client \cup {None}
  BY <1>1, LenProperties
<1>3. Evicted(Append(t, c)) \in [DOMAIN Append(t, c) -> Client \cup {None}]
  BY <1>1, <1>2 DEF Evicted
<1>4. \A n \in 1 .. Len(t) + 1 :
                 Evicted(Append(t, c))[n] = IF n <= Len(t) + 1 - Retained THEN None
                                            ELSE IF n = Len(t) + 1 THEN c ELSE t[n]
  <2> DEFINE u == Append(t, c)
  <2> HIDE DEF u
  <2>1. \A n \in DOMAIN u : Evicted(u)[n] = IF n <= Len(u) - Retained THEN None ELSE u[n]
    BY DEF Evicted
  <2>2. /\ u \in Seq(Client \cup {None}) /\ Len(u) = Len(t) + 1 /\ DOMAIN u = 1 .. Len(t) + 1 /\ Len(t) \in Nat
        /\ \A n \in 1 .. Len(t) + 1 : u[n] = IF n = Len(t) + 1 THEN c ELSE t[n]
    BY <1>1 DEF u
  <2>3. \A n \in 1 .. Len(t) + 1 :
             Evicted(u)[n] = IF n <= Len(t) + 1 - Retained THEN None ELSE IF n = Len(t) + 1 THEN c ELSE t[n]
    BY <2>1, <2>2, CertsrvAssumption
  <2> QED BY <2>3 DEF u
<1>5. /\ Evicted(Append(t, c)) \in Seq(Client \cup {None}) /\ Len(Evicted(Append(t, c))) = Len(Append(t, c))
      /\ DOMAIN Evicted(Append(t, c)) = DOMAIN Append(t, c)
  <2> DEFINE u == Append(t, c)
  <2> DEFINE v == Evicted(Append(t, c))
  <2>1. u \in Seq(Client \cup {None}) /\ v \in [DOMAIN u -> Client \cup {None}]
    BY <1>1, <1>3
  <2> HIDE DEF u, v
  <2>2. v \in Seq(Client \cup {None}) /\ Len(v) = Len(u) /\ DOMAIN v = DOMAIN u
    BY <2>1, MapSeq
  <2> QED BY <2>2 DEF u, v
<1> QED BY <1>1, <1>4, <1>5

LEMMA PutInv ==
    ASSUME IInv, NEW c \in Client, Put(c)
    PROVE  IInv'
<1> DEFINE i == req[c].srv
<1> DEFINE t == Table(i)
<1> DEFINE new == Evicted(Append(t, c))
<1> DEFINE st == IF server[i].closing THEN "refused" ELSE "answered"
<1>1. i = req[c].srv /\ i \in DOMAIN server /\ req[c].leaf = c /\ t = Table(i) /\ t \in Seq(Client \cup {None}) /\ Len(t) \in Nat /\ DOMAIN t = 1 .. Len(t)
  BY ClientFacts, Places DEF Put, Now, ClientOK, IInv
<1>2. /\ server' = [server EXCEPT ![i].issued = new]
      /\ req' = [req EXCEPT ![c].pc = st, ![c].id = Len(t) + 1, ![c].leaf = None]
      /\ UNCHANGED <<saved, thread, mine, answered, cur, port, robbed, dir, spent>>
  BY <1>1, PutTable DEF Put, Table, saverVars
<1>3. /\ new \in Seq(Client \cup {None}) /\ Len(new) = Len(t) + 1 /\ DOMAIN new = 1 .. Len(t) + 1
      /\ \A n \in 1 .. Len(t) + 1 : new[n] = IF n <= Len(t) + 1 - Retained THEN None
                                               ELSE IF n = Len(t) + 1 THEN c ELSE t[n]
  BY <1>1, PutTable
<1>st. st \in {"refused", "answered"}
  OBVIOUS
<1>ret. Retained \in Nat /\ Retained > 0
  BY CertsrvAssumption
<1> HIDE DEF new
<1>4. server' \in [DOMAIN server -> ServerType]
  BY <1>1, <1>2, <1>3, Places DEF IInv, ServerType
<1>5. server' \in Seq(ServerType) /\ DOMAIN server' = DOMAIN server /\ Len(server') = Len(server)
  BY <1>4, MapSeq DEF IInv, TypeOK
<1>6. /\ \A j \in DOMAIN server : /\ server'[j].closing = server[j].closing /\ server'[j].st = server[j].st
                                   /\ server'[j].ver = server[j].ver /\ (j # i => server'[j].issued = server[j].issued)
      /\ server'[i].issued = new
  BY <1>1, <1>2, Places DEF IInv, ServerType
<1> DEFINE q == [req[c] EXCEPT !.pc = st, !.id = Len(t) + 1, !.leaf = None]
<1>7. /\ q \in ReqType /\ q.pc = st /\ q.id = Len(t) + 1 /\ q.srv = i /\ req' = [req EXCEPT ![c] = q]
  <2>1. req[c] \in ReqType /\ Len(t) + 1 \in Nat
    BY <1>1, ClientFacts
  <2>2. req' = [req EXCEPT ![c] = q]
    BY <1>2, <2>1 DEF ReqType
  <2> HIDE DEF t, st, i
  <2>3. q \in ReqType /\ q.pc = st /\ q.id = Len(t) + 1 /\ q.srv = req[c].srv
    BY <1>st, <2>1 DEF ReqType
  <2> QED BY <1>1, <2>2, <2>3
<1> HIDE DEF q, t, st, i
<1>8. TypeOK'
  <2>1. req' \in [Client -> ReqType]
    BY <1>7 DEF IInv, TypeOK, ReqType
  <2>2. \A e \in Client : req'[e].pc = "put" => req'[e].leaf # None
    BY <1>7, <1>st DEF IInv, TypeOK
  <2> QED BY <1>2, <1>5, <2>1, <2>2 DEF IInv, TypeOK, ReqType
<1>9. ServInv'
  <2>1. \A j \in DOMAIN server' : j # cur' => server'[j].closing /\ server'[j].st # "serving"
    BY <1>2, <1>5, <1>6 DEF IInv, ServInv
  <2>2. cur' # 0 => server'[cur'].ver >= answered'
    BY <1>2, <1>6, Places DEF IInv, ServInv, TypeOK
  <2> QED BY <1>2, <2>1, <2>2 DEF IInv, ServInv
<1>10. TableInv'
  <2> SUFFICES ASSUME NEW j \in DOMAIN server, NEW n \in DOMAIN server'[j].issued, n <= Len(server'[j].issued) - Retained
               PROVE  server'[j].issued[n] = None
    BY <1>5 DEF TableInv, Table
  <2>1. CASE j = i
    BY <1>1, <1>3, <1>6, <1>ret, <2>1
  <2>2. CASE j # i
    BY <1>6, <2>2 DEF IInv, TableInv, Table
  <2> QED BY <2>1, <2>2
<1>11. ClientInv'
  <2> SUFFICES ASSUME NEW e \in Client PROVE ClientOK(e)'
    BY DEF ClientInv
  <2>1. CASE e = c
    <3>1. req'[c] = q /\ dir' = dir
      BY <1>2, <1>7 DEF IInv, TypeOK
    <3>3. Told(c)'
      <4>1. new[Len(t) + 1] = c
        BY <1>1, <1>3, <1>ret
      <4> QED BY <1>1, <1>3, <1>5, <1>6, <1>7, <3>1, <4>1 DEF Told, Table
    <3> QED BY <1>7, <1>st, <2>1, <3>1, <3>3, ClientFacts DEF ClientOK
  <2>2. CASE e # c
    <3>1. req'[e] = req[e] /\ dir'[e] = dir[e] /\ ClientOK(e)
      BY <1>2, <1>7, <2>2, ClientFacts DEF IInv, TypeOK
    <3>2. ASSUME Told(e) PROVE Told(e)'
      <4>1. CASE req[e].srv = i
        <5>1. req[e].id \in 1 .. Len(t) /\ t[req[e].id] \in {e, None} /\ (Len(t) - req[e].id < Retained => t[req[e].id] = e)
          BY <1>1, <3>2, <4>1 DEF Told
        <5>2. /\ req[e].id \in 1 .. Len(t) + 1 /\ new[req[e].id] \in {e, None}
              /\ Len(t) + 1 - req[e].id < Retained => new[req[e].id] = e
          BY <1>1, <1>3, <1>ret, <5>1
        <5>3. /\ req'[e].srv = i /\ req'[e].id = req[e].id /\ server'[i].issued = new /\ i \in DOMAIN server'
              /\ Len(new) = Len(t) + 1 /\ DOMAIN new = 1 .. Len(t) + 1
          BY <1>1, <1>3, <1>5, <1>6, <3>1, <4>1
        <5> QED BY <5>2, <5>3 DEF Told, Table
      <4>2. CASE req[e].srv # i
        BY <1>5, <1>6, <3>1, <3>2, <4>2 DEF Told, Table
      <4> QED BY <4>1, <4>2
    <3> QED BY <1>5, <3>1, <3>2 DEF ClientOK
  <2> QED BY <2>1, <2>2
<1> QED BY <1>8, <1>9, <1>10, <1>11 DEF IInv
-----------------------------------------------------------------------------
LEMMA RestartInv ==
    ASSUME IInv, Restart
    PROVE  IInv'
<1>1. server' = [i \in DOMAIN server |-> [server[i] EXCEPT !.st = "over", !.closing = TRUE]]
  BY DEF Restart
<1>a. thread' = [t \in Thread |-> IF t = Main THEN "saved" ELSE "idle"] /\ mine' = [t \in Thread |-> 0]
  BY DEF Restart
<1>b. cur' = 0 /\ port' = 0 /\ robbed' = FALSE /\ saved' = saved /\ answered' = answered
  BY DEF Restart
<1>c. dir' = [c \in Client |-> NoDir]
  BY DEF Restart
<1>d. spent.restarts < MaxRestarts /\ spent' = [spent EXCEPT !.restarts = @ + 1]
  BY DEF Restart
<1>2. server' \in [DOMAIN server -> ServerType]
  BY <1>1, Places DEF IInv, ServerType
<1>3. server' \in Seq(ServerType) /\ DOMAIN server' = DOMAIN server /\ Len(server') = Len(server)
  BY <1>2, MapSeq DEF IInv, TypeOK
<1>4. \A i \in DOMAIN server : server'[i].issued = server[i].issued /\ server'[i].closing /\ server'[i].st # "serving"
  BY <1>1, Places DEF IInv, ServerType
<1>5. req' \in [Client -> ReqType]
  <2>1. \A c \in Client : [req[c] EXCEPT !.pc = "refused"] \in ReqType /\ req[c] \in ReqType
    BY ClientFacts DEF ReqType
  <2> QED BY <2>1 DEF Restart
<1>6. \A c \in Client : req'[c].pc # "put" /\ (req'[c].pc \in {"answered", "done"} => req'[c] = req[c])
  <2> SUFFICES ASSUME NEW c \in Client
               PROVE  req'[c].pc # "put" /\ (req'[c].pc \in {"answered", "done"} => req'[c] = req[c])
    OBVIOUS
  <2>1. CASE req[c].pc \in {"dir", "sign", "read", "put"}
    <3>1. req'[c] = [req[c] EXCEPT !.pc = "refused"]
      BY <2>1 DEF Restart
    <3>2. req'[c].pc = "refused"
      BY <3>1, ClientFacts DEF ReqType
    <3> QED BY <3>2
  <2>2. CASE req[c].pc \notin {"dir", "sign", "read", "put"}
    <3>1. req'[c] = req[c]
      BY <2>2 DEF Restart
    <3> QED BY <2>2, <3>1
  <2> QED BY <2>1, <2>2
<1>7. TypeOK'
  <2>1. spent' \in [requests : 0 .. MaxRequests, restarts : 0 .. MaxRestarts]
    <3>1. MaxRestarts \in Nat
      BY CertsrvAssumption
    <3>2. spent \in [requests : 0 .. MaxRequests, restarts : 0 .. MaxRestarts]
      BY DEF IInv, TypeOK
    <3> QED BY <1>d, <3>1, <3>2
  <2>2. thread' \in [Thread -> {"idle", "saved", "closed"}] /\ mine' \in [Thread -> 0 .. MaxSaves]
    <3>1. MaxSaves \in Nat
      BY CertsrvAssumption
    <3> QED BY <1>a, <3>1
  <2>3. cur' \in 0 .. Len(server') /\ port' \in 0 .. Len(server')
    BY <1>b, <1>3, Places DEF IInv
  <2>4. robbed' \in BOOLEAN
    BY <1>b, Zenon
  <2>5. dir' \in [Client -> [csr : Client \cup {None}, crt : Client \cup {None}]]
    BY <1>c DEF NoDir
  <2>6. req' \in [Client -> [pc : {"idle", "dir", "sign", "read", "put", "answered", "done", "refused"},
                           srv : 0 .. Len(server'), at : 0 .. Len(server'), id : Nat,
                           leaf : Client \cup {None}]]
    BY <1>3, <1>5 DEF ReqType
  <2>7. \A c \in Client : req'[c].pc = "put" => req'[c].leaf # None
    BY <1>6
  <2>8. saved' \in [ver : 0 .. MaxSaves, kind : Kind] /\ answered' \in 0 .. MaxSaves
    BY <1>b DEF IInv, TypeOK
  <2> QED BY <1>3, <2>1, <2>2, <2>3, <2>4, <2>5, <2>6, <2>7, <2>8 DEF TypeOK
<1>8. ServInv'
  <2>1. saved.ver \in Nat /\ \A t \in Thread : mine'[t] = 0 /\ thread'[t] # "closed"
    BY <1>a DEF IInv, TypeOK
  <2>2. answered' <= saved'.ver /\ cur' = 0
    BY <1>b DEF IInv, ServInv
  <2>3. \A t \in Thread : mine'[t] <= saved'.ver
    BY <1>b, <2>1
  <2> QED BY <1>3, <1>4, <2>1, <2>2, <2>3 DEF ServInv
<1>9. TableInv'
  BY <1>3, <1>4, TablesKept
<1>10. ClientInv'
  <2> SUFFICES ASSUME NEW c \in Client PROVE ClientOK(c)'
    BY DEF ClientInv
  <2>1. dir'[c].csr = None /\ dir'[c].crt = None
    BY <1>c DEF NoDir
  <2>2. ClientOK(c)
    BY ClientFacts
  <2>3. req'[c].pc # "put" /\ (req'[c].pc \in {"answered", "done"} => req'[c] = req[c])
    BY <1>6
  <2>4. ASSUME req'[c].pc = "answered" PROVE Told(c)'
    <3>1. req'[c] = req[c] /\ Told(c)
      BY <2>2, <2>3, <2>4 DEF ClientOK
    <3> QED BY <1>3, <1>4, <3>1 DEF Told, Table
  <2> QED BY <2>1, <2>2, <2>3, <2>4 DEF ClientOK
<1> QED BY <1>7, <1>8, <1>9, <1>10 DEF IInv

\* A step that changes nothing.
LEMMA StutterInv ==
    ASSUME IInv, UNCHANGED vars
    PROVE  IInv'
<1>1. UNCHANGED <<saved, thread, mine, answered, cur, server, port, robbed, dir, req, spent>>
  BY DEF vars, saverVars, serverVars
<1>2. TypeOK' /\ ServInv' /\ TableInv'
  BY <1>1 DEF IInv, TypeOK, ServInv, TableInv, Table
<1>3. ClientInv'
  BY <1>1, ClientsKept
<1> QED BY <1>2, <1>3 DEF IInv

LEMMA NextInv == IInv /\ [Next]_vars => IInv'
<1> SUFFICES ASSUME IInv, [Next]_vars PROVE IInv'
  OBVIOUS
<1>1. ASSUME NEW t \in Thread, (t \in Saver /\ Save(t)) \/ CloseOld(t) \/ Rebind(t) PROVE IInv'
  BY <1>1, SaveInv, CloseOldInv, RebindInv
<1>2. ASSUME NEW i \in DOMAIN server, Goroutine(i) PROVE IInv'
  BY <1>2, GoroutineInv
<1>3. ASSUME NEW c \in Client, Submit(c) \/ Upload(c) \/ Handler(c) \/ Collect(c) PROVE IInv'
  BY <1>3, AsksInv, WriteCSRInv, StepSignInv, ReadCrtInv, PutInv, CollectInv DEF Handler
<1> QED BY <1>1, <1>2, <1>3, RestartInv, StutterInv DEF Next

\* The inductive invariant holds in every state the system reaches.
THEOREM Invariance == Spec => []IInv
<1> QED BY InitInv, NextInv, PTL DEF Spec
-----------------------------------------------------------------------------
\* Once the save of a configuration was answered, nothing serves with one before
\* it: mscaManager.Reconcile closes the old server before it answers, and a
\* server that was closed on its way to the port never serves.
THEOREM AnsweredSaveIsInForceHolds == Spec => []AnsweredSaveIsInForce
<1>1. IInv => AnsweredSaveIsInForce
  <2> SUFFICES ASSUME IInv, NEW i \in DOMAIN server, server[i].st = "serving" PROVE server[i].ver >= answered
    BY DEF IInv, AnsweredSaveIsInForce
  <2>1. i = cur /\ i # 0
    BY Places DEF IInv, ServInv
  <2> QED BY <2>1 DEF IInv, ServInv
<1> QED BY <1>1, Invariance, PTL

\* Of a table, no more than Retained places are kept.
LEMMA TableIsBounded ==
    ASSUME IInv, NEW i \in DOMAIN server
    PROVE  Cardinality({n \in DOMAIN Table(i) : Table(i)[n] # None}) <= Retained
<1> DEFINE kept == {n \in DOMAIN Table(i) : Table(i)[n] # None}
<1> DEFINE l == Len(Table(i))
<1> DEFINE recent == l - Retained + 1 .. l
<1>1. l \in Nat /\ Retained \in Nat
  BY Places, CertsrvAssumption DEF IInv
<1>2. kept \subseteq recent
  <2> SUFFICES ASSUME NEW n \in kept PROVE n \in recent
    OBVIOUS
  <2>1. n \in 1 .. l /\ ~(n <= l - Retained)
    BY Places DEF IInv, TableInv
  <2> QED BY <1>1, <2>1
<1>3. IsFiniteSet(recent) /\ Cardinality(recent) = Retained
  <2> HIDE DEF l
  <2>1. l - Retained + 1 \in Int /\ l \in Int
    BY <1>1
  <2>2. IsFiniteSet(recent) /\ Cardinality(recent) = IF l - Retained + 1 > l THEN 0 ELSE l - (l - Retained + 1) + 1
    BY <2>1, FS_Interval
  <2>3. (IF l - Retained + 1 > l THEN 0 ELSE l - (l - Retained + 1) + 1) = Retained
    BY <1>1
  <2> QED BY <2>2, <2>3
<1> HIDE DEF kept, recent, l
<1>4. Cardinality(kept) <= Cardinality(recent)
  BY <1>2, <1>3, FS_Subset
<1> QED BY <1>3, <1>4 DEF kept

\* Who collects a certificate gets its own, and who was told an id finds the
\* certificate there until Retained others were issued (certsrv.go:190-195).
THEOREM IssuedIsCollectedHolds == Spec => []IssuedIsCollected
<1>1. IInv => IssuedIsCollected
  <2> SUFFICES ASSUME IInv PROVE IssuedIsCollected
    OBVIOUS
  <2>1. CollectedIsOwn
    BY ClientFacts DEF CollectedIsOwn, ClientOK
  <2>2. IssuedIsKept
    BY TableIsBounded, ClientFacts DEF IssuedIsKept, ClientOK, Told
  <2> QED BY <2>1, <2>2 DEF IssuedIsCollected
<1> QED BY <1>1, Invariance, PTL
=============================================================================
