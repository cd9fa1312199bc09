----------------------------- MODULE DepotFetch -----------------------------
(***************************************************************************)
(* A transfer into the depot: fetch/fetch.go and the three handlers of     *)
(* server/depot.go.                                                        *)
(*                                                                         *)
(* One transfer at a time writes <dest>.part and renames it to <dest> when *)
(* it is complete.  A transfer that was cut, cancelled or killed leaves    *)
(* its part file behind; the next one for the same destination asks the    *)
(* server for the bytes after it.  The file on a server may be replaced at *)
(* any time; a response that has begun goes on with the old one.           *)
(*                                                                         *)
(* A file is a sequence of blocks.  The i-th block of version v is written *)
(* v at place i, so a file on disk is a sequence of versions, and it is    *)
(* whole when it is v, Size[v] times.                                      *)
(***************************************************************************)
EXTENDS Naturals, Sequences

CONSTANTS Url,
          Dest,        \* destinations below DEPOT_DATA_DIR, as depotDest resolves them
          Version,     \* contents a URL may serve
          Size,        \* blocks of each
          Canceller,   \* handlers of POST /api/depot/fetch/cancel
          NoSum,       \* a request without a checksum
          NoFile,      \* neither part file nor bundle
          MaxReplaced, MaxFaults     \* bounds on what the environment does

ASSUME DepotAssumption ==
    /\ Size \in [Version -> Nat \ {0}]
    /\ NoSum \notin Version /\ NoFile \notin Seq(Version)
    /\ MaxReplaced \in Nat /\ MaxFaults \in Nat

VARIABLES served,    \* the version each URL serves
          part,      \* the part file of each destination
          final,     \* the bundle under each final name, and how it came there
          job,       \* Fetcher.cur
          live,      \* its context is not cancelled
          last,      \* Fetcher.last
          holder,    \* what a cancelling handler has found: none, cur, or old (ended since)
          offered,   \* versions that answered for a destination since its last rename
          budget

depotVars == <<served, part, final, job, live, last, holder, offered, budget>>
disk == <<part, final, offered>>
-----------------------------------------------------------------------------
Whole(v) == [i \in 1 .. Size[v] |-> v]
NoJob    == [pc |-> "none"]
Absent   == [data |-> NoFile]
IdleStatus == [stage |-> "idle"]

NewJob(u, d, s) ==
    [pc |-> "request", url |-> u, dest |-> d, sum |-> s, src |-> NoFile, pos |-> 0,
     framed |-> FALSE, received |-> 0, total |-> 0, resumed |-> 0, hit |-> FALSE, err |-> "none"]

DepotInit ==
    /\ served \in [Url -> Version]
    /\ part = [d \in Dest |-> NoFile] /\ final = [d \in Dest |-> Absent]
    /\ job = NoJob /\ live = TRUE /\ last = IdleStatus
    /\ holder = [c \in Canceller |-> "none"]
    /\ offered = [d \in Dest |-> {}]
    /\ budget = [replaced |-> MaxReplaced, faults |-> MaxFaults]

Spend(b) == budget[b] > 0 /\ budget' = [budget EXCEPT ![b] = @ - 1]

\* The network, the server and the file system.
Replace(u, v) ==
    /\ served[u] # v /\ Spend("replaced")
    /\ served' = [served EXCEPT ![u] = v]
    /\ UNCHANGED <<disk, job, live, last, holder>>
-----------------------------------------------------------------------------
At(p) == job.pc = p
D     == job.dest
Fails(why) == job' = [job EXCEPT !.pc = "ended", !.err = why]

\* Fetcher.Start under Fetcher.mu; a second transfer is refused with ErrBusy.
Busy == job # NoJob
Start(u, d, s) ==
    /\ ~Busy
    /\ job' = NewJob(u, d, s) /\ live' = TRUE
    /\ holder' = [c \in Canceller |-> IF holder[c] = "cur" THEN "old" ELSE holder[c]]
    /\ UNCHANGED <<served, disk, last, budget>>

\* The handler: a URL, a destination below the data directory of the saved configuration, a
\* checksum or none; refused while a transfer runs.
HandleDepotFetch == \E u \in Url, d \in Dest, s \in Version \cup {NoSum} : Start(u, d, s)

\* The size of what is there is the offset asked for.
Offset == IF part[D] = NoFile THEN 0 ELSE Len(part[D])

\* A server may honour the Range header or ignore it.
Answers == IF Offset = 0 THEN {200}
           ELSE {200, IF Offset < Size[served[job.url]] THEN 206 ELSE 416}

\* A 200 answers with the whole file, whatever was asked for.
Kept_Always(status) == Offset
Kept(status) == IF status = 200 THEN 0 ELSE Offset
Accepted_Only200 == {200}
Accepted == {200, 206}
Counted(kept) == kept

\* A server may or may not mark the end of its body.
Respond(status, framed) ==
    /\ At("request") /\ live /\ status \in Answers
    /\ LET v == served[job.url]  kept == Kept(status) IN
         IF status \in Accepted
           THEN /\ job' = [job EXCEPT !.pc = "open", !.src = v, !.framed = framed,
                              !.pos = IF status = 200 THEN 0 ELSE kept,
                              !.received = Counted(kept), !.resumed = kept,
                              !.total = IF framed THEN Size[v] ELSE 0]
                /\ offered' = [offered EXCEPT ![D] = @ \cup {v}]
           ELSE Fails("refused") /\ UNCHANGED offered
    /\ UNCHANGED <<served, part, final, live, last, holder, budget>>

\* checkFree has passed: append to what is there, or start over.
Opened == IF job.resumed > 0 THEN part[D] ELSE <<>>
OpenPart ==
    /\ At("open")
    /\ part' = [part EXCEPT ![D] = Opened]
    /\ job' = [job EXCEPT !.pc = "copy"]
    /\ UNCHANGED <<served, final, offered, live, last, holder, budget>>

\* io.Copy: a block is read, under the context of the transfer, and counted by the reader
\* that wraps the body; only then is it written.
ReadBlock ==
    /\ At("copy") /\ live /\ job.pos < Size[job.src]
    /\ job' = [job EXCEPT !.pc = "write", !.pos = @ + 1, !.received = @ + 1]
    /\ UNCHANGED <<served, disk, live, last, holder, budget>>

WriteBlock ==
    /\ At("write")
    /\ part' = [part EXCEPT ![D] = Append(@, job.src)]
    /\ job' = [job EXCEPT !.pc = "copy"]
    /\ UNCHANGED <<served, final, offered, live, last, holder, budget>>

AfterCopy == IF job.sum = NoSum THEN "rename" ELSE "verify"

\* Sync, close.
CopyEnd ==
    /\ At("copy") /\ job.pos = Size[job.src]
    /\ job' = [job EXCEPT !.pc = AfterCopy]
    /\ UNCHANGED <<served, disk, live, last, holder, budget>>

\* sha256File reads the part file, not the response.
SumMatches == part[D] = Whole(job.sum)
Verify ==
    /\ At("verify") /\ live
    /\ IF SumMatches THEN job' = [job EXCEPT !.pc = "rename"] ELSE Fails("mismatch")
    /\ UNCHANGED <<served, disk, live, last, holder, budget>>

Rename ==
    /\ At("rename")
    /\ final' = [final EXCEPT ![D] = [data |-> part[D], sum |-> job.sum,
                             sole |-> job.framed /\ offered[D] = {job.src}]]
    /\ part' = [part EXCEPT ![D] = NoFile]
    /\ offered' = [offered EXCEPT ![D] = {}]
    /\ job' = [job EXCEPT !.pc = "ended"]
    /\ UNCHANGED <<served, live, last, holder, budget>>

\* A dead context ends the request, the body and the checksum pass; it is not looked at again.
Interruptible_Unbound == {"verify"}
Interruptible == {"request", "copy", "verify"}
Interrupted ==
    /\ job.pc \in Interruptible /\ ~live
    /\ job' = [job EXCEPT !.pc = "ended", !.err = "cancelled", !.hit = TRUE]
    /\ UNCHANGED <<served, disk, live, last, holder, budget>>

\* No answer, no space, a write, a sync or a rename that fails; a body that ends early is
\* noticed when its end is marked.
Unnoticed == At("copy") /\ ~job.framed
Fault ==
    /\ job.pc \in {"request", "open", "copy", "write", "verify", "rename"} /\ Spend("faults")
    /\ \/ job' = [job EXCEPT !.pc = "ended", !.err = "fault", !.hit = TRUE]
       \/ Unnoticed /\ job' = [job EXCEPT !.pc = AfterCopy, !.hit = TRUE]
    /\ UNCHANGED <<served, disk, live, last, holder>>

\* The end of run, under Fetcher.mu.
Finish ==
    /\ At("ended")
    /\ last' = [stage |-> IF job.err = "none" THEN "done" ELSE "failed", dest |-> D,
                received |-> job.received, total |-> job.total, err |-> job.err, hit |-> job.hit,
                sum |-> IF job.err = "mismatch" THEN job.sum ELSE NoSum]
    /\ job' = NoJob
    /\ UNCHANGED <<served, disk, live, holder, budget>>

\* Fetcher.Cancel takes the job under the lock and cancels it after.
CancelLook(c) ==
    /\ holder[c] = "none" /\ job # NoJob
    /\ holder' = [holder EXCEPT ![c] = "cur"]
    /\ UNCHANGED <<served, disk, job, live, last, budget>>
CancelFire(c) ==
    /\ holder[c] # "none"
    /\ live' = (live /\ (holder[c] = "old" \/ job = NoJob))
    /\ holder' = [holder EXCEPT ![c] = "none"]
    /\ UNCHANGED <<served, disk, job, last, budget>>

\* The control plane dies; what it wrote stays.
Crash ==
    /\ job' = NoJob /\ live' = TRUE /\ last' = IdleStatus
    /\ holder' = [c \in Canceller |-> "none"]
    /\ UNCHANGED <<served, disk, budget>>

\* Fetcher.Status: the transfer that runs, or the last one to finish.
StatusSeen == IF job = NoJob THEN last
              ELSE [stage |-> IF At("verify") THEN "verifying" ELSE "downloading",
                    received |-> job.received, total |-> job.total, dest |-> D]

Transfer ==
    \/ \E status \in {200, 206, 416}, framed \in BOOLEAN : Respond(status, framed)
    \/ OpenPart \/ ReadBlock \/ WriteBlock \/ CopyEnd \/ Verify \/ Rename \/ Interrupted \/ Finish
DepotNext ==
    \/ HandleDepotFetch
    \/ Transfer \/ Fault \/ Crash
    \/ \E u \in Url, v \in Version : Replace(u, v)
    \/ \E c \in Canceller : CancelLook(c) \/ CancelFire(c)

DepotSpec == DepotInit /\ [][DepotNext]_depotVars

\* The goroutine is scheduled, and so is a handler that has found its job; a server need not
\* send anything.
DepotFairness ==
    /\ WF_depotVars(OpenPart \/ WriteBlock \/ CopyEnd \/ Verify \/ Rename \/ Interrupted \/ Finish)
    /\ \A c \in Canceller : WF_depotVars(CancelFire(c))
DepotFairSpec == DepotSpec /\ DepotFairness
-----------------------------------------------------------------------------
StatusType ==
    [stage : {"done", "failed"}, dest : Dest, received : Nat, total : Nat,
     err : {"none", "refused", "mismatch", "cancelled", "fault"}, hit : BOOLEAN, sum : Version \cup {NoSum}]
JobType ==
    [pc : {"request", "open", "copy", "write", "verify", "rename", "ended"}, url : Url, dest : Dest,
     sum : Version \cup {NoSum}, src : Version \cup {NoFile}, pos : Nat, framed : BOOLEAN, received : Nat, total : Nat,
     resumed : Nat, hit : BOOLEAN, err : {"none", "refused", "mismatch", "cancelled", "fault"}]

\* Every variable keeps its type; a transfer past its response has a source, and a part file
\* while it copies.
DepotTypeOK ==
    /\ served \in [Url -> Version]
    /\ part \in [Dest -> Seq(Version) \cup {NoFile}]
    /\ final \in [Dest -> {Absent} \cup [data : Seq(Version), sum : Version \cup {NoSum}, sole : BOOLEAN]]
    /\ job = NoJob \/ job \in JobType
    /\ live \in BOOLEAN /\ (last = IdleStatus \/ last \in StatusType)
    /\ holder \in [Canceller -> {"none", "cur", "old"}]
    /\ offered \in [Dest -> SUBSET Version]
    /\ job.pc \in {"open", "copy", "write", "verify", "rename"} => job.src \in Version
    /\ job.pc \in {"copy", "write", "verify", "rename"} => part[D] # NoFile

\* fetch.go:39-41, "the final name appears only after the transfer (and its checksum, when
\* given) is good": what was asked for with a checksum is that version, whole, however many
\* attempts, servers and versions its part file is made of.
VerifiedIsWanted ==
    \A d \in Dest : final[d] # Absent /\ final[d].sum # NoSum => final[d].data = Whole(final[d].sum)

\* The same without a checksum: a bundle is whole when one version was all that any attempt
\* since the last rename was offered and the server marked the end of a body, through
\* cancels, cut connections, servers that ignore the Range header, full disks and crashes.
SingleSourceIsWhole ==
    \A d \in Dest : final[d] # Absent /\ final[d].sole => \E v \in Version : final[d].data = Whole(v)

\* What the page polls is what is on disk, but for the one block that has been read and not
\* written: no resumed, restarted or interrupted transfer counts a block twice or counts one
\* the file has lost, and from the checksum on the page and the file agree; a transfer
\* reported done is under its name with all its bytes.
ProgressIsOnDisk ==
    /\ job.pc \in {"copy", "verify", "rename"} => StatusSeen.received = Len(part[D])
    /\ At("write") => StatusSeen.received = Len(part[D]) + 1
    /\ job = NoJob /\ last.stage = "done" =>
         /\ final[last.dest] # Absent /\ Len(final[last.dest].data) = last.received
         /\ last.total # 0 => last.received = last.total

\* What is under a bundle's name, and what the page says of it, is what was promised:
\* the three above, in every reachable state.
BundlesAreSound == DepotTypeOK /\ VerifiedIsWanted /\ SingleSourceIsWhole /\ ProgressIsOnDisk

\* A transfer that met no fault and no cancel fails for two reasons only: the part file is
\* already as long as what the server has (the answer is 416, and it will be at every
\* attempt: nothing shortens the file), or it holds another version's bytes than the checksum asks for.
QuietFailureIsExplained ==
    job = NoJob /\ last.stage = "failed" /\ ~last.hit =>
        /\ part[last.dest] # NoFile
        /\ \/ last.err = "refused" /\ \E v \in Version : Len(part[last.dest]) >= Size[v]
           \/ last.err = "mismatch" /\ offered[last.dest] # {last.sum}

\* fetch.go:343-344 "an operator who cancels expects it to stop": a transfer whose context is
\* cancelled ends, whatever the server does.
CancelEnds == (job # NoJob /\ ~live) ~> (job = NoJob)

=============================================================================
