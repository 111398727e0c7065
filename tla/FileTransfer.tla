---------------------------- MODULE FileTransfer ----------------------------
(***************************************************************************)
(* File transfers: the handler of the agent (agent/session/file.go) and    *)
(* xnc put and get (cli/cmd_file.go), over a session that carries frames   *)
(* both ways until it is cut.  All transfers are of one path of the node.  *)
(*                                                                         *)
(* A file is a number of chunks; what a chunk holds is named by who wrote  *)
(* it and by whether it is what the hash was taken of.  A name in a        *)
(* directory is an inode, and so is an open file: on Linux an open file    *)
(* goes on without its name, on Windows an open file can be written by     *)
(* two, and neither be removed nor renamed.                                *)
(***************************************************************************)
EXTENDS Naturals, Sequences, FiniteSets

CONSTANTS
    Upload, Download,   \* transfers
    Chunks,             \* chunks of every file
    MaxTransfers,       \* bound: transfers in a behaviour
    MaxFaults,          \* bound: cut sessions, crashes, failing calls
    old,                \* the file that was there before
    NoInode

ASSUME TransferAssumption ==
    /\ Chunks \in Nat \ {0} /\ MaxFaults \in Nat /\ MaxTransfers \in Nat
    /\ old \notin Upload /\ NoInode \notin Upload \cup {old}

VARIABLES
    system,    \* operating system of the node
    part,      \* inode of <path>.xnc-part
    final,     \* inode of <path>
    content,   \* what inodes hold
    put,       \* uploads: client, session and handler
    get,       \* downloads
    mixed,     \* history: two uploads were being received at the same time
    crashed,   \* history: the agent crashed
    trouble

transferVars == <<system, part, final, content, put, get, mixed, crashed, trouble>>

Inode == Upload \cup {old}
Chunk == Inode \X BOOLEAN
Empty == [i \in 1..Chunks |-> <<old, FALSE>>]     \* nothing there: an empty file, or a hole
Nothing == <<old, FALSE>>
Whole(c) == \E w \in Inode : \A i \in 1..Chunks : c[i] = <<w, TRUE>>

\* What became of the local file between the two times it is read.
Kind == {"same", "edited", "shrunk", "grown"}
Reply == {"none", "ok", "error"}
NoPut == [client |-> "idle", kind |-> "same", agent |-> "none", inode |-> NoInode,
          total |-> 0, reply |-> "none", cut |-> FALSE]
NoGet == [client |-> "idle", agent |-> "none", inode |-> NoInode, got |-> <<>>, reply |-> "none",
          cut |-> FALSE, erred |-> FALSE]

TransferTypeOK ==
    /\ system \in {"linux", "windows"}
    /\ part \in Upload \cup {NoInode} /\ final \in Inode
    /\ content \in [Inode -> [1..Chunks -> Chunk]]
    /\ put \in [Upload -> [client : {"idle", "open", "ok", "failed"}, kind : Kind,
                           agent : {"none", "create", "read", "cleanup", "done"},
                           inode : Inode \cup {NoInode}, total : 0..Chunks, reply : Reply, cut : BOOLEAN]]
    /\ get \in [Download -> [client : {"idle", "open", "ok", "failed"},
                             agent : {"none", "open", "read", "done"}, inode : Inode \cup {NoInode},
                             got : UNION {[1..n -> Chunk] : n \in 0..Chunks}, reply : Reply,
                             cut : BOOLEAN, erred : BOOLEAN]]
    /\ mixed \in BOOLEAN /\ crashed \in BOOLEAN /\ trouble \in 0..MaxFaults
    \* A file that is open is open for the handler that reads into it.
    /\ \A f \in Upload : put[f].agent = "read" <=> put[f].inode # NoInode

TransferInit ==
    /\ system \in {"linux", "windows"}
    /\ part = NoInode /\ final = old
    /\ content = [n \in Inode |-> IF n = old THEN [i \in 1..Chunks |-> <<old, TRUE>>] ELSE Empty]
    /\ put = [f \in Upload |-> NoPut]
    /\ get = [d \in Download |-> NoGet]
    /\ mixed = FALSE /\ crashed = FALSE /\ trouble = 0

Trouble == trouble < MaxFaults /\ trouble' = trouble + 1
Started == {f \in Upload : put[f].client # "idle"} \cup {d \in Download : get[d].client # "idle"}
disk == <<part, final, content>>

-----------------------------------------------------------------------------
(* xnc put *)

(* Size and hash of the local file go with the request; the goroutine that
   sends reads the file again. *)
StartUpload(f) ==
    /\ put[f].client = "idle" /\ Cardinality(Started) < MaxTransfers
    /\ \E k \in Kind : put' = [put EXCEPT ![f].client = "open", ![f].kind = k, ![f].agent = "create"]
    /\ UNCHANGED <<system, disk, get, mixed, crashed, trouble>>

PutReturns(f) ==
    /\ put[f].client = "open"
    /\ \/ /\ put[f].reply # "none"
          /\ put' = [put EXCEPT ![f].client = IF put[f].reply = "ok" THEN "ok" ELSE "failed",
                                ![f].cut = TRUE]
       \/ /\ put[f].cut
          /\ put' = [put EXCEPT ![f].client = "failed"]
    /\ UNCHANGED <<system, disk, get, mixed, crashed, trouble>>

-----------------------------------------------------------------------------
(* Uploads in the agent *)

Open(n) == {f \in Upload : put[f].inode = n}
Receiving == {f \in Upload : put[f].inode # NoInode}
Readers(n) == {d \in Download : get[d].inode = n}

(* Whether f, which has closed its own file, may take the name away. *)
Removable(f) == system = "linux" \/ Open(part) \subseteq {f}
Movable(f) ==
    /\ part # NoInode
    /\ Removable(f)
    /\ system = "linux" \/ Readers(final) = {}

(* The file is closed before the name is touched. *)
Ends(f, reply) == [put EXCEPT ![f].agent = "cleanup", ![f].inode = NoInode, ![f].total = 0,
                           ![f].reply = reply]
Removed(f) == IF Removable(f) THEN NoInode ELSE part

CreateInPlace(f) ==
    /\ put[f].agent = "create"
    /\ content' = [content EXCEPT ![final] = Empty]
    /\ put' = [put EXCEPT ![f].agent = "read", ![f].inode = final]
    /\ mixed' = (mixed \/ Receiving # {})
    /\ UNCHANGED <<system, part, final, get, crashed, trouble>>

(* os.Create: a part file that is there is emptied and shared. *)
Create(f) ==
    /\ put[f].agent = "create"
    /\ LET n == IF part = NoInode THEN f ELSE part
       IN /\ part' = n
          /\ content' = [content EXCEPT ![n] = Empty]
          /\ put' = [put EXCEPT ![f].agent = "read", ![f].inode = n]
          /\ mixed' = (mixed \/ Receiving # {})
    /\ UNCHANGED <<system, final, get, crashed, trouble>>

CreateFails(f) ==
    /\ put[f].agent = "create" /\ Trouble
    /\ put' = [put EXCEPT ![f].agent = "done", ![f].reply = "error"]
    /\ UNCHANGED <<system, disk, get, mixed, crashed>>

(* Each handler writes at its own place in the file. *)
ReceiveChunk(f) ==
    LET at == put[f].total + 1
    IN /\ put[f].agent = "read" /\ put[f].client = "open" /\ ~put[f].cut
       /\ at < Chunks \/ (at = Chunks /\ put[f].kind \notin {"shrunk", "grown"})
       /\ content' = [content EXCEPT ![put[f].inode][at] = <<f, put[f].kind # "edited">>]
       /\ put' = [put EXCEPT ![f].total = at]
       /\ UNCHANGED <<system, part, final, get, mixed, crashed, trouble>>

(* A chunk goes past the declared size, or the disk refuses the write. *)
ReceiveFails(f) ==
    /\ put[f].agent = "read" /\ put[f].client = "open" /\ ~put[f].cut
    /\ \/ (put[f].kind = "grown" /\ put[f].total = Chunks - 1 /\ UNCHANGED trouble)
       \/ (put[f].total < Chunks /\ Trouble)
    /\ part' = Removed(f)
    /\ put' = Ends(f, "error")
    /\ UNCHANGED <<system, final, content, get, mixed, crashed>>

LoopWaitsForEnd(f) == TRUE

(* for total < p.Size *)
LoopWaits(f) == put[f].total < Chunks

VerifiedHash(f) == put[f].kind # "edited"

(* The hash is of the frames that came, not of the file. *)
Verified(f) == put[f].total = Chunks /\ put[f].kind # "edited"

(* All is there, or the session is gone. *)
FinishUpload(f) ==
    /\ put[f].agent = "read"
    /\ ~LoopWaits(f) \/ put[f].cut
    /\ \/ /\ Verified(f) /\ Movable(f)
          /\ final' = part /\ part' = NoInode
          /\ put' = Ends(f, "ok")
       \/ /\ Verified(f) /\ ~Movable(f)
          /\ put' = Ends(f, "error")
          /\ UNCHANGED <<part, final>>
       \/ /\ ~Verified(f)
          /\ part' = Removed(f)
          /\ put' = Ends(f, "error")
          /\ UNCHANGED final
    /\ UNCHANGED <<system, content, get, mixed, crashed, trouble>>

(* Deferred, after the closing handshake: whatever part file there is. *)
Cleanup(f) ==
    /\ put[f].agent = "cleanup"
    /\ put' = [put EXCEPT ![f].agent = "done"]
    /\ part' = Removed(f)
    /\ UNCHANGED <<system, final, content, get, mixed, crashed, trouble>>

-----------------------------------------------------------------------------
(* xnc get *)

StartDownload(d) ==
    /\ get[d].client = "idle" /\ Cardinality(Started) < MaxTransfers
    /\ get' = [get EXCEPT ![d].client = "open", ![d].agent = "open"]
    /\ UNCHANGED <<system, disk, put, mixed, crashed, trouble>>

OpenFinal(d) ==
    /\ get[d].agent = "open"
    /\ get' = [get EXCEPT ![d].agent = "read", ![d].inode = final]
    /\ UNCHANGED <<system, disk, put, mixed, crashed, trouble>>

(* It cannot be opened, or is too large. *)
OpenFails(d) ==
    /\ get[d].agent = "open" /\ Trouble
    /\ get' = [get EXCEPT ![d].agent = "done", ![d].reply = "error"]
    /\ UNCHANGED <<system, disk, put, mixed, crashed>>

(* Chunk by chunk; the end of the file, and any error, end with a result
   that says ok. *)
SendNext(d) ==
    LET at == Len(get[d].got) + 1
        here == get[d].inode
        Result(erred) == get' = [get EXCEPT ![d].agent = "done", ![d].inode = NoInode,
                                            ![d].reply = "ok", ![d].erred = erred]
    IN /\ get[d].agent = "read" /\ ~get[d].cut
       /\ \/ /\ at <= Chunks /\ content[here][at] # Nothing
             /\ get' = [get EXCEPT ![d].got = Append(@, content[here][at])]
             /\ UNCHANGED trouble
          \/ at > Chunks /\ Result(FALSE) /\ UNCHANGED trouble
          \/ at <= Chunks /\ content[here][at] = Nothing /\ Result(FALSE) /\ UNCHANGED trouble
          \/ at <= Chunks /\ Trouble /\ Result(TRUE)
       /\ UNCHANGED <<system, disk, put, mixed, crashed>>

StopSending(d) ==
    /\ get[d].agent \in {"open", "read"} /\ get[d].cut
    /\ get' = [get EXCEPT ![d].agent = "done", ![d].inode = NoInode]
    /\ UNCHANGED <<system, disk, put, mixed, crashed, trouble>>

(* The hash of what came is compared with the hash of what was sent. *)
GetReturns(d) ==
    /\ get[d].client = "open"
    /\ \/ get[d].reply = "ok" /\ get' = [get EXCEPT ![d].client = "ok"]
       \/ (get[d].reply = "error" \/ get[d].cut) /\ get' = [get EXCEPT ![d].client = "failed"]
    /\ UNCHANGED <<system, disk, put, mixed, crashed, trouble>>

-----------------------------------------------------------------------------
CutPut(f) ==
    /\ put[f].client = "open" /\ ~put[f].cut /\ Trouble
    /\ put' = [put EXCEPT ![f].cut = TRUE]
    /\ UNCHANGED <<system, disk, get, mixed, crashed>>

CutGet(d) ==
    /\ get[d].client = "open" /\ ~get[d].cut /\ Trouble
    /\ get' = [get EXCEPT ![d].cut = TRUE]
    /\ UNCHANGED <<system, disk, put, mixed, crashed>>

AgentCrashes ==
    /\ Trouble
    /\ put' = [f \in Upload |-> IF put[f].agent = "none" THEN put[f]
                                ELSE [put[f] EXCEPT !.agent = "done", !.inode = NoInode, !.cut = TRUE]]
    /\ get' = [d \in Download |-> IF get[d].agent = "none" THEN get[d]
                                  ELSE [get[d] EXCEPT !.agent = "done", !.inode = NoInode, !.cut = TRUE]]
    /\ crashed' = TRUE
    /\ UNCHANGED <<system, disk, mixed>>

UploadSteps(f) ==
    \/ PutReturns(f) \/ Create(f) \/ ReceiveChunk(f) \/ ReceiveFails(f) \/ FinishUpload(f) \/ Cleanup(f)

DownloadSteps(d) == OpenFinal(d) \/ SendNext(d) \/ StopSending(d) \/ GetReturns(d)

TransferNext ==
    \/ \E f \in Upload : StartUpload(f) \/ UploadSteps(f) \/ CreateFails(f) \/ CutPut(f)
    \/ \E d \in Download : StartDownload(d) \/ DownloadSteps(d) \/ OpenFails(d) \/ CutGet(d)
    \/ AgentCrashes

(* The client's goroutines and the handlers run. *)
TransferFairness ==
    /\ \A f \in Upload :
          /\ WF_transferVars(PutReturns(f))
          /\ WF_transferVars(Create(f) \/ ReceiveChunk(f) \/ ReceiveFails(f))
          /\ WF_transferVars(FinishUpload(f) \/ Cleanup(f))
    /\ \A d \in Download : WF_transferVars(DownloadSteps(d))

TransferSpec == TransferInit /\ [][TransferNext]_transferVars /\ TransferFairness

-----------------------------------------------------------------------------
(* The path holds one upload from its first to its last chunk, or the file
   of before: no cut session, failing call, crash, or local file that changed
   while it was sent leaves a part of one there, unless two uploads to the
   path overlapped. *)
PathWhole == mixed \/ Whole(content[final])

(* When all handlers have returned no part file is left, also where uploads
   failed, overlapped, or could not remove the file of the other. *)
NoResidue ==
    (\A f \in Upload : put[f].agent \in {"none", "done"}) /\ ~crashed => part = NoInode

(* An upload takes place as a whole or not at all, at the path and beside it. *)
UploadAtomic == PathWhole /\ NoResidue

(* A download that reports success has all of one upload, although uploads
   replace the file under it; except where the node could not read its file
   to the end, or two uploads had overlapped. *)
DownloadHonest ==
    \A d \in Download : get[d].client = "ok" /\ ~get[d].erred /\ ~mixed =>
        Len(get[d].got) = Chunks /\ Whole(get[d].got)

(* In the end no client and no handler is still at a transfer, whatever was
   cut, unless the local file had become shorter between the two times it was
   read. *)
TransferEnds ==
    <>[]/\ \A f \in Upload : put[f].kind = "shrunk" \/
             (put[f].client # "open" /\ put[f].agent \in {"none", "done"})
        /\ \A d \in Download : get[d].client # "open" /\ get[d].agent \in {"none", "done"}

(* Without the exceptions, as the comments have it: the rename is atomic; a
   result that says ok is of a whole file; a transfer comes to an end. *)
RenameAtomic == Whole(content[final])
DownloadWhole ==
    \A d \in Download : get[d].client = "ok" /\ ~mixed => Len(get[d].got) = Chunks
UploadReturns == <>[](\A f \in Upload : put[f].client # "open")
=============================================================================
