----------------------------- MODULE FileUpload -----------------------------
(***************************************************************************)
(* Resumable uploads: the FileService of files.rs and the upload loop of   *)
(* the astra client, over connections that break and a server that may be  *)
(* killed or lose power, while other programs use the destination.         *)
(*                                                                         *)
(* Every client uploads one file to the same destination under a transfer  *)
(* id of its own.  A request that was sent on a broken connection may      *)
(* still be executed later; its response is lost.  All operations of the   *)
(* service run under one mutex; the steps of a commit are separate, since  *)
(* other programs and crashes may come between them.                       *)
(*                                                                         *)
(* Abstractions.  A file is a sequence of chunks and a digest is the       *)
(* content itself; the chunk digest keeps damaged requests out.  Quotas    *)
(* are in ResourcePools, path resolution is left out.                      *)
(***************************************************************************)
EXTENDS Naturals, Sequences, FiniteSets

CONSTANTS
  Clients,       \* one transfer each
  Overwriters,   \* those that pass --overwrite
  Size,          \* chunks of every file
  MaxInodes,     \* bound: files ever created
  Scenarios      \* what may happen: which clients take part, how many
                 \* connections of a client break by themselves, how often the
                 \* server is killed or its machine loses power, and whether
                 \* other programs touch the destination

UploadAssumption ==
  /\ Overwriters \subseteq Clients
  /\ "foreign" \notin Clients
  /\ Size \in Nat \ {0} /\ MaxInodes \in Nat
  /\ Scenarios \subseteq [clients : SUBSET Clients, breaks : Nat, kills : Nat,
                          powerLosses : Nat, outsiders : BOOLEAN]

VARIABLES
  scenario,    \* one of Scenarios, fixed
  inodes,      \* contents of all files ever created
  synced,      \* those whose content is on stable storage
  target,      \* the inode at the destination, or 0
  temporary,   \* the inode at .astra-upload-<id>.part, or 0
  uploads,     \* FileService.uploads
  committing,  \* the commit that holds the mutex
  client,      \* where each client is
  requests,    \* on their way to the service
  responses,   \* on their way back
  kills, powerLosses,
  held         \* history: whose file has been at the destination

disk == <<inodes, synced, target, temporary>>
server == <<uploads, committing>>
network == <<requests, responses>>
faults == <<scenario, kills, powerLosses>>
vars == <<disk, server, client, network, faults, held>>

Source(c) == [i \in 1 .. Size |-> c]
Foreign == [i \in 1 .. Size |-> "foreign"]
Zero == "zero"

NoUpload == [state |-> "none", offset |-> 0]
Upload(state, offset) == [state |-> state, offset |-> offset]
NoCommit == [client |-> "none", step |-> "none"]

Init ==
  /\ scenario \in Scenarios
  /\ inodes = <<>> /\ synced = {}
  /\ target = 0 /\ temporary = [c \in Clients |-> 0]
  /\ uploads = [c \in Clients |-> NoUpload]
  /\ committing = NoCommit
  /\ client = [c \in Clients |-> [pc |-> "begin", offset |-> 0, waiting |-> FALSE,
                                  connection |-> 1, broken |-> FALSE,
                                  error |-> "none"]]
  /\ requests = {} /\ responses = {}
  /\ kills = 0 /\ powerLosses = 0
  /\ held = {}

---------------------------------------------------------------------------
(* The service.  Reply ends the handling of request q.                     *)

Status(u) == [kind |-> "status", state |-> u.state, offset |-> u.offset]
Failure(code) == [kind |-> code, state |-> "none", offset |-> 0]

Reply(q, answer) ==
  responses' = responses \cup
    {[client |-> q.client, connection |-> q.connection, answer |-> answer]}

\* begin_upload forgets the uploads that have ended.
Retained == [c \in Clients |-> IF uploads[c].state = "active" THEN uploads[c] ELSE NoUpload]

\* Mutant: a file of the same size counts as uploaded.
SameSize(c) == target # 0 /\ Len(inodes[target]) = Size

\* The destination already holds this very file.
AlreadyThere(c) == target # 0 /\ inodes[target] = Source(c)

\* The offset at which an upload resumes.
CommittedOffset(content) == Len(content)

\* Opening the temporary file creates it if need be.
NewTemporary(c) ==
  IF temporary[c] # 0 THEN UNCHANGED <<inodes, temporary>>
  ELSE /\ Len(inodes) < MaxInodes
       /\ inodes' = Append(inodes, <<>>)
       /\ temporary' = [temporary EXCEPT ![c] = Len(inodes) + 1]

BeginUpload(q) ==
  LET c == q.client IN
  /\ q.op = "begin"
  /\ \/ /\ uploads[c] # NoUpload
        /\ Reply(q, Status(uploads[c]))
        /\ UNCHANGED <<uploads, inodes, temporary>>
     \/ /\ uploads[c] = NoUpload /\ AlreadyThere(c)
        /\ uploads' = [Retained EXCEPT ![c] = Upload("completed", Size)]
        /\ Reply(q, Status(uploads'[c]))
        /\ UNCHANGED <<inodes, temporary>>
     \/ /\ uploads[c] = NoUpload /\ ~AlreadyThere(c)
        /\ target # 0 /\ c \notin Overwriters
        /\ uploads' = Retained
        /\ Reply(q, Failure("conflict"))
        /\ UNCHANGED <<inodes, temporary>>
     \/ /\ uploads[c] = NoUpload /\ ~AlreadyThere(c)
        /\ target # 0 => c \in Overwriters
        /\ NewTemporary(c)
        /\ uploads' = [Retained EXCEPT ![c] =
                         Upload("active", CommittedOffset(inodes'[temporary'[c]]))]
        /\ Reply(q, Status(uploads'[c]))
  /\ UNCHANGED <<synced, target, committing>>

\* What the service does with a chunk of an active upload.
Replayed(c, offset) == offset < uploads[c].offset
Expected(c, offset) == offset = uploads[c].offset

WriteChunk(q) ==
  LET c == q.client
      content == inodes[temporary[c]]
  IN
  /\ q.op = "write"
  /\ \/ /\ uploads[c].state \in {"none", "aborted"}
        /\ Reply(q, Failure(IF uploads[c] = NoUpload THEN "not_found" ELSE "conflict"))
        /\ UNCHANGED <<inodes, synced, uploads>>
     \/ /\ uploads[c].state = "completed"
        /\ Reply(q, Status(uploads[c]))
        /\ UNCHANGED <<inodes, synced, uploads>>
     \/ /\ uploads[c].state = "active" /\ Replayed(c, q.offset)
        /\ Reply(q, IF q.offset < Len(content) /\ content[q.offset + 1] = c
                      THEN Status(uploads[c]) ELSE Failure("conflict"))
        /\ UNCHANGED <<inodes, synced, uploads>>
     \/ /\ uploads[c].state = "active" /\ ~Replayed(c, q.offset) /\ Expected(c, q.offset)
        /\ inodes' = [inodes EXCEPT ![temporary[c]] = Append(@, c)]
        /\ synced' = synced \ {temporary[c]}
        /\ uploads' = [uploads EXCEPT ![c].offset = @ + 1]
        /\ Reply(q, Status(uploads'[c]))
  /\ UNCHANGED <<target, temporary, committing>>

Verified(c) == inodes[temporary[c]] = Source(c)

\* commit_upload up to its checks; what passes them goes on below.
CommitUpload(q) ==
  LET c == q.client
      u == uploads[c]
      refusal ==
        IF u = NoUpload THEN "not_found"
        ELSE IF u.state = "aborted" \/ u.offset # Size THEN "conflict"
        ELSE IF ~Verified(c) THEN "checksum"
        ELSE IF target # 0 /\ c \notin Overwriters THEN "conflict" ELSE "none"
  IN
  /\ q.op = "commit"
  /\ \/ /\ u.state = "completed"
        /\ Reply(q, Status(u)) /\ UNCHANGED committing
     \/ /\ u.state # "completed" /\ refusal # "none"
        /\ Reply(q, Failure(refusal)) /\ UNCHANGED committing
     \/ /\ u.state = "active" /\ refusal = "none"
        /\ committing' = [client |-> c, step |-> "sync", connection |-> q.connection]
        /\ UNCHANGED responses
  /\ UNCHANGED <<disk, uploads>>

Handle ==
  \E q \in requests :
    /\ committing = NoCommit
    /\ requests' = requests \ {q}
    /\ BeginUpload(q) \/ WriteChunk(q) \/ CommitUpload(q)
    /\ UNCHANGED <<client, faults, held>>

\* Mutant: the content is published before it is synced.
SyncNothing == synced

SyncTemporary == synced \cup {temporary[committing.client]}

SyncContent ==
  /\ committing.step = "sync"
  /\ synced' = SyncTemporary
  /\ committing' = [committing EXCEPT !.step = "publish"]
  /\ UNCHANGED <<inodes, target, temporary, uploads, client, network, faults, held>>

\* Mutant: the earlier check of the destination is relied on.
RenameAnyway(c) == TRUE

\* rename replaces the destination, hard_link fails if there is one.
MayPublish(c) == c \in Overwriters \/ target = 0

Publish ==
  LET c == committing.client IN
  /\ committing.step = "publish"
  /\ IF MayPublish(c)
       THEN /\ target' = temporary[c]
            /\ temporary' = [temporary EXCEPT ![c] = IF c \in Overwriters THEN 0 ELSE @]
            /\ committing' = [committing EXCEPT !.step = "unlink"]
            /\ held' = held \cup {c}
            /\ UNCHANGED responses
       ELSE /\ committing' = NoCommit
            /\ Reply(committing, Failure("conflict"))
            /\ UNCHANGED <<target, temporary, held>>
  /\ UNCHANGED <<inodes, synced, uploads, client, requests, faults>>

\* The private name is removed, the directory synced and the upload complete.
Finish ==
  LET c == committing.client IN
  /\ committing.step = "unlink"
  /\ temporary' = [temporary EXCEPT ![c] = 0]
  /\ uploads' = [uploads EXCEPT ![c].state = "completed"]
  /\ committing' = NoCommit
  /\ Reply(committing, Status(uploads'[c]))
  /\ UNCHANGED <<inodes, synced, target, client, requests, faults, held>>

---------------------------------------------------------------------------
(* The rest of the world.                                                  *)

\* The server is killed: its memory and all connections are gone.
Die ==
  /\ uploads' = [c \in Clients |-> NoUpload]
  /\ committing' = NoCommit
  /\ requests' = {} /\ responses' = {}
  /\ client' = [c \in Clients |-> [client[c] EXCEPT !.broken = TRUE]]
  /\ UNCHANGED <<target, temporary, held>>

Kill ==
  /\ kills < scenario.kills
  /\ kills' = kills + 1
  /\ Die
  /\ UNCHANGED <<inodes, synced, scenario, powerLosses>>

\* What is left of a content that was not synced.
Damaged(content) ==
  {SubSeq(content, 1, n) : n \in 0 .. Len(content)}
    \cup {[i \in 1 .. Len(content) |-> IF i <= n THEN content[i] ELSE Zero] :
            n \in 0 .. Len(content)}

PowerLoss ==
  /\ powerLosses < scenario.powerLosses
  /\ powerLosses' = powerLosses + 1
  /\ Die
  /\ \E after \in [1 .. Len(inodes) -> UNION {Damaged(inodes[i]) : i \in 1 .. Len(inodes)}] :
       /\ \A i \in 1 .. Len(inodes) :
            after[i] \in IF i \in synced THEN {inodes[i]} ELSE Damaged(inodes[i])
       /\ inodes' = after
  /\ synced' = 1 .. Len(inodes)
  /\ UNCHANGED <<scenario, kills>>

\* Another program puts a file at the destination or removes it.
Meddle ==
  /\ scenario.outsiders
  /\ \/ /\ Len(inodes) < MaxInodes
        /\ inodes' = Append(inodes, Foreign)
        /\ synced' = synced \cup {Len(inodes) + 1}
        /\ target' = Len(inodes) + 1
     \/ target # 0 /\ target' = 0 /\ UNCHANGED <<inodes, synced>>
  /\ UNCHANGED <<temporary, server, client, network, faults, held>>

\* abort_upload, from another program of the user.
AbortUpload ==
  \E c \in Clients :
    /\ scenario.outsiders
    /\ committing = NoCommit /\ uploads[c].state = "active"
    /\ temporary' = [temporary EXCEPT ![c] = 0]
    /\ uploads' = [uploads EXCEPT ![c].state = "aborted"]
    /\ UNCHANGED <<inodes, synced, target, committing, client, network, faults, held>>

---------------------------------------------------------------------------
(* The astra client.  "begin" opens the upload, "resume" is the begin of   *)
(* a write whose connection broke, "recommit" that of a commit.            *)

Op(pc) == IF pc \in {"begin", "resume", "recommit"} THEN "begin" ELSE pc

Send(c) ==
  /\ c \in scenario.clients
  /\ client[c].pc \notin {"done", "failed"} /\ ~client[c].waiting
  /\ client' = [client EXCEPT ![c].waiting = TRUE]
  /\ requests' = IF client[c].broken THEN requests
                 ELSE requests \cup {[client |-> c, op |-> Op(client[c].pc),
                                      offset |-> client[c].offset,
                                      connection |-> client[c].connection]}
  /\ UNCHANGED <<disk, server, responses, faults, held>>

\* An interrupted write or commit is preceded by a begin.
Resumption(pc) ==
  IF pc = "write" THEN "resume" ELSE IF pc = "commit" THEN "recommit" ELSE pc

\* The connection is lost by itself or with the server.
Reconnect(c) ==
  LET me == client[c] IN
  /\ me.waiting /\ (me.broken \/ me.connection <= scenario.breaks)
  /\ client' = [client EXCEPT ![c] =
                  [me EXCEPT !.waiting = FALSE, !.connection = @ + 1, !.broken = FALSE,
                             !.pc = Resumption(@)]]
  /\ UNCHANGED <<disk, server, network, faults, held>>

\* Where the client goes with the status of its upload.
Following(pc, status) ==
  IF pc \in {"begin", "recommit", "commit"} /\ status.state = "completed" THEN "done"
  ELSE IF pc = "commit" THEN "failed"
  ELSE IF pc # "recommit" /\ status.offset < Size THEN "write" ELSE "commit"

Receive(c) ==
  LET me == client[c] IN
  \E r \in responses :
    /\ r.client = c /\ r.connection = me.connection /\ me.waiting
    /\ responses' = responses \ {r}
    /\ \/ /\ r.answer.kind = "status"
          /\ client' = [client EXCEPT ![c] =
                          [me EXCEPT !.waiting = FALSE, !.offset = r.answer.offset,
                                     !.pc = Following(me.pc, r.answer)]]
       \/ /\ r.answer.kind # "status"
          /\ client' = [client EXCEPT ![c] =
                          [me EXCEPT !.waiting = FALSE, !.pc = "failed",
                                     !.error = r.answer.kind]]
    /\ UNCHANGED <<disk, server, requests, faults, held>>

Next ==
  \/ Handle \/ SyncContent \/ Publish \/ Finish
  \/ Kill \/ PowerLoss \/ Meddle \/ AbortUpload
  \/ \E c \in Clients : Send(c) \/ Reconnect(c) \/ Receive(c)

Spec == Init /\ [][Next]_vars

(* The service works off what it receives, a client goes on, and one       *)
(* whose answer will not come notices that its connection is lost.         *)
Fairness ==
  /\ WF_vars(Handle) /\ WF_vars(SyncContent \/ Publish \/ Finish)
  /\ \A c \in Clients : WF_vars(Send(c) \/ Receive(c) \/ Reconnect(c))

FairSpec == Spec /\ Fairness

---------------------------------------------------------------------------
(* Properties.                                                             *)

(* Uploads are published atomically: no program ever finds a partial,      *)
(* mixed or damaged upload at the destination, not after a power loss at   *)
(* any step either.                                                        *)
PublishedWhole ==
  target # 0 => inodes[target] \in {Source(c) : c \in Clients} \cup {Foreign}

(* Without --overwrite a commit never replaces a file, even one that       *)
(* appeared after the service had looked.  (Other programs, which replace  *)
(* the destination by a file of their own, are told by the new inode.)     *)
NoClobber ==
  [][target # 0 /\ target' \notin {0, target} /\ inodes' = inodes =>
       committing.client \in Overwriters]_vars

(* A client that reports success has had its file at the destination,      *)
(* whichever retry told it so.                                             *)
SuccessIsTrue == \A c \in Clients : client[c].pc = "done" => c \in held

Undisturbed(c) ==
  scenario.clients = {c} /\ scenario.powerLosses = 0 /\ ~scenario.outsiders

Uploaded == \A c \in Clients : Undisturbed(c) => client[c].pc = "done"

(* An upload that no one interferes with completes, although connections   *)
(* break and the server is killed at any step, between publishing the file *)
(* and recording it included.                                              *)
UploadCompletes == <>Uploaded
============================================================================
