---------------------------- MODULE FileDownload ----------------------------
(***************************************************************************)
(* Resumable downloads: begin_download and read_chunk of files.rs and the  *)
(* download loop of the astra client, while another program edits or       *)
(* replaces the remote file, connections break, and the client is killed   *)
(* and run again.                                                          *)
(*                                                                         *)
(* A snapshot is the identity and modification time of the file.  The      *)
(* service hashes the file chunk by chunk after it has taken the snapshot, *)
(* and reads a chunk after it has compared it.                             *)
(*                                                                         *)
(* Abstractions.  A digest is the content it was computed from.  All       *)
(* versions have the same size.  Every edit changes the modification time. *)
(***************************************************************************)
EXTENDS Naturals, Sequences

CONSTANTS
  NoFile,     \* stands for the content of a file that is not there
  Foreign,    \* the content of a file some other local program made
  Size,       \* chunks of the file
  MaxEdits,   \* bound: changes to the remote file
  MaxBreaks,  \* bound: connections that break
  MaxKills    \* bound: kills of the client

DownloadAssumption ==
  Size \in Nat \ {0} /\ MaxEdits \in Nat /\ MaxBreaks \in Nat /\ MaxKills \in Nat

VARIABLES
  files,     \* contents of the inodes
  path,      \* the inode at the remote path
  edits,     \* changes so far; the modification time
  modified,  \* modification time of each inode
  serving,   \* the request the service is at
  run,       \* the client: where it is and what begin_download told it
  partial,   \* <name>.astra-part, or NoFile
  sidecar,   \* its snapshot file, or NoSnapshot
  local,     \* the destination, or NoFile
  foreign,   \* another program has created the destination
  breaks, kills,
  versions   \* history: all contents of the remote file

remote == <<files, path, edits, modified, versions>>
bounds == <<foreign, breaks, kills>>
vars == <<remote, serving, run, partial, sidecar, local, bounds>>

NoSnapshot == <<0, 0>>
Nothing == [op |-> "none", inode |-> 0, snapshot |-> NoSnapshot, digest |-> <<>>]

Snapshot(i) == <<i, modified[i]>>

Init ==
  /\ files = << [i \in 1 .. Size |-> 0] >>
  /\ path = 1 /\ edits = 0 /\ modified = <<0>>
  /\ serving = Nothing
  /\ run = [pc |-> "idle", snapshot |-> NoSnapshot, digest |-> <<>>]
  /\ partial = NoFile /\ sidecar = NoSnapshot /\ local = NoFile
  /\ foreign = FALSE /\ breaks = 0 /\ kills = 0
  /\ versions = {files[1]}

---------------------------------------------------------------------------
(* Other programs.                                                         *)

\* One overwrites a chunk of the remote file in place.
Edit ==
  \E i \in 1 .. Size :
    /\ edits < MaxEdits
    /\ edits' = edits + 1
    /\ files' = [files EXCEPT ![path][i] = edits + 1]
    /\ modified' = [modified EXCEPT ![path] = edits + 1]
    /\ versions' = versions \cup {files'[path]}
    /\ UNCHANGED <<path, serving, run, partial, sidecar, local, bounds>>

\* One puts another file in its place.
Replace ==
  /\ edits < MaxEdits
  /\ edits' = edits + 1
  /\ files' = Append(files, [i \in 1 .. Size |-> edits + 1])
  /\ modified' = Append(modified, edits + 1)
  /\ path' = Len(files) + 1
  /\ versions' = versions \cup {files'[path']}
  /\ UNCHANGED <<serving, run, partial, sidecar, local, bounds>>

\* On the client's machine, some program creates the destination.
CreateLocal ==
  /\ local = NoFile /\ ~foreign
  /\ local' = Foreign /\ foreign' = TRUE
  /\ UNCHANGED <<remote, serving, run, partial, sidecar, breaks, kills>>

---------------------------------------------------------------------------
(* The service.                                                            *)

\* begin_download: the snapshot first ...
TakeSnapshot ==
  /\ run.pc \in {"begin", "rebegin"} /\ serving = Nothing
  /\ serving' = [Nothing EXCEPT !.op = "hash", !.snapshot = Snapshot(path)]
  /\ UNCHANGED <<remote, run, partial, sidecar, local, bounds>>

\* ... then the digest, of the file that is then at the path.
Hash ==
  LET i == IF serving.inode = 0 THEN path ELSE serving.inode IN
  /\ serving.op = "hash" /\ Len(serving.digest) < Size
  /\ serving' = [serving EXCEPT !.inode = i,
                                !.digest = Append(@, files[i][Len(@) + 1])]
  /\ UNCHANGED <<remote, run, partial, sidecar, local, bounds>>

\* The client learns of them; on a new connection they must be the same.
Begun ==
  LET same == serving.snapshot = run.snapshot /\ serving.digest = run.digest IN
  /\ serving.op = "hash" /\ Len(serving.digest) = Size
  /\ serving' = Nothing
  /\ run' = [pc |-> IF run.pc = "begin" THEN "prepare"
                    ELSE IF same THEN "read" ELSE "failed",
             snapshot |-> serving.snapshot, digest |-> serving.digest]
  /\ UNCHANGED <<remote, partial, sidecar, local, bounds>>

\* read_chunk opens the file and compares its snapshot ...
OpenChunk ==
  /\ run.pc = "read" /\ serving = Nothing /\ Len(partial) < Size
  /\ IF Snapshot(path) = run.snapshot
       THEN serving' = [Nothing EXCEPT !.op = "read", !.inode = path] /\ UNCHANGED run
       ELSE run' = [run EXCEPT !.pc = "failed"] /\ UNCHANGED serving
  /\ UNCHANGED <<remote, partial, sidecar, local, bounds>>

\* ... then reads from what it opened, and the client appends it.
ReadChunk ==
  /\ serving.op = "read"
  /\ serving' = Nothing
  /\ partial' = Append(partial, files[serving.inode][Len(partial) + 1])
  /\ UNCHANGED <<remote, run, sidecar, local, bounds>>

---------------------------------------------------------------------------
(* The client.                                                             *)

\* The user runs it without --overwrite, again if it failed or was killed;
\* an existing destination is refused.
Start ==
  /\ run.pc \in {"idle", "failed"} /\ local = NoFile
  /\ run' = [run EXCEPT !.pc = "begin"]
  /\ UNCHANGED <<remote, serving, partial, sidecar, local, bounds>>

Reusable == sidecar = run.snapshot /\ partial # NoFile

\* prepare_download_temporary removes a part of another version ...
RemoveStale ==
  /\ partial' = IF Reusable THEN partial ELSE NoFile
  /\ UNCHANGED sidecar

Prepare ==
  /\ run.pc = "prepare"
  /\ run' = [run EXCEPT !.pc = "mark"]
  /\ RemoveStale
  /\ UNCHANGED <<remote, serving, local, bounds>>

\* ... and then records whose parts will follow.
Mark ==
  /\ run.pc = "mark"
  /\ run' = [run EXCEPT !.pc = "read"]
  /\ sidecar' = run.snapshot
  /\ partial' = IF partial = NoFile THEN <<>> ELSE partial
  /\ UNCHANGED <<remote, serving, local, bounds>>

\* Mutant: the complete file is not verified.
Unverified == TRUE

Verified == partial = run.digest

Verify ==
  /\ run.pc = "read" /\ serving = Nothing /\ Len(partial) = Size
  /\ run' = [run EXCEPT !.pc = IF Verified THEN "rename" ELSE "failed"]
  /\ UNCHANGED <<remote, serving, partial, sidecar, local, bounds>>

Rename ==
  /\ run.pc = "rename"
  /\ run' = [run EXCEPT !.pc = "clean"]
  /\ local' = partial /\ partial' = NoFile
  /\ UNCHANGED <<remote, serving, sidecar, bounds>>

Clean ==
  /\ run.pc = "clean"
  /\ run' = [run EXCEPT !.pc = "done"]
  /\ sidecar' = NoSnapshot
  /\ UNCHANGED <<remote, serving, partial, local, bounds>>

\* The connection breaks while a request is out.
Break ==
  /\ breaks < MaxBreaks /\ serving # Nothing
  /\ breaks' = breaks + 1
  /\ serving' = Nothing
  /\ run' = [run EXCEPT !.pc = IF @ = "begin" THEN "begin" ELSE "rebegin"]
  /\ UNCHANGED <<remote, partial, sidecar, local, foreign, kills>>

Kill ==
  /\ kills < MaxKills /\ run.pc \notin {"idle", "failed", "done"}
  /\ kills' = kills + 1
  /\ serving' = Nothing
  /\ run' = [run EXCEPT !.pc = "idle"]
  /\ UNCHANGED <<remote, partial, sidecar, local, foreign, breaks>>

Client ==
  \/ TakeSnapshot \/ Hash \/ Begun \/ OpenChunk \/ ReadChunk
  \/ Start \/ Prepare \/ Mark \/ Verify \/ Rename \/ Clean

Next == Edit \/ Replace \/ CreateLocal \/ Client \/ Break \/ Kill

Spec == Init /\ [][Next]_vars

(* The service and the client go on, and the user runs the client again    *)
(* until it succeeds.                                                      *)
FairSpec == Spec /\ WF_vars(Client)

---------------------------------------------------------------------------
(* Properties.                                                             *)

(* "Two versions are never spliced together" (README, Astra Files/1): what *)
(* is put at the destination is one version the remote file really had,    *)
(* although edits fall between the comparison of a snapshot and the read,  *)
(* or into the computation of the digest.                                  *)
OneVersion == local \notin {NoFile, Foreign} => local \in versions

============================================================================
