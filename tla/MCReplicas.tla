----------------------------- MODULE MCReplicas -----------------------------
(***************************************************************************)
(* Model-checking instance of the ways a client comes to have a copy of    *)
(* what the host has: of a Terminal by the streaming and by the reliable   *)
(* attachment, with the transfer of large bodies below both, and of a file *)
(* by a download.  They share no state: a behaviour is one of them, and    *)
(* the variables of the others never move.                                 *)
(***************************************************************************)
EXTENDS StreamingSync

CONSTANTS
  Modes, EventCap, OutCap, MaxDown, AttachEpochs, AttachGens,
  ChunkBytes, MinInput, MinSaving, MaxWorkingBytes, MaxFragments, MaxBodies,
  NoFile, Foreign, FileSize, MaxEdits, MaxBreaks, MaxKills

VARIABLES
  part,  \* which of the four
  mode, attachEngine, reader, child, status, final, queue, lagged, missed,
  handler, known, attachDirty, acked, inFlight, revision, out, attachDown,
  attachUp, attachClient,
  zstd, chunks, bodies, assembler, viewport,
  files, path, edits, modified, serving, run, partial, sidecar, local, foreign,
  breaks, kills, versions

A == INSTANCE AttachStream WITH
  MaxEpoch <- AttachEpochs, MaxGen <- AttachGens,
  engine <- attachEngine, dirty <- attachDirty, down <- attachDown, up <- attachUp,
  client <- attachClient

\* Bodies of no byte, of one chunk and of several, with and without a saving.
MCBodies == {[raw |-> 0, packed |-> 0], [raw |-> 2, packed |-> 1],
             [raw |-> 6, packed |-> 3], [raw |-> 7, packed |-> 7]}

\* Deltas around the edges of the varint lengths and of the u16 interval.
MCDeltas ==
  {[raw |-> r, packed |-> (r * q) \div 8, budget |-> b, keyframe |-> k] :
     r \in {0, 1, 127, 1024, 5000, 21844, 21845, 40000, 65535},
     q \in {1, 7, 9}, b \in {0, 400, 1200}, k \in {600, 30000}}

MCMaxBytes == [state |-> 8, history |-> 6]

T == INSTANCE Transfers WITH
  Bodies <- MCBodies, Deltas <- MCDeltas, MaxBytes <- MCMaxBytes,
  stream <- chunks, sent <- bodies, client <- assembler

D == INSTANCE FileDownload WITH Size <- FileSize

ASSUME A!AttachAssumption /\ D!DownloadAssumption

attachVars ==
  <<mode, attachEngine, reader, child, status, final, queue, lagged, missed, handler,
    known, attachDirty, acked, inFlight, revision, out, attachDown, attachUp, attachClient>>
transferVars == <<zstd, chunks, bodies, assembler, viewport>>
downloadVars ==
  <<files, path, edits, modified, serving, run, partial, sidecar, local, foreign, breaks,
    kills, versions>>
all == <<part, vars, attachVars, transferVars, downloadVars>>

MCInit ==
  /\ part \in {"streaming", "attach", "transfers", "download"}
  /\ Init /\ A!Init /\ T!Init /\ D!Init
  /\ part # "streaming" => capacity = 1
  /\ part # "attach" => mode = "ack"
  /\ part # "transfers" => zstd = FALSE

\* All but the streaming attachment come to an end.
Over == part # "streaming" /\ UNCHANGED all

MCNext ==
  \/ part = "streaming" /\ Next /\ UNCHANGED <<part, attachVars, transferVars, downloadVars>>
  \/ part = "attach" /\ A!Next /\ UNCHANGED <<part, vars, transferVars, downloadVars>>
  \/ part = "transfers" /\ T!Next /\ UNCHANGED <<part, vars, attachVars, downloadVars>>
  \/ part = "download" /\ D!Next /\ UNCHANGED <<part, vars, attachVars, transferVars>>
  \/ Over

\* Fairness of StreamingSync, AttachStream and FileDownload, each where it is
\* the part that moves.
Streaming(action) == part = "streaming" /\ action
Attach(action) == part = "attach" /\ action

MCFairness ==
  /\ WF_vars(Streaming(PtyEvent)) /\ WF_vars(Streaming(Sample))
  /\ WF_vars(Streaming(Rekey)) /\ WF_vars(Streaming(Command))
  /\ WF_vars(Streaming(RecvKeyframe \/ RecvExited))
  /\ WF_vars(Streaming(RecvDatagram))
  /\ WF_attachVars(Attach(A!MarkInfo \/ A!Announce))
  /\ WF_attachVars(Attach(A!ReadInfo \/ A!Subscribe))
  /\ WF_attachVars(Attach(A!RecvEvent \/ A!RecvLagged))
  /\ WF_attachVars(Attach(A!SampleAck)) /\ WF_attachVars(Attach(A!SampleIndependent))
  /\ WF_attachVars(Attach(A!RecvAck)) /\ WF_attachVars(Attach(A!Drain))
  /\ WF_attachVars(Attach(A!Read))
  /\ WF_downloadVars(part = "download" /\ D!Client)

MCSpec == MCInit /\ [][MCNext]_all /\ MCFairness

(* AttachStream's ImplementsView: the reliable client's screen moves only  *)
(* forward through states of the engine.                                   *)
AttachImplementsView == A!ImplementsView


(* On either path a client that has read Exited shows the last output      *)
(* (FinalStateShown, FinalOutputShown).                                    *)
LastOutputShown == FinalStateShown /\ A!FinalOutputShown


(* AttachStream's AttachEnds: an attachment ends once its Terminal exits.  *)
AttachEnds == part = "attach" => A!AttachEnds

(* FileDownload's OneVersion: two versions are never spliced together.     *)
OneVersion == D!OneVersion

(* Transfers' PayloadsWhole: bodies arrive whole and in order, and the     *)
(* fragments of a delta are the delta and fit the path.                    *)
PayloadsWhole == T!PayloadsWhole
=============================================================================
