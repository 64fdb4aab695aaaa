---------------------------- MODULE MCUserWorker ----------------------------
(***************************************************************************)
(* Model-checking instance of a user's worker: how the gateway starts and  *)
(* finds it, and the uploads it serves.  They share no state: a behaviour  *)
(* is one of them, and the variables of the other never move.              *)
(***************************************************************************)
EXTENDS WorkerRouter, TLC

CONSTANTS
  s1, s2, s3, c1, c2,                    \* WorkerRouter
  Clients, Overwriters, Size, MaxInodes  \* FileUpload

VARIABLES
  part,  \* which of the two
  scenario, inodes, synced, destination, temporary, uploads, committing, client,
  inbox, outbox, kills, powerLosses, held

\* Two streams of one connection are needed to meet the fence, two
\* connections to go on after it has closed one.
MCStreams == {s1, s2, s3}
MCConnections == {c1, c2}
MCCarrier == (s1 :> c1) @@ (s2 :> c1) @@ (s3 :> c2)

\* A client without and one with --overwrite, alone or together, each with
\* its share of trouble.
MCScenarios ==
  {[clients |-> {"a", "b"}, breaks |-> 0, kills |-> 0, powerLosses |-> 0, outsiders |-> TRUE],
   [clients |-> {"a"},      breaks |-> 1, kills |-> 0, powerLosses |-> 0, outsiders |-> TRUE],
   [clients |-> {"a", "b"}, breaks |-> 1, kills |-> 0, powerLosses |-> 1, outsiders |-> FALSE],
   [clients |-> {"a"},      breaks |-> 2, kills |-> 2, powerLosses |-> 0, outsiders |-> FALSE],
   [clients |-> {"b"},      breaks |-> 2, kills |-> 2, powerLosses |-> 0, outsiders |-> FALSE]}

NoUploads ==
  [clients |-> {}, breaks |-> 0, kills |-> 0, powerLosses |-> 0, outsiders |-> FALSE]

U == INSTANCE FileUpload WITH
  Scenarios <- MCScenarios \cup {NoUploads},
  target <- destination, requests <- inbox, responses <- outbox

ASSUME UploadInstance == U!UploadAssumption

uploadVars ==
  <<scenario, inodes, synced, destination, temporary, uploads, committing, client, inbox,
    outbox, kills, powerLosses, held>>
all == <<part, vars, uploadVars>>

MCInit ==
  /\ part \in {"router", "upload"}
  /\ Init /\ U!Init
  /\ (part = "upload") = (scenario # NoUploads)

MCNext ==
  \/ part = "router" /\ Next /\ UNCHANGED <<part, uploadVars>>
  \/ part = "upload" /\ U!Next /\ UNCHANGED <<part, vars>>

\* The fairness of both; where the other moves, no stream asks for the worker
\* or no client uploads.
MCFairness == (\A s \in Streams : WF_vars(Route(s))) /\ U!Fairness

MCSpec == MCInit /\ [][MCNext]_all /\ MCFairness

(* WorkerRouter's FencedConnection and ServedIsReserved: the streams of a  *)
(* connection stay with one worker instance, and it keeps its capacity     *)
(* while they use it, whatever probes fail and whoever restarts.           *)
StreamsKeepTheirWorker == FencedConnection /\ ServedIsReserved

(* FileUpload's PublishedWhole: no program finds a partial upload.         *)
PublishedWhole == U!PublishedWhole

(* FileUpload's SuccessIsTrue: a client that reports success has had its   *)
(* file at the destination.                                                *)
SuccessIsTrue == U!SuccessIsTrue

(* FileUpload's NoClobber: without --overwrite a commit replaces nothing.  *)
NoClobber == U!NoClobber

(* Whoever asks the worker for something gets it or an error: a stream is  *)
(* relayed or refused (StreamSettles), and an upload that is left alone    *)
(* completes (UploadCompletes).                                            *)
RequestsEnd == StreamSettles /\ U!UploadCompletes
=============================================================================
