---------------------------- MODULE AttachStream ----------------------------
(***************************************************************************)
(* How an attachment without datagrams follows its terminal: the PTY       *)
(* reader thread, the child monitor, the broadcast channel between them    *)
(* and the attach handler of server.rs, the StateSyncWindow of             *)
(* terminal_sync.rs and the QueuedWriter, in the three modes a client may  *)
(* negotiate:                                                              *)
(*   ack          semantic states, one in flight until acknowledged        *)
(*   independent  semantic states, one per drained writer                  *)
(*   legacy       a snapshot and then the raw output                       *)
(* The client is not part of the repository; it applies what it reads and  *)
(* acknowledges every state.                                               *)
(*                                                                         *)
(* Abstractions.  A screen is the epoch and generation of the engine that  *)
(* produced it.  The coalescing timer may fire whenever a sample is due.   *)
(* Enqueueing never suspends the handler, so it runs without interruption  *)
(* from subscribing to its first select!.                                  *)
(***************************************************************************)
EXTENDS Naturals, Sequences, SequencesExt

CONSTANTS
  Modes,     \* the modes the client may have negotiated
  EventCap,  \* capacity of the broadcast channel (1024 in the code)
  OutCap,    \* frames the QueuedWriter takes (20 MiB in the code)
  MaxDown,   \* bound: messages in the transport
  MaxEpoch,  \* bound: epochs of the engine
  MaxGen     \* bound: generations in an epoch

AttachAssumption ==
  /\ Modes \subseteq {"ack", "independent", "legacy"}
  /\ EventCap \in Nat \ {0} /\ OutCap \in Nat \ {0} /\ MaxDown \in Nat \ {0}
  /\ MaxEpoch \in Nat \ {0} /\ MaxGen \in Nat \ {0}

VARIABLES
  mode,      \* what was negotiated
  engine,    \* state of the TerminalEngine
  reader,    \* whether the reader thread still reads the PTY
  child,     \* what the child monitor has found out
  status,    \* TerminalInfo.status
  final,     \* the engine when the status left "running"
  queue,     \* the events in the handler's receiver
  lagged,    \* the receiver has been overrun
  missed,    \* history: the handler can no longer learn of the exit
  handler,   \* where the attach handler is
  known,     \* the status it read when it started
  dirty,     \* StateSyncWindow.dirty, or independent_dirty
  acked,     \* StateSyncWindow.acknowledged
  inFlight,  \* StateSyncWindow.in_flight
  revision,  \* independent_revision
  out,       \* messages in the QueuedWriter
  down,      \* messages on the wire
  up,        \* acknowledgements on the wire
  client     \* what the client shows and whether it has read Exited

terminal == <<engine, reader, child, status, final>>
receiver == <<queue, lagged, missed>>
window == <<dirty, acked, inFlight, revision>>
vars == <<mode, terminal, receiver, handler, known, window, out, down, up, client>>

States == [epoch : 1 .. MaxEpoch, gen : 1 .. MaxGen]
None == [epoch |-> 0, gen |-> 0]

AtLeast(s, t) == s.epoch > t.epoch \/ (s.epoch = t.epoch /\ s.gen >= t.gen)

Full(s) == [kind |-> "full", base |-> None, state |-> s]
Diff(b, s) == [kind |-> "diff", base |-> b, state |-> s]
Bytes(b, s) == [kind |-> "bytes", base |-> b, state |-> s]
Exited == [kind |-> "exited", base |-> None, state |-> None]
Error == [kind |-> "error", base |-> None, state |-> None]

IsFrame(m) == m.kind \in {"full", "diff", "bytes"}

Init ==
  /\ mode \in Modes
  /\ engine = [epoch |-> 1, gen |-> 1]
  /\ reader = "reading"
  /\ child = "running"
  /\ status = "running"
  /\ final = None
  /\ queue = <<>> /\ lagged = FALSE /\ missed = FALSE
  /\ handler = "start"
  /\ known = "running"
  /\ dirty = FALSE
  /\ acked = None /\ inFlight = None /\ revision = None
  /\ out = <<>> /\ down = <<>> /\ up = <<>>
  /\ client = [shown |-> None, exact |-> TRUE, exited |-> FALSE]

---------------------------------------------------------------------------
(* The terminal.                                                           *)

\* broadcast::Sender::send, seen by the handler's receiver, which may be
\* overrun.  An Exited sent before the handler subscribed is not seen, and
\* output that follows it may evict it.
Publish(e) ==
  IF handler \in {"start", "informed"}
    THEN /\ missed' = (missed \/ (e = Exited /\ handler = "informed" /\ known = "running"))
         /\ UNCHANGED <<queue, lagged>>
    ELSE /\ queue' = IF Len(queue) < EventCap THEN Append(queue, e)
                     ELSE Append(Tail(queue), e)
         /\ lagged' = (lagged \/ Len(queue) >= EventCap)
         /\ missed' = (missed \/ (Len(queue) >= EventCap /\ Head(queue) = Exited))

\* Output advances the engine, sometimes into a new epoch, and is published
\* under the same lock.
Output ==
  \E s \in States :
    /\ reader = "reading"
    /\ \/ s.epoch = engine.epoch /\ s.gen = engine.gen + 1
       \/ s.epoch = engine.epoch + 1 /\ s.gen = 1
    /\ engine' = s
    /\ Publish(Bytes(engine, s))
    /\ UNCHANGED <<mode, reader, child, status, final, handler, known, window,
                   out, down, up, client>>

\* End of file, or a read error, which is published.
ReaderEnds ==
  /\ reader = "reading"
  /\ reader' = "done"
  /\ \/ UNCHANGED receiver
     \/ Publish(Error)
  /\ UNCHANGED <<mode, engine, child, status, final, handler, known, window,
                 out, down, up, client>>

\* try_wait has a status, or fails.
Reap ==
  /\ child = "running"
  /\ child' \in {"exited", "lost"}
  /\ UNCHANGED <<mode, engine, reader, status, final, receiver, handler, known, window,
                 out, down, up, client>>

\* The reader is done or 250 ms have passed: the info is updated ...
MarkInfo ==
  /\ child \in {"exited", "lost"} /\ status = "running"
  /\ status' = child
  /\ final' = engine
  /\ UNCHANGED <<mode, engine, reader, child, receiver, handler, known, window,
                 out, down, up, client>>

\* ... and then the event is sent.
Announce ==
  /\ child \in {"exited", "lost"} /\ status = child
  /\ child' = "announced"
  /\ Publish(IF status = "exited" THEN Exited ELSE Error)
  /\ UNCHANGED <<mode, engine, reader, status, final, handler, known, window,
                 out, down, up, client>>

---------------------------------------------------------------------------
(* The attach handler.                                                     *)

Frames(messages) == Len(SelectSeq(messages, IsFrame))

\* The writer takes the messages, or the handler fails on its budget and ends
\* with an Error event.
Enqueue(messages, next) ==
  IF Frames(out) + Frames(messages) <= OutCap
    THEN out' = out \o messages /\ handler' = next
    ELSE out' = Append(out, Error) /\ handler' = "failed"

\* terminal.info()
ReadInfo ==
  /\ handler = "start"
  /\ handler' = "informed"
  /\ known' = status
  /\ UNCHANGED <<mode, terminal, receiver, window, out, down, up, client>>

\* Subscribe and render under the engine lock, send the first screen, and end
\* at once if the status read before was not "running".
Subscribe ==
  /\ handler = "informed"
  /\ queue' = <<>> /\ lagged' = FALSE /\ UNCHANGED missed
  /\ revision' = engine
  /\ inFlight' = IF mode = "ack" THEN engine ELSE None
  /\ IF known = "running"
       THEN Enqueue(<<Full(engine)>>, "live")
       ELSE Enqueue(<<Full(engine), Exited>>, "done")
  /\ UNCHANGED <<mode, terminal, known, dirty, acked, down, up, client>>

OnOutput(e) ==
  IF mode = "legacy"
    THEN Enqueue(<<e>>, "live") /\ UNCHANGED window
    ELSE /\ dirty' = TRUE
         /\ UNCHANGED <<acked, inFlight, revision, out, handler>>

ExitMessages == IF mode = "legacy" THEN <<Exited>> ELSE <<Full(engine), Exited>>

RecvEvent ==
  /\ handler = "live"
  /\ queue # <<>> /\ ~lagged
  /\ queue' = Tail(queue)
  /\ LET e == Head(queue) IN
     \/ e.kind = "bytes" /\ OnOutput(e)
     \/ e.kind = "exited" /\ Enqueue(ExitMessages, "done") /\ UNCHANGED window
     \/ e.kind = "error" /\ Enqueue(<<Error>>, "live") /\ UNCHANGED window
  /\ UNCHANGED <<mode, terminal, lagged, missed, known, down, up, client>>

\* Mutant: the legacy client goes on with the events that were retained.
IgnoreLag ==
  /\ dirty' = TRUE
  /\ UNCHANGED <<queue, missed, acked, inFlight, revision, out, handler>>

\* Mutant: the receiver is replaced in every mode.
ReplaceReceiver ==
  /\ queue' = <<>>
  /\ Enqueue(<<Full(engine)>>, "live")
  /\ UNCHANGED <<missed, window>>

\* A legacy client gets a new snapshot and a new receiver; the others sample.
OnLagged ==
  IF mode = "legacy"
    THEN /\ queue' = <<>>
         /\ missed' = (missed \/ Contains(queue, Exited))
         /\ Enqueue(<<Full(engine)>>, "live")
         /\ UNCHANGED window
    ELSE /\ dirty' = TRUE
         /\ UNCHANGED <<queue, missed, acked, inFlight, revision, out, handler>>

RecvLagged ==
  /\ handler = "live"
  /\ lagged
  /\ lagged' = FALSE
  /\ OnLagged
  /\ UNCHANGED <<mode, terminal, known, down, up, client>>

\* prepare_update has nothing to send.
NothingNew(base, s) == base.epoch = s.epoch /\ s.gen <= base.gen

SampleAck ==
  /\ mode = "ack" /\ handler = "live"
  /\ dirty /\ inFlight = None
  /\ dirty' = FALSE
  /\ \/ NothingNew(acked, engine) /\ UNCHANGED <<inFlight, out, handler>>
     \/ /\ ~NothingNew(acked, engine)
        /\ inFlight' = engine
        /\ \/ Enqueue(<<Full(engine)>>, "live")
           \/ acked.epoch = engine.epoch /\ Enqueue(<<Diff(acked, engine)>>, "live")
  /\ UNCHANGED <<mode, terminal, receiver, known, acked, revision, down, up, client>>


Drained == out = <<>>

SampleIndependent ==
  /\ mode = "independent" /\ handler = "live"
  /\ dirty /\ Drained
  /\ dirty' = FALSE
  /\ \/ revision = engine /\ UNCHANGED <<revision, out, handler>>
     \/ revision # engine /\ revision' = engine /\ Enqueue(<<Full(engine)>>, "live")
  /\ UNCHANGED <<mode, terminal, receiver, known, acked, inFlight, down, up, client>>

\* StateSyncWindow::acknowledge.
RecvAck ==
  /\ handler = "live"
  /\ up # <<>>
  /\ up' = Tail(up)
  /\ LET s == Head(up) IN
     IF NothingNew(acked, s) THEN UNCHANGED <<acked, inFlight, handler, out>>
     ELSE IF s = inFlight
            THEN acked' = s /\ inFlight' = None /\ UNCHANGED <<handler, out>>
            ELSE handler' = "failed" /\ out' = Append(out, Error) /\ UNCHANGED <<acked, inFlight>>
  /\ UNCHANGED <<mode, terminal, receiver, known, dirty, revision, down, client>>

\* The drain task writes to the transport, which may block it.
Drain ==
  /\ out # <<>> /\ Len(down) < MaxDown
  /\ out' = Tail(out)
  /\ down' = Append(down, Head(out))
  /\ UNCHANGED <<mode, terminal, receiver, handler, known, window, up, client>>

---------------------------------------------------------------------------
(* The client, external.                                                   *)

Read ==
  /\ down # <<>> /\ ~client.exited
  /\ down' = Tail(down)
  /\ LET m == Head(down) IN
     /\ client' =
          [shown  |-> IF IsFrame(m) THEN m.state ELSE client.shown,
           exact  |-> IF m.kind \in {"diff", "bytes"}
                        THEN client.exact /\ m.base = client.shown
                        ELSE client.exact,
           exited |-> m.kind = "exited"]
     /\ up' = IF mode = "ack" /\ IsFrame(m) /\ handler = "live"
                THEN Append(up, m.state) ELSE up
  /\ UNCHANGED <<mode, terminal, receiver, handler, known, window, out>>

Next ==
  \/ Output \/ ReaderEnds \/ Reap \/ MarkInfo \/ Announce
  \/ ReadInfo \/ Subscribe \/ RecvEvent \/ RecvLagged
  \/ SampleAck \/ SampleIndependent \/ RecvAck \/ Drain \/ Read

Spec == Init /\ [][Next]_vars

(* The monitor and the handler are polled, the writer drains and the       *)
(* client reads.  Nothing makes the child exit or print.                   *)
Fairness ==
  /\ WF_vars(MarkInfo \/ Announce)
  /\ WF_vars(ReadInfo \/ Subscribe) /\ WF_vars(RecvEvent \/ RecvLagged)
  /\ WF_vars(SampleAck) /\ WF_vars(SampleIndependent) /\ WF_vars(RecvAck)
  /\ WF_vars(Drain) /\ WF_vars(Read)

FairSpec == Spec /\ Fairness

---------------------------------------------------------------------------
(* Properties.                                                             *)

(* What the writer's budget is sized for: one state, and one final state   *)
(* at exit.  However slow the client, a burst of output never makes the    *)
(* handler of a semantic client exceed its budget, and an acknowledgement  *)
(* of a correct client is never an error.                                  *)
BudgetSuffices == mode # "legacy" => handler # "failed"

(* The last output is not hidden behind Exited: a client that has read     *)
(* Exited shows at least what the engine held when the exit was recorded.  *)
FinalOutputShown == client.exited => AtLeast(client.shown, final)

\* A screen to which output was applied that was not made for it.
Garbled == [epoch |-> 0, gen |-> 1]

View == INSTANCE TerminalView WITH
  Epochs <- 1 .. MaxEpoch, Generations <- 1 .. MaxGen, Blank <- None,
  truth <- engine, view <- IF client.exact THEN client.shown ELSE Garbled

(* "Output is represented either by the snapshot or by the receiver, never *)
(* lost or duplicated" (Terminal::snapshot_and_subscribe): raw output and  *)
(* diffs reach the screen they were made for, and what the client shows    *)
(* moves only forward through states of the engine, whatever the lag.      *)
ImplementsView == View!Spec

InStep == handler = "live" => client.shown = engine

(* An attachment ends once its terminal has exited, unless the event was   *)
(* sent before the handler subscribed, evicted by later output, or         *)
(* discarded with a legacy receiver: an overrun receiver is otherwise kept *)
(* for the Exited it retains.                                              *)
AttachEnds == (status = "exited") ~> (handler \in {"done", "failed"} \/ missed)

(* README.md: after the exit, the final output is kept to complete the     *)
(* attaches that have been initiated.                                      *)
InitiatedAttachEnds == (status = "exited") ~> (handler \in {"done", "failed"})
============================================================================
