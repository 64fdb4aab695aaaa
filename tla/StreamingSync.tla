--------------------------- MODULE StreamingSync ---------------------------
(***************************************************************************)
(* The lossy live viewport of an attachment (terminal.datagram_state v2).  *)
(* The server keeps a StreamingStateWindow and sends reliable keyframes on *)
(* the attach stream and cumulative deltas in QUIC DATAGRAMs, each from a  *)
(* base generation the client has acknowledged; the client keeps a         *)
(* StreamingReplica behind a one-slot mailbox, acknowledges what it shows  *)
(* and asks for a repair when it no longer has the base of a delta.        *)
(* terminal_streaming.rs, the attach loop of server.rs, and the datagram   *)
(* router and the event loop of the streaming attachment in client.rs.     *)
(*                                                                         *)
(* Abstractions.  A State is its epoch and generation.  Whether a delta    *)
(* fits the datagram budget and the geometry is unchanged is a free        *)
(* choice.  The coalescing, retry and re-key timers may fire at any time   *)
(* their guards allow.  Chunks, fragments and payload codecs are left out. *)
(***************************************************************************)
EXTENDS Naturals, Sequences, FiniteSets, FiniteSetsExt, SequencesExt

CONSTANTS
  ServerRetained,  \* retained_generations of the window (128 in the code)
  Retentions,      \* choices of retained_generations of the replica (128)
  RetiredCap,      \* bound on retired_epochs (128 in the code)
  MaxEpoch,        \* bound: epochs of the terminal engine
  MaxGen,          \* bound: generations in the first epoch
  MaxLaterGen,     \* bound: generations in a later one
  MaxNet,          \* bound: datagrams in flight; one more is lost
  MaxUp            \* bound: client messages in flight

ASSUME BoundsAssumption ==
  /\ ServerRetained \in Nat \ {0} /\ Retentions \subseteq Nat \ {0}
  /\ RetiredCap \in Nat \ {0}
  /\ MaxEpoch \in Nat \ {0} /\ MaxGen \in Nat \ {0} /\ MaxLaterGen \in 1 .. MaxGen
  /\ MaxNet \in Nat \ {0} /\ MaxUp \in Nat \ {0}

VARIABLES
  engine,     \* the authoritative state of the Terminal
  notified,   \* a PTY event waits in the attach loop's receiver
  unnoticed,  \* history: the last change was not announced to the attach loop
  dirty,      \* streaming_dirty of the attach loop
  base,       \* StreamingStateWindow.base
  baseAcked,  \* StreamingStateWindow.base_acknowledged
  sent,       \* the generations in StreamingStateWindow.sent
  target,     \* StreamingStateWindow.latest_target
  retired,    \* StreamingStateWindow.retired_epochs
  server,     \* where the attach handler is
  down,       \* the reliable stream to the client
  net,        \* datagrams in flight
  up,         \* the reliable stream to the server
  capacity,   \* StreamingReplica.retained_generations
  current,    \* StreamingReplica.current
  retained,   \* StreamingReplica.retained
  pinned,     \* StreamingReplica.pinned_base_generation
  mailbox,    \* the DatagramMailbox of the route
  exited      \* the client has read Exited

window == <<base, baseAcked, sent, target, retired>>
terminal == <<engine, notified, unnoticed>>
replica == <<capacity, current, retained, pinned, mailbox>>
vars == <<terminal, dirty, window, server, down, net, up, replica, exited>>

Epochs == 1 .. MaxEpoch
Gens == 1 .. MaxGen
None == [epoch |-> 0, gen |-> 0]
NoDelta == [epoch |-> 0, base |-> 0, target |-> 0]

\* What the client holds is a state and whether it is the server's, cell by cell.
NotShown == [epoch |-> 0, gen |-> 0, exact |-> TRUE]

Keyframe(s) == [kind |-> "keyframe", state |-> s]
Exited == [kind |-> "exited", state |-> None]
Ack(s) == [kind |-> "ack", epoch |-> s.epoch, gen |-> s.gen]
Repair(d) == [kind |-> "repair", epoch |-> d.epoch, gen |-> d.base]

\* Attached: the first keyframe is on its way and the window was built from it.
Init ==
  /\ engine = [epoch |-> 1, gen |-> 1]
  /\ notified = FALSE /\ unnoticed = FALSE
  /\ dirty = FALSE
  /\ base = engine
  /\ baseAcked = FALSE
  /\ sent = {engine.gen}
  /\ target = None
  /\ retired = <<>>
  /\ server = "live"
  /\ down = <<Keyframe(engine)>>
  /\ net = {}
  /\ up = <<>>
  /\ capacity \in Retentions
  /\ current = NotShown
  /\ retained = {}
  /\ pinned = 0
  /\ mailbox = [epoch |-> 0, gen |-> 0, slot |-> NoDelta]
  /\ exited = FALSE

---------------------------------------------------------------------------
(* The Terminal, on another thread: output advances the generation, and a  *)
(* rotation of the identity epoch restarts it.  Both notify the attach     *)
(* loop through the broadcast channel; a lagged receiver is as good.  A    *)
(* resize advances the generation as well, and tells only its own loop.    *)

MayAdvance == engine.gen < IF engine.epoch = 1 THEN MaxGen ELSE MaxLaterGen

Output ==
  /\ server = "live"
  /\ MayAdvance
  /\ engine' = [engine EXCEPT !.gen = @ + 1]
  /\ notified' = TRUE /\ unnoticed' = FALSE
  /\ UNCHANGED <<dirty, window, server, down, net, up, replica, exited>>

RotateEpoch ==
  /\ server = "live"
  /\ engine.epoch < MaxEpoch
  /\ engine' = [epoch |-> engine.epoch + 1, gen |-> 1]
  /\ notified' = TRUE /\ unnoticed' = FALSE
  /\ UNCHANGED <<dirty, window, server, down, net, up, replica, exited>>

\* Terminal::resize on a command of this attachment.
Resize ==
  /\ server = "live"
  /\ MayAdvance
  /\ engine' = [engine EXCEPT !.gen = @ + 1]
  /\ dirty' = TRUE /\ unnoticed' = FALSE
  /\ UNCHANGED <<notified, window, server, down, net, up, replica, exited>>

\* Terminal::resize on a command of another attachment: no event is published.
ResizeByOther ==
  /\ server = "live"
  /\ MayAdvance
  /\ engine' = [engine EXCEPT !.gen = @ + 1]
  /\ unnoticed' = TRUE
  /\ UNCHANGED <<notified, dirty, window, server, down, net, up, replica, exited>>

\* events.recv()
PtyEvent ==
  /\ server = "live"
  /\ notified
  /\ notified' = FALSE
  /\ dirty' = TRUE
  /\ UNCHANGED <<engine, unnoticed, window, server, down, net, up, replica, exited>>

---------------------------------------------------------------------------
(* StreamingStateWindow.                                                   *)

LatestGeneration == IF target = None THEN base.gen ELSE target.gen


HasPending ==
  target # None /\ (target.epoch # base.epoch \/ target.gen > base.gen)

\* Keep the newest generations, and never evict the base.
Kept(gens, b) ==
  IF Cardinality(gens) > ServerRetained
    THEN gens \ {Min(IF Min(gens) = b THEN gens \ {b} ELSE gens)}
    ELSE gens

Remember(s) ==
  /\ target' = s
  /\ sent' = Kept(sent \cup {s.gen}, base.gen)

InstallKeyframe(s) ==
  /\ retired' = IF base.epoch = s.epoch THEN retired
                ELSE LET r == Append(retired, base.epoch)
                     IN  IF Len(r) > RetiredCap THEN Tail(r) ELSE r
  /\ base' = s
  /\ baseAcked' = FALSE
  /\ sent' = {s.gen}
  /\ target' = s
  /\ down' = Append(down, Keyframe(s))
  /\ UNCHANGED net

\* A datagram is sent, or lost on the way out.
SendDelta(s) ==
  LET d == [epoch |-> base.epoch, base |-> base.gen, target |-> s.gen] IN
  /\ Remember(s)
  /\ \/ Cardinality(net \cup {d}) <= MaxNet /\ net' = net \cup {d}
     \/ UNCHANGED net
  /\ UNCHANGED <<base, baseAcked, retired, down>>

\* update_from_base: s goes out as a delta if it fits, as a keyframe if not.
SendFromBase(s) ==
  \/ s.epoch = base.epoch /\ SendDelta(s)
  \/ InstallKeyframe(s)

AlreadySent(s) ==
  /\ s.epoch = base.epoch
  /\ \/ s.gen <= base.gen
     \/ s.gen < LatestGeneration
     \/ s.gen = LatestGeneration /\ s.gen \in sent

\* The state timer: sample the viewport and prepare_update.
Sample ==
  /\ server = "live"
  /\ dirty
  /\ dirty' = FALSE
  /\ \/ AlreadySent(engine) /\ UNCHANGED <<window, down, net>>
     \/ /\ ~AlreadySent(engine) /\ ~baseAcked
        /\ target' = engine
        /\ UNCHANGED <<base, baseAcked, sent, retired, down, net>>
     \/ ~AlreadySent(engine) /\ baseAcked /\ SendFromBase(engine)
  /\ UNCHANGED <<terminal, server, up, replica, exited>>

\* The quiet-tail timer: retry_latest.
Retry ==
  /\ server = "live"
  /\ HasPending /\ baseAcked /\ ~dirty
  /\ SendFromBase(target)
  /\ UNCHANGED <<terminal, dirty, server, up, replica, exited>>

\* The re-key timer: rekey_latest.
Rekey ==
  /\ server = "live"
  /\ HasPending /\ baseAcked
  /\ InstallKeyframe(target)
  /\ UNCHANGED <<terminal, dirty, server, up, replica, exited>>

\* latest_target is cleared once a state at least as new is acknowledged.
ClearTarget(epoch, gen) ==
  target' = IF target.epoch = epoch /\ target.gen <= gen THEN None ELSE target

IsRetired(epoch) == Contains(retired, epoch)

\* StateAck: acknowledge, then ask for a sample if something is pending.
Acknowledge(epoch, gen) ==
  LET old == epoch = base.epoch /\ gen <= base.gen
  IN
  /\ \/ /\ IsRetired(epoch)
        /\ UNCHANGED <<window, server>>
     \/ /\ ~IsRetired(epoch) /\ old
        /\ baseAcked' = (baseAcked \/ gen = base.gen)
        /\ ClearTarget(epoch, gen)
        /\ UNCHANGED <<base, sent, retired, server>>
     \/ /\ ~IsRetired(epoch) /\ ~old /\ epoch = base.epoch /\ gen \in sent
        /\ base' = [epoch |-> epoch, gen |-> gen]
        /\ baseAcked' = TRUE
        /\ sent' = {g \in sent : g >= gen}
        /\ ClearTarget(epoch, gen)
        /\ UNCHANGED <<retired, server>>
     \/ /\ ~IsRetired(epoch) /\ ~old /\ ~(epoch = base.epoch /\ gen \in sent)
        /\ server' = IF epoch = base.epoch /\ gen <= LatestGeneration
                       THEN server ELSE "failed"
        /\ UNCHANGED window
  /\ dirty' = (dirty \/ (baseAcked' /\ HasPending'))
  /\ UNCHANGED <<down, net>>

\* StateRepair.  While a keyframe is in flight it answers every repair.
RepairFrom(epoch, gen) ==
  LET legal == epoch = base.epoch /\ gen <= LatestGeneration
  IN
  /\ server' = IF IsRetired(epoch) \/ legal THEN server ELSE "failed"
  /\ \/ /\ IsRetired(epoch) \/ ~legal \/ ~baseAcked
        /\ UNCHANGED <<window, down, net>>
     \/ /\ ~IsRetired(epoch) /\ legal /\ baseAcked
        /\ IF HasPending THEN InstallKeyframe(target)
           ELSE /\ baseAcked' = FALSE
                /\ target' = None
                /\ down' = Append(down, Keyframe(base))
                /\ UNCHANGED <<base, sent, retired, net>>
  /\ UNCHANGED dirty

\* The attach loop reads a command of the client.
Command ==
  /\ server = "live"
  /\ up # <<>>
  /\ up' = Tail(up)
  /\ \/ Head(up).kind = "ack" /\ Acknowledge(Head(up).epoch, Head(up).gen)
     \/ Head(up).kind = "repair" /\ RepairFrom(Head(up).epoch, Head(up).gen)
  /\ UNCHANGED <<terminal, replica, exited>>

\* The process exits: the final state goes out reliably, whatever is pending.
Exit ==
  /\ server = "live"
  /\ notified = FALSE
  /\ server' = "done"
  /\ down' = down \o <<Keyframe(engine), Exited>>
  /\ UNCHANGED <<terminal, dirty, window, net, up, replica, exited>>

---------------------------------------------------------------------------
(* The client.                                                             *)

\* The client's writes; a server that has left the loop reads no more, and
\* send_state_ack ignores the broken pipe.
Writable == server = "live" => Len(up) < MaxUp

Send(message) == up' = IF server = "live" THEN Append(up, message) ELSE up

\* StreamingReplica.remember: evict the oldest, but not the pinned base.
Retain(kept, s, pin) ==
  LET all == {r \in kept : r.gen # s.gen} \cup {s}
      free == {r \in all : r.gen # pin}
      excess == IF Cardinality(all) > capacity
                  THEN Cardinality(all) - capacity ELSE 0
  IN  {r \in all :
         \/ r.gen = pin
         \/ Cardinality({f \in free : f.gen < r.gen}) >= excess}

ToShow(s) == [epoch |-> s.epoch, gen |-> s.gen, exact |-> TRUE]

\* The rebuilt state is right only if the delta was applied to its own base.
Patched(b, d) ==
  [epoch |-> d.epoch, gen |-> d.target,
   exact |-> b.exact /\ b.epoch = d.epoch /\ b.gen = d.base]

\* Mutant: generations are compared across epochs.
StaleAnyEpoch(epoch, gen) == current.gen >= gen

Stale(epoch, gen) == current.epoch = epoch /\ current.gen >= gen

CommitKeyframe(s) ==
  mailbox' = IF mailbox.epoch # s.epoch
               THEN [epoch |-> s.epoch, gen |-> s.gen, slot |-> NoDelta]
               ELSE [mailbox EXCEPT !.gen = IF @ > s.gen THEN @ ELSE s.gen]

\* apply_keyframe, commit_keyframe and send_state_ack.
RecvKeyframe ==
  /\ ~exited
  /\ down # <<>> /\ Head(down).kind = "keyframe"
  /\ Writable
  /\ down' = Tail(down)
  /\ LET s == Head(down).state IN
     \/ /\ Stale(s.epoch, s.gen)
        /\ Send(Ack(current))
        /\ UNCHANGED replica
     \/ /\ ~Stale(s.epoch, s.gen)
        /\ retained' = Retain(IF current.epoch = s.epoch THEN retained ELSE {},
                              ToShow(s), s.gen)
        /\ pinned' = s.gen
        /\ current' = ToShow(s)
        /\ CommitKeyframe(s)
        /\ UNCHANGED capacity
        /\ Send(Ack(s))
  /\ UNCHANGED <<terminal, dirty, window, server, net, exited>>

RecvExited ==
  /\ ~exited
  /\ down # <<>> /\ Head(down).kind = "exited"
  /\ down' = Tail(down)
  /\ exited' = TRUE
  /\ UNCHANGED <<terminal, dirty, window, server, net, up, replica>>

\* The datagram router: the mailbox keeps the newest delta of its epoch.
Deliver(d) ==
  /\ d \in net
  /\ net' = net \ {d}
  /\ mailbox' = IF d.epoch # mailbox.epoch \/ d.target <= mailbox.gen THEN mailbox
                ELSE [mailbox EXCEPT !.gen = d.target, !.slot = d]
  /\ UNCHANGED <<terminal, dirty, window, server, down, up, capacity, current,
                 retained, pinned, exited>>

Lose(d) ==
  /\ d \in net
  /\ net' = net \ {d}
  /\ UNCHANGED <<terminal, dirty, window, server, down, up, replica, exited>>

StaleDelta(d) == current.epoch # d.epoch \/ current.gen >= d.target

\* Mutant: the delta is applied to whatever is shown.
CurrentAsBase(d) == {current}

RetainedBase(d) == {r \in retained : r.gen = d.base /\ r.epoch = d.epoch}

\* apply_datagram on what the mailbox holds.
RecvDatagram ==
  /\ ~exited
  /\ mailbox.slot # NoDelta
  /\ Writable
  /\ mailbox' = [mailbox EXCEPT !.slot = NoDelta]
  /\ UNCHANGED capacity
  /\ LET d == mailbox.slot IN
     \/ /\ StaleDelta(d)
        /\ UNCHANGED <<current, retained, pinned, up>>
     \/ /\ ~StaleDelta(d) /\ RetainedBase(d) = {}
        /\ Send(Repair(d))
        /\ UNCHANGED <<current, retained, pinned>>
     \/ /\ ~StaleDelta(d)
        /\ \E b \in RetainedBase(d) :
             /\ current' = Patched(b, d)
             /\ retained' = Retain(retained, Patched(b, d), d.base)
             /\ pinned' = d.base
             /\ Send(Ack(Patched(b, d)))
  /\ UNCHANGED <<terminal, dirty, window, server, down, net, exited>>

Done ==
  /\ exited \/ server = "failed"
  /\ UNCHANGED vars

Next ==
  \/ Output \/ RotateEpoch \/ Resize \/ ResizeByOther \/ PtyEvent
  \/ Sample \/ Retry \/ Rekey \/ Command \/ Exit
  \/ RecvKeyframe \/ RecvExited \/ RecvDatagram
  \/ \E d \in net : Deliver(d) \/ Lose(d)
  \/ Done

Spec == Init /\ [][Next]_vars

(* The attach loop polls its receivers and timers, the client reads its    *)
(* stream and its mailbox; the network delivers datagrams at its pleasure. *)
Fairness ==
  /\ WF_vars(PtyEvent) /\ WF_vars(Sample) /\ WF_vars(Rekey) /\ WF_vars(Command)
  /\ WF_vars(RecvKeyframe \/ RecvExited) /\ WF_vars(RecvDatagram)

FairSpec == Spec /\ Fairness

---------------------------------------------------------------------------
(* Properties.                                                             *)

(* The server takes no message of a correct client for a protocol error,   *)
(* however late it arrives, unless the client retains less than the server *)
(* and its repair meets a pending state of the next epoch.                 *)
AttachmentSurvives ==
  server = "failed" => capacity < ServerRetained /\ target.epoch # base.epoch

(* A repair for the base's own epoch is answered by the keyframe on its    *)
(* way or by a new one; it never closes the attachment                     *)
(* (terminal-datagram-state-v2.md).                                        *)
RepairAnswered == server # "failed"

(* The final frame is never hidden behind a lost viewport: a client that   *)
(* has read Exited shows the Terminal's last state.                        *)
FinalStateShown ==
  exited => current.epoch = engine.epoch /\ current.gen = engine.gen

\* What no Terminal shows: a delta applied to another base than its own.
Garbled == [epoch |-> 0, gen |-> 1]

View == INSTANCE TerminalView WITH
  Epochs <- Epochs, Generations <- Gens, Blank <- None, truth <- engine,
  view <- IF current.exact THEN [epoch |-> current.epoch, gen |-> current.gen] ELSE Garbled

(* Whatever is lost, reordered or evicted, the client shows only states    *)
(* the Terminal had, each delta applied to its own base, and never goes    *)
(* back to an older one (StreamingReplica::apply): TerminalView.           *)
ImplementsView == View!Spec

\* The client has caught up.  Left out are attachments that were closed, and a
\* last change that is a resize by another attachment.
InStep ==
  \/ current.epoch = engine.epoch /\ current.gen = engine.gen
  \/ unnoticed \/ server = "failed"

============================================================================
