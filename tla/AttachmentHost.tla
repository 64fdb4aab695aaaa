--------------------------- MODULE AttachmentHost ---------------------------
(***************************************************************************)
(* The server's side of one terminal as a reconnecting client meets it:    *)
(* its attachments (server.rs, handle_attach_inner), the input lease and   *)
(* the resume token that recovers it (terminal.rs), and the PTY.  The      *)
(* lease has its own, more detailed module (InputLease); here it is what   *)
(* an attach may be refused for.  Clients name no client_instance_id, as   *)
(* both command-line clients do (bin/astra.rs).                            *)
(*                                                                         *)
(* Attachments are numbered in the order the server admits them.  A lease  *)
(* ID is fresh for every grant, so it is the number of the attachment it   *)
(* was granted to; a resume token is kept by a resume, so it is the number *)
(* of the attachment it was first issued to.                               *)
(***************************************************************************)
EXTENDS Integers, Sequences, FiniteSets

CONSTANTS Sizes,             \* window sizes, by a positive number
          AttachmentLimit,   \* attachments a connection's account may hold
          MaxFaults          \* connections lost, attempts that take too long,
                             \* leases expired or taken over, in all

VARIABLES conn,     \* the client's connection: "up" or "lost"
          att,      \* the attachments admitted so far, in order
          lease,    \* the input lease: its ID and its resume token
          pty,      \* what reached the process: its input, its size, its end
          faults    \* how many of the bounded faults have happened

host == <<conn, att, lease, pty, faults>>

NoOne == 0
Peer == -1      \* the other client's lease ID and token
NoLease == [id |-> NoOne, token |-> NoOne]

(* An admitted attachment: the token its client is answered, what of the   *)
(* client's it was made by, the commands on their way up, the events on    *)
(* their way down, and whether the client dropped it, its connection was   *)
(* lost, and its lease was revoked without its handler having said so.     *)
NewAttachment(token, by) ==
  [phase |-> "live", token |-> token, by |-> by, up |-> <<>>,
   down |-> <<"state">>, closed |-> FALSE, lost |-> FALSE, revoked |-> FALSE]

Live == {n \in DOMAIN att : att[n].phase = "live"}

Resuming(takeover, token) == ~takeover /\ token # NoOne

(* The lease that attachment n is granted: a resume keeps the token and    *)
(* changes the ID.                                                         *)
GrantedLease(n, takeover, token) ==
  [id |-> n, token |-> IF Resuming(takeover, token) THEN token ELSE n]

LeaseConflict(takeover, token) ==
  IF Resuming(takeover, token)
  THEN lease.id = NoOne \/ lease.token # token
  ELSE lease.id # NoOne /\ ~takeover

(* The attachments after the holder of the lease is told it was revoked.   *)
Revoked(attachments) ==
  [n \in DOMAIN attachments |->
     IF n = lease.id THEN [attachments[n] EXCEPT !.revoked = TRUE]
     ELSE attachments[n]]

(* Why an attach is refused, by its error code; "" when it is admitted.    *)
Refusal(readOnly, takeover, token) ==
  CASE pty.exited -> "not_found"
    [] Cardinality(Live) >= AttachmentLimit -> "quota"
    [] ~readOnly /\ LeaseConflict(takeover, token) -> "lease_conflict"
    [] OTHER -> ""

(* Admit an attachment: the attachment slot first, then the lease.         *)
Admit(readOnly, takeover, token, by) ==
  /\ Refusal(readOnly, takeover, token) = ""
  /\ IF readOnly
     THEN /\ att' = Append(att, NewAttachment(NoOne, by))
          /\ UNCHANGED lease
     ELSE /\ lease' = GrantedLease(Len(att) + 1, takeover, token)
          /\ att' = Append(Revoked(att), NewAttachment(lease'.token, by))
  /\ UNCHANGED <<conn, pty, faults>>

(* A handler that is over reads no more commands; a client that dropped    *)
(* its attachment reads no more events.                                    *)
Over(a, last) ==
  [a EXCEPT !.phase = "over", !.up = <<>>, !.revoked = FALSE,
            !.down = IF a.closed THEN <<>> ELSE @ \o last]

Drop(n) == [att EXCEPT ![n].closed = TRUE, ![n].down = <<>>]

Event(a, event) == IF a.closed THEN a ELSE [a EXCEPT !.down = Append(@, event)]

(* The handler of attachment n ends: it releases its own lease and no      *)
(* newer one.                                                              *)
Release(n) == IF lease.id = n THEN NoLease ELSE lease

EndWith(n, events) ==
  /\ att' = [att EXCEPT ![n] = Over(@, events)]
  /\ lease' = Release(n)

(* What is wrong if a command is admitted by the token of its lease.       *)
OwnsToken(n) == lease.token = att[n].token

(* A command is admitted by the ID of its lease.                           *)
OwnsLease(n) == lease.id = n

(* The handler reads a command.  Input and resize need the lease; a        *)
(* command without it ends the attachment with an Error event.             *)
HandleCommand(n) ==
  /\ n \in Live
  /\ att[n].up # <<>>
  /\ LET cmd == Head(att[n].up)
         rest == Tail(att[n].up)
     IN \/ /\ cmd.kind = "input" /\ OwnsLease(n)
           /\ pty' = [pty EXCEPT !.input = Append(@, [cmd |-> cmd, via |-> n])]
           /\ att' = [att EXCEPT ![n].up = rest]
           /\ UNCHANGED lease
        \/ /\ cmd.kind = "resize" /\ OwnsLease(n)
           /\ pty' = [pty EXCEPT !.size = cmd.size]
           /\ att' = [att EXCEPT ![n] = Event([@ EXCEPT !.up = rest], "state")]
           /\ UNCHANGED lease
        \/ /\ cmd.kind \in {"input", "resize"} /\ ~OwnsLease(n)
           /\ EndWith(n, <<"error">>)
           /\ UNCHANGED pty
        \/ /\ cmd.kind = "detach"
           /\ EndWith(n, <<>>)
           /\ UNCHANGED pty
  /\ UNCHANGED <<conn, faults>>

(* The handler learns that the client dropped the stream, once it has read *)
(* what was sent, or that the connection is lost, which cancels it.        *)
HandleEnd(n) ==
  /\ n \in Live
  /\ att[n].lost \/ (att[n].closed /\ att[n].up = <<>>)
  /\ EndWith(n, <<>>)
  /\ UNCHANGED <<conn, pty, faults>>

(* The handler takes the revocation of its lease from the lease events and *)
(* tells the client it is a viewer now.                                    *)
HandleRevoked(n) ==
  /\ n \in Live
  /\ att[n].revoked
  /\ att' = [att EXCEPT ![n] = Event([@ EXCEPT !.revoked = FALSE], "lease")]
  /\ UNCHANGED <<conn, lease, pty, faults>>

(* A fault happens, if one may still happen.                               *)
Fault == faults < MaxFaults /\ faults' = faults + 1

(* The lease of an attachment runs out, where leases were negotiated: its  *)
(* renewals stopped arriving, its client cut off or suspended.             *)
LeaseExpires ==
  /\ Fault
  /\ lease.id \in Live
  /\ att' = Revoked(att)
  /\ lease' = NoLease
  /\ UNCHANGED <<conn, pty>>

(* Another client takes the terminal over, and leaves it again.            *)
PeerTakes ==
  /\ Fault
  /\ lease.id # Peer
  /\ ~pty.exited
  /\ att' = Revoked(att)
  /\ lease' = [id |-> Peer, token |-> Peer]
  /\ UNCHANGED <<conn, pty>>

PeerLeaves ==
  /\ lease.id = Peer
  /\ lease' = NoLease
  /\ UNCHANGED <<conn, att, pty, faults>>

(* The process exits: every handler sends the last state and Exited.       *)
Exit ==
  /\ ~pty.exited
  /\ pty' = [pty EXCEPT !.exited = TRUE]
  /\ att' = [n \in DOMAIN att |->
               IF n \in Live
               THEN Over(att[n], <<"state", "exited">>) ELSE att[n]]
  /\ lease' = NoLease
  /\ UNCHANGED <<conn, faults>>

(* The connection is lost with whatever was in flight on it.               *)
Lose ==
  /\ Fault
  /\ conn = "up"
  /\ conn' = "lost"
  /\ att' = [n \in DOMAIN att |-> [att[n] EXCEPT !.lost = TRUE]]
  /\ UNCHANGED <<lease, pty>>

HandlerStep ==
  \E n \in DOMAIN att : HandleCommand(n) \/ HandleEnd(n) \/ HandleRevoked(n)

HostStep == HandlerStep \/ PeerTakes \/ PeerLeaves \/ Exit \/ Lose

(* The first attachment has just been admitted.                            *)
HostInit(readOnly, size, by) ==
  /\ conn = "up"
  /\ lease = IF readOnly THEN NoLease ELSE [id |-> 1, token |-> 1]
  /\ att = <<NewAttachment(lease.token, by)>>
  /\ pty = [input |-> <<>>, size |-> size, exited |-> FALSE]
  /\ faults = 0

(* What the client writes to attachment n reaches its handler unless the   *)
(* handler ended or the connection is lost.                                *)
Sent(n, cmd) ==
  IF att[n].phase = "live" /\ ~att[n].lost
  THEN [att EXCEPT ![n].up = Append(@, cmd)]
  ELSE att

(* Whether a write to attachment n may fail.                               *)
WriteMayFail(n) == att[n].phase = "over" \/ att[n].lost

(* The client has nothing more to read from attachment n.                  *)
Ended(n) == att[n].lost \/ (att[n].phase = "over" /\ att[n].down = <<>>)

-----------------------------------------------------------------------------
(* What the user typed reaches the process in the order it was typed and   *)
(* at most once, whatever connections were lost in between: every resume   *)
(* fences the attachment before it (terminal.rs), so what is left of the   *)
(* old connection can neither repeat nor overtake anything.                *)
InputOnceInOrder ==
  \A i, j \in DOMAIN pty.input :
    i < j => pty.input[i].cmd.n < pty.input[j].cmd.n

(* Recovery never takes the terminal from another client: while the other  *)
(* client holds the lease, only it or the end of the process ends it       *)
(* (streaming_client.rs:64 drops takeover, bin/astra.rs:1184 never asks).  *)
PeerKeepsLease ==
  [][lease.id = Peer => lease'.id \in {Peer, NoOne}]_host
=============================================================================
