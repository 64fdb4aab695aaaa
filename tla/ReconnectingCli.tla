--------------------------- MODULE ReconnectingCli ---------------------------
(***************************************************************************)
(* The default command-line client on an attachment (bin/astra.rs,         *)
(* attach_terminal and reconnect_terminal): one task that copies between   *)
(* the user's terminal and the attachment, and when it loses the           *)
(* attachment reconnects, checks that the terminal still exists and asks   *)
(* for its place back with the resume token, again and again, while what   *)
(* the user types is discarded.                                            *)
(***************************************************************************)
EXTENDS AttachmentHost

CONSTANTS MaxTyped,       \* batches of input the user types
          MaxResizes      \* times the window changes its size

VARIABLE cli

vars == <<conn, att, lease, pty, faults, cli>>

Init ==
  \E readOnly \in BOOLEAN :
    /\ HostInit(readOnly, CHOOSE s \in Sizes : TRUE, 1)
    /\ cli \in [pc : {"starting"}, at : {1}, writable : {~readOnly},
                token : {lease.token}, size : Sizes, typed : {0}, resized : {0}]

Command(kind) ==
  IF kind = "resize" THEN [kind |-> kind, size |-> cli.size]
  ELSE [kind |-> kind, n |-> cli.typed + 1, incarnation |-> cli.at]

(* The command is written, or the write shows that the attachment is gone. *)
Write(cmd, done) ==
  \/ att' = Sent(cli.at, cmd) /\ cli' = done
  \/ /\ WriteMayFail(cli.at)
     /\ cli' = [done EXCEPT !.pc = "reconnecting"]
     /\ UNCHANGED att

Start ==
  /\ cli.pc = "starting"
  /\ LET running == [cli EXCEPT !.pc = "running"]
     IN IF cli.writable THEN Write(Command("resize"), running)
        ELSE cli' = running /\ UNCHANGED att
  /\ UNCHANGED <<conn, lease, pty, faults>>

ReadEvent ==
  /\ cli.pc = "running"
  /\ att[cli.at].down # <<>>
  /\ LET event == Head(att[cli.at].down)
     IN IF event = "exited"
        THEN /\ cli' = [cli EXCEPT !.pc = "done"]
             /\ att' = Drop(cli.at)
        ELSE /\ cli' = [cli EXCEPT !.writable = @ /\ event # "lease"]
             /\ att' = [att EXCEPT ![cli.at].down = Tail(@)]
  /\ UNCHANGED <<conn, lease, pty, faults>>

Disconnected ==
  /\ cli.pc = "running"
  /\ Ended(cli.at)
  /\ cli' = [cli EXCEPT !.pc = "reconnecting"]
  /\ UNCHANGED host

ReadInput ==
  /\ cli.pc = "running"
  /\ cli.writable
  /\ cli.typed < MaxTyped
  /\ Write(Command("input"), [cli EXCEPT !.typed = @ + 1])
  /\ UNCHANGED <<conn, lease, pty, faults>>

WindowChange ==
  /\ cli.pc = "running"
  /\ cli.writable
  /\ cli.resized < MaxResizes
  /\ \E size \in Sizes \ {cli.size} :
       Write([Command("resize") EXCEPT !.size = size],
             [cli EXCEPT !.size = size, !.resized = @ + 1])
  /\ UNCHANGED <<conn, lease, pty, faults>>

(* The detach key, or the end of the standard input.                       *)
Leave ==
  /\ cli.pc = "running"
  /\ cli.writable
  /\ cli' = [cli EXCEPT !.pc = "done"]
  /\ att' = [Sent(cli.at, [kind |-> "detach"]) EXCEPT ![cli.at].closed = TRUE,
                                                       ![cli.at].down = <<>>]
  /\ UNCHANGED <<conn, lease, pty, faults>>

-----------------------------------------------------------------------------
Asking == {"reconnecting", "listed", "attached"}

(* While it reconnects, input is discarded and may also end the client.    *)
DiscardInput ==
  /\ cli.pc \in Asking
  /\ cli.writable
  /\ \/ /\ cli.typed < MaxTyped
        /\ cli' = [cli EXCEPT !.typed = @ + 1]
        /\ UNCHANGED att
     \/ /\ cli' = [cli EXCEPT !.pc = "done"]
        /\ att' = [n \in DOMAIN att |-> [att[n] EXCEPT !.closed = TRUE, !.down = <<>>]]
  /\ UNCHANGED <<conn, lease, pty, faults>>

(* A new connection; the list of terminals tells whether it still runs.    *)
Reconnect ==
  /\ cli.pc = "reconnecting"
  /\ conn' = "up"
  /\ cli' = [cli EXCEPT !.pc = IF pty.exited THEN "done" ELSE "listed"]
  /\ UNCHANGED <<att, lease, pty, faults>>

(* The attach, never a takeover, refused for whatever reason, is tried     *)
(* again.                                                                  *)
Attach ==
  /\ cli.pc = "listed"
  /\ conn = "up"
  /\ \/ /\ Refusal(~cli.writable, FALSE, cli.token) # ""
        /\ cli' = [cli EXCEPT !.pc = "reconnecting"]
        /\ UNCHANGED host
     \/ /\ Admit(~cli.writable, FALSE, cli.token, Len(att) + 1)
        /\ cli' = [cli EXCEPT !.pc = "attached"]

AttemptLost ==
  /\ cli.pc \in {"listed", "attached"}
  /\ conn = "lost"
  /\ cli' = [cli EXCEPT !.pc = "reconnecting"]
  /\ UNCHANGED host

(* The old streams go when the new ones replace them.                      *)
Attached ==
  /\ cli.pc = "attached"
  /\ conn = "up"
  /\ cli' = [cli EXCEPT !.pc = "starting", !.at = Len(att),
                        !.token = IF att[Len(att)].token = NoOne THEN @
                                  ELSE att[Len(att)].token]
  /\ att' = Drop(cli.at)
  /\ UNCHANGED <<conn, lease, pty, faults>>

-----------------------------------------------------------------------------
Loop == Start \/ ReadEvent \/ Disconnected \/ Reconnect \/ Attach \/ AttemptLost \/ Attached
User == ReadInput \/ WindowChange \/ Leave \/ DiscardInput

Next == Loop \/ User \/ (HostStep /\ UNCHANGED cli)

Spec == Init /\ [][Next]_vars

(* The client runs, a reconnect finally succeeds and the handlers run.     *)
Fairness == WF_vars(Loop) /\ WF_vars(HandlerStep /\ UNCHANGED cli)

FairSpec == Spec /\ Fairness

-----------------------------------------------------------------------------
(* The client leaves when the process has exited, whether it reads Exited  *)
(* or, having lost the connection before, finds the terminal gone          *)
(* (bin/astra.rs:987, :1177).                                              *)
ExitEndsClient == <>[](pty.exited => cli.pc = "done")
=============================================================================
