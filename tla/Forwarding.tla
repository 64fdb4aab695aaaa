----------------------------- MODULE Forwarding -----------------------------
(***************************************************************************)
(* A request stream that the gateway relays to a worker                    *)
(* (src/worker.rs relay_worker_input, forward_worker_messages and the      *)
(* try_join over both), carrying either a request with one response or a   *)
(* TCP forward (src/forwarding.rs serve).                                  *)
(*                                                                         *)
(*     client -- up --> gateway -- worker.up --> serve --> target          *)
(*     client <- down - gateway <- worker.down - serve <-- target          *)
(*                                                                         *)
(* A stream is a sequence of messages and the mark "fin" of its end.  The  *)
(* bytes of a forward are numbered, each in a frame of its own.  The       *)
(* client of a forward is no part of the repository: it is taken from the  *)
(* tests of the bridge (src/client/forwarding_acceptance.rs) and may also  *)
(* go away at any time.                                                    *)
(***************************************************************************)
EXTENDS Integers, Sequences, SequencesExt

CONSTANTS MaxBytes              \* bytes each side of a forward sends

VARIABLES client, up, down,
          gateway,              \* the two halves of the relay
          worker,               \* the worker's socket, both directions
          server,               \* the request's handler in the worker
          target                \* the peer of the forwarded connection

vars == <<client, up, down, gateway, worker, server, target>>

Fin == <<"fin">>
Eof == <<"eof">>
Byte(i) == <<"byte", i>>
Bytes(n) == [i \in 1..n |-> Byte(i)]

Init ==
    /\ \E kind \in {"unary", "forward"} :
          client = [kind |-> kind, step |-> "start", sent |-> 0, eof |-> FALSE,
                    got |-> <<>>, gone |-> FALSE]
    /\ up = <<>> /\ down = <<>>
    /\ gateway = [up |-> "open", down |-> "open"]
    /\ worker = [up |-> <<>>, down |-> <<>>]
    /\ server = [step |-> "idle", incoming |-> "read", outgoing |-> "read", result |-> "none"]
    /\ target = [received |-> <<>>, sent |-> 0, eof |-> FALSE, read |-> 0, faulty |-> FALSE]

-----------------------------------------------------------------------------
(* The client. *)

\* The one message of a unary request is followed by the end of the stream.
ClientOpen ==
    /\ client.step = "start"
    /\ client' = [client EXCEPT !.step = "open"]
    /\ up' = IF client.kind = "unary" THEN <<<<"request">>, Fin>> ELSE <<<<"request">>>>
    /\ UNCHANGED <<down, gateway, worker, server, target>>

Acknowledged == Contains(client.got, <<"ack">>)

ClientSend ==
    /\ client.step = "open" /\ client.kind = "forward"
    /\ Acknowledged /\ ~client.eof
    /\ \/ /\ client.sent < MaxBytes
          /\ client' = [client EXCEPT !.sent = @ + 1]
          /\ up' = Append(up, Byte(client.sent + 1))
       \/ /\ client' = [client EXCEPT !.eof = TRUE]
          /\ up' = Append(up, Eof)
    /\ UNCHANGED <<down, gateway, worker, server, target>>

\* The client keeps its side of a forward open until the other side ended.
ClientRead ==
    /\ client.step = "open"
    /\ down # <<>>
    /\ down' = Tail(down)
    /\ IF Head(down) = Fin
       THEN /\ client' = [client EXCEPT !.step = "closed"]
            /\ up' = IF client.kind = "forward" THEN Append(up, Fin) ELSE up
       ELSE /\ client' = [client EXCEPT !.got = Append(@, Head(down))]
            /\ UNCHANGED up
    /\ UNCHANGED <<gateway, worker, server, target>>

ClientLeaves ==
    /\ client.step = "open" /\ client.kind = "forward"
    /\ client' = [client EXCEPT !.step = "closed", !.gone = TRUE]
    /\ up' = Append(up, Fin)
    /\ down' = <<>>
    /\ UNCHANGED <<gateway, worker, server, target>>

-----------------------------------------------------------------------------
(* The gateway.  An error of either half drops both: the client's stream    *)
(* ends with what was written to it so far.                                 *)

WorkerOpen == server.step # "over"

Abort ==
    /\ gateway' = [up |-> "failed", down |-> "failed"]
    /\ down' = IF client.step = "closed" \/ gateway.down # "open" THEN down ELSE Append(down, Fin)
    /\ up' = <<>>
    /\ worker' = [up |-> Append(worker.up, Fin), down |-> <<>>]
    /\ UNCHANGED <<client, server, target>>

\* An error of the shutdown after the copy fails the relay.
ShutdownOrFail ==
    IF WorkerOpen
    THEN /\ gateway' = [gateway EXCEPT !.up = "done"]
         /\ worker' = [worker EXCEPT !.up = Append(@, Fin)]
         /\ up' = Tail(up)
         /\ UNCHANGED <<client, down, server, target>>
    ELSE Abort

\* A worker that already closed is no error (NotConnected).
ShutdownWorker ==
    /\ gateway' = [gateway EXCEPT !.up = "done"]
    /\ worker' = IF WorkerOpen THEN [worker EXCEPT !.up = Append(@, Fin)] ELSE worker
    /\ up' = Tail(up)
    /\ UNCHANGED <<client, down, server, target>>

\* Copying to a worker that closed is.
RelayUp ==
    /\ gateway.up = "open"
    /\ up # <<>>
    /\ CASE Head(up) = Fin -> ShutdownWorker
         [] Head(up) # Fin /\ WorkerOpen ->
               /\ worker' = [worker EXCEPT !.up = Append(@, Head(up))]
               /\ up' = Tail(up)
               /\ UNCHANGED <<client, down, gateway, server, target>>
         [] OTHER -> Abort

RelayDown ==
    /\ gateway.down = "open"
    /\ worker.down # <<>>
    /\ down' = IF client.step = "closed" THEN <<>> ELSE Append(down, Head(worker.down))
    /\ worker' = [worker EXCEPT !.down = Tail(@)]
    /\ gateway' = IF Head(worker.down) = Fin THEN [gateway EXCEPT !.down = "done"] ELSE gateway
    /\ UNCHANGED <<client, up, server, target>>

-----------------------------------------------------------------------------
(* The handler in the worker. *)

\* Returning closes the worker's socket.
Over(messages, result) ==
    /\ server' = [server EXCEPT !.step = "over", !.result = result]
    /\ worker' = [up |-> <<>>,
                  down |-> IF gateway.down = "failed" THEN <<>>
                           ELSE worker.down \o Append(messages, Fin)]

Accept ==
    /\ server.step = "idle"
    /\ worker.up # <<>>
    /\ IF Head(worker.up) = Fin THEN Over(<<>>, "error")
       ELSE IF client.kind = "unary" THEN Over(<<<<"response">>>>, "ok")
       ELSE \/ Over(<<<<"reject">>>>, "rejected")
            \/ /\ server' = [server EXCEPT !.step = "connect"]
               /\ worker' = [worker EXCEPT !.up = Tail(@)]
    /\ UNCHANGED <<client, up, down, gateway, target>>

\* Whatever the client sends before the acknowledgment ends the request.
Connect ==
    /\ server.step = "connect"
    /\ \/ /\ server' = [server EXCEPT !.step = "flow"]
          /\ worker' = [worker EXCEPT !.down = Append(@, <<"ack">>)]
       \/ Over(<<<<"reject">>>>, "rejected")
       \/ worker.up # <<>> /\ Over(<<>>, "error")
    /\ UNCHANGED <<client, up, down, gateway, target>>

\* After the client's EOF the handler reads on for its end: FIN, or more
\* data, is an error.
Incoming ==
    /\ server.step = "flow"
    /\ worker.up # <<>>
    /\ LET m == Head(worker.up)
       IN CASE server.incoming = "afterEof" \/ m = Fin ->
                  /\ Over(<<>>, "error")
                  /\ UNCHANGED target
            [] server.incoming = "read" /\ m = Eof ->
                  /\ server' = [server EXCEPT !.incoming = "afterEof"]
                  /\ worker' = [worker EXCEPT !.up = Tail(@)]
                  /\ target' = [target EXCEPT !.received = Append(@, Eof)]
            [] OTHER ->
                  /\ target' = [target EXCEPT !.received = Append(@, m)]
                  /\ worker' = [worker EXCEPT !.up = Tail(@)]
                  /\ UNCHANGED server
    /\ UNCHANGED <<client, up, down, gateway>>

Outgoing ==
    /\ server.step = "flow" /\ server.outgoing = "read"
    /\ \/ /\ target.read < target.sent
          /\ target' = [target EXCEPT !.read = @ + 1]
          /\ worker' = [worker EXCEPT !.down = Append(@, Byte(target.read + 1))]
          /\ UNCHANGED server
       \/ /\ target.read = target.sent /\ target.eof
          /\ worker' = [worker EXCEPT !.down = Append(@, Eof)]
          /\ server' = [server EXCEPT !.outgoing = "wait"]
          /\ UNCHANGED target
    /\ UNCHANGED <<client, up, down, gateway>>

\* Both directions ended: the other half told of the client's EOF.
Finish ==
    /\ server.step = "flow" /\ server.outgoing = "wait"
    /\ server.incoming = "afterEof"
    /\ Over(<<>>, "ok")
    /\ UNCHANGED <<client, up, down, gateway, target>>

\* The target's connection breaks, or a write to it stalls too long.
TargetFails ==
    /\ server.step = "flow"
    /\ target' = [target EXCEPT !.faulty = TRUE]
    /\ Over(<<>>, "error")
    /\ UNCHANGED <<client, up, down, gateway>>

TargetSends ==
    /\ server.step = "flow" /\ ~target.eof
    /\ \/ target.sent < MaxBytes /\ target' = [target EXCEPT !.sent = @ + 1]
       \/ target' = [target EXCEPT !.eof = TRUE]
    /\ UNCHANGED <<client, up, down, gateway, worker, server>>

Relay == RelayUp \/ RelayDown
Serve == Accept \/ Connect \/ Incoming \/ Outgoing \/ Finish

Next ==
    \/ ClientOpen
    \/ ClientSend
    \/ ClientRead
    \/ ClientLeaves
    \/ Relay
    \/ Serve
    \/ TargetSends
    \/ TargetFails

Spec == Init /\ [][Next]_vars

-----------------------------------------------------------------------------
(* Properties. *)

Undisturbed == ~client.gone /\ ~target.faulty

\* The client that reads to the end of its stream has the whole answer: the
\* response of a unary request, though the worker closes its socket before
\* the gateway sees the end of the request (worker.rs:524); the refusal, or
\* all bytes of the target and its EOF, of a forward.
AnswerWhole ==
    client.step = "closed" /\ Undisturbed =>
        IF client.kind = "unary" THEN client.got = <<<<"response">>>>
        ELSE \/ client.got = <<<<"reject">>>>
             \/ client.got = <<<<"ack">>>> \o Bytes(target.sent) \o <<Eof>>

\* A forward ends in good order exactly when the target has everything the
\* client sent, its EOF included: the target's own EOF leaves the other
\* direction open, and a client that waits for the end is never cut off
\* (forwarding.rs:137, 163).
UploadWhole ==
    client.kind = "forward" /\ Undisturbed =>
        /\ server.result = "ok" =>
              /\ client.eof
              /\ target.received = Bytes(client.sent) \o <<Eof>>
        /\ server.result # "error"

\* What the gateway relays arrives whole in both directions, whichever half
\* ends first.
RelayWhole == AnswerWhole /\ UploadWhole

=============================================================================
