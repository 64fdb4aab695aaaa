---------------------------- MODULE Connection ----------------------------
(***************************************************************************)
(* A QUIC connection of a client to the gateway: the authentication        *)
(* handshake with negotiation and the connection quota (authenticate in    *)
(* client.rs, handle_connection and authenticate_connection in server.rs), *)
(* then one stream for each request, its preamble (stream_channels.rs),    *)
(* the boundary to the worker, and the table that answers every command.   *)
(*                                                                         *)
(* The network may lose the connection at any moment; each end learns of   *)
(* it in its own time (the QUIC idle timeout), and a close overtakes data  *)
(* that was not read yet.  The keys, their signatures and the text of a    *)
(* request are abstracted to what the checks tell apart.                   *)
(***************************************************************************)
EXTENDS Negotiation

CONSTANTS
  Conns,           \* connection attempts, all of one user
  Requests,        \* requests, each sent on one stream of its own
  ConnOf,          \* the connection each request is made on
  Commands,        \* the commands they may carry
  Profiles,        \* supports a client may advertise
  Servers,         \* gateway set-ups: [managed, forwarding, datagrams]
  Epochs,          \* the nonzero stream epochs drawn
  ConnectionLimit, \* connections of the user
  StreamLimit,     \* streams of the user, at the gateway and at the worker
  FileLimit        \* open file requests of the user, at the worker

ASSUME LimitsAssumption ==
  /\ ConnectionLimit \in Nat \ {0} /\ StreamLimit \in Nat \ {0} /\ FileLimit \in Nat
  /\ Epochs \subseteq Nat \ {0}
  /\ ConnOf \in [Requests -> Conns] /\ IsFiniteSet(Conns)
  /\ \A p \in Profiles :
       /\ p.min \in Nat /\ p.max \in Nat
       /\ \A i \in DOMAIN p.capabilities :
            p.capabilities[i].min \in Nat /\ p.capabilities[i].max \in Nat
  /\ Servers \subseteq [managed : BOOLEAN, forwarding : BOOLEAN, datagrams : BOOLEAN]

VARIABLES
  setup,    \* the gateway's set-up
  account,  \* the authorized_keys files of the user: entries [key, options]
  client,   \* each client: pc, profile, key, negotiated, epoch, error
  server,   \* the gateway's task for the connection: pc, negotiated, epoch
  link,     \* "none", "up", "down"
  up, down, \* the authentication stream
  stream    \* each request's stream

vars == <<setup, account, client, server, link, up, down, stream>>

\* A text field that is not set.
Empty == ""

NoSelection == [ok |-> FALSE]

\* An entry of an authorized_keys file, and what the user's files may hold.
Entry(key, options) == [key |-> key, options |-> options]

KeyFiles == {<<>>, <<Entry("k", TRUE), Entry("k", FALSE)>>, <<Entry("l", TRUE), Entry("k", FALSE)>>}

\* A client that may connect, or one that never does.
NewClient(profile, pc) ==
  [pc |-> pc, profile |-> profile, key |-> "k", negotiated |-> NoSelection,
   epoch |-> 0, error |-> Empty]

NoHello == [epoch |-> 0, kind |-> Empty, handle |-> Empty]

Unopened == [pc |-> "unopened", command |-> Empty, handle |-> Empty,
             hello |-> NoHello, answer |-> Empty, seen |-> "nothing"]

\* A request that is never made.
Unmade == [Unopened EXCEPT !.pc = "ended"]

Init ==
  /\ setup \in Servers
  /\ account \in KeyFiles
  /\ client \in [Conns -> {NewClient(p, pc) : p \in Profiles, pc \in {"idle", "absent"}}]
  /\ server = [c \in Conns |-> [pc |-> "none", negotiated |-> NoSelection, epoch |-> 0]]
  /\ link = [c \in Conns |-> "none"]
  /\ up = [c \in Conns |-> <<>>]
  /\ down = [c \in Conns |-> <<>>]
  /\ stream \in [Requests -> {Unopened, Unmade}]

fixed == <<setup, account>>

---------------------------------------------------------------------------
(* The handshake.                                                          *)

(* What the three checks of a negotiation say, tabulated once.             *)
Chosen ==
  [p \in Profiles |-> [s \in Servers |->
     NegotiateClientHello(ClientHello(p), ServerSupport(s.forwarding, s.datagrams))]]

Selected == {n \in {Chosen[p][s] : p \in Profiles, s \in Servers} : n.ok}

ServerHello(n) ==
  [kind |-> "hello", version |-> n.version, selections |-> Selections(n.capabilities)]

ClientVerdict ==
  [p \in Profiles |-> [m \in {ServerHello(n) : n \in Selected} |->
     ValidateServerHello(ClientHello(p), m.version, m.selections)]]

\* handle_worker_request: the worker checks the selection anew, and that a
\* datagram limit comes with the capability alone.
WorkerVerdict ==
  [n \in Selected |->
     LET again == ValidateWorkerSelection(n.version, Selections(n.capabilities),
                                          ServerSupport(TRUE, TRUE))
         \* worker_datagram_payload_limit
         limit == IF Has(n.capabilities, "datagram_state", 1) THEN 1200 ELSE 0
     IN  again.ok /\ Has(again.capabilities, "datagram_state", 1) = (limit > 0)]

\* authenticate, as far as the ClientHello.
Connect(c) ==
  /\ client[c].pc = "idle"
  /\ link' = [link EXCEPT ![c] = "up"]
  /\ client' = [client EXCEPT ![c].pc = "greeting"]
  /\ up' = [up EXCEPT ![c] = <<[kind |-> "hello"]>>]
  /\ server' = [server EXCEPT ![c].pc = "accepted"]
  /\ UNCHANGED <<fixed, down, stream>>

Close(c) == link' = [link EXCEPT ![c] = "down"]

\* accept_authentication_stream takes the first stream that carries a frame,
\* whatever empty streams the client holds open before it.
RecvClientHello(c) ==
  /\ server[c].pc = "accepted" /\ link[c] = "up"
  /\ up[c] # <<>>
  /\ up' = [up EXCEPT ![c] = Tail(@)]
  /\ LET chosen == Chosen[client[c].profile][setup]
     IN  \/ /\ chosen.ok
            /\ server' = [server EXCEPT ![c].pc = "challenged", ![c].negotiated = chosen]
            /\ down' = [down EXCEPT ![c] = Append(@, ServerHello(chosen))]
            /\ UNCHANGED link
         \/ /\ ~chosen.ok
            /\ server' = [server EXCEPT ![c].pc = "ended"]
            /\ Close(c)
            /\ UNCHANGED down
  /\ UNCHANGED <<fixed, client, stream>>

\* validate_server_hello, then the key signs the challenge it was sent.
RecvServerHello(c) ==
  /\ client[c].pc = "greeting"
  /\ down[c] # <<>>
  /\ down' = [down EXCEPT ![c] = Tail(@)]
  /\ LET chosen == ClientVerdict[client[c].profile][Head(down[c])]
     IN  IF chosen.ok
         THEN /\ client' = [client EXCEPT ![c].pc = "signing", ![c].negotiated = chosen]
              /\ up' = [up EXCEPT ![c] = Append(@, [kind |-> "auth"])]
              /\ UNCHANGED link
         ELSE /\ client' = [client EXCEPT ![c].pc = "failed", ![c].error = "hello"]
              /\ Close(c)
              /\ UNCHANGED up
  /\ UNCHANGED <<fixed, server, stream>>

\* verify_authorized_keys: the first entry for the key decides.
VerifyAuthorizedKeys(files, key) ==
  LET matching == {i \in DOMAIN files : files[i].key = key}
  IN  /\ matching # {}
      /\ LET i == CHOOSE i \in matching : \A j \in matching : i <= j
         IN  ~files[i].options

\* authenticate_user: no file, no access.
AuthenticateUser(c) == account # <<>> /\ VerifyAuthorizedKeys(account, client[c].key)

Held == {c \in Conns : server[c].pc \in {"reserved", "granted", "serving"}}

AuthResult(ok, code, epoch) == [kind |-> "result", ok |-> ok, code |-> code, epoch |-> epoch]

\* The refusal is written, given a second to arrive, and the connection closed.
RefuseAuth(c, code) ==
  /\ server' = [server EXCEPT ![c].pc = "refused"]
  /\ down' = [down EXCEPT ![c] = Append(@, AuthResult(FALSE, code, 0))]

\* Mutant: the quota is looked at once the client has been told.
ReserveLater(c) ==
  \/ /\ ~AuthenticateUser(c)
     /\ RefuseAuth(c, Empty)
  \/ /\ AuthenticateUser(c)
     /\ server' = [server EXCEPT ![c].pc = "reserved"]
     /\ UNCHANGED down

Decide(c) ==
  \/ /\ ~AuthenticateUser(c)
     /\ RefuseAuth(c, Empty)
  \/ /\ AuthenticateUser(c) /\ Cardinality(Held) >= ConnectionLimit
     /\ RefuseAuth(c, "connection_quota_exceeded")
  \/ /\ AuthenticateUser(c) /\ Cardinality(Held) < ConnectionLimit
     /\ server' = [server EXCEPT ![c].pc = "reserved"]
     /\ UNCHANGED down

RecvAuthRequest(c) ==
  /\ server[c].pc = "challenged" /\ link[c] = "up"
  /\ up[c] # <<>>
  /\ up' = [up EXCEPT ![c] = Tail(@)]
  /\ Decide(c)
  /\ UNCHANGED <<fixed, client, link, stream>>

CloseRefused(c) ==
  /\ server[c].pc = "refused"
  /\ server' = [server EXCEPT ![c].pc = "ended"]
  /\ Close(c)
  /\ UNCHANGED <<fixed, client, up, down, stream>>

\* Mutant: every client is given an epoch.
EpochFor(c) == Epochs

\* The epoch is drawn only for a client that will prefix its streams with it.
StreamEpochs(c) ==
  IF Has(server[c].negotiated.capabilities, "stream_channels", 1) THEN Epochs ELSE {0}

Grant(c) ==
  /\ server[c].pc = "reserved" /\ link[c] = "up"
  /\ \E e \in StreamEpochs(c) :
       /\ server' = [server EXCEPT ![c].pc = "granted", ![c].epoch = e]
       /\ down' = [down EXCEPT ![c] = Append(@, AuthResult(TRUE, Empty, e))]
  /\ UNCHANGED <<fixed, client, link, up, stream>>

\* authenticate_connection returns and the accept loop starts.
Serve(c) ==
  /\ server[c].pc = "granted"
  /\ server' = [server EXCEPT ![c].pc = "serving"]
  /\ UNCHANGED <<fixed, client, link, up, down, stream>>

\* The 15 s around authenticate_connection: dropping it drops a reservation.
AuthTimeout(c) ==
  /\ server[c].pc \in {"accepted", "challenged", "reserved", "granted", "refused"}
  /\ server' = [server EXCEPT ![c].pc = "ended"]
  /\ Close(c)
  /\ UNCHANGED <<fixed, client, up, down, stream>>

RecvAuthResult(c) ==
  /\ client[c].pc = "signing"
  /\ down[c] # <<>>
  /\ down' = [down EXCEPT ![c] = Tail(@)]
  /\ LET m == Head(down[c])
         channels == Has(client[c].negotiated.capabilities, "stream_channels", 1)
     IN  \/ /\ m.ok
            /\ IF channels = (m.epoch # 0)
               THEN /\ client' = [client EXCEPT ![c].pc = "ready", ![c].epoch = m.epoch]
                    /\ UNCHANGED link
               ELSE /\ client' = [client EXCEPT ![c].pc = "failed", ![c].error = "epoch"]
                    /\ Close(c)
         \/ /\ ~m.ok
            /\ client' = [client EXCEPT ![c].pc = "failed",
                            ![c].error = IF m.code # Empty THEN m.code ELSE "authentication_failed"]
            /\ Close(c)
  /\ UNCHANGED <<fixed, server, up, stream>>

\* The network fails, or the client is dropped.
Lose(c) ==
  /\ link[c] = "up"
  /\ Close(c)
  /\ UNCHANGED <<fixed, client, server, up, down, stream>>

\* Mutant: the client waits for the server's word.
ClientWaits(c) ==
  /\ link[c] = "down" /\ client[c].pc = "ready"
  /\ client' = [client EXCEPT ![c].pc = "failed", ![c].error = "lost"]
  /\ down' = [down EXCEPT ![c] = <<>>]
  /\ UNCHANGED <<fixed, server, link, up, stream>>

\* The client learns of it; what it had not read is gone.
ClientNotices(c) ==
  /\ link[c] = "down" /\ client[c].pc \notin {"idle", "absent", "failed"}
  /\ client' = [client EXCEPT ![c].pc = "failed", ![c].error = "lost"]
  /\ down' = [down EXCEPT ![c] = <<>>]
  /\ UNCHANGED <<fixed, server, link, up, stream>>

\* So does the gateway: its task returns and the reservation is dropped.
ServerNotices(c) ==
  /\ link[c] = "down" /\ server[c].pc \notin {"none", "ended"}
  /\ server' = [server EXCEPT ![c].pc = "ended"]
  /\ UNCHANGED <<fixed, client, link, up, down, stream>>

---------------------------------------------------------------------------
(* Streams: one for each request.                                          *)

UploadCommands == {"begin_upload", "write_chunk", "query_upload", "commit_upload", "abort_upload"}
FileCommands ==
  UploadCommands \cup
  {"file_capabilities", "file_stat", "file_list", "begin_download", "read_chunk",
   "make_directory", "remove_file", "rename_file", "git_status", "watch_files"}
ObjectCommands ==
  {"list_workspaces", "create_workspace", "rename_workspace", "delete_workspace",
   "list_terminals", "list_attachments"}
TerminalCommands == {"list", "spawn", "close", "rename_terminal", "attach", "open_forward"}

ASSUME CommandsAssumption ==
  Commands \subseteq FileCommands \cup ObjectCommands \cup TerminalCommands

\* request_channel: the kind of the stream, and what its handle names.
Channel(command) ==
  IF command = "open_forward" THEN "forward"
  ELSE IF command = "attach" THEN "terminal"
  ELSE IF command \in FileCommands THEN "file"
  ELSE "control"

Handles(command) ==
  IF command = "attach" THEN {Empty, "x"}
  ELSE IF command \in UploadCommands \cup {"open_forward"} THEN {"x"} ELSE {Empty}

HelloFor(command, handle, epoch) ==
  [epoch |-> epoch, kind |-> Channel(command), handle |-> handle]

ValidHello(hello, epoch) ==
  /\ epoch # 0 /\ hello.epoch = epoch
  /\ hello.kind \in {"forward", "terminal", "file", "control"}
  /\ hello.kind \in {"terminal", "forward"} => hello.handle # Empty
  /\ hello.kind = "control" => hello.handle = Empty

ValidRequest(hello, command, handle, epoch) ==
  ValidHello(hello, epoch) /\ hello = HelloFor(command, handle, epoch)

Negotiated(c) == server[c].negotiated.capabilities

\* validate_stream_request, by the gateway and again by the worker.
ValidateStreamRequest(capabilities, epoch, s) ==
  /\ s.command = "open_forward" =>
       Has(capabilities, "tcp_forward", 1) /\ Has(capabilities, "stream_channels", 1)
  /\ IF Has(capabilities, "stream_channels", 1)
       THEN ValidRequest(s.hello, s.command, s.handle, epoch)
       ELSE epoch = 0 /\ s.hello = NoHello

\* A client asks for a forward only where the capability is there.
Offers(c, command) ==
  command = "open_forward" => Has(client[c].negotiated.capabilities, "tcp_forward", 1)

Opened(r, command, handle, hello) ==
  stream' = [stream EXCEPT ![r] = [Unopened EXCEPT !.pc = "sent",
               !.command = command, !.handle = handle, !.hello = hello, !.seen = "waiting"]]

\* open_request_stream: a preamble that would not be valid is not sent.
Open(r) ==
  LET c == ConnOf[r] IN
  /\ stream[r].pc = "unopened"
  /\ client[c].pc = "ready"
  /\ \E command \in Commands : \E handle \in Handles(command) :
       LET hello == HelloFor(command, handle, client[c].epoch) IN
       /\ Offers(c, command)
       /\ \/ /\ Has(client[c].negotiated.capabilities, "stream_channels", 1)
             /\ ValidHello(hello, client[c].epoch)
             /\ Opened(r, command, handle, hello)
          \/ /\ Has(client[c].negotiated.capabilities, "stream_channels", 1)
             /\ ~ValidHello(hello, client[c].epoch)
             /\ stream' = [stream EXCEPT ![r] = [Unopened EXCEPT !.pc = "ended",
                                                  !.seen = "unsent"]]
          \/ /\ ~Has(client[c].negotiated.capabilities, "stream_channels", 1)
             /\ Opened(r, command, handle, NoHello)
  /\ UNCHANGED <<fixed, client, server, link, up, down>>

Step(r, pc) == stream' = [stream EXCEPT ![r].pc = pc]
Reply(r, answer) == stream' = [stream EXCEPT ![r].pc = "answered", ![r].answer = answer]

\* The task of the stream reads the preamble, if the client sends one.  It is
\* spawned by the accept loop of the connection and outlives it.
ReadHello(r) ==
  LET c == ConnOf[r] IN
  /\ stream[r].pc = "sent" /\ server[c].pc = "serving" /\ link[c] = "up"
  /\ Step(r, IF Has(Negotiated(c), "stream_channels", 1) => ValidHello(stream[r].hello, server[c].epoch)
               THEN "greeted" ELSE "reset")
  /\ UNCHANGED <<fixed, client, server, link, up, down>>

\* The preamble does not come within 5 s.
HelloTimeout(r) ==
  LET c == ConnOf[r] IN
  /\ stream[r].pc = "sent" /\ server[c].pc = "serving"
  /\ Has(Negotiated(c), "stream_channels", 1)
  /\ Step(r, "late")
  /\ UNCHANGED <<fixed, client, server, link, up, down>>

GatewayStreams == {r \in Requests : setup.managed /\ stream[r].pc \in {"routed", "running"}}
WorkerStreams == {r \in Requests : stream[r].pc = "running"}

\* The gateway reads the request, reserves a stream for a proxied one and
\* checks it against the preamble.
ReadRequest(r) ==
  LET c == ConnOf[r] IN
  /\ stream[r].pc = "greeted" /\ link[c] = "up"
  /\ \/ /\ setup.managed /\ Cardinality(GatewayStreams) >= StreamLimit
        /\ Reply(r, "quota")
     \/ /\ setup.managed => Cardinality(GatewayStreams) < StreamLimit
        /\ Step(r, IF ValidateStreamRequest(Negotiated(c), server[c].epoch, stream[r])
                     THEN "routed" ELSE "reset")
  /\ UNCHANGED <<fixed, client, server, link, up, down>>

WorkerAccepts(c) == WorkerVerdict[server[c].negotiated]

\* By the preamble, or for an old peer by the command.
IsFileRequest(r) ==
  IF stream[r].hello # NoHello THEN stream[r].hello.kind = "file"
  ELSE stream[r].command \in FileCommands

\* handle_worker_message, as far as its reservations.
Handle(r) ==
  LET c == ConnOf[r] IN
  /\ stream[r].pc = "routed"
  /\ \/ /\ setup.managed /\ ~WorkerAccepts(c)
        /\ Step(r, "reset")
     \/ /\ setup.managed => WorkerAccepts(c)
        /\ ~ValidateStreamRequest(Negotiated(c), server[c].epoch, stream[r])
        /\ Step(r, "reset")
     \/ /\ setup.managed => WorkerAccepts(c)
        /\ ValidateStreamRequest(Negotiated(c), server[c].epoch, stream[r])
        /\ IF /\ Cardinality(WorkerStreams) < StreamLimit
              /\ IsFileRequest(r) => Cardinality({q \in WorkerStreams : IsFileRequest(q)}) < FileLimit
             THEN Step(r, "running") ELSE Reply(r, "quota")
  /\ UNCHANGED <<fixed, client, server, link, up, down>>

\* What the dispatch of handle_worker_message may answer.
TerminalAnswers(command) ==
  IF command = "list" THEN {"list"}
  ELSE IF command = "spawn" THEN {"spawn", "error"}
  ELSE IF command \in {"close", "rename_terminal"} THEN {"ack", "error"}
  ELSE IF command = "attach" THEN {"attach", "error"}
  ELSE {"ack", "error"}

FileAnswers(command) ==
  IF command = "file_capabilities" THEN {command}
  ELSE IF command \in UploadCommands THEN {"upload_status", "error"}
  ELSE IF command \in {"make_directory", "remove_file", "rename_file"} THEN {"ack", "error"}
  ELSE IF command = "read_chunk" THEN {"file_chunk", "error"}
  ELSE {command, "error"}

ObjectAnswers(command, objects) ==
  IF ~objects \/ command \in {"create_workspace", "rename_workspace", "delete_workspace"}
    THEN {"unsupported"}
  ELSE IF command = "list_workspaces" THEN {"workspace_list"}
  ELSE IF command = "list_terminals" THEN {"terminal_list", "error"}
  ELSE {"attachment_list", "error"}

Answers(c, command) ==
  IF command \in FileCommands THEN FileAnswers(command)
  ELSE IF command \in ObjectCommands
         THEN ObjectAnswers(command, Has(Negotiated(c), "session_objects", 1))
  ELSE TerminalAnswers(command)

Answer(r) ==
  /\ stream[r].pc = "running"
  /\ \E a \in Answers(ConnOf[r], stream[r].command) : Reply(r, a)
  /\ UNCHANGED <<fixed, client, server, link, up, down>>

Errors == {"error", "quota", "unsupported"}

\* The answer that the client's method for the command takes.
Expected(command) ==
  IF command \in {"close", "rename_terminal", "make_directory", "remove_file", "rename_file",
                  "open_forward"} THEN "ack"
  ELSE IF command \in UploadCommands THEN "upload_status"
  ELSE IF command = "read_chunk" THEN "file_chunk"
  ELSE IF command = "list_workspaces" THEN "workspace_list"
  ELSE IF command = "create_workspace" THEN "workspace"
  ELSE IF command = "list_terminals" THEN "terminal_list"
  ELSE IF command = "list_attachments" THEN "attachment_list"
  ELSE command

See(r, what) == stream' = [stream EXCEPT ![r].seen = what]

\* require_response, and the method's match on the result.
ReadResponse(r) ==
  LET c == ConnOf[r] IN
  /\ stream[r].seen = "waiting" /\ stream[r].pc = "answered"
  /\ link[c] = "up" /\ client[c].pc = "ready"
  /\ See(r, IF stream[r].answer \in Errors \cup {Expected(stream[r].command)}
              THEN "answer" ELSE "wrong")
  /\ UNCHANGED <<fixed, client, server, link, up, down>>

\* The stream ends without a response, or the connection does.
ReadEnd(r) ==
  LET c == ConnOf[r] IN
  /\ stream[r].seen = "waiting"
  /\ \/ /\ stream[r].pc \in {"late", "reset"} /\ client[c].pc = "ready" /\ link[c] = "up"
        /\ See(r, IF stream[r].pc = "late" THEN "late" ELSE "wrong")
     \/ client[c].pc = "failed" /\ See(r, "lost")
  /\ UNCHANGED <<fixed, client, server, link, up, down>>

Next ==
  \/ \E c \in Conns :
       \/ Connect(c) \/ RecvClientHello(c) \/ RecvServerHello(c) \/ RecvAuthRequest(c)
       \/ CloseRefused(c) \/ Grant(c) \/ Serve(c) \/ AuthTimeout(c) \/ RecvAuthResult(c)
       \/ Lose(c) \/ ClientNotices(c) \/ ServerNotices(c)
  \/ \E r \in Requests :
       \/ Open(r) \/ ReadHello(r) \/ HelloTimeout(r) \/ ReadRequest(r) \/ Handle(r) \/ Answer(r)
       \/ ReadResponse(r) \/ ReadEnd(r)

Spec == Init /\ [][Next]_vars

(* Tasks are polled, the idle and authentication timeouts fire, and what   *)
(* was written on a connection that lives arrives.                         *)
Fairness ==
  /\ \A c \in Conns :
       /\ WF_vars(\/ RecvClientHello(c) \/ RecvAuthRequest(c) \/ CloseRefused(c)
                  \/ Grant(c) \/ Serve(c) \/ ServerNotices(c))
       /\ WF_vars(RecvServerHello(c) \/ RecvAuthResult(c) \/ ClientNotices(c))
  /\ \A r \in Requests :
       /\ WF_vars(ReadHello(r) \/ ReadRequest(r) \/ Handle(r) \/ Answer(r))
       /\ WF_vars(ReadResponse(r) \/ ReadEnd(r))

FairSpec == Spec /\ Fairness

---------------------------------------------------------------------------
(* Properties.                                                             *)

(* The gateway reserves the connection before it tells the client: a       *)
(* client that was told ok is counted until the gateway has seen its       *)
(* connection end, acts on the same selection and epoch as the gateway,    *)
(* and the user's quota is never exceeded.                                 *)
WelcomeIsReserved ==
  /\ Cardinality(Held) <= ConnectionLimit
  /\ \A c \in Conns :
       client[c].pc = "ready" =>
         /\ server[c].pc \in {"granted", "serving", "ended"}
         /\ client[c].negotiated = server[c].negotiated
         /\ client[c].epoch = server[c].epoch

(* Two builds of this code never take each other for a broken peer,        *)
(* whatever either has switched off: the client accepts the hello and the  *)
(* epoch, the gateway and the worker accept every stream it opens, and the *)
(* answer is one the client's method for that command takes.               *)
NoProtocolError ==
  /\ \A c \in Conns : client[c].error \notin {"hello", "epoch"}
  /\ \A r \in Requests : stream[r].seen # "wrong" /\ stream[r].pc # "reset"

\* The capabilities that others depend on, or that depend on others.
Dependent == {"tcp_forward", "session_objects", "datagram_state", "history_paging", "input_lease",
              "input_resume", "semantic_diff", "semantic_state", "state_ack", "stream_channels"}

Ranges == {<<1, 1>>, <<1, 3>>, <<2, 2>>}

\* A hello that offers the capabilities of d, all with the same range.
HelloWith(d, range) ==
  LET names == Retain(NameOrder, {i \in DOMAIN NameOrder : NameOrder[i] \in d})
  IN  [hint |-> 1, min |-> 1, max |-> 2,
       capabilities |-> [i \in DOMAIN names |-> Offer(names[i], range[1], range[2])]]

(* Whatever subset of the capabilities a client offers, the pruning of     *)
(* negotiate_client_hello, one capability after the other, ends at the     *)
(* largest selection without a broken dependency; the client and the       *)
(* worker accept it.  (It depends on the set-up alone: looked at where a   *)
(* client that offers nothing is about to connect.)                        *)
SelectionSound ==
  /\ account = <<>>
  /\ \E c \in Conns : /\ client[c].pc = "idle" /\ client[c].profile.capabilities = <<>>
                       /\ \A d \in Conns \ {c} : client[d].pc = "absent"
  => \A d \in SUBSET Dependent : \A range \in Ranges :
       SoundFor(HelloWith(d, range), ServerSupport(setup.forwarding, setup.datagrams))

(* Nothing waits for ever: an attempt to connect ends in a connection or   *)
(* an error, and a request in an answer or an error, although either end   *)
(* may learn late that the connection is gone.  (Each is made once.)       *)
ConnectionSettles ==
  <>[](/\ \A c \in Conns : client[c].pc \in {"idle", "absent", "ready", "failed"}
       /\ \A r \in Requests : stream[r].seen # "waiting")
============================================================================
