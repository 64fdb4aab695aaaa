---------------------------- MODULE MCConnection ----------------------------
(***************************************************************************)
(* Model-checking instance of how a client comes to the gateway and what   *)
(* carries its requests: the identity of the host, the client's            *)
(* known_hosts file, the handshake and the request streams, and the relay  *)
(* to the worker.  They share no state: a behaviour is one of them, and    *)
(* the variables of the others never move.                                 *)
(***************************************************************************)
EXTENDS Connection

CONSTANTS
  c1, c2, r1, r2,                             \* Connection
  MaxBytes,                                   \* Forwarding
  Clients, Hosts, Certificates, MaxConnects,  \* KnownHosts
  Initializers, Daemons                       \* HostIdentity

VARIABLES
  part,  \* which of the four
  forward, relayUp, relayDown, relay, workerSocket, handler, peer,
  knownHosts, durable, lock, verifier, told, connects,
  identity, process, gateway, served

MCConns == {c1, c2}
MCRequests == {r1, r2}
MCConnOf == [r \in MCRequests |-> c1]

\* One command of each kind of stream and of answer.
MCCommands == {"attach", "write_chunk", "list_terminals", "open_forward"}

\* A peer that knows version 1 alone and no capability.
OldClient == [min |-> 1, max |-> 1, capabilities |-> <<>>]

\* A build that has dropped the versions this code knows.
LaterClient == [min |-> 3, max |-> 3, capabilities |-> <<>>]

MCProfiles == {Runtime, CommandLineClient, OldClient, LaterClient}

Server(managed, forwarding, datagrams) ==
  [managed |-> managed, forwarding |-> forwarding, datagrams |-> datagrams]

MCServers == {Server(TRUE, TRUE, TRUE), Server(TRUE, FALSE, FALSE), Server(FALSE, TRUE, FALSE)}

F == INSTANCE Forwarding WITH
  client <- forward, up <- relayUp, down <- relayDown, gateway <- relay,
  worker <- workerSocket, server <- handler, target <- peer

K == INSTANCE KnownHosts WITH file <- knownHosts, client <- verifier

H == INSTANCE HostIdentity WITH file <- identity

ASSUME TrustAssumption == K!KnownHostsAssumption /\ H!IdentityAssumption

relayVars == <<forward, relayUp, relayDown, relay, workerSocket, handler, peer>>
trustVars == <<knownHosts, durable, lock, verifier, told, connects>>
identityVars == <<identity, process, gateway, served>>
all == <<part, vars, relayVars, trustVars, identityVars>>

\* Two clients that connect, or one client that makes requests.
Shape ==
  /\ client[c1].pc = "idle" /\ client[c2].profile = CommandLineClient
  /\ \/ client[c2].pc = "idle" /\ \A r \in Requests : stream[r] = Unmade
     \/ client[c2].pc = "absent" /\ \A r \in Requests : stream[r] = Unopened

\* A gateway to which nobody connects.
Quiet ==
  /\ setup = Server(TRUE, TRUE, TRUE) /\ account = <<>>
  /\ client = [c \in Conns |-> NewClient(OldClient, "absent")]
  /\ stream = [r \in Requests |-> Unmade]

MCInit ==
  /\ part \in {"connection", "relay", "trust", "identity"}
  /\ Init /\ F!Init /\ K!Init /\ H!Init
  /\ IF part = "connection" THEN Shape ELSE Quiet
  /\ part # "relay" => forward.kind = "unary"
  /\ part # "trust" => knownHosts = <<>>

MCNext ==
  \/ part = "connection" /\ Next /\ UNCHANGED <<part, relayVars, trustVars, identityVars>>
  \/ part = "relay" /\ F!Next /\ UNCHANGED <<part, vars, trustVars, identityVars>>
  \/ part = "trust" /\ K!Next /\ UNCHANGED <<part, vars, relayVars, identityVars>>
  \/ part = "identity" /\ H!Next /\ UNCHANGED <<part, vars, relayVars, trustVars>>

\* Connection's fairness: nothing of it is enabled where another part moves.
MCSpec == MCInit /\ [][MCNext]_all /\ Fairness

(* Forwarding's RelayWhole: what is relayed arrives whole both ways.       *)
RelayWhole == F!RelayWhole

(* KnownHosts' AddedIsKept: a certificate the client was told is stored is *)
(* in the file afterwards.                                                 *)
AddedIsKept == K!AddedIsKept

(* HostIdentity's OneIdentity: the gateway serves one identity for ever.   *)
OneIdentity == H!OneIdentity
=============================================================================
