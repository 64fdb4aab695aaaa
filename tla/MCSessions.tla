----------------------------- MODULE MCSessions -----------------------------
(***************************************************************************)
(* Model-checking instance of what a session lives on: the pools its       *)
(* resources are reserved from, and the two clients that keep a session    *)
(* beyond their connection, the streaming session and the default          *)
(* command-line client.  A behaviour is one of the three, and what only    *)
(* the others use never moves.                                             *)
(***************************************************************************)
EXTENDS ResourcePools

CONSTANTS
  t1, t2, t3, u1, u2,    \* ResourcePools
  Sizes, AttachmentLimit, MaxFaults, MaxTyped, MaxResizes, EventLimit,
  MaxEvents              \* faults, inputs and window changes in one behaviour

VARIABLES
  part,  \* which of the three
  conn, att, lease, pty, faults, driver, status, events, command, ui, cli

\* Two counters: slots, claimed one at a time, and bytes, whose global limit
\* is the largest word, so that a wrapping sum would be admitted.
MCTasks == {t1, t2, t3}
MCUsers == {u1, u2}
MCDims == {"slots", "bytes"}
MCMaxWord == 3
MCClaim(slots, bytes) == [d \in MCDims |-> IF d = "slots" THEN slots ELSE bytes]
MCClaims == {MCClaim(1, 0), MCClaim(1, 2), MCClaim(0, 3)}
MCGlobalLimit == MCClaim(2, 3)
MCUserLimit == MCClaim(1, 2)

L == INSTANCE LiveSession
R == INSTANCE ReconnectingCli

host == <<conn, att, lease, pty, faults>>
session == <<driver, status, events, command, ui>>
all == <<part, vars, host, session, cli>>

NoCli == [pc |-> "done", typed |-> 0, resized |-> 0]

NoSession ==
  /\ driver = [pc |-> "ended", why |-> "absent", readOnly |-> TRUE]
  /\ status = L!Synchronizing
  /\ events = <<>>
  /\ command = L!NoCommand
  /\ ui = [pc |-> "done", typed |-> 0, resized |-> 0, refused |-> {}, size |-> 0,
           writable |-> FALSE]

\* A host without an attachment.
NoHost ==
  /\ conn = "lost" /\ att = <<>> /\ lease = L!NoLease /\ faults = 0
  /\ pty = [input |-> <<>>, size |-> 0, exited |-> TRUE]

\* Pools nobody reserves from.
NoClaims == user = [t \in Tasks |-> u1] /\ claim = [t \in Tasks |-> MCClaim(1, 0)]

MCInit ==
  /\ Init
  /\ \/ part = "pools" /\ NoHost /\ NoSession /\ cli = NoCli
     \/ part = "session" /\ NoClaims /\ L!Init /\ ui.size # pty.size /\ cli = NoCli
     \/ part = "cli" /\ NoClaims /\ R!Init /\ cli.size # pty.size /\ NoSession

Bounded == faults' + ui'.typed + ui'.resized + cli'.typed + cli'.resized <= MaxEvents

\* A client leaves in the end; the pools are used for ever.
Over == part # "pools" /\ UNCHANGED all

MCNext ==
  \/ part = "pools" /\ Next /\ UNCHANGED <<part, host, session, cli>>
  \/ part = "session" /\ L!Next /\ UNCHANGED <<part, vars, cli>> /\ Bounded
  \/ part = "cli" /\ R!Next /\ UNCHANGED <<part, vars, session>> /\ Bounded
  \/ Over

\* The fairness of both clients: nothing of one that is absent is enabled.
MCSpec == MCInit /\ [][MCNext]_all /\ L!Fairness /\ R!Fairness

(* AttachmentHost's InputOnceInOrder: what is typed reaches the process in *)
(* order and at most once.                                                 *)
InputOnceInOrder == L!InputOnceInOrder

(* LiveSession's InputMeetsItsScreen: input is not replayed into another   *)
(* screen.                                                                 *)
InputMeetsItsScreen == L!InputMeetsItsScreen

(* AttachmentHost's PeerKeepsLease: recovery never takes the terminal from *)
(* another client.                                                         *)
PeerKeepsLease == L!PeerKeepsLease

(* LiveSession's SizeSettles: the window's last size reaches the process.  *)
SizeSettles == part = "session" => L!SizeSettles

=============================================================================
