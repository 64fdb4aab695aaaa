---------------------------- MODULE WorkerRouter ----------------------------
(***************************************************************************)
(* The managed gateway's router and the worker processes of one Unix user: *)
(* the streams of the user's connections look for the worker, start one    *)
(* when there is none, and are relayed to it; a worker that has been idle  *)
(* long enough exits; workers crash; the gateway is restarted.             *)
(*                                                                         *)
(* A worker is identified by its epoch, which is the order of its start.   *)
(* The discovery gate is held by the stream whose pc is in Discovering;    *)
(* the gateway's start lock and the start lock file are only taken inside  *)
(* it, so that they add nothing for one user.  A peer's process id is      *)
(* recorded together with its identity.  A time limit may pass at any      *)
(* time.                                                                   *)
(***************************************************************************)
EXTENDS Naturals, FiniteSets

CONSTANTS
  Streams,      \* the request streams clients open
  Connections,  \* the connections that carry them
  Carrier,      \* the connection of each stream
  MaxRequests,  \* requests a worker handles at a time
  MaxWorkers,   \* bound: workers started
  MaxCrashes,   \* bound: workers that crash
  MaxRestarts   \* bound: restarts of the gateway

ASSUME RouterAssumption ==
  /\ Carrier \in [Streams -> Connections]
  /\ MaxRequests \in Nat \ {0}
  /\ MaxWorkers \in Nat /\ MaxCrashes \in Nat /\ MaxRestarts \in Nat

Epochs == 1 .. MaxWorkers
NoWorker == 0

VARIABLES
  up,         \* the gateway runs
  pc,         \* where each stream is
  target,     \* the worker a stream has connected to
  pinned,     \* worker_identity of each connection
  closed,     \* connections the gateway has closed
  reserved,   \* the user's worker capacity is reserved
  identity,   \* the worker identity recorded with it
  worker,     \* where each worker process is
  socket,     \* the worker that bound session.sock, or NoWorker
  backlog,    \* streams connected to a worker and not yet accepted
  requests,   \* streams a worker handles
  terminals,  \* the worker has active terminals
  idle,       \* the worker's idle_since is set
  crashes, restarts

gateway == <<up, pc, target, pinned, closed, reserved, identity>>
workers == <<worker, socket, backlog, requests, terminals, idle>>
vars == <<gateway, workers, crashes, restarts>>

Init ==
  /\ up = TRUE
  /\ pc = [s \in Streams |-> "idle"]
  /\ target = [s \in Streams |-> NoWorker]
  /\ pinned = [c \in Connections |-> NoWorker]
  /\ closed = {}
  /\ reserved = FALSE /\ identity = NoWorker
  /\ worker = [w \in Epochs |-> "unborn"]
  /\ socket = NoWorker
  /\ backlog = [w \in Epochs |-> {}]
  /\ requests = [w \in Epochs |-> {}]
  /\ terminals = [w \in Epochs |-> FALSE]
  /\ idle = [w \in Epochs |-> FALSE]
  /\ crashes = 0 /\ restarts = 0

Alive(w) == w # NoWorker /\ worker[w] \notin {"unborn", "gone"}

---------------------------------------------------------------------------
(* The gateway.                                                            *)

Discovering == {"probe", "recheck", "poll", "connected"}
Goto(s, l) == pc' = [pc EXCEPT ![s] = l]

Start(s) ==
  /\ up /\ pc[s] = "idle" /\ Carrier[s] \notin closed
  /\ Goto(s, "gate")
  /\ UNCHANGED <<up, target, pinned, closed, reserved, identity, workers, crashes, restarts>>

\* connect fails: proxy_stream closes the connection.
Refuse(s) == Goto(s, "failed") /\ closed' = closed \cup {Carrier[s]}

\* ensure_worker_capacity reaps the reservation of a dead worker first.
EnsureCapacity(s) ==
  LET kept == reserved /\ (identity = NoWorker \/ Alive(identity)) IN
  /\ pc[s] = "gate" /\ \A t \in Streams : pc[t] \notin Discovering
  /\ identity' = IF kept THEN identity ELSE NoWorker
  /\ \/ Goto(s, "probe") /\ reserved' = TRUE /\ UNCHANGED closed
     \/ ~kept /\ Refuse(s) /\ reserved' = FALSE           \* quota
  /\ UNCHANGED <<up, target, pinned, workers, crashes, restarts>>

\* A failed probe cannot release the reservation of an established worker.
Release == reserved' = (reserved /\ identity # NoWorker)

Fail(s) ==
  /\ Refuse(s)
  /\ Release
  /\ UNCHANGED <<up, target, pinned, identity, workers, crashes, restarts>>

\* connect_existing: someone listens behind the socket file.
Listening == socket # NoWorker /\ worker[socket] \in {"serving", "draining"}

Connect(s) ==
  /\ Listening
  /\ Goto(s, "connected")
  /\ target' = [target EXCEPT ![s] = socket]
  /\ backlog' = [backlog EXCEPT ![socket] = @ \cup {s}]
  /\ UNCHANGED <<up, pinned, closed, reserved, identity, worker, socket, requests,
                 terminals, idle, crashes, restarts>>

Probe(s) ==
  /\ pc[s] = "probe"
  /\ IF Listening
       THEN Connect(s)
       ELSE /\ Goto(s, "recheck")
            /\ UNCHANGED <<up, target, pinned, closed, reserved, identity, workers,
                           crashes, restarts>>

\* Under the start locks: look again, then spawn_worker, which may fail.
SpawnWorker(s) ==
  LET unborn == {w \in Epochs : worker[w] = "unborn"} IN
  /\ pc[s] = "recheck"
  /\ IF Listening
       THEN Connect(s)
       ELSE IF unborn = {}
       THEN Fail(s)
       ELSE \E w \in unborn :
              /\ \A v \in unborn : w <= v
              /\ Goto(s, "poll")
              /\ worker' = [worker EXCEPT ![w] = "starting"]
              /\ UNCHANGED <<up, target, pinned, closed, reserved, identity, socket,
                             backlog, requests, terminals, idle, crashes, restarts>>

Poll(s) == pc[s] = "poll" /\ Connect(s)

\* Mutant: the socket is awaited for ever.
PollForever(s) == FALSE

\* The socket has not appeared in time.
PollTimeout(s) == pc[s] = "poll" /\ Fail(s)

\* discover fails: the peer is gone, or it does not answer in time.
DiscoverFails(s) == pc[s] = "connected" /\ Fail(s)

\* discover succeeds.
Discover(s) ==
  /\ pc[s] = "connected" /\ s \in requests[target[s]]
  /\ Goto(s, "pin")
  /\ identity' = target[s]
  /\ UNCHANGED <<up, target, pinned, closed, reserved, workers, crashes, restarts>>

\* Mutant: a connection moves to whatever worker it finds.
PinAny(s) == TRUE

PinFits(s) == pinned[Carrier[s]] \in {NoWorker, target[s]}

\* pin: a connection that has seen another epoch is closed.
Pin(s) ==
  /\ pc[s] = "pin"
  /\ IF PinFits(s)
       THEN /\ pinned' = [pinned EXCEPT ![Carrier[s]] = target[s]]
            /\ Goto(s, "proxied") /\ UNCHANGED closed
       ELSE Refuse(s) /\ UNCHANGED pinned
  /\ UNCHANGED <<up, target, reserved, identity, workers, crashes, restarts>>

\* The request is over, or the worker or the connection is gone.  A request
\* may have created a terminal.
Finish(s) ==
  LET w == target[s] IN
  /\ pc[s] = "proxied"
  /\ Goto(s, "done")
  /\ terminals' \in {terminals, [terminals EXCEPT ![w] = s \in requests[w]]}
  /\ UNCHANGED <<up, target, pinned, closed, reserved, identity, worker, socket, backlog,
                 requests, idle, crashes, restarts>>

GatewayDies ==
  /\ up /\ restarts < MaxRestarts
  /\ up' = FALSE /\ restarts' = restarts + 1
  /\ pc' = [s \in Streams |-> IF pc[s] = "idle" THEN "idle" ELSE "failed"]
  /\ closed' = closed \cup {Carrier[s] : s \in {t \in Streams : pc[t] # "idle"}}
  /\ reserved' = FALSE /\ identity' = NoWorker
  /\ UNCHANGED <<target, pinned, workers, crashes>>

\* serve: recover_existing accounts for a worker that is still there; the
\* gateway does not start with one that does not answer.
GatewayStarts ==
  /\ ~up
  /\ IF Listening
       THEN /\ worker[socket] = "serving" /\ Cardinality(requests[socket]) < MaxRequests
            /\ reserved' = TRUE /\ identity' = socket
            /\ idle' = [idle EXCEPT ![socket] = FALSE]
       ELSE UNCHANGED <<reserved, identity, idle>>
  /\ up' = TRUE
  /\ UNCHANGED <<pc, target, pinned, closed, worker, socket, backlog, requests, terminals,
                 crashes, restarts>>

---------------------------------------------------------------------------
(* The worker.                                                             *)

Become(w, l) == worker' = [worker EXCEPT ![w] = l]

\* Mutant: worker.lock is released when the worker decides to exit.
ReleasedOnExit(w) == worker[w] \in {"locked", "serving"}

\* worker.lock is held until the process is gone.
HoldsLock(w) == worker[w] \in {"locked", "serving", "draining", "unlinked"}

TakeLock(w) ==
  /\ worker[w] = "starting"
  /\ Become(w, IF \E v \in Epochs : HoldsLock(v) THEN "gone" ELSE "locked")
  /\ UNCHANGED <<gateway, socket, backlog, requests, terminals, idle, crashes, restarts>>

\* The old socket file is removed and a new one bound.
Bind(w) ==
  /\ worker[w] = "locked"
  /\ Become(w, "serving") /\ socket' = w
  /\ UNCHANGED <<gateway, backlog, requests, terminals, idle, crashes, restarts>>

\* A connection beyond the limit is dropped, and discover fails.
Accept(w, s) ==
  LET admitted == Cardinality(requests[w]) < MaxRequests IN
  /\ worker[w] = "serving" /\ s \in backlog[w]
  /\ backlog' = [backlog EXCEPT ![w] = @ \ {s}]
  /\ IF admitted
       THEN /\ requests' = [requests EXCEPT ![w] = @ \cup {s}]
            /\ idle' = [idle EXCEPT ![w] = FALSE]
       ELSE UNCHANGED <<requests, idle>>
  /\ UNCHANGED <<gateway, worker, socket, terminals, crashes, restarts>>

\* Mutant: active terminals do not count.
EmptyOfRequests(w, now) == now = {}

Empty(w, now) == now = {} /\ ~terminals[w]

\* join_next: a request has completed; idle_state observes.
Complete(w, s) ==
  LET now == requests[w] \ {s} IN
  /\ worker[w] = "serving" /\ s \in requests[w] /\ pc[s] \in {"done", "failed"}
  /\ requests' = [requests EXCEPT ![w] = now]
  /\ idle' = [idle EXCEPT ![w] = Empty(w, now)]
  /\ UNCHANGED <<gateway, worker, socket, backlog, terminals, crashes, restarts>>

TerminalsExit(w) ==
  /\ worker[w] = "serving" /\ terminals[w]
  /\ terminals' = [terminals EXCEPT ![w] = FALSE]
  /\ UNCHANGED <<gateway, worker, socket, backlog, requests, idle, crashes, restarts>>

\* should_exit, when the interval is over and nobody is to be accepted (the
\* select is biased): it observes, and exits when the worker has been idle
\* for the idle timeout.
IdleCheck(w) ==
  LET empty == Empty(w, requests[w]) IN
  /\ worker[w] = "serving" /\ backlog[w] = {}
  /\ idle' = [idle EXCEPT ![w] = empty]
  /\ \/ UNCHANGED worker
     \/ empty /\ idle[w] /\ Become(w, "draining")
  /\ UNCHANGED <<gateway, socket, backlog, requests, terminals, crashes, restarts>>

Unlink(w) ==
  /\ worker[w] = "draining"
  /\ Become(w, "unlinked") /\ socket' = NoWorker
  /\ UNCHANGED <<gateway, backlog, requests, terminals, idle, crashes, restarts>>

\* The process ends, and with it its connections and its lock.
Gone(w) ==
  /\ Become(w, "gone")
  /\ backlog' = [backlog EXCEPT ![w] = {}]
  /\ requests' = [requests EXCEPT ![w] = {}]
  /\ terminals' = [terminals EXCEPT ![w] = FALSE]
  /\ UNCHANGED <<gateway, socket, idle, restarts>>

Exit(w) == worker[w] = "unlinked" /\ Gone(w) /\ UNCHANGED crashes

Crash(w) ==
  /\ Alive(w) /\ crashes < MaxCrashes
  /\ Gone(w)
  /\ crashes' = crashes + 1

---------------------------------------------------------------------------
Route(s) ==
  \/ EnsureCapacity(s) \/ Probe(s) \/ SpawnWorker(s) \/ Poll(s) \/ PollTimeout(s)
  \/ Discover(s) \/ DiscoverFails(s) \/ Pin(s)

Work(w) ==
  \/ TakeLock(w) \/ Bind(w) \/ Unlink(w) \/ Exit(w)
  \/ \E s \in Streams : Accept(w, s) \/ Complete(w, s)

Next ==
  \/ \E s \in Streams : Start(s) \/ Route(s) \/ Finish(s)
  \/ \E w \in Epochs : Work(w) \/ IdleCheck(w) \/ TerminalsExit(w) \/ Crash(w)
  \/ GatewayDies \/ GatewayStarts

Spec == Init /\ [][Next]_vars

(* Time limits expire and a stream's task is polled while it can go on.    *)
(* Nothing is assumed of the workers, of how long a request takes, or, as  *)
(* a stream asks once, of the order in which the discovery gate is taken.  *)
FairSpec == Spec /\ \A s \in Streams : WF_vars(Route(s))

---------------------------------------------------------------------------
TypeOK ==
  /\ pc \in [Streams -> Discovering \cup {"idle", "gate", "pin", "proxied", "done", "failed"}]
  /\ target \in [Streams -> Epochs \cup {NoWorker}]
  /\ pinned \in [Connections -> Epochs \cup {NoWorker}]
  /\ closed \subseteq Connections /\ up \in BOOLEAN
  /\ reserved \in BOOLEAN /\ identity \in Epochs \cup {NoWorker}
  /\ identity # NoWorker => reserved
  /\ worker \in [Epochs -> {"unborn", "starting", "locked", "serving", "draining",
                            "unlinked", "gone"}]
  /\ socket \in Epochs \cup {NoWorker}
  /\ backlog \in [Epochs -> SUBSET Streams] /\ requests \in [Epochs -> SUBSET Streams]
  /\ terminals \in [Epochs -> BOOLEAN] /\ idle \in [Epochs -> BOOLEAN]

---------------------------------------------------------------------------
(* Properties.                                                             *)

(* A user has at most one worker that can serve, whatever races between    *)
(* starting, discovering and exiting (ADR 0005), and it can be reached:    *)
(* no exiting or starting worker has taken its socket file away.           *)
OneReachableWorker ==
  \A w \in Epochs : worker[w] = "serving" =>
    /\ socket = w
    /\ \A v \in Epochs : worker[v] = "serving" => v = w

(* The streams of one connection are relayed to one worker instance: after *)
(* a worker was lost, a connection that knew it is closed rather than      *)
(* silently continued with another (ADR 0006).                             *)
FencedConnection ==
  \A s \in Streams : pc[s] = "proxied" => pinned[Carrier[s]] = target[s]

(* Every worker the gateway relays to is paid for: its reservation is not  *)
(* given back by a failed probe or by the end of another worker.           *)
ServedIsReserved ==
  \A s \in Streams : pc[s] \in {"pin", "proxied"} /\ Alive(target[s]) =>
    reserved /\ identity = target[s]

(* A worker that leaves because it is idle takes no accepted request and   *)
(* no running terminal with it (README: "no active terminals and no        *)
(* requests").                                                             *)
IdleExitLosesNothing ==
  \A w \in Epochs : worker[w] \in {"draining", "unlinked"} =>
    requests[w] = {} /\ ~terminals[w]

(* A stream that asks for the worker is relayed or refused; nobody waits   *)
(* for ever at the discovery gate or for a socket that never appears.  (A  *)
(* stream asks once.)                                                      *)
StreamSettles == <>[](\A s \in Streams : pc[s] \in {"idle", "proxied", "done", "failed"})
============================================================================
