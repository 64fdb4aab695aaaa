------------------------- MODULE UserWorkerProofs -------------------------
(***************************************************************************)
(* Proofs about a user's worker.  WorkerRouter, for any streams and        *)
(* connections and any value of the bounds; and what the instance that is  *)
(* model-checked promises: the same, and what FileUploadProofs shows.      *)
(***************************************************************************)
EXTENDS MCUserWorker, TLAPS

(* The inductive invariant, in parts.                                      *)

\* One process holds worker.lock, and who listens is behind the socket file.
Locked ==
  /\ \A v, w \in Epochs : HoldsLock(v) /\ HoldsLock(w) => v = w
  /\ \A w \in Epochs : worker[w] \in {"serving", "draining"} => socket = w

\* Only a serving worker has requests or terminals.
Drained ==
  \A w \in Epochs : worker[w] # "serving" => requests[w] = {} /\ ~terminals[w]

\* One stream is behind the gate, with the capacity reserved.
Gated ==
  /\ \A s, t \in Streams : pc[s] \in Discovering /\ pc[t] \in Discovering => s = t
  /\ \A s \in Streams : pc[s] \in Discovering => reserved
  /\ ~up => \A s \in Streams : pc[s] \in {"idle", "failed"}

\* A stream has connected to a worker that was listening.
Targeted ==
  \A s \in Streams : pc[s] \in {"connected", "pin", "proxied"} =>
    /\ target[s] \in Epochs
    /\ worker[target[s]] \in {"serving", "draining", "unlinked", "gone"}

IndInv ==
  TypeOK /\ Locked /\ Drained /\ Gated /\ Targeted /\ FencedConnection /\ ServedIsReserved

---------------------------------------------------------------------------
LEMMA NoWorkerIsNoEpoch == NoWorker \notin Epochs
BY RouterAssumption DEF NoWorker, Epochs

LEMMA InitIndInv == Init => IndInv
<1> SUFFICES ASSUME Init PROVE IndInv
  OBVIOUS
<1> USE NoWorkerIsNoEpoch DEF Init
<1>1. TypeOK
  BY DEF TypeOK
<1>2. Locked /\ Drained
  BY DEF Locked, Drained, HoldsLock
<1>3. Gated /\ Targeted
  BY DEF Gated, Targeted, Discovering
<1>4. FencedConnection /\ ServedIsReserved
  BY DEF FencedConnection, ServedIsReserved
<1> QED
  BY <1>1, <1>2, <1>3, <1>4 DEF IndInv

---------------------------------------------------------------------------
(* The actions keep the types.                                             *)

LEMMA TypeStep ==
  ASSUME IndInv, [Next]_vars
  PROVE  TypeOK'
<1> USE RouterAssumption, NoWorkerIsNoEpoch DEF IndInv, TypeOK, gateway, workers
<1>1. ASSUME NEW s \in Streams, Start(s) PROVE TypeOK'
  BY <1>1 DEF Start, Goto
<1>2. ASSUME NEW s \in Streams, EnsureCapacity(s) PROVE TypeOK'
  <2> DEFINE kept == reserved /\ (identity = NoWorker \/ Alive(identity))
  <2>1. /\ identity' = IF kept THEN identity ELSE NoWorker
        /\ reserved' = TRUE \/ (reserved' = FALSE /\ ~kept)
    BY <1>2 DEF EnsureCapacity
  <2>2. identity' \in Epochs \cup {NoWorker} /\ (identity' # NoWorker => reserved')
    <3> HIDE DEF kept
    <3> QED  BY <2>1
  <2>3. reserved' \in BOOLEAN
    BY <2>1
  <2>4. pc' \in [Streams -> Discovering \cup {"idle", "gate", "pin", "proxied", "done", "failed"}]
        /\ closed' \subseteq Connections
    BY <1>2 DEF EnsureCapacity, Goto, Refuse, Discovering
  <2> QED
    BY <1>2, <2>2, <2>3, <2>4 DEF EnsureCapacity
<1>3. ASSUME NEW s \in Streams, Fail(s) PROVE TypeOK'
  BY <1>3 DEF Fail, Refuse, Release, Goto
<1>4. ASSUME NEW s \in Streams, Connect(s) PROVE TypeOK'
  BY <1>4 DEF Connect, Listening, Goto, Discovering
<1>5. ASSUME NEW s \in Streams, Probe(s) PROVE TypeOK'
  BY <1>4, <1>5 DEF Probe, Goto, Discovering
<1>6. ASSUME NEW s \in Streams, SpawnWorker(s) PROVE TypeOK'
  BY <1>3, <1>4, <1>6 DEF SpawnWorker, Goto, Discovering
<1>7. ASSUME NEW s \in Streams, Discover(s) PROVE TypeOK'
  BY <1>7 DEF Discover, Goto, Gated, Targeted, Discovering
<1>8. ASSUME NEW s \in Streams, Pin(s) PROVE TypeOK'
  BY <1>8 DEF Pin, Goto, Refuse
<1>9. ASSUME NEW s \in Streams, Finish(s) PROVE TypeOK'
  <2>1. terminals' \in [Epochs -> BOOLEAN]
    <3>1. (s \in requests[target[s]]) \in BOOLEAN
      OBVIOUS
    <3> QED
      BY <1>9, <3>1 DEF Finish
  <2> QED
    BY <1>9, <2>1 DEF Finish, Goto
<1>10. CASE GatewayDies
  <2>1. pc' \in [Streams -> {"idle", "failed"}]
    BY <1>10 DEF GatewayDies
  <2>2. closed' \subseteq Connections
    BY <1>10 DEF GatewayDies
  <2> QED
    BY <1>10, <2>1, <2>2 DEF GatewayDies
<1>11. CASE GatewayStarts
  BY <1>11 DEF GatewayStarts, Listening
<1>12. ASSUME NEW w \in Epochs, TakeLock(w) PROVE TypeOK'
  BY <1>12 DEF TakeLock, Become
<1>13. ASSUME NEW w \in Epochs, Bind(w) PROVE TypeOK'
  BY <1>13 DEF Bind, Become
<1>14. ASSUME NEW w \in Epochs, NEW s \in Streams, Accept(w, s) PROVE TypeOK'
  <2>1. /\ backlog' \in [Epochs -> SUBSET Streams]
        /\ requests' \in [Epochs -> SUBSET Streams]
        /\ idle' \in [Epochs -> BOOLEAN]
    <3>1. /\ backlog' = [backlog EXCEPT ![w] = @ \ {s}]
          /\ \/ /\ requests' = [requests EXCEPT ![w] = @ \cup {s}]
                /\ idle' = [idle EXCEPT ![w] = FALSE]
             \/ UNCHANGED <<requests, idle>>
      BY <1>14 DEF Accept
    <3>2. CASE UNCHANGED <<requests, idle>>
      BY <3>1, <3>2
    <3>3. CASE requests' = [requests EXCEPT ![w] = @ \cup {s}]
               /\ idle' = [idle EXCEPT ![w] = FALSE]
      BY <3>1, <3>3
    <3> QED
      BY <3>1, <3>2, <3>3
  <2> QED
    BY <1>14, <2>1 DEF Accept
<1>15. ASSUME NEW w \in Epochs, NEW s \in Streams, Complete(w, s) PROVE TypeOK'
  <2>1. Empty(w, requests[w] \ {s}) \in BOOLEAN
    BY DEF Empty
  <2> QED
    BY <1>15, <2>1 DEF Complete
<1>16. ASSUME NEW w \in Epochs, TerminalsExit(w) PROVE TypeOK'
  BY <1>16 DEF TerminalsExit
<1>17. ASSUME NEW w \in Epochs, IdleCheck(w) PROVE TypeOK'
  BY <1>17 DEF IdleCheck, Become, Empty
<1>18. ASSUME NEW w \in Epochs, Unlink(w) PROVE TypeOK'
  BY <1>18 DEF Unlink, Become
<1>19. ASSUME NEW w \in Epochs, Gone(w) PROVE TypeOK'
  BY <1>19 DEF Gone, Become
<1>20. CASE UNCHANGED vars
  BY <1>20 DEF vars
<1> QED
  BY <1>1, <1>2, <1>3, <1>4, <1>5, <1>6, <1>7, <1>8, <1>9, <1>10, <1>11, <1>12, <1>13,
     <1>14, <1>15, <1>16, <1>17, <1>18, <1>19, <1>20
     DEF Next, Route, Work, Poll, PollTimeout, DiscoverFails, Exit, Crash

---------------------------------------------------------------------------
(* The actions keep the lock and the socket file.                          *)

LEMMA LockedStep ==
  ASSUME IndInv, [Next]_vars
  PROVE  Locked'
<1> USE RouterAssumption, NoWorkerIsNoEpoch DEF IndInv, gateway, workers
<1>1. ASSUME UNCHANGED <<worker, socket>> PROVE Locked'
  BY <1>1 DEF Locked, HoldsLock
<1>2. ASSUME NEW w \in Epochs, ~HoldsLock(w), UNCHANGED socket,
             NEW l \in {"starting", "gone"}, worker' = [worker EXCEPT ![w] = l]
      PROVE  Locked'
  BY <1>2 DEF Locked, HoldsLock, TypeOK
<1>3. ASSUME NEW s \in Streams, Connect(s) PROVE Locked'
  BY <1>1, <1>3 DEF Connect
<1>4. ASSUME NEW s \in Streams, Fail(s) PROVE Locked'
  BY <1>1, <1>4 DEF Fail
<1>5. ASSUME NEW s \in Streams, SpawnWorker(s) PROVE Locked'
  BY <1>2, <1>3, <1>4, <1>5 DEF SpawnWorker, HoldsLock
<1>6. ASSUME NEW w \in Epochs, TakeLock(w) PROVE Locked'
  BY <1>6 DEF TakeLock, Become, Locked, HoldsLock, TypeOK
<1>7. ASSUME NEW w \in Epochs, Bind(w) PROVE Locked'
  BY <1>7 DEF Bind, Become, Locked, HoldsLock, TypeOK
<1>8. ASSUME NEW w \in Epochs, IdleCheck(w) PROVE Locked'
  BY <1>8 DEF IdleCheck, Become, Locked, HoldsLock, TypeOK
<1>9. ASSUME NEW w \in Epochs, Unlink(w) PROVE Locked'
  BY <1>9 DEF Unlink, Become, Locked, HoldsLock, TypeOK
<1>10. ASSUME NEW w \in Epochs, Gone(w) PROVE Locked'
  BY <1>10 DEF Gone, Become, Locked, HoldsLock, TypeOK
<1>11. ASSUME NEW s \in Streams, Start(s) \/ Route(s) \/ Finish(s) PROVE Locked'
  BY <1>1, <1>3, <1>4, <1>5, <1>11
     DEF Start, Route, Finish, EnsureCapacity, Probe, Poll, PollTimeout, Discover,
         DiscoverFails, Pin
<1>12. ASSUME NEW w \in Epochs, Work(w) \/ TerminalsExit(w) \/ Crash(w) PROVE Locked'
  BY <1>1, <1>6, <1>7, <1>9, <1>10, <1>12
     DEF Work, Accept, Complete, TerminalsExit, Exit, Crash
<1>13. CASE GatewayDies \/ GatewayStarts \/ UNCHANGED vars
  BY <1>1, <1>13 DEF GatewayDies, GatewayStarts, vars
<1> QED
  BY <1>8, <1>11, <1>12, <1>13 DEF Next

---------------------------------------------------------------------------
(* Only a serving worker takes work on, and it leaves with none.           *)

LEMMA DrainedStep ==
  ASSUME IndInv, [Next]_vars
  PROVE  Drained'
<1> USE RouterAssumption, NoWorkerIsNoEpoch DEF IndInv, gateway, workers
<1>1. ASSUME UNCHANGED <<worker, requests, terminals>> PROVE Drained'
  BY <1>1 DEF Drained
<1>2. ASSUME NEW w \in Epochs, worker[w] # "serving", UNCHANGED <<requests, terminals>>,
             NEW l, worker' = [worker EXCEPT ![w] = l]
      PROVE  Drained'
  BY <1>2 DEF Drained, TypeOK
<1>3. ASSUME NEW s \in Streams, Connect(s) PROVE Drained'
  BY <1>1, <1>3 DEF Connect
<1>4. ASSUME NEW s \in Streams, Fail(s) PROVE Drained'
  BY <1>1, <1>4 DEF Fail
<1>5. ASSUME NEW s \in Streams, SpawnWorker(s) PROVE Drained'
  <2>1. ASSUME NEW w \in Epochs, worker[w] = "unborn", UNCHANGED <<requests, terminals>>,
               worker' = [worker EXCEPT ![w] = "starting"]
        PROVE  Drained'
    BY <1>2, <2>1
  <2> QED
    BY <2>1, <1>3, <1>4, <1>5 DEF SpawnWorker
<1>6. ASSUME NEW s \in Streams, Finish(s) PROVE Drained'
  <2>1. /\ UNCHANGED <<worker, requests>>
        /\ terminals' \in {terminals, [terminals EXCEPT ![target[s]] = s \in requests[target[s]]]}
    BY <1>6 DEF Finish
  <2>2. ASSUME NEW w \in Epochs, worker[w] # "serving" PROVE ~terminals'[w]
    <3>1. s \notin requests[w] /\ ~terminals[w]
      BY <2>2 DEF Drained
    <3> QED
      BY <2>1, <2>2, <3>1 DEF TypeOK
  <2> QED
    BY <2>1, <2>2 DEF Drained
<1>7. ASSUME NEW w \in Epochs, TakeLock(w) \/ Bind(w) \/ Unlink(w) PROVE Drained'
  <2>1. worker[w] # "serving" /\ UNCHANGED <<requests, terminals>>
    BY <1>7 DEF TakeLock, Bind, Unlink
  <2>2. \E l : worker' = [worker EXCEPT ![w] = l]
    BY <1>7 DEF TakeLock, Bind, Unlink, Become
  <2> QED
    BY <1>2, <2>1, <2>2
<1>8. ASSUME NEW w \in Epochs, NEW s \in Streams, Accept(w, s) \/ Complete(w, s)
      PROVE  Drained'
  <2>1. /\ worker[w] = "serving" /\ UNCHANGED <<worker, terminals>>
        /\ \A v \in Epochs \ {w} : requests'[v] = requests[v]
    BY <1>8 DEF Accept, Complete, TypeOK
  <2> QED
    BY <2>1 DEF Drained
<1>9. ASSUME NEW w \in Epochs, TerminalsExit(w) PROVE Drained'
  BY <1>9 DEF TerminalsExit, Drained, TypeOK
<1>10. ASSUME NEW w \in Epochs, IdleCheck(w) PROVE Drained'
  BY <1>10 DEF IdleCheck, Become, Empty, Drained, TypeOK
<1>11. ASSUME NEW w \in Epochs, Gone(w) PROVE Drained'
  BY <1>11 DEF Gone, Become, Drained, TypeOK
<1>12. ASSUME NEW s \in Streams, Start(s) \/ Route(s) PROVE Drained'
  BY <1>1, <1>3, <1>4, <1>5, <1>12
     DEF Start, Route, EnsureCapacity, Probe, Poll, PollTimeout, Discover, DiscoverFails, Pin
<1>13. CASE GatewayDies \/ GatewayStarts \/ UNCHANGED vars
  BY <1>1, <1>13 DEF GatewayDies, GatewayStarts, vars
<1> QED
  BY <1>6, <1>7, <1>8, <1>9, <1>10, <1>11, <1>12, <1>13 DEF Next, Work, Exit, Crash

---------------------------------------------------------------------------
(* One stream is behind the gate.                                          *)

LEMMA GatedStep ==
  ASSUME IndInv, [Next]_vars
  PROVE  Gated'
<1> USE RouterAssumption, NoWorkerIsNoEpoch DEF IndInv, gateway, workers
<1>1. ASSUME UNCHANGED <<up, pc, reserved>> PROVE Gated'
  BY <1>1 DEF Gated
<1>2. ASSUME NEW s \in Streams, pc[s] \in Discovering, UNCHANGED <<up, reserved>>,
             NEW l, Goto(s, l)
      PROVE  Gated'
  BY <1>2 DEF Gated, Goto, TypeOK, Discovering
<1>3. ASSUME NEW s \in Streams, pc[s] \in {"idle", "pin", "proxied"}, UNCHANGED <<up, reserved>>,
             NEW l, Goto(s, l), l \notin Discovering, up
      PROVE  Gated'
  BY <1>3 DEF Gated, Goto, TypeOK
<1>4. ASSUME NEW s \in Streams, pc[s] \in Discovering, Fail(s) PROVE Gated'
  BY <1>4 DEF Fail, Refuse, Release, Gated, Goto, TypeOK, Discovering
<1>5. ASSUME NEW s \in Streams, pc[s] \in Discovering, Connect(s) PROVE Gated'
  BY <1>2, <1>5 DEF Connect
<1>6. ASSUME NEW s \in Streams, EnsureCapacity(s) PROVE Gated'
  <2>1. /\ up /\ up' = up
        /\ \A t \in Streams : pc[t] \notin Discovering
    BY <1>6 DEF EnsureCapacity, Gated
  <2>2. \/ Goto(s, "probe") /\ reserved' = TRUE
        \/ Goto(s, "failed")
    BY <1>6 DEF EnsureCapacity, Refuse
  <2> QED
    BY <2>1, <2>2 DEF Gated, Goto, TypeOK, Discovering
<1>7. ASSUME NEW s \in Streams, Probe(s) \/ Poll(s) \/ PollTimeout(s) PROVE Gated'
  BY <1>2, <1>4, <1>5, <1>7 DEF Probe, Poll, PollTimeout, Discovering
<1>8. ASSUME NEW s \in Streams, SpawnWorker(s) PROVE Gated'
  BY <1>2, <1>4, <1>5, <1>8 DEF SpawnWorker, Discovering
<1>9. ASSUME NEW s \in Streams, Discover(s) \/ DiscoverFails(s) PROVE Gated'
  BY <1>2, <1>4, <1>9 DEF Discover, DiscoverFails, Discovering
<1>10. ASSUME NEW s \in Streams, Start(s) \/ Pin(s) \/ Finish(s) PROVE Gated'
  <2>1. up /\ UNCHANGED <<up, reserved>> /\ pc[s] \in {"idle", "pin", "proxied"}
    BY <1>10 DEF Start, Pin, Finish, Gated
  <2>2. \E l \in {"gate", "proxied", "failed", "done"} : Goto(s, l)
    BY <1>10 DEF Start, Pin, Finish, Refuse
  <2> QED
    BY <1>3, <2>1, <2>2 DEF Discovering
<1>11. CASE GatewayDies
  BY <1>11 DEF GatewayDies, Gated, Discovering
<1>12. CASE GatewayStarts
  BY <1>12 DEF GatewayStarts, Gated, Discovering
<1>13. ASSUME NEW w \in Epochs, Work(w) \/ IdleCheck(w) \/ TerminalsExit(w) \/ Crash(w)
       PROVE  Gated'
  BY <1>1, <1>13
     DEF Work, IdleCheck, TerminalsExit, Crash, TakeLock, Bind, Accept, Complete, Unlink,
         Exit, Gone
<1>14. CASE UNCHANGED vars
  BY <1>1, <1>14 DEF vars
<1> QED
  BY <1>6, <1>7, <1>8, <1>9, <1>10, <1>11, <1>12, <1>13, <1>14 DEF Next, Route

---------------------------------------------------------------------------
(* A stream's worker has listened.                                         *)

LEMMA TargetedStep ==
  ASSUME IndInv, [Next]_vars
  PROVE  Targeted'
<1> USE RouterAssumption, NoWorkerIsNoEpoch DEF IndInv, gateway, workers
<1> DEFINE Later == {"serving", "draining", "unlinked", "gone"}
<1>1. ASSUME UNCHANGED <<pc, target>>,
             \A w \in Epochs : worker[w] \in Later => worker'[w] \in Later
      PROVE  Targeted'
  BY <1>1 DEF Targeted
<1>2. ASSUME NEW s \in Streams, NEW l, l \notin {"connected", "pin", "proxied"},
             Goto(s, l), UNCHANGED <<target, worker>>
      PROVE  Targeted'
  BY <1>2 DEF Targeted, Goto, TypeOK
<1>3. ASSUME NEW s \in Streams, pc[s] \in {"connected", "pin"}, NEW l, Goto(s, l),
             UNCHANGED <<target, worker>>
      PROVE  Targeted'
  BY <1>3 DEF Targeted, Goto, TypeOK
<1>4. ASSUME NEW s \in Streams, Connect(s) PROVE Targeted'
  BY <1>4 DEF Connect, Listening, Targeted, Goto, TypeOK
<1>5. ASSUME NEW s \in Streams, Fail(s) PROVE Targeted'
  BY <1>2, <1>5 DEF Fail, Refuse
<1>6. ASSUME NEW s \in Streams, SpawnWorker(s) PROVE Targeted'
  <2>1. ASSUME NEW w \in Epochs, worker[w] = "unborn", Goto(s, "poll"), UNCHANGED target,
               worker' = [worker EXCEPT ![w] = "starting"]
        PROVE  Targeted'
    BY <2>1 DEF Targeted, Goto, TypeOK
  <2> QED
    BY <1>4, <1>5, <1>6, <2>1 DEF SpawnWorker
<1>7. ASSUME NEW s \in Streams, Start(s) \/ Probe(s) \/ Finish(s) PROVE Targeted'
  BY <1>2, <1>4, <1>7 DEF Start, Probe, Finish
<1>8. ASSUME NEW s \in Streams, EnsureCapacity(s) PROVE Targeted'
  BY <1>2, <1>8 DEF EnsureCapacity, Refuse
<1>9. ASSUME NEW s \in Streams, Discover(s) \/ Pin(s) PROVE Targeted'
  BY <1>3, <1>9 DEF Discover, Pin, Refuse
<1>10. CASE GatewayDies
  BY <1>10 DEF GatewayDies, Targeted
<1>11. ASSUME NEW w \in Epochs, Work(w) \/ IdleCheck(w) \/ TerminalsExit(w) \/ Crash(w)
       PROVE  Targeted'
  <2>1. UNCHANGED <<pc, target>>
    BY <1>11 DEF Work, IdleCheck, TerminalsExit, Crash, TakeLock, Bind, Accept, Complete,
                 Unlink, Exit, Gone
  <2>2. \/ UNCHANGED worker
        \/ worker[w] = "starting" /\ \E l : worker' = [worker EXCEPT ![w] = l]
        \/ \E l \in Later : worker' = [worker EXCEPT ![w] = l]
    BY <1>11 DEF Work, IdleCheck, TerminalsExit, Crash, TakeLock, Bind, Accept, Complete,
                 Unlink, Exit, Gone, Become
  <2> QED
    BY <1>1, <2>1, <2>2 DEF TypeOK
<1>12. CASE GatewayStarts \/ UNCHANGED vars
  BY <1>1, <1>12 DEF GatewayStarts, vars
<1> QED
  BY <1>4, <1>5, <1>6, <1>7, <1>8, <1>9, <1>10, <1>11, <1>12
     DEF Next, Route, Poll, PollTimeout, DiscoverFails

---------------------------------------------------------------------------
(* A connection stays with the worker it is pinned to.                     *)

LEMMA FencedStep ==
  ASSUME IndInv, [Next]_vars
  PROVE  FencedConnection'
<1> USE RouterAssumption, NoWorkerIsNoEpoch DEF IndInv, gateway, workers
<1>1. ASSUME UNCHANGED <<pc, target, pinned>> PROVE FencedConnection'
  BY <1>1 DEF FencedConnection
<1>2. ASSUME NEW s \in Streams, NEW l, l # "proxied", Goto(s, l), UNCHANGED pinned,
             \A t \in Streams \ {s} : target'[t] = target[t]
      PROVE  FencedConnection'
  BY <1>2 DEF FencedConnection, Goto, TypeOK
<1>3. ASSUME NEW s \in Streams, Connect(s) PROVE FencedConnection'
  BY <1>2, <1>3 DEF Connect, TypeOK
<1>4. ASSUME NEW s \in Streams, Fail(s) PROVE FencedConnection'
  BY <1>2, <1>4 DEF Fail, Refuse
<1>5. ASSUME NEW s \in Streams, Pin(s) PROVE FencedConnection'
  <2>1. CASE PinFits(s)
    <3>1. /\ UNCHANGED target /\ Goto(s, "proxied")
          /\ pinned' = [pinned EXCEPT ![Carrier[s]] = target[s]]
      BY <1>5, <2>1 DEF Pin
    <3>2. ASSUME NEW t \in Streams, pc[t] = "proxied", Carrier[t] = Carrier[s]
          PROVE  target[t] = target[s]
      BY <2>1, <3>2 DEF PinFits, FencedConnection, Targeted
    <3> QED
      BY <3>1, <3>2 DEF FencedConnection, Goto, TypeOK
  <2>2. CASE ~PinFits(s)
    BY <1>2, <1>5, <2>2 DEF Pin, Refuse
  <2> QED
    BY <2>1, <2>2
<1>6. ASSUME NEW s \in Streams, SpawnWorker(s) PROVE FencedConnection'
  BY <1>2, <1>3, <1>4, <1>6 DEF SpawnWorker
<1>7. ASSUME NEW s \in Streams, Start(s) \/ Probe(s) \/ Discover(s) \/ Finish(s)
      PROVE  FencedConnection'
  BY <1>2, <1>3, <1>7 DEF Start, Probe, Discover, Finish
<1>8. ASSUME NEW s \in Streams, EnsureCapacity(s) PROVE FencedConnection'
  BY <1>2, <1>8 DEF EnsureCapacity, Refuse
<1>9. CASE GatewayDies
  BY <1>9 DEF GatewayDies, FencedConnection
<1>10. ASSUME NEW w \in Epochs, Work(w) \/ IdleCheck(w) \/ TerminalsExit(w) \/ Crash(w)
       PROVE  FencedConnection'
  BY <1>1, <1>10
     DEF Work, IdleCheck, TerminalsExit, Crash, TakeLock, Bind, Accept, Complete, Unlink,
         Exit, Gone
<1>11. CASE GatewayStarts \/ UNCHANGED vars
  BY <1>1, <1>11 DEF GatewayStarts, vars
<1> QED
  BY <1>3, <1>4, <1>5, <1>6, <1>7, <1>8, <1>9, <1>10, <1>11
     DEF Next, Route, Poll, PollTimeout, DiscoverFails

---------------------------------------------------------------------------
(* The reservation of a worker that is used is kept.                       *)

LEMMA ReservedStep ==
  ASSUME IndInv, [Next]_vars
  PROVE  ServedIsReserved'
<1> USE RouterAssumption, NoWorkerIsNoEpoch DEF IndInv, gateway, workers
<1> DEFINE Served(s) == pc[s] \in {"pin", "proxied"} /\ Alive(target[s])
<1>1. ASSUME UNCHANGED <<reserved, identity>>,
             \A s \in Streams : Served(s)' => Served(s) /\ target'[s] = target[s]
      PROVE  ServedIsReserved'
  BY <1>1 DEF ServedIsReserved
<1>2. ASSUME NEW s \in Streams, NEW l, l \notin {"pin", "proxied"}, Goto(s, l),
             \A t \in Streams \ {s} : target'[t] = target[t],
             \A w \in Epochs : worker'[w] = worker[w] \/ worker[w] = "unborn"
      PROVE  \A t \in Streams : Served(t)' => Served(t) /\ target'[t] = target[t]
  BY <1>2 DEF Goto, TypeOK, Alive, Targeted
<1>3. ASSUME NEW s \in Streams, Connect(s) PROVE ServedIsReserved'
  <2>1. \A t \in Streams \ {s} : target'[t] = target[t]
    BY <1>3 DEF Connect, TypeOK
  <2> QED
    BY <1>1, <1>2, <1>3, <2>1 DEF Connect
<1>4. ASSUME NEW s \in Streams, Fail(s) PROVE ServedIsReserved'
  <2>1. \A t \in Streams : Served(t)' => Served(t) /\ target'[t] = target[t]
    BY <1>2, <1>4 DEF Fail, Refuse
  <2>2. UNCHANGED identity /\ reserved' = (reserved /\ identity # NoWorker)
    BY <1>4 DEF Fail, Release
  <2> QED
    BY <2>1, <2>2 DEF ServedIsReserved, Alive
<1>5. ASSUME NEW s \in Streams, EnsureCapacity(s) PROVE ServedIsReserved'
  <2> DEFINE kept == reserved /\ (identity = NoWorker \/ Alive(identity))
  <2>1. \A t \in Streams : Served(t)' => Served(t) /\ target'[t] = target[t]
    BY <1>2, <1>5 DEF EnsureCapacity, Refuse
  <2>2. kept => reserved' = TRUE /\ UNCHANGED identity
    BY <1>5 DEF EnsureCapacity
  <2>3. ASSUME NEW t \in Streams, Served(t) PROVE kept /\ identity = target[t]
    BY <2>3 DEF ServedIsReserved
  <2> QED
    BY <2>1, <2>2, <2>3 DEF ServedIsReserved
<1>6. ASSUME NEW s \in Streams, SpawnWorker(s) PROVE ServedIsReserved'
  <2>1. ASSUME NEW w \in Epochs, worker[w] = "unborn",
               worker' = [worker EXCEPT ![w] = "starting"], Goto(s, "poll"),
               UNCHANGED <<target, reserved, identity>>
        PROVE  ServedIsReserved'
    <3>1. \A v \in Epochs : worker'[v] = worker[v] \/ worker[v] = "unborn"
      BY <2>1 DEF TypeOK
    <3> QED
      BY <1>1, <1>2, <2>1, <3>1
  <2> QED
    BY <1>3, <1>4, <1>6, <2>1 DEF SpawnWorker
<1>7. ASSUME NEW s \in Streams, Discover(s) PROVE ServedIsReserved'
  <2>1. /\ target[s] \in Epochs /\ worker[target[s]] = "serving" /\ reserved
    BY <1>7 DEF Discover, Drained, Targeted, Gated, Discovering
  <2>2. ASSUME NEW t \in Streams, Served(t) PROVE target[t] = target[s]
    BY <2>1, <2>2 DEF Targeted, Locked, HoldsLock, Alive
  <2>3. ASSUME NEW t \in Streams, Served(t)' PROVE t = s \/ Served(t)
    BY <1>7, <2>3 DEF Discover, Goto, TypeOK, Alive
  <2>4. reserved' /\ identity' = target[s] /\ UNCHANGED target
    BY <1>7, <2>1 DEF Discover
  <2> QED
    BY <2>2, <2>3, <2>4 DEF ServedIsReserved
<1>8. ASSUME NEW s \in Streams, Pin(s) PROVE ServedIsReserved'
  <2>1. \A t \in Streams : Served(t)' => Served(t) /\ target'[t] = target[t]
    BY <1>8 DEF Pin, Goto, Refuse, TypeOK, Alive
  <2> QED
    BY <1>1, <1>8, <2>1 DEF Pin
<1>9. ASSUME NEW s \in Streams, Start(s) \/ Probe(s) \/ Finish(s) PROVE ServedIsReserved'
  BY <1>1, <1>2, <1>3, <1>9 DEF Start, Probe, Finish
<1>10. CASE GatewayDies
  BY <1>10 DEF GatewayDies, ServedIsReserved
<1>11. CASE GatewayStarts
  BY <1>11 DEF GatewayStarts, ServedIsReserved, Gated
<1>12. ASSUME NEW w \in Epochs, Work(w) \/ IdleCheck(w) \/ TerminalsExit(w) \/ Crash(w)
       PROVE  ServedIsReserved'
  <2>1. UNCHANGED <<pc, target, reserved, identity>>
    BY <1>12 DEF Work, IdleCheck, TerminalsExit, Crash, TakeLock, Bind, Accept, Complete,
                 Unlink, Exit, Gone
  <2>2. \/ UNCHANGED worker
        \/ worker[w] \notin {"unborn", "gone"} /\ \E l : worker' = [worker EXCEPT ![w] = l]
    BY <1>12 DEF Work, IdleCheck, TerminalsExit, Crash, TakeLock, Bind, Accept, Complete,
                 Unlink, Exit, Gone, Become, Alive
  <2>3. \A t \in Streams : Served(t)' => Served(t)
    BY <2>1, <2>2 DEF Alive, TypeOK
  <2> QED
    BY <1>1, <2>1, <2>3
<1>13. CASE UNCHANGED vars
  BY <1>13 DEF vars, ServedIsReserved, Alive
<1> QED
  BY <1>3, <1>4, <1>5, <1>6, <1>7, <1>8, <1>9, <1>10, <1>11, <1>12, <1>13
     DEF Next, Route, Poll, PollTimeout, DiscoverFails

---------------------------------------------------------------------------
LEMMA Inductive == Spec => []IndInv
<1>1. IndInv /\ [Next]_vars => IndInv'
  BY TypeStep, LockedStep, DrainedStep, GatedStep, TargetedStep, FencedStep, ReservedStep
     DEF IndInv
<1> QED
  BY InitIndInv, <1>1, PTL DEF Spec

(* At any time at most one worker of the user serves, and the gateway can  *)
(* reach it: worker.lock arbitrates however many workers the router starts *)
(* and however late an exiting one removes the socket file.                *)
THEOREM OneReachableWorkerHolds == Spec => []OneReachableWorker
<1>1. IndInv => OneReachableWorker
  BY DEF IndInv, Locked, HoldsLock, OneReachableWorker
<1> QED
  BY Inductive, <1>1, PTL

(* A connection is relayed to one worker instance only.                    *)
THEOREM FencedConnectionHolds == Spec => []FencedConnection
<1>1. IndInv => FencedConnection
  BY DEF IndInv
<1> QED
  BY Inductive, <1>1, PTL

(* The capacity of a worker that is being used stays reserved for it, in   *)
(* spite of failed probes, reaped workers and restarts of the gateway.     *)
THEOREM ServedIsReservedHolds == Spec => []ServedIsReserved
<1>1. IndInv => ServedIsReserved
  BY DEF IndInv
<1> QED
  BY Inductive, <1>1, PTL

(* A worker that exits because it is idle has no request and no terminal.  *)
THEOREM IdleExitLosesNothingHolds == Spec => []IdleExitLosesNothing
<1>1. IndInv => IdleExitLosesNothing
  BY DEF IndInv, Drained, IdleExitLosesNothing
<1> QED
  BY Inductive, <1>1, PTL

---------------------------------------------------------------------------
(* The composition.  A behaviour of the instance is one of the router and  *)
(* one of the uploads, which FileUploadProofs is about.                    *)

LEMMA RouterBehaviour == MCSpec => Spec
<1>1. MCInit => Init
  BY DEF MCInit
<1>2. [MCNext]_all => [Next]_vars
  BY DEF MCNext, all
<1> QED
  BY <1>1, <1>2, PTL DEF MCSpec, Spec

UP == INSTANCE FileUploadProofs WITH
  Scenarios <- MCScenarios \cup {NoUploads},
  target <- destination, requests <- inbox, responses <- outbox

LEMMA UploadBehaviour == UP!UploadAssumption /\ (MCSpec => UP!Spec)
<1>1. UP!UploadAssumption
  BY UploadInstance DEF U!UploadAssumption, UP!UploadAssumption
<1>2. MCInit => UP!Init
  BY DEF MCInit, U!Init, UP!Init, U!NoUpload, UP!NoUpload, U!NoCommit, UP!NoCommit
<1>3. U!Next => UP!Next
  BY DEF
     U!disk, UP!disk, U!server, UP!server, U!network, UP!network, U!faults, UP!faults,
     U!vars, UP!vars, U!Source, UP!Source, U!Foreign, UP!Foreign, U!Zero, UP!Zero,
     U!NoUpload, UP!NoUpload, U!Upload, UP!Upload, U!NoCommit, UP!NoCommit, U!Status,
     UP!Status, U!Failure, UP!Failure, U!Reply, UP!Reply, U!Retained, UP!Retained,
     U!AlreadyThere, UP!AlreadyThere, U!CommittedOffset, UP!CommittedOffset, U!NewTemporary,
     UP!NewTemporary, U!BeginUpload, UP!BeginUpload, U!Replayed, UP!Replayed, U!Expected,
     UP!Expected, U!WriteChunk, UP!WriteChunk, U!Verified, UP!Verified, U!CommitUpload,
     UP!CommitUpload, U!Handle, UP!Handle, U!SyncTemporary, UP!SyncTemporary, U!SyncContent,
     UP!SyncContent, U!MayPublish, UP!MayPublish, U!Publish, UP!Publish, U!Finish,
     UP!Finish, U!Die, UP!Die, U!Kill, UP!Kill, U!Damaged, UP!Damaged, U!PowerLoss,
     UP!PowerLoss, U!Meddle, UP!Meddle, U!AbortUpload, UP!AbortUpload, U!Op, UP!Op, U!Send,
     UP!Send, U!Resumption, UP!Resumption, U!Reconnect, UP!Reconnect, U!Following,
     UP!Following, U!Receive, UP!Receive, U!Next, UP!Next
<1>4. UNCHANGED uploadVars => UNCHANGED UP!vars
  BY DEF uploadVars, UP!vars, UP!disk, UP!server, UP!network, UP!faults
<1>5. [MCNext]_all => [UP!Next]_(UP!vars)
  BY <1>3, <1>4 DEF MCNext, all
<1> QED
  BY <1>1, <1>2, <1>5, PTL DEF MCSpec, UP!Spec

(* The streams of a connection stay with one worker instance, which keeps  *)
(* its capacity while they use it: serve_stream_with_error and the fence.  *)
THEOREM StreamsKeepTheirWorkerHolds == MCSpec => []StreamsKeepTheirWorker
<1>1. FencedConnection /\ ServedIsReserved => StreamsKeepTheirWorker
  BY DEF StreamsKeepTheirWorker
<1> QED
  BY <1>1, RouterBehaviour, FencedConnectionHolds, ServedIsReservedHolds, PTL

(* FileUploadProofs' PublishedWholeHolds, of the worker's uploads.         *)
THEOREM UploadsPublishedWhole == MCSpec => []PublishedWhole
<1>1. UP!PublishedWhole => PublishedWhole
  BY DEF UP!PublishedWhole, U!PublishedWhole, PublishedWhole, U!Source, UP!Source, U!Foreign,
     UP!Foreign
<1> QED
  BY <1>1, UploadBehaviour, UP!PublishedWholeHolds, PTL

(* FileUploadProofs' SuccessIsTrueHolds, of the worker's uploads.          *)
THEOREM UploadSuccessIsTrue == MCSpec => []SuccessIsTrue
<1>1. UP!SuccessIsTrue => SuccessIsTrue
  BY DEF UP!SuccessIsTrue, U!SuccessIsTrue, SuccessIsTrue
<1> QED
  BY <1>1, UploadBehaviour, UP!SuccessIsTrueHolds, PTL

(* FileUploadProofs' NoClobberHolds, of the worker's uploads.              *)
THEOREM UploadsClobberNothing == MCSpec => NoClobber
  BY UploadBehaviour, UP!NoClobberHolds, PTL
  DEF NoClobber, U!NoClobber, UP!NoClobber, U!vars, UP!vars, U!disk, UP!disk, U!server,
      UP!server, U!network, UP!network, U!faults, UP!faults

============================================================================
