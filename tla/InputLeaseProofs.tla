------------------------- MODULE InputLeaseProofs -------------------------
(***************************************************************************)
(* Proofs about InputLease, for any set of peers and attachments and any   *)
(* value of the bounds.                                                    *)
(***************************************************************************)
EXTENDS InputLease, TLAPS

(* The inductive invariant, in parts.                                      *)

\* Identifiers: everything in use has been minted, the lease is the newest.
Minted ==
  /\ tokens = generation
  /\ \A a \in Attachments :
       held[a] <= leaseIds /\ req[a].token <= tokens /\ credential[a] <= tokens
  /\ \A p \in Peers : known[p] \subseteq 1 .. tokens
  /\ applied.id <= leaseIds
  /\ lease.id # 0 => lease.id = leaseIds /\ lease.token = tokens /\ tokens # 0
  /\ lease.id = 0 => lease = NoLease
  /\ recovery.token \in {0, tokens}
  /\ recovery.token = 0 <=> recovery.client = NoPeer

\* Handlers: a captured lease belongs to one handler that is running.
Captured ==
  /\ \A a \in Attachments :
       /\ pc[a] # "idle" => req[a].peer \in Peers
       /\ held[a] # 0 => pc[a] \notin {"idle", "registered"}
       /\ pc[a] = "validating" => held[a] # 0
  /\ \A a, b \in Attachments : held[a] # 0 /\ held[a] = held[b] => a = b
  /\ lease.id # 0 => \E a \in Attachments : held[a] = lease.id

\* The recovery record belongs to the client behind the lease.
Agreement ==
  \A a \in Attachments :
    lease.id # 0 /\ held[a] = lease.id => recovery.client = ClientId(req[a].peer)

\* A sequence number that reached the PTY is consumed, or its handler is ending.
Consumed ==
  \A a \in Attachments :
    lease.id # 0 /\ held[a] = lease.id /\ applied.id = lease.id =>
      applied.seq <= lease.last \/ pc[a] = "ending"

IndInv == TypeOK /\ Minted /\ Captured /\ Agreement /\ Consumed

---------------------------------------------------------------------------
(* Lemmas about the operators.                                             *)

\* Publishing an event keeps the receivers well typed.
LEMMA PublishTypes ==
  ASSUME NEW event \in Events, NEW leaving \in SUBSET Attachments,
         TypeOK, Publish(event, leaving)
  PROVE  /\ inbox' \in [Attachments -> Seq(Events)]
         /\ lagged' \in [Attachments -> BOOLEAN]
<1>1. ASSUME NEW queue \in Seq(Events)
      PROVE  Push(queue, event) \in Seq(Events)
  <2>1. CASE Len(queue) >= EventCap
    <3>1. queue # <<>>
      BY <2>1, BoundsAssumption
    <3>2. Tail(queue) \in Seq(Events)
      BY <3>1
    <3> QED
      BY <2>1, <3>2 DEF Push
  <2>2. CASE ~(Len(queue) >= EventCap)
    BY <2>2 DEF Push
  <2> QED
    BY <2>1, <2>2
<1>2. inbox' \in [Attachments -> Seq(Events)]
  BY <1>1 DEF TypeOK, Publish
<1>3. lagged' \in [Attachments -> BOOLEAN]
  BY DEF TypeOK, Publish
<1> QED
  BY <1>2, <1>3

\* Expiring a lease yields a lease of the right type.
LEMMA LeaseTypes ==
  ASSUME TypeOK
  PROVE  /\ NoLease \in Leases /\ NoRecovery.client = NoPeer
         /\ LeaseNow \in Leases
         /\ ExpiryEvent \in Events /\ RevocationEvent \in Events /\ NoEvent \in Events
BY BoundsAssumption DEF TypeOK, NoLease, NoRecovery, LeaseNow, Leases, LeaseIds, Tokens,
   ExpiryEvent, RevocationEvent, NoEvent, Events, Reasons

\* What a handler leaves behind when it is gone.
GoneTo(a) ==
  /\ pc' = [pc EXCEPT ![a] = "idle"]
  /\ req' \in [Attachments -> Requests]
  /\ held' = [held EXCEPT ![a] = 0]
  /\ credential' = [credential EXCEPT ![a] = 0]
  /\ role' = [role EXCEPT ![a] = "viewer"]
  /\ cmd' \in [Attachments -> [kind : Kinds, seq : 0 .. MaxSeq]]
  /\ \A b \in Attachments \ {a} : req'[b] = req[b] /\ cmd'[b] = cmd[b]
  /\ \A b \in Attachments :
       held'[b] <= leaseIds /\ req'[b].token <= tokens /\ credential'[b] <= tokens
  /\ credential' \in [Attachments -> Tokens]
  /\ held' \in [Attachments -> LeaseIds]

LEMMA GoneFacts ==
  ASSUME TypeOK, Minted, NEW a \in Attachments, Gone(a)
  PROVE  GoneTo(a)
<1>1. /\ NoRequest \in Requests /\ NoRequest.token = 0
      /\ NoCommand \in [kind : Kinds, seq : 0 .. MaxSeq]
      /\ 0 \in Tokens /\ 0 \in LeaseIds
  BY BoundsAssumption DEF NoRequest, NoCommand, Requests, Tokens, LeaseIds, Kinds
<1>2. 0 <= tokens /\ 0 <= leaseIds
  BY DEF TypeOK, Tokens, LeaseIds
<1>3. \A b \in Attachments :
        held'[b] <= leaseIds /\ req'[b].token <= tokens /\ credential'[b] <= tokens
  BY <1>1, <1>2 DEF TypeOK, Minted, Gone
<1> QED
  BY <1>1, <1>3 DEF TypeOK, Gone, GoneTo

\* A handler that is gone holds nothing; the others are as they were.
LEMMA GonePointwise ==
  ASSUME TypeOK, NEW a \in Attachments, Gone(a)
  PROVE  /\ pc'[a] = "idle" /\ held'[a] = 0
         /\ \A b \in Attachments \ {a} :
              pc'[b] = pc[b] /\ held'[b] = held[b] /\ req'[b] = req[b]
  BY DEF TypeOK, Gone

---------------------------------------------------------------------------
(* Type correctness, which needs that tokens and generations are minted    *)
(* together: the code checks only the generation for exhaustion.           *)

LEMMA InitInv == Init => IndInv
<1> SUFFICES ASSUME Init PROVE IndInv
  OBVIOUS
<1> USE BoundsAssumption, NoPeerAssumption, PeersAssumption
      DEF Init, NoLease, NoRecovery, NoRequest, NoCommand
<1>1. TypeOK
  BY DEF TypeOK, Leases, LeaseIds, Tokens, Requests, Kinds
<1>2. Minted
  BY DEF Minted
<1>3. Captured
  BY DEF Captured
<1>4. Agreement /\ Consumed
  BY DEF Agreement, Consumed
<1> QED
  BY <1>1, <1>2, <1>3, <1>4 DEF IndInv

---------------------------------------------------------------------------
(* Every action preserves the inductive invariant.                         *)

\* A new handler has captured nothing yet.
LEMMA AttachInv ==
  ASSUME IndInv, NEW a \in Attachments, NEW p \in Peers,
         NEW readOnly \in BOOLEAN, NEW takeover \in BOOLEAN,
         NEW token \in known[p] \cup {0}, Attach(a, p, readOnly, takeover, token)
  PROVE  IndInv'
<1> DEFINE r == [peer |-> p, readOnly |-> readOnly, takeover |-> takeover, token |-> token]
<1> USE BoundsAssumption, NoPeerAssumption, PeersAssumption DEF IndInv
<1>1. token \in Tokens /\ token <= tokens
  BY DEF TypeOK, Tokens, Minted
<1>2. r \in Requests
  BY <1>1 DEF Requests
<1>3. /\ req' = [req EXCEPT ![a] = r]
      /\ r.peer = p /\ r.token = token
  BY DEF Attach
<1> HIDE DEF r
<1>4. TypeOK'
  <2>1. req' \in [Attachments -> Requests]
    BY <1>2, <1>3 DEF TypeOK
  <2> QED
    BY <2>1 DEF TypeOK, Attach, terminal
<1>5. Minted'
  BY <1>1, <1>3 DEF TypeOK, Minted, Attach, terminal
<1>6. Captured'
  BY <1>3 DEF TypeOK, Captured, Attach, terminal
<1>7. Agreement' /\ Consumed'
  BY <1>3 DEF TypeOK, Captured, Agreement, Consumed, ClientId, Attach, terminal
<1> QED
  BY <1>4, <1>5, <1>6, <1>7

\* What deciding a request leaves alone.
LEMMA DecidedFacts ==
  ASSUME TypeOK, NEW a \in Attachments, Decided(a)
  PROVE  /\ req' \in [Attachments -> Requests]
         /\ \A b \in Attachments : /\ req'[b].peer = req[b].peer
                                   /\ req'[b].readOnly = req[b].readOnly
                                   /\ req'[b].token \in {0, req[b].token}
<1> DEFINE r == [peer |-> req[a].peer, readOnly |-> req[a].readOnly,
                 takeover |-> FALSE, token |-> 0]
<1>1. r \in Requests
  BY BoundsAssumption DEF TypeOK, Requests, Tokens
<1>2. r.peer = req[a].peer /\ r.readOnly = req[a].readOnly /\ r.token = 0
  OBVIOUS
<1>3. req' = [req EXCEPT ![a] = r]
  BY DEF Decided
<1> HIDE DEF r
<1> QED
  BY <1>1, <1>2, <1>3 DEF TypeOK

\* A viewer is granted no lease.
LEMMA GrantViewerInv ==
  ASSUME IndInv, NEW a \in Attachments, GrantViewer(a)
  PROVE  IndInv'
<1> USE BoundsAssumption, NoPeerAssumption, PeersAssumption DEF IndInv
<1>1. /\ req' \in [Attachments -> Requests]
      /\ \A b \in Attachments : /\ req'[b].peer = req[b].peer
                                /\ req'[b].token \in {0, req[b].token}
  BY DecidedFacts DEF GrantViewer
<1>2. TypeOK'
  BY <1>1 DEF TypeOK, GrantViewer, terminal
<1>3. Minted'
  <2>1. 0 <= tokens
    BY DEF TypeOK, Tokens
  <2>2. \A b \in Attachments : req[b].token <= tokens
    BY DEF Minted
  <2>3. \A b \in Attachments : req'[b].token <= tokens
    BY <1>1, <2>1, <2>2
  <2> QED
    BY <2>3 DEF Minted, GrantViewer, terminal
<1>4. Captured'
  BY <1>1 DEF TypeOK, Captured, GrantViewer, terminal
<1>5. Agreement' /\ Consumed'
  <2>1. Agreement'
    BY <1>1 DEF TypeOK, Captured, Agreement, ClientId, GrantViewer, terminal
  <2>2. Consumed'
    BY <1>1 DEF TypeOK, Consumed, GrantViewer, terminal
  <2> QED
    BY <2>1, <2>2
<1> QED
  BY <1>2, <1>3, <1>4, <1>5

\* A peer learns only a token that was minted.
LEMMA RespondInv ==
  ASSUME IndInv, NEW a \in Attachments, Respond(a)
  PROVE  IndInv'
<1> USE BoundsAssumption, NoPeerAssumption, PeersAssumption DEF IndInv
<1>1. req[a].peer \in Peers
  BY DEF Captured, Respond
<1>2. ({credential[a]} \ {0}) \subseteq 1 .. tokens
  BY DEF TypeOK, Tokens, Minted
<1>3. \A p \in Peers : known'[p] \subseteq known[p] \cup 1 .. tokens
  BY <1>1, <1>2 DEF TypeOK, Respond
<1>4. known' \in [Peers -> SUBSET (1 .. MaxGeneration)]
  <2>1. 1 .. tokens \subseteq 1 .. MaxGeneration
    BY DEF TypeOK, Tokens
  <2>2. DOMAIN known' = Peers /\ known' = [p \in Peers |-> known'[p]]
    BY DEF TypeOK, Respond
  <2> QED
    BY <1>3, <2>1, <2>2 DEF TypeOK
<1>5. credential' \in [Attachments -> Tokens]
  BY DEF TypeOK, Respond, Tokens
<1>6. TypeOK'
  BY <1>4, <1>5 DEF TypeOK, Respond, terminal
<1>7. Minted'
  <2>1. \A p \in Peers : known'[p] \subseteq 1 .. tokens'
    BY <1>3 DEF Minted, Respond, terminal
  <2>2. \A b \in Attachments : credential'[b] <= tokens'
    BY DEF TypeOK, Tokens, Minted, Respond, terminal
  <2> QED
    BY <2>1, <2>2 DEF Minted, Respond, terminal
<1>8. Captured'
  BY DEF TypeOK, Captured, Respond, terminal
<1>9. Agreement' /\ Consumed'
  BY DEF TypeOK, Captured, Agreement, Consumed, ClientId, Respond, terminal
<1> QED
  BY <1>6, <1>7, <1>8, <1>9
\* An expired lease is gone for every request; a live one is the lease.
LEMMA LeaseNowFacts ==
  ASSUME IndInv
  PROVE  /\ LeaseNow \in {lease, NoLease}
         /\ LeaseNow.id # 0 => LeaseNow = lease
         /\ NoLease.id = 0
  BY DEF IndInv, LeaseNow, NoLease

\* A refused handler is gone, and the lease too if it had expired.
LEMMA RefuseLeaseInv ==
  ASSUME IndInv, NEW a \in Attachments, RefuseLease(a)
  PROVE  IndInv'
<1> USE BoundsAssumption, NoPeerAssumption, PeersAssumption DEF IndInv
<1>1. /\ lease' \in Leases /\ lease' \in {lease, NoLease} /\ NoLease.id = 0
      /\ inbox' \in [Attachments -> Seq(Events)]
      /\ lagged' \in [Attachments -> BOOLEAN]
  BY LeaseTypes, PublishTypes, LeaseNowFacts DEF RefuseLease
<1>2. GoneTo(a)
  BY GoneFacts DEF RefuseLease
<1>3. TypeOK'
  BY <1>1, <1>2 DEF TypeOK, RefuseLease, GoneTo
<1>4. Minted'
  BY <1>1, <1>2 DEF Minted, RefuseLease, GoneTo, NoLease
<1>5. held[a] = 0
  BY DEF Captured, RefuseLease
<1>6. Captured' /\ Agreement' /\ Consumed'
  <2>1. /\ pc'[a] = "idle" /\ held'[a] = 0
        /\ \A b \in Attachments \ {a} :
             pc'[b] = pc[b] /\ held'[b] = held[b] /\ req'[b] = req[b]
    BY GonePointwise DEF RefuseLease
  <2>2. applied' = applied /\ recovery' = recovery
    BY DEF RefuseLease
  <2>3. Captured'
    <3>1. ASSUME lease'.id # 0 PROVE \E b \in Attachments : held'[b] = lease'.id
      <4>1. PICK b \in Attachments : held[b] = lease.id /\ lease' = lease
        BY <1>1, <3>1 DEF Captured
      <4> QED
        BY <1>5, <2>1, <3>1, <4>1
    <3>2. \A b \in Attachments :
            /\ pc'[b] # "idle" => req'[b].peer \in Peers
            /\ held'[b] # 0 => pc'[b] \notin {"idle", "registered"}
            /\ pc'[b] = "validating" => held'[b] # 0
      BY <2>1 DEF Captured
    <3>3. \A b, c \in Attachments : held'[b] # 0 /\ held'[b] = held'[c] => b = c
      BY <2>1 DEF Captured
    <3> QED
      BY <3>1, <3>2, <3>3 DEF Captured
  <2>4. Agreement'
    BY <1>1, <2>1, <2>2 DEF Agreement, ClientId
  <2>5. Consumed'
    BY <1>1, <2>1, <2>2 DEF Consumed
  <2> QED
    BY <2>3, <2>4, <2>5
<1> QED
  BY <1>3, <1>4, <1>6

\* A rejected command changes nothing but where the handler is.
LEMMA RejectCommandInv ==
  ASSUME IndInv, NEW a \in Attachments, NEW kind \in Kinds, RejectCommand(a, kind)
  PROVE  IndInv'
<1> USE BoundsAssumption, NoPeerAssumption, PeersAssumption DEF IndInv, RejectCommand, terminal
<1>1. TypeOK'
  BY DEF TypeOK, NoCommand, Kinds
<1>2. Minted'
  BY DEF Minted
<1>3. Captured'
  BY DEF TypeOK, Captured
<1>4. Agreement'
  BY DEF TypeOK, Agreement, ClientId
<1>5. Consumed'
  BY DEF TypeOK, Consumed
<1> QED
  BY <1>1, <1>2, <1>3, <1>4, <1>5

\* A command that fails validation ends its handler.
LEMMA FailCommandInv ==
  ASSUME IndInv, NEW a \in Attachments, FailCommand(a)
  PROVE  IndInv'
<1> USE BoundsAssumption, NoPeerAssumption, PeersAssumption DEF IndInv, FailCommand, terminal, CommandDone
<1>1. TypeOK'
  BY DEF TypeOK, NoCommand, Kinds
<1>2. Minted'
  BY DEF Minted
<1>3. Captured'
  BY DEF TypeOK, Captured
<1>4. Agreement'
  BY DEF TypeOK, Agreement, ClientId
<1>5. Consumed'
  BY DEF TypeOK, Consumed
<1> QED
  BY <1>1, <1>2, <1>3, <1>4, <1>5

\* expire_lease_if_due_at clears the handler's own lease or does nothing.
LEMMA ExpireFacts ==
  ASSUME IndInv, NEW a \in Attachments, ExpireIfDue(a)
  PROVE  /\ lease' \in Leases /\ lease' \in {lease, NoLease} /\ NoLease.id = 0
         /\ inbox' \in [Attachments -> Seq(Events)]
         /\ lagged' \in [Attachments -> BOOLEAN]
<1> DEFINE expires == lease.id = held[a] /\ Expired(lease)
           event == IF expires THEN [id |-> held[a], reason |-> "expired"] ELSE NoEvent
<1>1. event \in Events
  BY LeaseTypes DEF IndInv, TypeOK, Events, Reasons
<1>2. Publish(event, {}) /\ lease' = IF expires THEN NoLease ELSE lease
  BY DEF ExpireIfDue
<1> HIDE DEF event, expires
<1>3. inbox' \in [Attachments -> Seq(Events)] /\ lagged' \in [Attachments -> BOOLEAN]
  BY <1>1, <1>2, PublishTypes DEF IndInv
<1> QED
  BY <1>2, <1>3, LeaseTypes DEF IndInv, TypeOK, NoLease

\* The first half of a command expires the lease if it is due.
LEMMA BeginCommandInv ==
  ASSUME IndInv, NEW a \in Attachments, NEW kind \in Kinds, NEW seq \in 1 .. MaxSeq,
         BeginCommand(a, kind, seq)
  PROVE  IndInv'
<1> USE BoundsAssumption, NoPeerAssumption, PeersAssumption DEF IndInv, BeginCommand
<1>1. /\ lease' \in Leases /\ lease' \in {lease, NoLease} /\ NoLease.id = 0
      /\ inbox' \in [Attachments -> Seq(Events)]
      /\ lagged' \in [Attachments -> BOOLEAN]
  BY ExpireFacts
<1>2. TypeOK'
  <2> HIDE DEF BeginCommand
  <2>1. [kind |-> kind, seq |-> seq] \in [kind : Kinds, seq : 0 .. MaxSeq]
    <3>1. seq \in 0 .. MaxSeq
      OBVIOUS
    <3> QED
      BY <3>1
  <2> USE DEF BeginCommand
  <2>2. cmd' \in [Attachments -> [kind : Kinds, seq : 0 .. MaxSeq]]
    BY <2>1 DEF TypeOK
  <2> QED
    BY <1>1, <2>2 DEF TypeOK
<1>3. Minted'
  BY <1>1 DEF Minted
<1>4. Captured'
  BY <1>1 DEF TypeOK, Captured
<1>5. Agreement'
  BY <1>1 DEF TypeOK, Agreement, ClientId
<1>6. Consumed'
  BY <1>1 DEF TypeOK, Consumed
<1> QED
  BY <1>2, <1>3, <1>4, <1>5, <1>6

\* The handler's timer expires its lease.
LEMMA ExpiryTimerInv ==
  ASSUME IndInv, NEW a \in Attachments, ExpiryTimer(a)
  PROVE  IndInv'
<1> USE BoundsAssumption, NoPeerAssumption, PeersAssumption DEF IndInv, ExpiryTimer, handler
<1>1. /\ lease' \in Leases /\ lease' \in {lease, NoLease} /\ NoLease.id = 0
      /\ inbox' \in [Attachments -> Seq(Events)]
      /\ lagged' \in [Attachments -> BOOLEAN]
  BY ExpireFacts
<1>2. TypeOK'
  BY <1>1 DEF TypeOK
<1>3. Minted' /\ Captured'
  BY <1>1 DEF Minted, Captured
<1>4. Agreement' /\ Consumed'
  BY <1>1 DEF Agreement, Consumed, ClientId
<1> QED
  BY <1>2, <1>3, <1>4

\* A handler that ends takes its lease with it.
LEMMA EndInv ==
  ASSUME IndInv, NEW a \in Attachments, End(a)
  PROVE  IndInv'
<1> USE BoundsAssumption, NoPeerAssumption, PeersAssumption DEF IndInv
<1>1. /\ lease' \in Leases /\ lease' \in {lease, NoLease} /\ NoLease.id = 0
      /\ inbox' \in [Attachments -> Seq(Events)]
      /\ lagged' \in [Attachments -> BOOLEAN]
      /\ held[a] # 0 /\ lease.id = held[a] => lease' = NoLease
  BY LeaseTypes, PublishTypes DEF End, NoLease, TypeOK
<1>2. GoneTo(a)
  BY GoneFacts DEF End
<1>3. TypeOK'
  BY <1>1, <1>2 DEF TypeOK, End, GoneTo
<1>4. Minted'
  BY <1>1, <1>2 DEF Minted, End, GoneTo
<1>5. Captured' /\ Agreement' /\ Consumed'
  <2>1. /\ pc'[a] = "idle" /\ held'[a] = 0
        /\ \A b \in Attachments \ {a} :
             pc'[b] = pc[b] /\ held'[b] = held[b] /\ req'[b] = req[b]
    BY GonePointwise DEF End
  <2>2. applied' = applied /\ recovery' = recovery
    BY DEF End
  <2>3. lease'.id # 0 => lease' = lease /\ lease.id # held[a]
    BY <1>1
  <2>4. Captured'
    <3>1. ASSUME lease'.id # 0 PROVE \E b \in Attachments : held'[b] = lease'.id
      <4>1. PICK b \in Attachments : held[b] = lease.id
        BY <2>3, <3>1 DEF Captured
      <4> QED
        BY <2>1, <2>3, <3>1, <4>1
    <3>2. \A b \in Attachments :
            /\ pc'[b] # "idle" => req'[b].peer \in Peers
            /\ held'[b] # 0 => pc'[b] \notin {"idle", "registered"}
            /\ pc'[b] = "validating" => held'[b] # 0
      BY <2>1 DEF Captured
    <3>3. \A b, c \in Attachments : held'[b] # 0 /\ held'[b] = held'[c] => b = c
      BY <2>1 DEF Captured
    <3> QED
      BY <3>1, <3>2, <3>3 DEF Captured
  <2>5. Agreement'
    BY <2>1, <2>2, <2>3 DEF Agreement, ClientId
  <2>6. Consumed'
    BY <2>1, <2>2, <2>3 DEF Consumed
  <2> QED
    BY <2>4, <2>5, <2>6
<1> QED
  BY <1>3, <1>4, <1>5

\* The commands: what each leaves of the lease, and of the handler.
CommandTo(a, next) ==
  /\ pc' = [pc EXCEPT ![a] = next]
  /\ cmd' \in [Attachments -> [kind : Kinds, seq : 0 .. MaxSeq]]
  /\ UNCHANGED <<generation, leaseIds, tokens, req, held, credential, role, known>>

LEMMA CommandFacts ==
  ASSUME TypeOK, NEW a \in Attachments, NEW next \in {"live", "ending"}, CommandDone(a, next)
  PROVE  CommandTo(a, next)
<1>1. NoCommand \in [kind : Kinds, seq : 0 .. MaxSeq]
  BY BoundsAssumption DEF NoCommand, Kinds
<1> QED
  BY <1>1 DEF TypeOK, CommandDone, CommandTo

\* A write that succeeds consumes its sequence number.
LEMMA ApplyCommandInv ==
  ASSUME IndInv, NEW a \in Attachments, ApplyCommand(a)
  PROVE  IndInv'
<1> USE BoundsAssumption, NoPeerAssumption, PeersAssumption DEF IndInv
<1>1. CommandTo(a, "live") /\ cmd[a].seq \in 0 .. MaxSeq /\ held[a] \in LeaseIds
  BY CommandFacts DEF ApplyCommand, TypeOK
<1>2. /\ lease' \in Leases
      /\ lease'.id = lease.id /\ lease'.token = lease.token /\ lease'.last = cmd[a].seq
  BY <1>1 DEF ApplyCommand, TypeOK, Leases
<1>3. /\ applied' \in [id : LeaseIds, seq : 0 .. MaxSeq]
      /\ applied'.id = held[a] /\ applied'.seq = cmd[a].seq
      /\ held[a] = lease.id /\ held[a] # 0
  BY <1>1 DEF ApplyCommand, Valid, Captured
<1>4. TypeOK'
  BY <1>1, <1>2, <1>3 DEF TypeOK, ApplyCommand, CommandTo
<1>5. Minted'
  BY <1>1, <1>2, <1>3 DEF Minted, ApplyCommand, CommandTo
<1>6. Captured'
  BY <1>1, <1>2, <1>3 DEF TypeOK, Captured, ApplyCommand, CommandTo
<1>7. Agreement'
  BY <1>1, <1>2, <1>3 DEF Agreement, ClientId, ApplyCommand, CommandTo
<1>8. Consumed'
  BY <1>1, <1>2, <1>3 DEF Consumed, ApplyCommand, CommandTo
<1> QED
  BY <1>4, <1>5, <1>6, <1>7, <1>8

\* A write that fails consumes nothing, and its handler is ending.
LEMMA ApplyFailsInv ==
  ASSUME IndInv, NEW a \in Attachments, ApplyFails(a)
  PROVE  IndInv'
<1> USE BoundsAssumption, NoPeerAssumption, PeersAssumption DEF IndInv
<1>1. CommandTo(a, "ending") /\ cmd[a].seq \in 0 .. MaxSeq /\ held[a] \in LeaseIds
  BY CommandFacts DEF ApplyFails, TypeOK
<1>2. lease' = lease
  BY DEF ApplyFails
<1>3. /\ applied' \in [id : LeaseIds, seq : 0 .. MaxSeq]
      /\ applied'.id = held[a] /\ held[a] = lease.id /\ held[a] # 0
  BY <1>1 DEF ApplyFails, Valid, Captured
<1>4. TypeOK'
  BY <1>1, <1>2, <1>3 DEF TypeOK, ApplyFails, CommandTo
<1>5. Minted'
  BY <1>1, <1>2, <1>3 DEF Minted, ApplyFails, CommandTo
<1>6. Captured'
  BY <1>1, <1>2, <1>3 DEF TypeOK, Captured, ApplyFails, CommandTo
<1>7. Agreement'
  BY <1>1, <1>2, <1>3 DEF Agreement, ClientId, ApplyFails, CommandTo
<1>8. Consumed'
  <2>1. pc'[a] = "ending" /\ held' = held
    BY <1>1 DEF CommandTo, TypeOK
  <2>2. \A b \in Attachments : lease.id # 0 /\ held'[b] = lease.id => b = a
    BY <1>3, <2>1 DEF Captured
  <2> QED
    BY <1>2, <2>1, <2>2 DEF Consumed
<1> QED
  BY <1>4, <1>5, <1>6, <1>7, <1>8

\* A renewal moves the deadline and consumes its sequence number.
LEMMA RenewLeaseInv ==
  ASSUME IndInv, NEW a \in Attachments, RenewLease(a)
  PROVE  IndInv'
<1> USE BoundsAssumption, NoPeerAssumption, PeersAssumption DEF IndInv
<1>1. CommandTo(a, "live") /\ cmd[a].seq \in 0 .. MaxSeq
  BY CommandFacts DEF RenewLease, TypeOK
<1>2. /\ lease' \in Leases
      /\ lease'.id = lease.id /\ lease'.token = lease.token /\ lease'.last = cmd[a].seq
  BY <1>1 DEF RenewLease, TypeOK, Leases
<1>3. /\ held[a] = lease.id /\ held[a] # 0 /\ lease.last \in 0 .. MaxSeq
      /\ cmd[a].seq > lease.last
  BY <1>1 DEF RenewLease, Valid, Captured, TypeOK, Leases
<1>4. TypeOK'
  BY <1>1, <1>2 DEF TypeOK, RenewLease, CommandTo
<1>5. Minted'
  BY <1>1, <1>2, <1>3 DEF Minted, RenewLease, CommandTo
<1>6. Captured'
  BY <1>1, <1>2, <1>3 DEF TypeOK, Captured, RenewLease, CommandTo
<1>7. Agreement'
  BY <1>1, <1>2 DEF Agreement, ClientId, RenewLease, CommandTo
<1>8. Consumed'
  <2>1. applied.seq \in 0 .. MaxSeq
    BY DEF TypeOK
  <2>2. applied.id = lease.id => applied.seq <= lease.last
    BY <1>3 DEF Consumed, RenewLease
  <2>3. applied.id = lease.id => applied.seq <= cmd[a].seq
    BY <1>1, <1>3, <2>1, <2>2
  <2>4. applied.id = lease.id => applied.seq <= lease'.last
    BY <1>2, <2>3
  <2> QED
    BY <1>1, <1>2, <2>4 DEF Consumed, RenewLease, CommandTo
<1> QED
  BY <1>4, <1>5, <1>6, <1>7, <1>8

\* An explicit release clears the lease and the recovery record.
LEMMA ReleaseLeaseInv ==
  ASSUME IndInv, NEW a \in Attachments, ReleaseLeaseCommand(a)
  PROVE  IndInv'
<1> USE BoundsAssumption, NoPeerAssumption, PeersAssumption DEF IndInv
<1> DEFINE event == [id |-> held[a], reason |-> "released"]
<1>1. CommandTo(a, "live")
  BY CommandFacts DEF ReleaseLeaseCommand
<1>2. event \in Events
  BY DEF TypeOK, Events, Reasons
<1>3. Publish(event, {})
  BY DEF ReleaseLeaseCommand
<1> HIDE DEF event
<1>4. inbox' \in [Attachments -> Seq(Events)] /\ lagged' \in [Attachments -> BOOLEAN]
  BY <1>2, <1>3, PublishTypes
<1>5. /\ lease' = NoLease /\ NoLease \in Leases /\ NoLease.id = 0
      /\ recovery' = NoRecovery /\ NoRecovery.client = NoPeer /\ NoRecovery.token = 0
      /\ NoRecovery \in [client : Resumable \cup {NoPeer}, token : Tokens]
  <2>1. lease' = NoLease /\ recovery' = NoRecovery
    BY DEF ReleaseLeaseCommand
  <2>2. NoLease \in Leases /\ NoLease.id = 0
    BY LeaseTypes DEF NoLease
  <2>3. 0 \in Tokens
    BY DEF Tokens
  <2>4. /\ NoRecovery.client = NoPeer /\ NoRecovery.token = 0
        /\ NoRecovery \in [client : Resumable \cup {NoPeer}, token : Tokens]
    BY <2>3 DEF NoRecovery
  <2> QED
    BY <2>1, <2>2, <2>4
<1>6. TypeOK'
  BY <1>1, <1>4, <1>5 DEF TypeOK, ReleaseLeaseCommand, CommandTo
<1>7. Minted'
  BY <1>1, <1>5 DEF Minted, ReleaseLeaseCommand, CommandTo
<1>8. Captured' /\ Agreement' /\ Consumed'
  BY <1>1, <1>5 DEF TypeOK, Captured, Agreement, Consumed, ReleaseLeaseCommand, CommandTo
<1> QED
  BY <1>6, <1>7, <1>8

\* Reading a lease event touches the receiver and the role only.
LEMMA LeaseEventInv ==
  ASSUME IndInv, NEW a \in Attachments, LeaseEvent(a)
  PROVE  IndInv'
<1> USE DEF IndInv, LeaseEvent, terminal
<1>1. inbox[a] \in Seq(Events) /\ inbox[a] # <<>>
  BY DEF TypeOK
<1>2. Tail(inbox[a]) \in Seq(Events)
  BY <1>1
<1>3. TypeOK'
  BY <1>2 DEF TypeOK
<1>4. Minted' /\ Captured'
  BY DEF Minted, Captured
<1>5. Agreement' /\ Consumed'
  BY DEF Agreement, Consumed, ClientId
<1> QED
  BY <1>3, <1>4, <1>5

\* The passing of the deadline changes one bit of the lease.
LEMMA DeadlineInv ==
  ASSUME IndInv, Deadline
  PROVE  IndInv'
<1> USE DEF IndInv, Deadline, handler
<1>1. /\ lease' \in Leases /\ lease'.id = lease.id
      /\ lease'.token = lease.token /\ lease'.last = lease.last
  BY DEF TypeOK, Leases
<1>2. lease.id # 0
  BY DEF Minted, NoLease
<1>3. TypeOK'
  BY <1>1 DEF TypeOK
<1>4. Minted' /\ Captured'
  BY <1>1, <1>2 DEF Minted, Captured
<1>5. Agreement' /\ Consumed'
  BY <1>1 DEF Agreement, Consumed, ClientId
<1> QED
  BY <1>3, <1>4, <1>5

\* A resume is authorised only with the newest token.
LEMMA ResumeToken ==
  ASSUME IndInv, NEW r \in Requests, r.peer \in Peers, Resuming(r), Admitted(r)
  PROVE  r.token = tokens /\ tokens # 0
<1> USE NoPeerAssumption, PeersAssumption DEF IndInv
<1>1. r.token # 0 /\ Authorized(r)
  BY DEF Admitted, Resuming
<1>2. CASE r.peer \in Resumable
  <2>1. recovery.client # NoPeer /\ recovery.token = r.token
    BY <1>1, <1>2 DEF Authorized
  <2> QED
    BY <1>1, <2>1 DEF Minted
<1>3. CASE r.peer \notin Resumable
  <2>1. LeaseNow.id # 0 /\ LeaseNow.token = r.token
    BY <1>1, <1>3 DEF Authorized
  <2>2. lease.id # 0 /\ lease.token = r.token
    BY <2>1, LeaseNowFacts
  <2> QED
    BY <2>2 DEF Minted
<1> QED
  BY <1>2, <1>3

\* A grant replaces the lease and the recovery record together.
LEMMA GrantLeaseInv ==
  ASSUME IndInv, NEW a \in Attachments, GrantLease(a)
  PROVE  IndInv'
<1> USE BoundsAssumption, NoPeerAssumption, PeersAssumption DEF IndInv
<1> DEFINE p == req[a].peer
           token == IF Resuming(req[a]) THEN req[a].token ELSE tokens + 1
           fresh == [id |-> leaseIds + 1, token |-> token, last |-> 0,
                     ttl |-> p \in Expiring, due |-> FALSE]
           record == IF ClientId(p) # NoPeer THEN [client |-> p, token |-> token]
                                             ELSE NoRecovery
<1>1. req[a] \in Requests /\ p \in Peers
  BY DEF TypeOK, Captured, GrantLease
<1>2. /\ tokens' = token /\ generation' = token /\ token # 0
      /\ token \in Tokens /\ tokens <= token
  <2>1. tokens \in 0 .. MaxGeneration /\ tokens = generation
    BY DEF TypeOK, Tokens, Minted
  <2>2. CASE Resuming(req[a])
    <3>1. req[a].token = tokens /\ tokens # 0
      BY <1>1, <2>2, ResumeToken DEF GrantLease
    <3>2. tokens' = tokens /\ generation' = generation /\ token = tokens
      BY <2>2, <3>1 DEF GrantLease
    <3> HIDE DEF token, IndInv
    <3>3. tokens <= tokens /\ tokens \in Tokens
      BY <2>1 DEF Tokens
    <3> QED
      BY <2>1, <3>1, <3>2, <3>3, Zenon
  <2>3. CASE ~Resuming(req[a])
    <3>1. tokens' = tokens + 1 /\ generation' = generation + 1 /\ token = tokens + 1
      BY <2>3 DEF GrantLease
    <3>2. generation < MaxGeneration
      BY <2>3 DEF GrantLease, Admitted
    <3> HIDE DEF token
    <3> QED
      BY <2>1, <3>1, <3>2 DEF Tokens
  <2> QED
    BY <2>2, <2>3
<1>3. leaseIds' = leaseIds + 1 /\ leaseIds + 1 \in LeaseIds /\ leaseIds \in Nat
  <2>1. leaseIds \in 0 .. MaxLeases
    BY DEF TypeOK, LeaseIds
  <2>2. leaseIds' = leaseIds + 1 /\ leaseIds < MaxLeases
    BY DEF GrantLease
  <2> QED
    BY <2>1, <2>2 DEF LeaseIds
<1>4. /\ lease' = fresh
      /\ recovery' = record
      /\ held' = [held EXCEPT ![a] = leaseIds + 1]
      /\ credential' = [credential EXCEPT ![a] = token]
      /\ pc' = [pc EXCEPT ![a] = "granted"]
      /\ UNCHANGED <<role, cmd, known, applied>>
  BY DEF GrantLease
<1>5. /\ fresh \in Leases /\ fresh.id = leaseIds + 1 /\ fresh.token = token
  <2> DEFINE ttl == p \in Expiring
  <2>1. 0 \in 0 .. MaxSeq /\ ttl \in BOOLEAN
    OBVIOUS
  <2>2. fresh = [id |-> leaseIds + 1, token |-> token, last |-> 0,
                 ttl |-> ttl, due |-> FALSE]
    OBVIOUS
  <2> HIDE DEF token, p, ttl, fresh
  <2> QED
    BY <1>2, <1>3, <2>1, <2>2 DEF Leases
<1>6. /\ record \in [client : Resumable \cup {NoPeer}, token : Tokens]
      /\ record.client = ClientId(p)
      /\ record.token \in {0, token}
      /\ record.token = 0 <=> record.client = NoPeer
  <2> HIDE DEF token, p
  <2>1. CASE p \in Resumable
    <3>1. ClientId(p) = p /\ p # NoPeer
      BY <1>1, <2>1 DEF ClientId
    <3>2. record = [client |-> p, token |-> token]
      BY <3>1
    <3> HIDE DEF record
    <3> QED
      BY <1>2, <2>1, <3>1, <3>2
  <2>2. CASE p \notin Resumable
    <3>1. ClientId(p) = NoPeer
      BY <2>2 DEF ClientId
    <3>2. record = [client |-> NoPeer, token |-> 0]
      BY <3>1 DEF NoRecovery
    <3>3. 0 \in Tokens
      BY DEF Tokens
    <3> HIDE DEF record
    <3> QED
      BY <3>1, <3>2, <3>3
  <2> QED
    BY <2>1, <2>2
<1>7. /\ req' \in [Attachments -> Requests]
      /\ \A b \in Attachments : /\ req'[b].peer = req[b].peer
                                /\ req'[b].token \in {0, req[b].token}
  BY DecidedFacts DEF GrantLease
<1>8. inbox' \in [Attachments -> Seq(Events)] /\ lagged' \in [Attachments -> BOOLEAN]
  BY LeaseTypes, PublishTypes DEF GrantLease
<1>9. /\ tokens \in Nat /\ token \in Nat /\ 0 <= token /\ token <= token
      /\ \A b \in Attachments : req[b].token <= token /\ credential[b] <= token
  <2> HIDE DEF token
  <2>1. tokens \in Nat /\ token \in Nat
    BY <1>2 DEF TypeOK, Tokens
  <2>2. \A b \in Attachments : req[b].token \in Nat /\ credential[b] \in Nat
    BY DEF TypeOK, Requests, Tokens
  <2>3. \A b \in Attachments : req[b].token <= tokens /\ credential[b] <= tokens
    BY DEF Minted
  <2>4. tokens <= token
    BY <1>2
  <2>5. 0 <= token /\ token <= token
    BY <2>1
  <2>6. ASSUME NEW n \in Nat, n <= tokens PROVE n <= token
    BY <2>1, <2>4, <2>6
  <2> QED
    BY <2>1, <2>2, <2>3, <2>5, <2>6
<1>10. \A b \in Attachments : /\ held[b] \in Nat /\ held[b] <= leaseIds
                              /\ held[b] # leaseIds + 1
  <2> TAKE b \in Attachments
  <2>1. held[b] \in Nat
    BY DEF TypeOK, LeaseIds
  <2>2. held[b] <= leaseIds
    BY DEF Minted
  <2>3. leaseIds \in Nat
    BY <1>3
  <2> QED
    BY <2>1, <2>2, <2>3
<1>11. applied.id <= leaseIds + 1 /\ applied.id # leaseIds + 1
  <2>1. applied.id \in Nat
    BY DEF TypeOK, LeaseIds
  <2>2. applied.id <= leaseIds
    BY DEF Minted
  <2>3. leaseIds \in Nat
    BY <1>3
  <2> QED
    BY <2>1, <2>2, <2>3
<1> HIDE DEF p, token, fresh, record
<1>12. TypeOK'
  <2>1. held' \in [Attachments -> LeaseIds] /\ credential' \in [Attachments -> Tokens]
    BY <1>2, <1>3, <1>4 DEF TypeOK
  <2> QED
    BY <1>2, <1>3, <1>4, <1>5, <1>6, <1>7, <1>8, <2>1 DEF TypeOK, Tokens
<1>13. Minted'
  <2>1. \A b \in Attachments : /\ held'[b] <= leaseIds'
                               /\ req'[b].token <= tokens'
                               /\ credential'[b] <= tokens'
    <3> TAKE b \in Attachments
    <3>1. held'[b] \in {held[b], leaseIds + 1} /\ credential'[b] \in {credential[b], token}
      BY <1>4 DEF TypeOK
    <3>2. held'[b] <= leaseIds + 1
      <4>1. held[b] <= leaseIds + 1 /\ leaseIds + 1 <= leaseIds + 1
        BY <1>3, <1>10
      <4> QED
        BY <3>1, <4>1
    <3>3. credential'[b] <= token
      BY <1>9, <3>1
    <3>4. req'[b].token <= token
      BY <1>7, <1>9
    <3> QED
      BY <1>2, <1>3, <3>2, <3>3, <3>4
  <2>2. \A q \in Peers : known'[q] \subseteq 1 .. tokens'
    <3>1. \A q \in Peers : known[q] \subseteq 1 .. tokens
      BY DEF Minted
    <3>2. 1 .. tokens \subseteq 1 .. token
      BY <1>2, <1>9
    <3> QED
      BY <1>2, <1>4, <3>1, <3>2
  <2>3. applied'.id <= leaseIds'
    BY <1>3, <1>4, <1>11
  <2>4. lease'.id = leaseIds' /\ lease'.token = tokens' /\ tokens' # 0 /\ lease'.id # 0
    BY <1>2, <1>3, <1>4, <1>5
  <2>5. /\ recovery'.token \in {0, tokens'}
        /\ recovery'.token = 0 <=> recovery'.client = NoPeer
    BY <1>2, <1>4, <1>6
  <2>6. tokens' = generation'
    BY <1>2
  <2> QED
    BY <2>1, <2>2, <2>3, <2>4, <2>5, <2>6 DEF Minted
<1>14. Captured'
  <2>1. /\ pc'[a] = "granted" /\ held'[a] = leaseIds + 1 /\ held'[a] = lease'.id
        /\ \A b \in Attachments \ {a} : pc'[b] = pc[b] /\ held'[b] = held[b]
    BY <1>4, <1>5 DEF TypeOK
  <2>2. \A b \in Attachments \ {a} : held'[b] # held'[a]
    BY <1>10, <2>1
  <2>3. req'[a].peer \in Peers
    BY <1>1, <1>7 DEF p
  <2>4. \A b \in Attachments :
          /\ pc'[b] # "idle" => req'[b].peer \in Peers
          /\ held'[b] # 0 => pc'[b] \notin {"idle", "registered"}
          /\ pc'[b] = "validating" => held'[b] # 0
    BY <1>7, <2>1, <2>3 DEF Captured
  <2>5. \A b, c \in Attachments : held'[b] # 0 /\ held'[b] = held'[c] => b = c
    <3>1. \A b, c \in Attachments : held[b] # 0 /\ held[b] = held[c] => b = c
      BY DEF Captured
    <3> QED
      BY <2>1, <2>2, <3>1
  <2> QED
    BY <2>1, <2>4, <2>5 DEF Captured
<1>15. Agreement'
  <2> SUFFICES ASSUME NEW b \in Attachments, held'[b] = lease'.id
               PROVE  recovery'.client = ClientId(req'[b].peer)
    BY DEF Agreement, ClientId
  <2>1. b = a
    <3>1. lease'.id = leaseIds + 1
      BY <1>4, <1>5
    <3>2. b # a => held'[b] = held[b]
      BY <1>4 DEF TypeOK
    <3> QED
      BY <1>10, <3>1, <3>2
  <2>2. req'[a].peer = p
    BY <1>7 DEF p
  <2> QED
    BY <1>4, <1>6, <2>1, <2>2
<1>16. Consumed'
  <2>1. applied'.id # lease'.id
    BY <1>4, <1>5, <1>11
  <2> QED
    BY <2>1 DEF Consumed
<1> QED
  BY <1>12, <1>13, <1>14, <1>15, <1>16

---------------------------------------------------------------------------
\* Every step preserves the inductive invariant.
LEMMA NextInv == IndInv /\ [Next]_vars => IndInv'
<1> SUFFICES ASSUME IndInv, [Next]_vars PROVE IndInv'
  OBVIOUS
<1>1. CASE UNCHANGED vars
  BY <1>1 DEF IndInv, TypeOK, Minted, Captured, Agreement, Consumed, ClientId, vars,
     terminal, handler
<1>2. ASSUME NEW a \in Attachments, NEW p \in Peers, NEW readOnly \in BOOLEAN,
             NEW takeover \in BOOLEAN, NEW token \in known[p] \cup {0},
             Attach(a, p, readOnly, takeover, token)
      PROVE  IndInv'
  BY <1>2, AttachInv
<1>3. ASSUME NEW a \in Attachments, NEW kind \in Kinds, RejectCommand(a, kind)
      PROVE  IndInv'
  BY <1>3, RejectCommandInv
<1>4. ASSUME NEW a \in Attachments, NEW kind \in Kinds, NEW seq \in 1 .. MaxSeq,
             BeginCommand(a, kind, seq)
      PROVE  IndInv'
  BY <1>4, BeginCommandInv
<1>5. ASSUME NEW a \in Attachments, Step(a)
      PROVE  IndInv'
  BY <1>5, GrantViewerInv, RefuseLeaseInv, GrantLeaseInv, RespondInv, FailCommandInv,
     ApplyCommandInv, ApplyFailsInv, RenewLeaseInv, ReleaseLeaseInv, LeaseEventInv,
     ExpiryTimerInv, EndInv DEF Step
<1> QED
  BY <1>1, <1>2, <1>3, <1>4, <1>5, DeadlineInv DEF Next

LEMMA Invariance == Spec => []IndInv
  BY InitInv, NextInv, PTL DEF Spec

---------------------------------------------------------------------------
(* The theorems.                                                           *)

(* Every reachable state of the Terminal's lease state and of its attach   *)
(* handlers is well typed; in particular neither a resume token nor a      *)
(* recovery generation is ever minted past MaxGeneration, although         *)
(* acquire_resumable_lease_at checks only the generation.                  *)
THEOREM TypeCorrect == Spec => []TypeOK
<1>1. IndInv => TypeOK
  BY DEF IndInv
<1> QED
  BY <1>1, Invariance, PTL

(* Authority is never split: every usable resume token is the newest one   *)
(* and an active lease agrees with the recovery record on the client, after*)
(* any interleaving of grants, resumes, takeovers, expiries, releases and  *)
(* cleanups (terminal.rs, the lease lock).                                 *)
THEOREM OneAuthorityHolds == Spec => []OneAuthority
<1>1. IndInv => OneAuthority
  <2> SUFFICES ASSUME IndInv PROVE OneAuthority
    OBVIOUS
  <2>1. ASSUME NEW t \in 1 .. MaxGeneration, Live(t) PROVE t = tokens
    <3>1. t # 0 /\ (recovery.token = t \/ lease.token = t)
      BY <2>1 DEF Live
    <3>2. recovery.token = 0 \/ recovery.token = tokens
      BY DEF IndInv, Minted
    <3>3. lease.token = 0 \/ lease.token = tokens
      <4>1. lease.id # 0 => lease.token = tokens
        BY DEF IndInv, Minted
      <4>2. lease.id = 0 => lease = NoLease
        BY DEF IndInv, Minted
      <4>3. NoLease.token = 0
        BY DEF NoLease
      <4> QED
        BY <4>1, <4>2, <4>3
    <3> QED
      BY <3>1, <3>2, <3>3
  <2>2. \A a \in Holders : recovery.client = ClientId(req[a].peer)
    BY DEF IndInv, Agreement, Holders
  <2> QED
    BY <2>1, <2>2 DEF OneAuthority
<1> QED
  BY <1>1, Invariance, PTL

(* A lease is never orphaned: exactly one running attach handler captured  *)
(* it, the one whose ReleaseLease guard clears it (handle_attach_inner).   *)
THEOREM NoOrphanLeaseHolds == Spec => []NoOrphanLease
<1>1. IndInv => NoOrphanLease
  <2> SUFFICES ASSUME IndInv, lease.id # 0
               PROVE  \E a \in Attachments :
                        /\ Holders = {a}
                        /\ pc[a] \in {"granted", "live", "validating", "ending"}
    BY DEF NoOrphanLease
  <2>1. PICK a \in Attachments : held[a] = lease.id
    BY DEF IndInv, Captured
  <2>2. Holders = {a}
    BY <2>1 DEF IndInv, Captured, Holders
  <2>3. pc[a] \in {"granted", "live", "validating", "ending"}
    BY <2>1 DEF IndInv, TypeOK, Captured
  <2> QED
    BY <2>2, <2>3
<1> QED
  BY <1>1, Invariance, PTL

LEMMA ReplayFacts == IndInv => NoReplay
<1> SUFFICES ASSUME IndInv, NEW a \in Attachments, pc[a] = "validating", Valid(a)
             PROVE  applied.id < held[a]
                      \/ (applied.id = held[a] /\ applied.seq < cmd[a].seq)
  BY DEF NoReplay, Before
<1>1. held[a] # 0 /\ lease.id = held[a] /\ cmd[a].seq > lease.last
  BY DEF IndInv, Captured, Valid
<1>2. /\ applied.id \in Nat /\ applied.seq \in Nat /\ held[a] \in Nat
      /\ lease.last \in Nat /\ cmd[a].seq \in Nat
  BY BoundsAssumption DEF IndInv, TypeOK, LeaseIds, Leases
<1>3. applied.id <= held[a]
  BY <1>1 DEF IndInv, Minted
<1>4. applied.id = held[a] => applied.seq <= lease.last
  BY <1>1 DEF IndInv, Consumed
<1> QED
  BY <1>1, <1>2, <1>3, <1>4

(* Fencing and at-most-once: a command that passes validate_lease_at is    *)
(* newer than everything that reached the PTY, under this lease or another.*)
THEOREM NoReplayHolds == Spec => []NoReplay
  BY ReplayFacts, Invariance, PTL

---------------------------------------------------------------------------
(* The role an attachment shows.  Beyond the statement itself the          *)
(* induction needs that a controller asked to write, hence listens, and    *)
(* captured a lease once it is past its grant.                             *)

Running == {"granted", "live", "validating", "ending"}

Roles ==
  \A a \in Attachments : pc[a] # "idle" /\ role[a] = "controller" =>
    ~req[a].readOnly /\ (pc[a] \in Running => held[a] # 0)

LEMMA Counters ==
  ASSUME TypeOK
  PROVE  /\ leaseIds \in Nat /\ leaseIds + 1 # 0 /\ leaseIds + 1 > leaseIds
         /\ tokens \in Nat /\ \A t \in Tokens : t \in Nat
         /\ \A b \in Attachments : held[b] \in Nat
  BY BoundsAssumption DEF TypeOK, LeaseIds, Tokens

\* An event waits in a receiver.
Waits(queue, id) == \E i \in DOMAIN queue : queue[i].id = id

\* Whoever is shown as controller and has lost no event.
Shown(a) ==
  pc[a] \in {"granted", "live", "validating"} /\ role[a] = "controller" /\ ~lagged[a]

\* A push keeps what waits, unless the queue was full, and adds its event.
LEMMA PushFacts ==
  ASSUME NEW queue \in Seq(Events), NEW event \in Events
  PROVE  /\ Waits(Push(queue, event), event.id)
         /\ \A id \in LeaseIds : Waits(queue, id) /\ ~(Len(queue) >= EventCap) =>
              Waits(Push(queue, event), id)
<1>1. ASSUME NEW q \in Seq(Events)
      PROVE  /\ Waits(Append(q, event), event.id)
             /\ \A id \in LeaseIds : Waits(q, id) => Waits(Append(q, event), id)
  <2>1. /\ Len(q) \in Nat /\ DOMAIN q = 1 .. Len(q)
        /\ DOMAIN Append(q, event) = 1 .. Len(q) + 1
        /\ Append(q, event)[Len(q) + 1] = event
        /\ \A i \in 1 .. Len(q) : Append(q, event)[i] = q[i]
    OBVIOUS
  <2>2. Len(q) + 1 \in 1 .. Len(q) + 1 /\ \A i \in 1 .. Len(q) : i \in 1 .. Len(q) + 1
    BY <2>1
  <2> QED
    BY <2>1, <2>2, Zenon DEF Waits
<1>2. CASE Len(queue) >= EventCap
  <2>1. queue # <<>>
    BY <1>2, BoundsAssumption
  <2> DEFINE rest == Tail(queue)
  <2>2. rest \in Seq(Events)
    BY <2>1
  <2>3. Push(queue, event) = Append(rest, event)
    BY <1>2 DEF Push
  <2> HIDE DEF rest
  <2>4. Waits(Append(rest, event), event.id)
    BY <1>1, <2>2
  <2> QED
    BY <1>2, <2>3, <2>4, Zenon
<1>3. CASE ~(Len(queue) >= EventCap)
  <2>1. Push(queue, event) = Append(queue, event)
    BY <1>3 DEF Push
  <2> QED
    BY <1>1, <1>3, <2>1
<1> QED
  BY <1>2, <1>3

\* What a publication does to a receiver that has lost nothing.
LEMMA PublishKeeps ==
  ASSUME TypeOK, NEW event \in Events, NEW leaving \in SUBSET Attachments,
         Publish(event, leaving), NEW b \in Attachments \ leaving, ~lagged'[b]
  PROVE  /\ ~lagged[b]
         /\ \A id \in LeaseIds : Waits(inbox[b], id) => Waits(inbox'[b], id)
         /\ event.id # 0 /\ Listens(b) => Waits(inbox'[b], event.id)
<1>1. inbox[b] \in Seq(Events)
  BY DEF TypeOK
<1>2. CASE event.id # 0 /\ Listens(b)
  <2>1. inbox'[b] = Push(inbox[b], event)
    BY <1>2 DEF Publish
  <2>2. ~lagged[b] /\ ~Full(b)
    BY <1>2, Zenon DEF Publish
  <2> QED
    BY <1>1, <2>1, <2>2, PushFacts DEF Full
<1>3. CASE ~(event.id # 0 /\ Listens(b))
  BY <1>3 DEF Publish, TypeOK
<1> QED
  BY <1>2, <1>3

\* The steps that announce what happened to the lease.
LEMMA AnnouncedStep ==
  ASSUME IndInv, Roles, RoleFollowsLease,
         NEW event \in Events, NEW leaving \in SUBSET Attachments, Publish(event, leaving),
         \A b \in Attachments : Shown(b)' /\ lease'.id # held'[b] =>
           /\ b \notin leaving
           /\ pc[b] \in {"granted", "live", "validating"} /\ role[b] = "controller"
           /\ held'[b] = held[b]
           /\ lease.id = held[b] => event.id = lease.id
  PROVE  RoleFollowsLease'
<1> SUFFICES ASSUME NEW b \in Attachments, Shown(b)', lease'.id # held'[b]
             PROVE  Waits(inbox'[b], held'[b])
  BY DEF RoleFollowsLease, Shown, Waits, RevocationPending
<1>1. /\ b \in Attachments \ leaving /\ ~lagged'[b]
      /\ pc[b] \in {"granted", "live", "validating"} /\ role[b] = "controller"
      /\ held'[b] = held[b]
      /\ lease.id = held[b] => event.id = lease.id
  BY DEF Shown
<1>2. /\ ~lagged[b]
      /\ \A id \in LeaseIds : Waits(inbox[b], id) => Waits(inbox'[b], id)
      /\ event.id # 0 /\ Listens(b) => Waits(inbox'[b], event.id)
  BY <1>1, PublishKeeps DEF IndInv
<1>3. Listens(b) /\ held[b] # 0 /\ held[b] \in LeaseIds
  BY <1>1 DEF Roles, Running, Listens, IndInv, TypeOK
<1>4. CASE lease.id = held[b]
  BY <1>1, <1>2, <1>3, <1>4
<1>5. CASE lease.id # held[b]
  <2>1. Waits(inbox[b], held[b])
    BY <1>1, <1>2, <1>5 DEF RoleFollowsLease, RevocationPending, Waits
  <2> QED
    BY <1>1, <1>2, <1>3, <2>1
<1> QED
  BY <1>4, <1>5

\* The steps that say nothing.
LEMMA QuietStep ==
  ASSUME RoleFollowsLease, UNCHANGED <<inbox, lagged>>,
         \A b \in Attachments : Shown(b)' =>
           \/ lease'.id = held'[b]
           \/ /\ pc[b] \in {"granted", "live", "validating"} /\ role[b] = "controller"
              /\ held'[b] = held[b] /\ lease'.id = lease.id
  PROVE  RoleFollowsLease'
  BY DEF RoleFollowsLease, RevocationPending, Shown

\* The handlers other than a are where they were, with what they had.
OthersStay(a) ==
  \A b \in Attachments \ {a} :
    /\ pc'[b] = pc[b] /\ role'[b] = role[b] /\ held'[b] = held[b]
    /\ req'[b].readOnly = req[b].readOnly

LEMMA RolesOf ==
  ASSUME Roles, NEW a \in Attachments, OthersStay(a),
         pc'[a] # "idle" /\ role'[a] = "controller" =>
           ~req'[a].readOnly /\ (pc'[a] \in Running => held'[a] # 0)
  PROVE  Roles'
  BY DEF Roles, OthersStay, Running

\* A new handler has nothing to show yet.
LEMMA AttachRole ==
  ASSUME IndInv, Roles, RoleFollowsLease, NEW a \in Attachments, NEW p \in Peers,
         NEW readOnly \in BOOLEAN, NEW takeover \in BOOLEAN,
         NEW token \in known[p] \cup {0}, Attach(a, p, readOnly, takeover, token)
  PROVE  Roles' /\ RoleFollowsLease'
<1> DEFINE r == [peer |-> p, readOnly |-> readOnly, takeover |-> takeover, token |-> token]
<1>1. /\ pc'[a] = "registered" /\ lease' = lease /\ held' = held /\ UNCHANGED <<inbox, lagged>>
      /\ role'[a] = IF readOnly THEN "viewer" ELSE "controller"
      /\ \A b \in Attachments \ {a} : pc'[b] = pc[b] /\ role'[b] = role[b]
  BY DEF Attach, IndInv, TypeOK, terminal
<1>2. req' = [req EXCEPT ![a] = r] /\ r.readOnly = readOnly
  BY DEF Attach
<1> HIDE DEF r
<1>3. req'[a].readOnly = readOnly /\ \A b \in Attachments \ {a} : req'[b] = req[b]
  BY <1>2 DEF IndInv, TypeOK
<1>4. Roles'
  BY <1>1, <1>3, RolesOf DEF OthersStay, Running
<1>5. RoleFollowsLease'
  BY <1>1, QuietStep DEF Shown
<1> QED
  BY <1>4, <1>5

\* Who asked for a view is shown as a viewer.
LEMMA GrantViewerRole ==
  ASSUME IndInv, Roles, RoleFollowsLease, NEW a \in Attachments, GrantViewer(a)
  PROVE  Roles' /\ RoleFollowsLease'
<1>1. /\ pc'[a] = "granted" /\ role' = role /\ lease' = lease /\ held' = held
      /\ UNCHANGED <<inbox, lagged>>
      /\ \A b \in Attachments \ {a} : pc'[b] = pc[b]
  BY DEF GrantViewer, IndInv, TypeOK, terminal
<1>2. role[a] # "controller"
  BY DEF GrantViewer, Roles
<1>3. \A b \in Attachments : req'[b].readOnly = req[b].readOnly
  BY DecidedFacts DEF GrantViewer, IndInv
<1>4. Roles'
  BY <1>1, <1>2, <1>3, RolesOf DEF OthersStay
<1>5. RoleFollowsLease'
  BY <1>1, <1>2, QuietStep DEF Shown
<1> QED
  BY <1>4, <1>5

\* A handler moves between two places, the others stay.
Moves(a, from, to) ==
  /\ pc[a] \in from /\ pc'[a] \in to
  /\ \A b \in Attachments \ {a} : pc'[b] = pc[b]
  /\ UNCHANGED <<req, held, role>>

\* The steps of a running handler that leave the lease where it is.
LEMMA RunningRole ==
  ASSUME IndInv, Roles, RoleFollowsLease, NEW a \in Attachments,
         Moves(a, {"granted", "live", "validating"}, {"live", "validating", "ending"}),
         lease'.id = lease.id, UNCHANGED <<inbox, lagged>>
  PROVE  Roles' /\ RoleFollowsLease'
<1>1. Roles'
  BY RolesOf DEF Moves, OthersStay, Roles, Running
<1>2. RoleFollowsLease'
  BY QuietStep DEF Moves, Shown
<1> QED
  BY <1>1, <1>2

\* A refusal announces the expiry it found.
LEMMA RefuseLeaseRole ==
  ASSUME IndInv, Roles, RoleFollowsLease, NEW a \in Attachments, RefuseLease(a)
  PROVE  Roles' /\ RoleFollowsLease'
<1>1. /\ pc'[a] = "idle"
      /\ \A b \in Attachments \ {a} :
           pc'[b] = pc[b] /\ held'[b] = held[b] /\ req'[b] = req[b] /\ role'[b] = role[b]
  BY DEF RefuseLease, Gone, IndInv, TypeOK
<1>2. Roles'
  BY <1>1, RolesOf DEF OthersStay
<1>3. ExpiryEvent \in Events /\ Publish(ExpiryEvent, {a}) /\ lease' = LeaseNow
  BY LeaseTypes DEF RefuseLease, IndInv
<1>4. lease'.id # lease.id => ExpiryEvent.id = lease.id
  BY <1>3 DEF LeaseNow, ExpiryEvent
<1>5. \A b \in Attachments : Shown(b)' /\ lease'.id # held'[b] =>
        /\ b \notin {a}
        /\ pc[b] \in {"granted", "live", "validating"} /\ role[b] = "controller"
        /\ held'[b] = held[b]
        /\ lease.id = held[b] => ExpiryEvent.id = lease.id
  BY <1>1, <1>4 DEF Shown
<1>6. RoleFollowsLease'
  BY <1>3, <1>5, AnnouncedStep
<1> QED
  BY <1>2, <1>6

\* A grant announces that it replaced the lease, or that the lease had expired.
LEMMA GrantLeaseRole ==
  ASSUME IndInv, Roles, RoleFollowsLease, NEW a \in Attachments, GrantLease(a)
  PROVE  Roles' /\ RoleFollowsLease'
<1>1. /\ pc'[a] = "granted" /\ held'[a] = leaseIds + 1 /\ role' = role
      /\ lease'.id = leaseIds + 1
      /\ \A b \in Attachments \ {a} : pc'[b] = pc[b] /\ held'[b] = held[b]
  BY DEF GrantLease, IndInv, TypeOK
<1>2. \A b \in Attachments : req'[b].readOnly = req[b].readOnly
  BY DecidedFacts DEF GrantLease, IndInv
<1>3. leaseIds + 1 # 0 /\ ~req[a].readOnly
  BY Counters DEF GrantLease, IndInv
<1>4. Roles'
  BY <1>1, <1>2, <1>3, RolesOf DEF OthersStay
<1>5. RevocationEvent \in Events /\ Publish(RevocationEvent, {})
  BY LeaseTypes DEF GrantLease, IndInv
<1>6. lease.id # 0 => RevocationEvent.id = lease.id
  BY DEF RevocationEvent, ExpiryEvent, LeaseNow, NoLease
<1>7. \A b \in Attachments : Shown(b)' /\ lease'.id # held'[b] =>
        /\ b \notin {}
        /\ pc[b] \in {"granted", "live", "validating"} /\ role[b] = "controller"
        /\ held'[b] = held[b]
        /\ lease.id = held[b] => RevocationEvent.id = lease.id
  BY <1>1, <1>6 DEF Shown, Roles, Running
<1>8. {} \in SUBSET Attachments
  OBVIOUS
<1>9. RoleFollowsLease'
  BY <1>5, <1>7, <1>8, AnnouncedStep
<1> QED
  BY <1>4, <1>9

\* The steps of a handler that may end its own lease announce it.
LEMMA OwnLeaseRole ==
  ASSUME IndInv, Roles, RoleFollowsLease, NEW a \in Attachments, NEW event \in Events,
         Moves(a, {"live", "validating"}, {"live", "validating"}), Publish(event, {}),
         lease'.id # lease.id => event.id = lease.id
  PROVE  Roles' /\ RoleFollowsLease'
<1>2. Roles'
  BY RolesOf DEF Moves, OthersStay, Roles, Running
<1>3. \A b \in Attachments : Shown(b)' /\ lease'.id # held'[b] =>
        /\ b \notin {}
        /\ pc[b] \in {"granted", "live", "validating"} /\ role[b] = "controller"
        /\ held'[b] = held[b]
        /\ lease.id = held[b] => event.id = lease.id
  BY DEF Moves, Shown
<1>4. {} \in SUBSET Attachments
  OBVIOUS
<1>5. RoleFollowsLease'
  BY <1>3, <1>4, AnnouncedStep
<1> QED
  BY <1>2, <1>5

LEMMA ExpireRole ==
  ASSUME IndInv, Roles, RoleFollowsLease, NEW a \in Attachments, ExpireIfDue(a),
         Moves(a, {"live", "validating"}, {"live", "validating"})
  PROVE  Roles' /\ RoleFollowsLease'
<1> DEFINE expires == lease.id = held[a] /\ Expired(lease)
           event == IF expires THEN [id |-> held[a], reason |-> "expired"] ELSE NoEvent
<1>1. event \in Events
  <2>1. [id |-> held[a], reason |-> "expired"] \in Events
    BY DEF IndInv, TypeOK, Events, Reasons
  <2> QED
    BY <2>1, LeaseTypes DEF IndInv
<1>2. Publish(event, {}) /\ lease' = IF expires THEN NoLease ELSE lease
  BY DEF ExpireIfDue
<1>3. lease'.id # lease.id => event.id = lease.id
  BY <1>2
<1> HIDE DEF event, expires
<1> QED
  BY <1>1, <1>2, <1>3, OwnLeaseRole

\* A handler reads an event: its own revocation demotes it.
LEMMA LeaseEventRole ==
  ASSUME IndInv, Roles, RoleFollowsLease, NEW a \in Attachments, LeaseEvent(a)
  PROVE  Roles' /\ RoleFollowsLease'
<1>1. /\ UNCHANGED <<lease, pc, req, held, lagged>> /\ inbox[a] # <<>>
      /\ inbox'[a] = Tail(inbox[a])
      /\ \A b \in Attachments \ {a} : inbox'[b] = inbox[b] /\ role'[b] = role[b]
      /\ role'[a] = "controller" => role[a] = "controller" /\ Head(inbox[a]).id # held[a]
  BY DEF LeaseEvent, IndInv, TypeOK, terminal
<1>2. Roles'
  BY <1>1, RolesOf DEF OthersStay, Roles
<1>3. ASSUME NEW id, Waits(inbox[a], id), Head(inbox[a]).id # id
      PROVE  Waits(inbox'[a], id)
  <2> DEFINE q == inbox[a]
  <2>1. q \in Seq(Events) /\ q # <<>>
    BY <1>1 DEF IndInv, TypeOK
  <2>2. PICK i \in DOMAIN q : q[i].id = id
    BY <1>3 DEF Waits
  <2> HIDE DEF q
  <2>3. i \in 1 .. Len(q) /\ i # 1
    BY <1>3, <2>1, <2>2 DEF q
  <2>4. i - 1 \in DOMAIN Tail(q) /\ Tail(q)[i - 1] = q[i]
    BY <2>1, <2>3
  <2>5. Tail(q)[i - 1].id = id
    BY <2>2, <2>4
  <2> QED
    BY <1>1, <2>4, <2>5 DEF Waits, q
<1>4. RoleFollowsLease'
  <2> SUFFICES ASSUME NEW b \in Attachments, Shown(b)', lease'.id # held'[b]
               PROVE  Waits(inbox'[b], held'[b])
    BY DEF RoleFollowsLease, Shown, Waits, RevocationPending
  <2>1. Shown(b) /\ lease.id # held[b] /\ held'[b] = held[b]
    BY <1>1 DEF Shown
  <2>2. Waits(inbox[b], held[b])
    BY <2>1 DEF RoleFollowsLease, Shown, Waits, RevocationPending
  <2>3. CASE b = a
    <3>1. Head(inbox[a]).id # held[a]
      BY <1>1, <2>3 DEF Shown
    <3> QED
      BY <1>3, <2>1, <2>2, <2>3, <3>1
  <2>4. CASE b # a
    BY <1>1, <2>1, <2>2, <2>4
  <2> QED
    BY <2>3, <2>4
<1> QED
  BY <1>2, <1>4

\* A handler that ends says nothing: the lease it clears was shown by it alone.
LEMMA EndRole ==
  ASSUME IndInv, Roles, RoleFollowsLease, NEW a \in Attachments, End(a)
  PROVE  Roles' /\ RoleFollowsLease'
<1>1. /\ pc'[a] = "idle"
      /\ \A b \in Attachments \ {a} :
           pc'[b] = pc[b] /\ held'[b] = held[b] /\ req'[b] = req[b] /\ role'[b] = role[b]
  BY DEF End, Gone, IndInv, TypeOK
<1>2. Roles'
  BY <1>1, RolesOf DEF OthersStay
<1>3. NoEvent \in Events /\ Publish(NoEvent, {a})
  BY LeaseTypes DEF End, IndInv
<1>4. \A b \in Attachments \ {a} : held[b] # 0 /\ lease.id = held[b] => lease' = lease
  BY DEF End, IndInv, Captured
<1>5. \A b \in Attachments : Shown(b)' /\ lease'.id # held'[b] =>
        /\ b \notin {a}
        /\ pc[b] \in {"granted", "live", "validating"} /\ role[b] = "controller"
        /\ held'[b] = held[b]
        /\ lease.id = held[b] => NoEvent.id = lease.id
  BY <1>1, <1>4 DEF Shown, Roles, Running
<1>6. RoleFollowsLease'
  BY <1>3, <1>5, AnnouncedStep
<1> QED
  BY <1>2, <1>6

LEMMA StepRole ==
  ASSUME IndInv, Roles, RoleFollowsLease, NEW a \in Attachments, Step(a)
  PROVE  Roles' /\ RoleFollowsLease'
<1>1. CASE Respond(a)
  <2>1. /\ Moves(a, {"granted", "live", "validating"}, {"live", "validating", "ending"})
        /\ lease'.id = lease.id /\ UNCHANGED <<inbox, lagged>>
    BY <1>1 DEF Respond, terminal, Moves, IndInv, TypeOK
  <2> QED
    BY <2>1, RunningRole
<1>2. CASE FailCommand(a)
  <2>1. /\ Moves(a, {"granted", "live", "validating"}, {"live", "validating", "ending"})
        /\ lease'.id = lease.id /\ UNCHANGED <<inbox, lagged>>
    BY <1>2 DEF FailCommand, CommandDone, Moves, IndInv, TypeOK
  <2> QED
    BY <2>1, RunningRole
<1>3. CASE ApplyCommand(a)
  <2>1. /\ Moves(a, {"granted", "live", "validating"}, {"live", "validating", "ending"})
        /\ lease'.id = lease.id /\ UNCHANGED <<inbox, lagged>>
    BY <1>3 DEF ApplyCommand, CommandDone, Moves, IndInv, TypeOK, Leases
  <2> QED
    BY <2>1, RunningRole
<1>4. CASE ApplyFails(a)
  <2>1. /\ Moves(a, {"granted", "live", "validating"}, {"live", "validating", "ending"})
        /\ lease'.id = lease.id /\ UNCHANGED <<inbox, lagged>>
    BY <1>4 DEF ApplyFails, CommandDone, Moves, IndInv, TypeOK
  <2> QED
    BY <2>1, RunningRole
<1>5. CASE RenewLease(a)
  <2>1. /\ Moves(a, {"granted", "live", "validating"}, {"live", "validating", "ending"})
        /\ lease'.id = lease.id /\ UNCHANGED <<inbox, lagged>>
    BY <1>5 DEF RenewLease, CommandDone, Moves, IndInv, TypeOK, Leases
  <2> QED
    BY <2>1, RunningRole
<1>6. CASE ReleaseLeaseCommand(a)
  <2> DEFINE event == [id |-> held[a], reason |-> "released"]
  <2>1. event \in Events /\ event.id = lease.id
    BY <1>6 DEF ReleaseLeaseCommand, Valid, IndInv, TypeOK, Events, Reasons
  <2>2. Publish(event, {})
    BY <1>6 DEF ReleaseLeaseCommand
  <2>3. Moves(a, {"live", "validating"}, {"live", "validating"})
    BY <1>6 DEF ReleaseLeaseCommand, CommandDone, Moves, IndInv, TypeOK
  <2> HIDE DEF event
  <2> QED
    BY <2>1, <2>2, <2>3, OwnLeaseRole
<1>7. CASE ExpiryTimer(a)
  <2>1. Moves(a, {"live", "validating"}, {"live", "validating"}) /\ ExpireIfDue(a)
    BY <1>7 DEF ExpiryTimer, handler, Moves, IndInv, TypeOK
  <2> QED
    BY <2>1, ExpireRole
<1> QED
  BY <1>1, <1>2, <1>3, <1>4, <1>5, <1>6, <1>7, GrantViewerRole, RefuseLeaseRole, GrantLeaseRole,
     LeaseEventRole, EndRole DEF Step

LEMMA NextRole == IndInv /\ Roles /\ RoleFollowsLease /\ [Next]_vars => Roles' /\ RoleFollowsLease'
<1> SUFFICES ASSUME IndInv, Roles, RoleFollowsLease, [Next]_vars
             PROVE  Roles' /\ RoleFollowsLease'
  OBVIOUS
<1>1. CASE UNCHANGED vars
  BY <1>1 DEF Roles, RoleFollowsLease, RevocationPending, vars, terminal, handler
<1>2. ASSUME NEW a \in Attachments, NEW kind \in Kinds, RejectCommand(a, kind)
      PROVE  Roles' /\ RoleFollowsLease'
  <2>1. /\ Moves(a, {"granted", "live", "validating"}, {"live", "validating", "ending"})
        /\ lease'.id = lease.id /\ UNCHANGED <<inbox, lagged>>
    BY <1>2 DEF RejectCommand, terminal, Moves, IndInv, TypeOK
  <2> QED
    BY <2>1, RunningRole
<1>3. ASSUME NEW a \in Attachments, NEW kind \in Kinds, NEW seq \in 1 .. MaxSeq,
             BeginCommand(a, kind, seq)
      PROVE  Roles' /\ RoleFollowsLease'
  <2>1. Moves(a, {"live", "validating"}, {"live", "validating"}) /\ ExpireIfDue(a)
    BY <1>3 DEF BeginCommand, Moves, IndInv, TypeOK
  <2> QED
    BY <2>1, ExpireRole
<1>4. CASE Deadline
  <2>1. lease'.id = lease.id /\ UNCHANGED <<pc, req, held, role, inbox, lagged>>
    BY <1>4 DEF Deadline, handler, IndInv, TypeOK, Leases
  <2>2. Roles'
    BY <2>1 DEF Roles
  <2>3. RoleFollowsLease'
    BY <2>1, QuietStep DEF Shown
  <2> QED
    BY <2>2, <2>3
<1> QED
  BY <1>1, <1>2, <1>3, <1>4, AttachRole, StepRole DEF Next

(* An attachment shown as controller owns the lease, or the event that     *)
(* demotes it is still in its receiver, unless the receiver lagged         *)
(* (handle_attach_inner, the lease_events branch of its select loop).      *)
THEOREM RoleFollowsLeaseHolds == Spec => []RoleFollowsLease
<1>1. Init => Roles /\ RoleFollowsLease
  BY DEF Init, Roles, RoleFollowsLease
<1> QED
  BY <1>1, NextRole, Invariance, PTL DEF Spec

---------------------------------------------------------------------------
(* Tokens are private.  A client uses a token when it knows it, when an    *)
(* attachment of it presents it or is about to be told it, or when the     *)
(* lease or the recovery record behind the token is its own.               *)

Uses(p, t) ==
  /\ t # 0
  /\ \/ t \in known[p]
     \/ \E a \in Attachments : req[a].peer = p /\ t \in {req[a].token, credential[a]}
     \/ \E a \in Attachments : req[a].peer = p /\ lease.id # 0 /\ held[a] = lease.id
                               /\ t = lease.token
     \/ recovery.client = p /\ t = recovery.token

Private ==
  /\ \A p \in Peers : \A t \in Tokens : Uses(p, t) => t <= tokens
  /\ \A p, q \in Peers : \A t \in Tokens : Uses(p, t) /\ Uses(q, t) => p = q
  /\ \A a \in Attachments : pc[a] = "idle" => credential[a] = 0

\* A step after which every use of a token was a use before.
LEMMA NoNewUse ==
  ASSUME Private, tokens' = tokens,
         \A p \in Peers : \A t \in Tokens : Uses(p, t)' => Uses(p, t),
         \A a \in Attachments : pc'[a] = "idle" => credential'[a] = 0
  PROVE  Private'
  BY DEF Private

\* The steps that forget: a request is decided, a handler or a lease goes.
Forgets ==
  /\ known' = known /\ tokens' = tokens
  /\ \A a \in Attachments : req'[a].peer \in Peers =>
       /\ req'[a].peer = req[a].peer /\ held'[a] = held[a]
       /\ req'[a].token \in {0, req[a].token}
       /\ credential'[a] \in {0, credential[a]}
  /\ \A a \in Attachments : pc'[a] = "idle" => credential'[a] = 0
  /\ lease'.id # 0 => lease'.id = lease.id /\ lease'.token = lease.token
  /\ recovery'.client # NoPeer => recovery' = recovery

LEMMA ForgetsPrivate ==
  ASSUME Private, Forgets
  PROVE  Private'
<1>1. ASSUME NEW p \in Peers, NEW t \in Tokens, Uses(p, t)'
      PROVE  Uses(p, t)
  <2>1. t # 0 /\ p # NoPeer
    BY <1>1, NoPeerAssumption DEF Uses
  <2>2. CASE t \in known'[p]
    BY <2>1, <2>2 DEF Uses, Forgets
  <2>3. ASSUME NEW a \in Attachments, req'[a].peer = p, t \in {req'[a].token, credential'[a]}
        PROVE  Uses(p, t)
    BY <2>1, <2>3 DEF Uses, Forgets
  <2>4. ASSUME NEW a \in Attachments, req'[a].peer = p, lease'.id # 0, held'[a] = lease'.id,
               t = lease'.token
        PROVE  Uses(p, t)
    BY <2>1, <2>4 DEF Uses, Forgets
  <2>5. CASE recovery'.client = p /\ t = recovery'.token
    BY <2>1, <2>5 DEF Uses, Forgets
  <2> QED
    BY <1>1, <2>2, <2>3, <2>4, <2>5 DEF Uses
<1> QED
  BY <1>1, NoNewUse DEF Forgets

\* A client presents a token it knows.
LEMMA AttachPrivate ==
  ASSUME IndInv, Private, NEW a \in Attachments, NEW p \in Peers,
         NEW readOnly \in BOOLEAN, NEW takeover \in BOOLEAN,
         NEW token \in known[p] \cup {0}, Attach(a, p, readOnly, takeover, token)
  PROVE  Private'
<1> DEFINE r == [peer |-> p, readOnly |-> readOnly, takeover |-> takeover, token |-> token]
<1>1. /\ UNCHANGED <<lease, recovery, tokens, held, credential, known>>
      /\ req' = [req EXCEPT ![a] = r] /\ r.peer = p /\ r.token = token
      /\ pc[a] = "idle"
  BY DEF Attach, terminal
<1> HIDE DEF r
<1>2. /\ req'[a].peer = p /\ req'[a].token = token
      /\ \A b \in Attachments \ {a} : req'[b] = req[b]
  BY <1>1 DEF IndInv, TypeOK
<1>3. held[a] = 0
  BY <1>1 DEF IndInv, Captured
<1>4. ASSUME NEW q \in Peers, NEW t \in Tokens, Uses(q, t)'
      PROVE  Uses(q, t)
  <2>1. t # 0
    BY <1>4 DEF Uses
  <2>2. CASE t \in known'[q] \/ (recovery'.client = q /\ t = recovery'.token)
    BY <1>1, <2>1, <2>2 DEF Uses
  <2>3. ASSUME NEW b \in Attachments, req'[b].peer = q, t \in {req'[b].token, credential'[b]}
        PROVE  Uses(q, t)
    <3>1. CASE b = a
      <4>1. q = p /\ (t = token \/ t = credential[a])
        BY <1>1, <1>2, <2>3, <3>1
      <4>2. credential[a] = 0
        BY <1>1 DEF Private
      <4> QED
        BY <2>1, <4>1, <4>2 DEF Uses
    <3>2. CASE b # a
      BY <1>1, <1>2, <2>1, <2>3, <3>2 DEF Uses
    <3> QED
      BY <3>1, <3>2
  <2>4. ASSUME NEW b \in Attachments, req'[b].peer = q, lease'.id # 0, held'[b] = lease'.id,
               t = lease'.token
        PROVE  Uses(q, t)
    BY <1>1, <1>2, <1>3, <2>1, <2>4 DEF Uses
  <2> QED
    BY <1>4, <2>2, <2>3, <2>4 DEF Uses
<1>5. \A b \in Attachments : pc'[b] = "idle" => credential'[b] = 0
  BY DEF Attach, IndInv, TypeOK, Private
<1> QED
  BY <1>1, <1>4, <1>5, NoNewUse

\* The answer tells a client the token of its own grant.
LEMMA RespondPrivate ==
  ASSUME IndInv, Private, NEW a \in Attachments, Respond(a)
  PROVE  Private'
<1>1. /\ UNCHANGED <<lease, recovery, tokens, held, req>> /\ req[a].peer \in Peers
      /\ pc'[a] = "live" /\ credential'[a] = 0
      /\ \A b \in Attachments \ {a} : credential'[b] = credential[b] /\ pc'[b] = pc[b]
      /\ \A q \in Peers : known'[q] \subseteq
           known[q] \cup (IF q = req[a].peer THEN {credential[a]} ELSE {})
  BY DEF Respond, terminal, IndInv, TypeOK, Captured
<1>2. ASSUME NEW q \in Peers, NEW t \in Tokens, Uses(q, t)'
      PROVE  Uses(q, t)
  <2>1. t # 0
    BY <1>2 DEF Uses
  <2>2. CASE t \in known'[q]
    BY <1>1, <2>1, <2>2 DEF Uses
  <2>3. ASSUME NEW b \in Attachments, req'[b].peer = q, t \in {req'[b].token, credential'[b]}
        PROVE  Uses(q, t)
    BY <1>1, <2>1, <2>3 DEF Uses
  <2>4. ASSUME NEW b \in Attachments, req'[b].peer = q, lease'.id # 0, held'[b] = lease'.id,
               t = lease'.token
        PROVE  Uses(q, t)
    BY <1>1, <2>1, <2>4 DEF Uses
  <2>5. CASE recovery'.client = q /\ t = recovery'.token
    BY <1>1, <2>1, <2>5 DEF Uses
  <2> QED
    BY <1>2, <2>2, <2>3, <2>4, <2>5 DEF Uses
<1>3. \A b \in Attachments : pc'[b] = "idle" => credential'[b] = 0
  BY <1>1 DEF Private
<1> QED
  BY <1>1, <1>2, <1>3, NoNewUse

\* What a grant makes of the lease, the record and the credential, in terms
\* of the client and of the token the grant carries.
LEMMA GrantFacts ==
  ASSUME IndInv, NEW a \in Attachments, GrantLease(a)
  PROVE  /\ req[a].peer \in Peers /\ req[a] \in Requests
         /\ IF Resuming(req[a]) THEN tokens' = tokens /\ req[a].token = tokens /\ tokens # 0
                                ELSE tokens' = tokens + 1
         /\ lease'.id = leaseIds + 1 /\ lease'.token = tokens'
         /\ recovery'.client = ClientId(req[a].peer) /\ recovery'.token \in {0, tokens'}
         /\ pc'[a] = "granted" /\ held'[a] = leaseIds + 1 /\ credential'[a] = tokens'
         /\ \A b \in Attachments \ {a} :
              pc'[b] = pc[b] /\ held'[b] = held[b] /\ credential'[b] = credential[b]
         /\ \A b \in Attachments : req'[b].peer = req[b].peer
                                   /\ req'[b].token \in {0, req[b].token}
         /\ \A b \in Attachments : held[b] # leaseIds + 1
         /\ UNCHANGED <<known, applied>>
<1> USE DEF IndInv
<1> DEFINE p == req[a].peer
           token == IF Resuming(req[a]) THEN req[a].token ELSE tokens + 1
           fresh == [id |-> leaseIds + 1, token |-> token, last |-> 0,
                     ttl |-> p \in Expiring, due |-> FALSE]
           record == IF ClientId(p) # NoPeer THEN [client |-> p, token |-> token]
                                             ELSE NoRecovery
<1>1. p \in Peers /\ req[a] \in Requests
  BY DEF TypeOK, Captured, GrantLease
<1>2. /\ lease' = fresh /\ recovery' = record
      /\ held' = [held EXCEPT ![a] = leaseIds + 1]
      /\ credential' = [credential EXCEPT ![a] = token]
      /\ pc' = [pc EXCEPT ![a] = "granted"]
      /\ UNCHANGED <<known, applied>>
  BY DEF GrantLease
<1>3. Resuming(req[a]) => req[a].token = tokens /\ tokens # 0
  BY <1>1, ResumeToken DEF GrantLease
<1>4. /\ IF Resuming(req[a]) THEN tokens' = tokens /\ req[a].token = tokens /\ tokens # 0
                             ELSE tokens' = tokens + 1
      /\ tokens' = token
  BY <1>3 DEF GrantLease
<1>5. fresh.id = leaseIds + 1 /\ fresh.token = token
  OBVIOUS
<1>6. record.client = ClientId(p) /\ record.token \in {0, token}
  BY DEF ClientId, NoRecovery
<1>7. \A b \in Attachments : req'[b].peer = req[b].peer /\ req'[b].token \in {0, req[b].token}
  BY DecidedFacts DEF GrantLease
<1>8. \A b \in Attachments : held[b] # leaseIds + 1
  <2> TAKE b \in Attachments
  <2>1. held[b] \in Nat /\ leaseIds \in Nat /\ held[b] <= leaseIds
    BY Counters DEF Minted
  <2> QED
    BY <2>1
<1> HIDE DEF p, token, fresh, record
<1>9. /\ pc'[a] = "granted" /\ held'[a] = leaseIds + 1 /\ credential'[a] = token
      /\ \A b \in Attachments \ {a} :
           pc'[b] = pc[b] /\ held'[b] = held[b] /\ credential'[b] = credential[b]
  BY <1>2 DEF TypeOK
<1>10. /\ lease'.id = leaseIds + 1 /\ lease'.token = token
       /\ recovery'.client = ClientId(p) /\ recovery'.token \in {0, token}
  BY <1>2, <1>5, <1>6
<1> QED
  BY <1>1, <1>2, <1>4, <1>7, <1>8, <1>9, <1>10 DEF p

\* A grant carries a token that is new, or one that the client uses already.
LEMMA GrantPrivate ==
  ASSUME IndInv, IndInv', Private, NEW a \in Attachments, GrantLease(a)
  PROVE  Private'
<1> DEFINE p == req[a].peer
<1>0. /\ p \in Peers /\ p # NoPeer
      /\ lease'.id = leaseIds + 1 /\ lease'.token = tokens'
      /\ recovery'.client = ClientId(p) /\ recovery'.token \in {0, tokens'}
      /\ pc'[a] = "granted" /\ held'[a] = leaseIds + 1 /\ credential'[a] = tokens'
      /\ \A b \in Attachments \ {a} :
           pc'[b] = pc[b] /\ held'[b] = held[b] /\ credential'[b] = credential[b]
      /\ \A b \in Attachments : req'[b].peer = req[b].peer
                                /\ req'[b].token \in {0, req[b].token}
      /\ \A b \in Attachments : held[b] # leaseIds + 1
      /\ known' = known
  BY GrantFacts, NoPeerAssumption
<1>1. IF Resuming(req[a]) THEN tokens' = tokens /\ req[a].token = tokens /\ tokens # 0
                          ELSE tokens' = tokens + 1
  BY GrantFacts
<1>2. ASSUME NEW q \in Peers, NEW t \in Tokens, Uses(q, t)'
      PROVE  Uses(q, t) \/ (q = p /\ t = tokens')
  <2>1. t # 0
    BY <1>2 DEF Uses
  <2>2. CASE t \in known'[q]
    BY <1>0, <2>1, <2>2 DEF Uses
  <2>3. ASSUME NEW b \in Attachments, req'[b].peer = q, t \in {req'[b].token, credential'[b]}
        PROVE  Uses(q, t) \/ (q = p /\ t = tokens')
    BY <1>0, <2>1, <2>3 DEF Uses
  <2>4. ASSUME NEW b \in Attachments, req'[b].peer = q, lease'.id # 0, held'[b] = lease'.id,
               t = lease'.token
        PROVE  Uses(q, t) \/ (q = p /\ t = tokens')
    BY <1>0, <2>1, <2>4 DEF Uses
  <2>5. CASE recovery'.client = q /\ t = recovery'.token
    <3>1. ClientId(p) \in {p, NoPeer} /\ q # NoPeer
      BY NoPeerAssumption DEF ClientId
    <3> QED
      BY <1>0, <2>1, <2>5, <3>1
  <2> QED
    BY <1>2, <2>2, <2>3, <2>4, <2>5 DEF Uses
<1>3. \A b \in Attachments : pc'[b] = "idle" => credential'[b] = 0
  BY <1>0 DEF Private
<1>4. CASE Resuming(req[a])
  <2>1. Uses(p, tokens) /\ tokens' = tokens
    BY <1>1, <1>4 DEF Uses
  <2> HIDE DEF p
  <2>2. \A q \in Peers : \A t \in Tokens : Uses(q, t)' => Uses(q, t)
    BY <1>2, <2>1
  <2> QED
    BY <1>3, <2>1, <2>2, NoNewUse
<1>5. CASE ~Resuming(req[a])
  <2>1. tokens' = tokens + 1 /\ tokens \in Nat
    BY <1>1, <1>5, Counters DEF IndInv
  <2>2. \A t \in Tokens : t \in Nat
    BY BoundsAssumption DEF Tokens
  <2>3. \A q \in Peers : \A t \in Tokens : Uses(q, t) => t <= tokens
    BY DEF Private
  <2>4. \A q \in Peers : \A t \in Tokens : Uses(q, t) => t # tokens'
    BY <2>1, <2>2, <2>3
  <2> HIDE DEF p
  <2>5. \A q \in Peers : \A t \in Tokens : Uses(q, t)' => t <= tokens'
    BY <1>2, <2>1, <2>2, <2>3
  <2>6. \A q, o \in Peers : \A t \in Tokens : Uses(q, t)' /\ Uses(o, t)' => q = o
    BY <1>2, <2>4 DEF Private
  <2> QED
    BY <1>3, <2>5, <2>6 DEF Private
<1> QED
  BY <1>4, <1>5

---------------------------------------------------------------------------
(* What a step may do to the lease.  It keeps it, perhaps writing under    *)
(* it, suspends it, releases it, or is a grant.                            *)

Kept ==
  /\ lease'.id = lease.id /\ lease'.token = lease.token
  /\ UNCHANGED <<recovery, generation, leaseIds, tokens>>
  /\ \A a \in Attachments : lease.id # 0 /\ held[a] = lease.id =>
       held'[a] = held[a] /\ req'[a].peer = req[a].peer

Written ==
  /\ Kept /\ lease.id # 0
  /\ \E seq \in 1 .. MaxSeq : /\ applied' = [id |-> lease.id, seq |-> seq]
                              /\ Before(applied, [id |-> lease.id, seq |-> seq])

Suspended ==
  /\ lease.id # 0 /\ lease' = NoLease
  /\ UNCHANGED <<recovery, generation, leaseIds, tokens, applied>>
  /\ Expired(lease) \/ \E a \in Holders : pc'[a] # pc[a]

Released ==
  /\ lease.id # 0 /\ lease' = NoLease /\ recovery' = NoRecovery
  /\ UNCHANGED <<generation, leaseIds, tokens, applied>>
  /\ \E a \in Holders : pc'[a] # pc[a]

Shape == (Kept /\ applied' = applied) \/ Written \/ Suspended \/ Released

\* A lease that expires is there.
LEMMA ExpiredFacts ==
  ASSUME IndInv, Expired(lease)
  PROVE  lease.id # 0
<1>1. lease.ttl /\ (lease.id = 0 => lease = NoLease)
  BY DEF IndInv, Minted, Expired
<1>2. ~NoLease.ttl
  BY DEF NoLease
<1> QED
  BY <1>1, <1>2

\* The steps that touch neither the lease nor a request.
LEMMA StillShape ==
  ASSUME IndInv, UNCHANGED <<lease, recovery, generation, leaseIds, tokens, req, held, credential,
                             known, applied>>,
         \A a \in Attachments : pc'[a] = "idle" => pc[a] = "idle", Private
  PROVE  Forgets /\ Shape
  BY DEF Forgets, Shape, Kept, Private

LEMMA ExpireShape ==
  ASSUME IndInv, Private, NEW a \in Attachments, ExpireIfDue(a),
         UNCHANGED <<recovery, generation, leaseIds, tokens, req, held, credential, known, applied>>,
         \A b \in Attachments : pc'[b] = "idle" => pc[b] = "idle"
  PROVE  Forgets /\ Shape
<1>1. CASE lease.id = held[a] /\ Expired(lease)
  <2>1. lease.id # 0 /\ lease' = NoLease /\ NoLease.id = 0
    BY <1>1, ExpiredFacts DEF ExpireIfDue, NoLease
  <2>2. Shape
    BY <1>1, <2>1 DEF Shape, Suspended
  <2> QED
    BY <2>1, <2>2 DEF Forgets, Private
<1>2. CASE ~(lease.id = held[a] /\ Expired(lease))
  BY <1>2, StillShape DEF ExpireIfDue
<1> QED
  BY <1>1, <1>2

\* The handlers that leave: a refusal, or the end of a handler.
LEMMA GoneForgets ==
  ASSUME IndInv, Private, NEW a \in Attachments, Gone(a), lease' \in {lease, NoLease},
         UNCHANGED <<recovery, tokens, known>>
  PROVE  Forgets
<1>1. /\ req'[a].peer = NoPeer /\ credential'[a] = 0
      /\ \A b \in Attachments \ {a} :
           pc'[b] = pc[b] /\ held'[b] = held[b] /\ req'[b] = req[b] /\ credential'[b] = credential[b]
  BY DEF Gone, IndInv, TypeOK, NoRequest
<1>2. NoLease.id = 0
  BY DEF NoLease
<1> QED
  BY <1>1, <1>2, NoPeerAssumption DEF Forgets, Private

LEMMA RefuseShape ==
  ASSUME IndInv, Private, NEW a \in Attachments, RefuseLease(a)
  PROVE  Forgets /\ Shape
<1>1. Forgets
  BY LeaseNowFacts, GoneForgets DEF RefuseLease
<1>2. CASE Expired(lease)
  BY <1>1, <1>2, ExpiredFacts DEF RefuseLease, LeaseNow, Shape, Suspended
<1>3. CASE ~Expired(lease)
  <2>1. held[a] = 0
    BY DEF RefuseLease, IndInv, Captured
  <2>2. \A b \in Attachments \ {a} : held'[b] = held[b] /\ req'[b] = req[b]
    BY GonePointwise DEF RefuseLease, IndInv
  <2> QED
    BY <1>1, <1>3, <2>1, <2>2 DEF RefuseLease, LeaseNow, Shape, Kept
<1> QED
  BY <1>2, <1>3

LEMMA EndShape ==
  ASSUME IndInv, Private, NEW a \in Attachments, End(a)
  PROVE  Forgets /\ Shape
<1>1. Forgets
  BY GoneForgets DEF End
<1>2. pc'[a] = "idle" /\ \A b \in Attachments \ {a} : held'[b] = held[b] /\ req'[b] = req[b]
  BY GonePointwise DEF End, IndInv
<1>3. CASE held[a] # 0 /\ lease.id = held[a]
  <2>1. a \in Holders /\ pc'[a] # pc[a]
    BY <1>2, <1>3 DEF Holders, End
  <2> QED
    BY <1>1, <1>3, <2>1 DEF End, Shape, Suspended
<1>4. CASE ~(held[a] # 0 /\ lease.id = held[a])
  BY <1>1, <1>2, <1>4 DEF End, Shape, Kept
<1> QED
  BY <1>3, <1>4

\* A command that passed validation, and what it did to the lease.
LEMMA CommandShape ==
  ASSUME IndInv, Private, NEW a \in Attachments,
         \/ FailCommand(a) \/ ApplyCommand(a) \/ ApplyFails(a)
         \/ RenewLease(a) \/ ReleaseLeaseCommand(a)
  PROVE  Forgets /\ Shape
<1>1. /\ pc[a] = "validating" /\ pc'[a] \in {"live", "ending"} /\ held[a] # 0
      /\ \A b \in Attachments \ {a} : pc'[b] = pc[b]
      /\ UNCHANGED <<generation, leaseIds, tokens, req, held, credential, known>>
  BY DEF FailCommand, ApplyCommand, ApplyFails, RenewLease, ReleaseLeaseCommand, CommandDone,
     IndInv, TypeOK, Captured
<1>2. CASE FailCommand(a)
  BY <1>1, <1>2, StillShape DEF FailCommand
<1>3. CASE ApplyCommand(a) \/ ApplyFails(a)
  <2>1. /\ Valid(a) /\ applied' = [id |-> held[a], seq |-> cmd[a].seq]
        /\ lease'.id = lease.id /\ lease'.token = lease.token /\ recovery' = recovery
    BY <1>3 DEF ApplyCommand, ApplyFails, IndInv, TypeOK, Leases
  <2>2. cmd[a].seq \in 1 .. MaxSeq
    <3>1. cmd[a].seq \in 0 .. MaxSeq /\ lease.last \in 0 .. MaxSeq /\ cmd[a].seq > lease.last
      BY <2>1 DEF Valid, IndInv, TypeOK, Leases
    <3>2. \A s, l \in 0 .. MaxSeq : s > l => s \in 1 .. MaxSeq
      BY BoundsAssumption
    <3> QED
      BY <3>1, <3>2
  <2>3. Before(applied, [id |-> held[a], seq |-> cmd[a].seq])
    BY <1>1, <2>1, ReplayFacts DEF NoReplay
  <2>4. Written
    BY <1>1, <2>1, <2>2, <2>3 DEF Written, Kept, Valid
  <2>5. Forgets
    BY <1>1, <2>1 DEF Forgets, Private
  <2> QED
    BY <2>4, <2>5 DEF Shape
<1>4. CASE RenewLease(a)
  <2>1. /\ lease'.id = lease.id /\ lease'.token = lease.token
        /\ recovery' = recovery /\ applied' = applied
    BY <1>4 DEF RenewLease, IndInv, TypeOK, Leases
  <2> QED
    BY <1>1, <2>1 DEF Forgets, Shape, Kept, Private
<1>5. CASE ReleaseLeaseCommand(a)
  <2>1. /\ lease' = NoLease /\ recovery' = NoRecovery /\ applied' = applied /\ lease.id = held[a]
        /\ NoLease.id = 0 /\ NoRecovery.client = NoPeer
    BY <1>5 DEF ReleaseLeaseCommand, Valid, NoLease, NoRecovery
  <2>2. Released
    BY <1>1, <2>1 DEF Released, Holders
  <2>3. Forgets
    BY <1>1, <2>1 DEF Forgets, Private
  <2> QED
    BY <2>2, <2>3 DEF Shape
<1> QED
  BY <1>2, <1>3, <1>4, <1>5

\* Every step is a grant or has one of the shapes, and tokens stay private.
LEMMA NextShape ==
  ASSUME IndInv, IndInv', Private, [Next]_vars
  PROVE  Private' /\ (Shape \/ \E a \in Attachments : GrantLease(a))
<1>1. CASE UNCHANGED vars
  <2>1. Forgets /\ Shape
    BY <1>1, StillShape DEF vars, terminal, handler
  <2> QED
    BY <2>1, ForgetsPrivate
<1>2. ASSUME NEW a \in Attachments, NEW p \in Peers, NEW readOnly \in BOOLEAN,
             NEW takeover \in BOOLEAN, NEW token \in known[p] \cup {0},
             Attach(a, p, readOnly, takeover, token)
      PROVE  Private' /\ Shape
  <2>1. Private'
    BY <1>2, AttachPrivate
  <2>2. held[a] = 0 /\ \A b \in Attachments \ {a} : req'[b] = req[b]
    <3>1. pc[a] = "idle" /\ \E new : req' = [req EXCEPT ![a] = new]
      BY <1>2 DEF Attach
    <3>2. held[a] = 0
      BY <3>1 DEF IndInv, Captured
    <3>3. req \in [Attachments -> Requests]
      BY DEF IndInv, TypeOK
    <3> QED
      BY <3>1, <3>2, <3>3
  <2>3. UNCHANGED <<lease, recovery, generation, leaseIds, tokens, held, applied>>
    BY <1>2 DEF Attach, terminal
  <2> QED
    BY <2>1, <2>2, <2>3 DEF Shape, Kept
<1>3. ASSUME NEW a \in Attachments, NEW kind \in Kinds, RejectCommand(a, kind)
      PROVE  Private' /\ Shape
  <2>1. \A b \in Attachments : pc'[b] = "idle" => pc[b] = "idle"
    BY <1>3 DEF RejectCommand, IndInv, TypeOK
  <2>2. Forgets /\ Shape
    BY <1>3, <2>1, StillShape DEF RejectCommand, terminal
  <2> QED
    BY <2>2, ForgetsPrivate
<1>4. ASSUME NEW a \in Attachments, NEW kind \in Kinds, NEW seq \in 1 .. MaxSeq,
             BeginCommand(a, kind, seq)
      PROVE  Private' /\ Shape
  <2>1. \A b \in Attachments : pc'[b] = "idle" => pc[b] = "idle"
    BY <1>4 DEF BeginCommand, IndInv, TypeOK
  <2>2. Forgets /\ Shape
    BY <1>4, <2>1, ExpireShape DEF BeginCommand
  <2> QED
    BY <2>2, ForgetsPrivate
<1>5. CASE Deadline
  <2>1. /\ lease'.id = lease.id /\ lease'.token = lease.token
        /\ UNCHANGED <<recovery, generation, leaseIds, tokens, pc, req, held, credential, known,
                       applied>>
    BY <1>5 DEF Deadline, handler, IndInv, TypeOK, Leases
  <2>2. Forgets /\ Shape
    BY <2>1 DEF Forgets, Shape, Kept, Private
  <2> QED
    BY <2>2, ForgetsPrivate
<1>6. ASSUME NEW a \in Attachments, Step(a)
      PROVE  Private' /\ (Shape \/ GrantLease(a))
  <2>1. CASE GrantViewer(a)
    <3>1. \A b \in Attachments : /\ req'[b].peer = req[b].peer
                                 /\ req'[b].token \in {0, req[b].token}
      BY <2>1, DecidedFacts DEF GrantViewer, IndInv
    <3>2. /\ UNCHANGED <<lease, recovery, generation, leaseIds, tokens, held, credential, known,
                         applied>>
          /\ \A b \in Attachments : pc'[b] = "idle" => pc[b] = "idle"
      BY <2>1 DEF GrantViewer, terminal, IndInv, TypeOK
    <3>3. Forgets /\ Shape
      BY <3>1, <3>2 DEF Forgets, Shape, Kept, Private
    <3> QED
      BY <3>3, ForgetsPrivate
  <2>2. CASE Respond(a)
    <3>1. UNCHANGED <<lease, recovery, generation, leaseIds, tokens, req, held, applied>>
      BY <2>2 DEF Respond, terminal
    <3> QED
      BY <2>2, <3>1, RespondPrivate DEF Shape, Kept
  <2>3. CASE LeaseEvent(a)
    <3>1. Forgets /\ Shape
      BY <2>3, StillShape DEF LeaseEvent, terminal
    <3> QED
      BY <3>1, ForgetsPrivate
  <2>4. CASE ExpiryTimer(a)
    <3>1. Forgets /\ Shape
      BY <2>4, ExpireShape DEF ExpiryTimer, handler
    <3> QED
      BY <3>1, ForgetsPrivate
  <2>5. CASE GrantLease(a)
    BY <2>5, GrantPrivate
  <2> QED
    BY <1>6, <2>1, <2>2, <2>3, <2>4, <2>5, RefuseShape, EndShape, CommandShape, ForgetsPrivate
    DEF Step
<1> QED
  BY <1>1, <1>2, <1>3, <1>4, <1>5, <1>6 DEF Next

LEMMA PrivateHolds == Spec => []Private
<1>1. ASSUME Init PROVE Private
  <2>1. /\ lease.id = 0 /\ recovery.client = NoPeer
        /\ \A a \in Attachments : req[a].peer = NoPeer /\ credential[a] = 0
        /\ \A p \in Peers : known[p] = {}
    BY <1>1 DEF Init, NoRequest, NoLease, NoRecovery
  <2>2. \A p \in Peers : \A t \in Tokens : ~Uses(p, t)
    BY <2>1, NoPeerAssumption DEF Uses
  <2> QED
    BY <2>1, <2>2 DEF Private
<1>2. IndInv /\ IndInv' /\ Private /\ [Next]_vars => Private'
  BY NextShape
<1> QED
  BY <1>1, <1>2, Invariance, PTL DEF Spec

---------------------------------------------------------------------------
(* What is over stays over: a credential that no request can use any more  *)
(* is never usable again, and a lease leaves only by its deadline, by a    *)
(* newer grant or through its own handler, never by the delayed cleanup,   *)
(* command or timer of an older attachment (terminal.rs, the lease lock).  *)
THEOREM NoResurrectionHolds == Spec => NoResurrection
<1> DEFINE Over ==
      /\ \A t \in 1 .. MaxGeneration : t <= tokens /\ ~Live(t) => ~Live(t)'
      /\ lease.id # 0 /\ lease'.id # lease.id =>
           \/ Expired(lease)
           \/ lease'.id > leaseIds
           \/ \E a \in Holders : pc'[a] # pc[a]
<1>1. ASSUME IndInv, IndInv', Private, [Next]_vars
      PROVE  Over
  <2>1. CASE Shape
    <3>1. \A t \in 1 .. MaxGeneration : Live(t)' => Live(t)
      <4>1. lease'.token \in {0, lease.token} /\ recovery'.token \in {0, recovery.token}
        <5>1. CASE Kept
          BY <5>1 DEF Kept
        <5>2. CASE Suspended \/ Released
          <6>1. lease' = NoLease /\ (recovery' = recovery \/ recovery' = NoRecovery)
            BY <5>2 DEF Suspended, Released
          <6>2. NoLease.token = 0 /\ NoRecovery.token = 0
            BY DEF NoLease, NoRecovery
          <6> QED
            BY <6>1, <6>2
        <5> QED
          BY <2>1, <5>1, <5>2 DEF Shape, Written
      <4> QED
        BY <4>1 DEF Live
    <3>2. lease'.id # lease.id => Expired(lease) \/ \E a \in Holders : pc'[a] # pc[a]
      BY <2>1 DEF Shape, Kept, Written, Suspended, Released
    <3> QED
      BY <3>1, <3>2
  <2>2. ASSUME NEW a \in Attachments, GrantLease(a)
        PROVE  Over
    <3>1. /\ lease'.id = leaseIds + 1 /\ lease'.token = tokens' /\ recovery'.token \in {0, tokens'}
          /\ IF Resuming(req[a]) THEN tokens' = tokens /\ req[a].token = tokens /\ tokens # 0
                                 ELSE tokens' = tokens + 1
      BY <1>1, <2>2, GrantFacts
    <3>2. leaseIds + 1 > leaseIds /\ tokens \in Nat
      BY <1>1, Counters DEF IndInv
    <3>3. ASSUME NEW t \in 1 .. MaxGeneration, t <= tokens, Live(t)'
          PROVE  Live(t)
      <4>1. t # 0 /\ t = tokens'
        BY <3>1, <3>3, Zenon DEF Live
      <4>2. Resuming(req[a]) /\ tokens' = tokens /\ req[a].token = tokens
        <5>1. ~(tokens + 1 <= tokens)
          BY <3>2
        <5> QED
          BY <3>1, <3>3, <4>1, <5>1, Zenon
      <4>3. Authorized(req[a])
        BY <2>2, <4>2 DEF GrantLease, Admitted
      <4>4. recovery.token = tokens \/ (LeaseNow.id # 0 /\ LeaseNow.token = tokens)
        BY <4>2, <4>3 DEF Authorized
      <4>5. recovery.token = tokens \/ lease.token = tokens
        BY <1>1, <4>4, LeaseNowFacts
      <4> QED
        BY <4>1, <4>2, <4>5, Zenon DEF Live
    <3> QED
      BY <3>1, <3>2, <3>3
  <2> QED
    BY <1>1, <2>1, <2>2, NextShape
<1>2. IndInv /\ IndInv' /\ Private /\ [Next]_vars => [Over]_vars
  BY <1>1
<1> QED
  BY <1>2, Invariance, PrivateHolds, PTL DEF Spec, NoResurrection

---------------------------------------------------------------------------
(* The refinement of InputAuthority.                                       *)

\* The owner is the client of the handler that captured the lease; without
\* a lease, it is the one of the recovery record.
OwnerKnown ==
  /\ \A a \in Attachments : lease.id # 0 /\ held[a] = lease.id => Owner = req[a].peer
  /\ lease.id = 0 => Owner = recovery.client

LEMMA OwnerFacts == IndInv => OwnerKnown
<1> SUFFICES ASSUME IndInv PROVE OwnerKnown
  OBVIOUS
<1>1. ASSUME NEW a \in Attachments, lease.id # 0, held[a] = lease.id
      PROVE  Owner = req[a].peer
  <2>1. Holders = {a}
    BY <1>1 DEF IndInv, Captured, Holders
  <2>2. (CHOOSE b \in Attachments : b \in Holders) = a
    BY <2>1
  <2>3. recovery.client = ClientId(req[a].peer)
    BY <1>1 DEF IndInv, Agreement
  <2> QED
    BY <2>1, <2>2, <2>3 DEF Owner, ClientId
<1>2. ASSUME lease.id = 0
      PROVE  Owner = recovery.client
  BY <1>2 DEF Owner, Holders
<1> QED
  BY <1>1, <1>2 DEF OwnerKnown

LEMMA OwnerFactsNext == IndInv' => OwnerKnown'
  BY OwnerFacts, PTL

\* A step that keeps the lease keeps the owner.
LEMMA KeptOwner ==
  ASSUME IndInv, IndInv', Kept
  PROVE  Owner' = Owner
<1>1. CASE lease.id = 0
  BY <1>1, OwnerFacts, OwnerFactsNext DEF OwnerKnown, Kept
<1>2. CASE lease.id # 0
  <2>1. PICK a \in Attachments : held[a] = lease.id
    BY <1>2 DEF IndInv, Captured
  <2> QED
    BY <1>2, <2>1, OwnerFacts, OwnerFactsNext DEF OwnerKnown, Kept
<1> QED
  BY <1>1, <1>2

\* The shapes are the steps of the abstract specification.
LEMMA ShapeRefines ==
  ASSUME IndInv, IndInv', Shape
  PROVE  [Authority!Next]_(Authority!vars)
<1>1. CASE Kept /\ applied' = applied
  BY <1>1, KeptOwner DEF Kept, Authority!vars
<1>2. CASE Written
  <2>1. PICK seq \in 1 .. MaxSeq : /\ applied' = [id |-> lease.id, seq |-> seq]
                                   /\ Before(applied, [id |-> lease.id, seq |-> seq])
    BY <1>2 DEF Written
  <2>2. Owner' = Owner /\ UNCHANGED <<generation, leaseIds>> /\ lease'.id = lease.id
    BY <1>2, KeptOwner DEF Written, Kept
  <2>3. Authority!Write(seq)
    BY <1>2, <2>1, <2>2 DEF Written, Before, Authority!Write
  <2> QED
    BY <2>3 DEF Authority!Next
<1>3. CASE Suspended
  <2>1. PICK a \in Attachments : held[a] = lease.id
    BY <1>3 DEF Suspended, IndInv, Captured
  <2>2. Owner = req[a].peer /\ recovery.client = ClientId(req[a].peer)
    BY <1>3, <2>1, OwnerFacts DEF OwnerKnown, Suspended, IndInv, Agreement
  <2>3. lease'.id = 0 /\ Owner' = recovery.client
    BY <1>3, OwnerFactsNext DEF OwnerKnown, Suspended, NoLease
  <2>4. Authority!Suspend
    BY <1>3, <2>2, <2>3 DEF Suspended, ClientId, Authority!Suspend
  <2> QED
    BY <2>4 DEF Authority!Next
<1>4. CASE Released
  <2>1. lease'.id = 0 /\ Owner' = NoPeer
    BY <1>4, OwnerFactsNext DEF OwnerKnown, Released, NoLease, NoRecovery
  <2>2. Authority!Release
    BY <1>4, <2>1 DEF Released, Authority!Release
  <2> QED
    BY <2>2 DEF Authority!Next
<1> QED
  BY <1>1, <1>2, <1>3, <1>4 DEF Shape

\* Only the owner resumes: a device by its recovery record, an N-1 client
\* because no one else was ever told the token of its lease.
LEMMA ResumeByOwner ==
  ASSUME IndInv, Private, NEW a \in Attachments, GrantLease(a), Resuming(req[a])
  PROVE  Owner = req[a].peer
<1> DEFINE r == req[a]
<1>0. Authorized(r) /\ tokens \in Tokens
  BY DEF GrantLease, Admitted, IndInv, TypeOK
<1>1. /\ r.peer \in Peers /\ r.peer # NoPeer /\ Authorized(r)
      /\ r.token = tokens /\ tokens # 0 /\ tokens \in Tokens
  BY <1>0, GrantFacts, NoPeerAssumption
<1>2. CASE r.peer \in Resumable
  <2>1. recovery.client = r.peer
    BY <1>2, <1>1 DEF Authorized
  <2> QED
    BY <1>1, <2>1 DEF Owner
<1>3. CASE r.peer \notin Resumable
  <2>1. LeaseNow.id # 0 /\ LeaseNow.token = r.token
    BY <1>1, <1>3 DEF Authorized
  <2>2. lease.id # 0 /\ lease.token = tokens
    BY <1>1, <2>1, LeaseNowFacts
  <2>3. PICK b \in Attachments : held[b] = lease.id
    BY <2>2 DEF IndInv, Captured
  <2>4. Owner = req[b].peer /\ req[b].peer \in Peers
    BY <2>2, <2>3, OwnerFacts DEF OwnerKnown, IndInv, Captured
  <2>5. Uses(req[b].peer, tokens) /\ Uses(r.peer, tokens)
    BY <1>1, <2>2, <2>3 DEF Uses
  <2> QED
    BY <1>1, <2>4, <2>5 DEF Private
<1> QED
  BY <1>2, <1>3

\* A resume is a return of the owner, any other grant opens an epoch.
LEMMA GrantRefines ==
  ASSUME IndInv, IndInv', Private, NEW a \in Attachments, GrantLease(a)
  PROVE  Authority!Next
<1>1. /\ req[a].peer \in Peers /\ req[a].peer # NoPeer
      /\ lease'.id = leaseIds + 1 /\ held'[a] = leaseIds + 1 /\ req'[a].peer = req[a].peer
      /\ applied' = applied
  BY GrantFacts, NoPeerAssumption
<1>2. leaseIds' = leaseIds + 1 /\ leaseIds + 1 # 0
  BY Counters DEF GrantLease, IndInv
<1>3. Owner' = req[a].peer
  BY <1>1, <1>2, OwnerFactsNext DEF OwnerKnown
<1>4. CASE Resuming(req[a])
  <2>1. Owner = req[a].peer /\ generation' = generation
    <3>1. generation' = generation
      BY <1>4 DEF GrantLease
    <3> QED
      BY <1>4, <3>1, ResumeByOwner
  <2>2. Authority!Resume
    BY <1>1, <1>2, <1>3, <2>1 DEF Authority!Resume
  <2> QED
    BY <2>2 DEF Authority!Next
<1>5. CASE ~Resuming(req[a])
  <2>1. generation' = generation + 1
    BY <1>5 DEF GrantLease
  <2>2. Authority!Claim(req[a].peer)
    BY <1>1, <1>2, <1>3, <2>1 DEF Authority!Claim
  <2> QED
    BY <1>1, <2>2 DEF Authority!Next
<1> QED
  BY <1>4, <1>5

(* The lease implements its abstract promise: one client owns the input at *)
(* a time, ownership passes only by a new grant or an explicit takeover,   *)
(* the owner alone comes back within its epoch, and what reaches the PTY   *)
(* is ordered by incarnation and sequence number.                          *)
THEOREM ImplementsAuthorityHolds == Spec => ImplementsAuthority
<1>1. ASSUME Init PROVE Authority!Init
  <2>1. lease.id = 0 /\ recovery.client = NoPeer
    BY <1>1 DEF Init, NoLease, NoRecovery
  <2>2. Owner = NoPeer
    BY <2>1 DEF Owner, Holders
  <2> QED
    BY <1>1, <2>1, <2>2 DEF Init, Authority!Init
<1>2. IndInv /\ IndInv' /\ Private /\ [Next]_vars => [Authority!Next]_(Authority!vars)
  BY NextShape, ShapeRefines, GrantRefines
<1> QED
  BY <1>1, <1>2, Invariance, PrivateHolds, PTL DEF Spec, ImplementsAuthority, Authority!Spec

===========================================================================
