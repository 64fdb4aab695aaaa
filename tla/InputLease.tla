---------------------------- MODULE InputLease ----------------------------
(***************************************************************************)
(* Who may write to a Terminal.  A Terminal has at most one input lease,   *)
(* held by the handler of one attachment, and at most one recovery record, *)
(* which lets the device that owned the lease resume after a disconnect.   *)
(* The module models terminal.rs (the lease operations of Terminal) and    *)
(* the part of server.rs that calls them from one attach handler per       *)
(* attachment; handlers run on different threads and meet at the lease     *)
(* lock, so every critical section of that lock is one action.             *)
(*                                                                         *)
(* Abstractions.  UUIDs (lease identifiers, resume tokens) are numbers     *)
(* minted in increasing order, 0 standing for the empty string or an       *)
(* absent value.  The clock is reduced to what the code asks of it: a      *)
(* lease with a deadline is "due" once the deadline has passed.  The       *)
(* bytes of an input and the geometry of a resize are left out; what is    *)
(* kept is which lease and sequence they were applied under.               *)
(***************************************************************************)
EXTENDS Naturals, Sequences, FiniteSets

CONSTANTS
  Peers,          \* client processes or devices
  Resumable,      \* those that negotiated terminal.input_resume v2
  Expiring,       \* those that negotiated terminal.input_lease v1
  Attachments,    \* slots for attach handlers
  NoPeer,         \* no client
  MaxAttachments, \* the attachment quota of the user
  MaxGeneration,  \* the largest recovery generation (u64::MAX in the code)
  MaxLeases,      \* bound: lease identifiers minted
  MaxSeq,         \* bound: command sequence numbers
  EventCap        \* capacity of the lease_events broadcast channel (16)

ASSUME PeersAssumption == Resumable \subseteq Expiring /\ Expiring \subseteq Peers
ASSUME NoPeerAssumption == NoPeer \notin Peers
ASSUME BoundsAssumption ==
  /\ MaxAttachments \in Nat /\ MaxGeneration \in Nat /\ MaxLeases \in Nat
  /\ MaxSeq \in Nat /\ EventCap \in Nat \ {0}

VARIABLES
  lease,       \* Terminal.lease
  recovery,    \* Terminal.recovery
  generation,  \* Terminal.recovery_generation
  leaseIds,    \* lease identifiers minted so far
  tokens,      \* resume tokens minted so far
  pc,          \* where each attach handler is
  req,         \* the AttachRequest of each handler
  held,        \* the lease identifier each handler captured, 0 if none
  credential,  \* the resume token of that grant, until it is sent
  role,        \* AttachmentInfo.role of each attachment
  cmd,         \* the command a handler is validating
  inbox,       \* lease events waiting in each handler's receiver
  lagged,      \* history: has the receiver ever lost an event
  known,       \* the resume tokens each peer has been given
  applied      \* history: the last command that reached the PTY

terminal == <<lease, recovery, generation, leaseIds, tokens>>
handler == <<pc, req, held, credential, role, cmd>>
vars == <<terminal, handler, inbox, lagged, known, applied>>

Tokens == 0 .. MaxGeneration
LeaseIds == 0 .. MaxLeases
Reasons == {"taken_over", "expired", "released"}
Events == [id : LeaseIds, reason : Reasons]
Kinds == {"write", "renew", "release"}   \* write: Input or Resize
Leases == [id : LeaseIds, token : Tokens, last : 0 .. MaxSeq,
           ttl : BOOLEAN, due : BOOLEAN]
Requests == [peer : Peers \cup {NoPeer}, readOnly : BOOLEAN,
             takeover : BOOLEAN, token : Tokens]

NoLease == [id |-> 0, token |-> 0, last |-> 0, ttl |-> FALSE, due |-> FALSE]
NoRecovery == [client |-> NoPeer, token |-> 0]
NoRequest == [peer |-> NoPeer, readOnly |-> FALSE, takeover |-> FALSE, token |-> 0]
NoCommand == [kind |-> "write", seq |-> 0]
NoEvent == [id |-> 0, reason |-> "released"]

Init ==
  /\ lease = NoLease
  /\ recovery = NoRecovery
  /\ generation = 0
  /\ leaseIds = 0
  /\ tokens = 0
  /\ pc = [a \in Attachments |-> "idle"]
  /\ req = [a \in Attachments |-> NoRequest]
  /\ held = [a \in Attachments |-> 0]
  /\ credential = [a \in Attachments |-> 0]
  /\ role = [a \in Attachments |-> "viewer"]
  /\ cmd = [a \in Attachments |-> NoCommand]
  /\ inbox = [a \in Attachments |-> <<>>]
  /\ lagged = [a \in Attachments |-> FALSE]
  /\ known = [p \in Peers |-> {}]
  /\ applied = [id |-> 0, seq |-> 0]

---------------------------------------------------------------------------
(* The lease_events channel: a bounded broadcast.  A receiver that falls   *)
(* EventCap events behind loses the oldest and sees Lagged, which the      *)
(* handler ignores.  A viewer's receiver is never read.                    *)

Listens(a) == pc[a] # "idle" /\ ~req[a].readOnly

Full(a) == Len(inbox[a]) >= EventCap

Push(queue, event) ==
  Append(IF Len(queue) >= EventCap THEN Tail(queue) ELSE queue, event)

\* Send one event (none if its id is 0); the receivers in `leaving` are dropped.
Publish(event, leaving) ==
  LET hears(a) == event.id # 0 /\ Listens(a) IN
  /\ inbox' = [a \in Attachments |->
                 IF a \in leaving THEN <<>>
                 ELSE IF hears(a) THEN Push(inbox[a], event)
                 ELSE inbox[a]]
  /\ lagged' = [a \in Attachments |->
                  a \notin leaving /\ (lagged[a] \/ (hears(a) /\ Full(a)))]

---------------------------------------------------------------------------
(* Attach: the handler subscribes to lease events and registers the        *)
(* attachment, which takes its place in the quota, before it asks for the  *)
(* lease.                                                                  *)

Active == {a \in Attachments : pc[a] # "idle"}

Waiting == {a \in Attachments : pc[a] = "registered"}

Attach(a, p, readOnly, takeover, token) ==
  /\ pc[a] = "idle"
  /\ Cardinality(Active) < MaxAttachments
  /\ readOnly \/ leaseIds + Cardinality(Waiting) < MaxLeases
  /\ pc' = [pc EXCEPT ![a] = "registered"]
  /\ req' = [req EXCEPT ![a] = [peer |-> p, readOnly |-> readOnly,
                                takeover |-> takeover, token |-> token]]
  /\ role' = [role EXCEPT ![a] = IF readOnly THEN "viewer" ELSE "controller"]
  /\ UNCHANGED <<terminal, held, credential, cmd, inbox, lagged, known, applied>>

\* What every exit of the handler does to the handler's own state.
Gone(a) ==
  /\ pc' = [pc EXCEPT ![a] = "idle"]
  /\ req' = [req EXCEPT ![a] = NoRequest]
  /\ held' = [held EXCEPT ![a] = 0]
  /\ credential' = [credential EXCEPT ![a] = 0]
  /\ role' = [role EXCEPT ![a] = "viewer"]
  /\ cmd' = [cmd EXCEPT ![a] = NoCommand]

---------------------------------------------------------------------------
(* acquire_resumable_lease_at, one critical section of the lease lock.     *)

Expired(l) == l.ttl /\ l.due

LeaseNow == IF Expired(lease) THEN NoLease ELSE lease

ClientId(p) == IF p \in Resumable THEN p ELSE NoPeer

Resuming(r) == ~r.takeover /\ r.token # 0

\* Mutant: the token of the request is not compared with the record.
AuthorizedByClient(r) ==
  IF r.peer \in Resumable
    THEN recovery.client = r.peer
    ELSE recovery = NoRecovery /\ LeaseNow.id # 0 /\ LeaseNow.token = r.token

\* Mutant: any token of an N-1 peer resumes whatever lease is active.
AuthorizedByAnyToken(r) ==
  IF r.peer \in Resumable
    THEN recovery.client = r.peer /\ recovery.token = r.token
    ELSE LeaseNow.id # 0

Authorized(r) ==
  IF r.peer \in Resumable
    THEN recovery.client = r.peer /\ recovery.token = r.token
    ELSE recovery = NoRecovery /\ LeaseNow.id # 0 /\ LeaseNow.token = r.token

Admitted(r) ==
  IF Resuming(r)
    THEN Authorized(r)
    ELSE /\ r.takeover \/ (LeaseNow.id = 0 /\ recovery = NoRecovery)
         /\ generation < MaxGeneration

ExpiryEvent ==
  IF Expired(lease) THEN [id |-> lease.id, reason |-> "expired"] ELSE NoEvent

\* Mutant: only an expiry is announced.
RevocationEventOfExpiry == ExpiryEvent

\* Any request that replaces a lease revokes it as taken over, a resume too.
RevocationEvent ==
  IF LeaseNow.id # 0 THEN [id |-> lease.id, reason |-> "taken_over"] ELSE ExpiryEvent

\* The credentials of a request are not used after it has been decided.
Decided(a) ==
  req' = [req EXCEPT ![a] = [peer |-> req[a].peer, readOnly |-> req[a].readOnly,
                             takeover |-> FALSE, token |-> 0]]

GrantViewer(a) ==
  /\ pc[a] = "registered"
  /\ req[a].readOnly
  /\ pc' = [pc EXCEPT ![a] = "granted"]
  /\ Decided(a)
  /\ UNCHANGED <<terminal, held, credential, role, cmd, inbox, lagged, known, applied>>

RefuseLease(a) ==
  /\ pc[a] = "registered"
  /\ ~req[a].readOnly
  /\ ~Admitted(req[a])
  /\ lease' = LeaseNow
  /\ Publish(ExpiryEvent, {a})
  /\ Gone(a)
  /\ UNCHANGED <<recovery, generation, leaseIds, tokens, known, applied>>

GrantLease(a) ==
  LET r == req[a]
      token == IF Resuming(r) THEN r.token ELSE tokens + 1
  IN
  /\ pc[a] = "registered"
  /\ ~r.readOnly
  /\ Admitted(r)
  /\ leaseIds < MaxLeases
  /\ generation' = IF Resuming(r) THEN generation ELSE generation + 1
  /\ tokens' = IF Resuming(r) THEN tokens ELSE tokens + 1
  /\ leaseIds' = leaseIds + 1
  /\ recovery' = IF ClientId(r.peer) # NoPeer
                   THEN [client |-> r.peer, token |-> token]
                   ELSE NoRecovery
  /\ lease' = [id |-> leaseIds + 1, token |-> token, last |-> 0,
               ttl |-> r.peer \in Expiring, due |-> FALSE]
  /\ Publish(RevocationEvent, {})
  /\ held' = [held EXCEPT ![a] = leaseIds + 1]
  /\ credential' = [credential EXCEPT ![a] = token]
  /\ pc' = [pc EXCEPT ![a] = "granted"]
  /\ Decided(a)
  /\ UNCHANGED <<role, cmd, known, applied>>

\* The AttachResponse and the first state are written; the peer has its token.
Respond(a) ==
  /\ pc[a] = "granted"
  /\ pc' = [pc EXCEPT ![a] = "live"]
  /\ known' = [known EXCEPT ![req[a].peer] = @ \cup ({credential[a]} \ {0})]
  /\ credential' = [credential EXCEPT ![a] = 0]
  /\ UNCHANGED <<terminal, req, held, role, cmd, inbox, lagged, applied>>

---------------------------------------------------------------------------
(* Commands on the attach stream.  The handler checks the lease named in   *)
(* the command against the one it captured; Terminal then expires the      *)
(* lease in one critical section and validates and applies the command in  *)
(* a second one, so another handler's step may come between.  An error     *)
(* ends the handler's loop.                                                *)

LeaseControl == {"renew", "release"}

\* A command from a viewer, or lease control that was not negotiated.
RejectCommand(a, kind) ==
  /\ pc[a] = "live"
  /\ \/ held[a] = 0
     \/ kind \in LeaseControl /\ req[a].peer \notin Expiring
  /\ pc' = [pc EXCEPT ![a] = "ending"]
  /\ UNCHANGED <<terminal, req, held, credential, role, cmd, inbox, lagged, known, applied>>

\* expire_lease_if_due_at for the lease identifier of handler a.
ExpireIfDue(a) ==
  LET expires == lease.id = held[a] /\ Expired(lease) IN
  /\ lease' = IF expires THEN NoLease ELSE lease
  /\ Publish(IF expires THEN [id |-> held[a], reason |-> "expired"] ELSE NoEvent, {})

BeginCommand(a, kind, seq) ==
  /\ pc[a] = "live"
  /\ held[a] # 0
  /\ kind \in LeaseControl => req[a].peer \in Expiring
  /\ ExpireIfDue(a)
  /\ cmd' = [cmd EXCEPT ![a] = [kind |-> kind, seq |-> seq]]
  /\ pc' = [pc EXCEPT ![a] = "validating"]
  /\ UNCHANGED <<recovery, generation, leaseIds, tokens, req, held, credential, role,
                 known, applied>>

\* Mutant: the sequence number is not compared.
ValidAnySequence(a) == lease.id = held[a]

\* The second half of validate_lease_at.
Valid(a) ==
  /\ lease.id = held[a]
  /\ cmd[a].seq > lease.last

CommandDone(a, next) ==
  /\ pc' = [pc EXCEPT ![a] = next]
  /\ cmd' = [cmd EXCEPT ![a] = NoCommand]
  /\ UNCHANGED <<generation, leaseIds, tokens, req, held, credential, role, known>>

FailCommand(a) ==
  /\ pc[a] = "validating"
  /\ ~Valid(a)
  /\ CommandDone(a, "ending")
  /\ UNCHANGED <<lease, recovery, inbox, lagged, applied>>

\* write_input and resize: the effect comes first, the sequence is consumed
\* only when the effect succeeded.
ApplyCommand(a) ==
  /\ pc[a] = "validating"
  /\ cmd[a].kind = "write"
  /\ Valid(a)
  /\ applied' = [id |-> held[a], seq |-> cmd[a].seq]
  /\ lease' = [lease EXCEPT !.last = cmd[a].seq]
  /\ CommandDone(a, "live")
  /\ UNCHANGED <<recovery, inbox, lagged>>

\* write_all, flush or the PTY resize fails, perhaps after a part of the
\* bytes, or the server grid's new size, has taken effect.
ApplyFails(a) ==
  /\ pc[a] = "validating"
  /\ cmd[a].kind = "write"
  /\ Valid(a)
  /\ applied' = [id |-> held[a], seq |-> cmd[a].seq]
  /\ CommandDone(a, "ending")
  /\ UNCHANGED <<lease, recovery, inbox, lagged>>

RenewLease(a) ==
  /\ pc[a] = "validating"
  /\ cmd[a].kind = "renew"
  /\ Valid(a)
  /\ lease' = [lease EXCEPT !.ttl = TRUE, !.due = FALSE, !.last = cmd[a].seq]
  /\ CommandDone(a, "live")
  /\ UNCHANGED <<recovery, inbox, lagged, applied>>

ReleaseLeaseCommand(a) ==
  /\ pc[a] = "validating"
  /\ cmd[a].kind = "release"
  /\ Valid(a)
  /\ lease' = NoLease
  /\ recovery' = NoRecovery
  /\ Publish([id |-> held[a], reason |-> "released"], {})
  /\ CommandDone(a, "live")
  /\ UNCHANGED applied

---------------------------------------------------------------------------
(* The rest of the select loop, and its end.                               *)

\* lease_events.recv(): a revocation of its own lease demotes the attachment.
LeaseEvent(a) ==
  /\ pc[a] = "live"
  /\ held[a] # 0
  /\ inbox[a] # <<>>
  /\ inbox' = [inbox EXCEPT ![a] = Tail(@)]
  /\ role' = IF Head(inbox[a]).id = held[a]
               THEN [role EXCEPT ![a] = "viewer"] ELSE role
  /\ UNCHANGED <<terminal, pc, req, held, credential, cmd, lagged, known, applied>>

\* wait_for_lease_expiry fires.
ExpiryTimer(a) ==
  /\ pc[a] = "live"
  /\ held[a] # 0
  /\ lease.id = held[a]
  /\ Expired(lease)
  /\ ExpireIfDue(a)
  /\ UNCHANGED <<recovery, generation, leaseIds, tokens, handler, known, applied>>

\* Mutant: the handler leaves its lease behind.
EndKeepsLease(a) ==
  /\ pc[a] \in {"granted", "live", "ending"}
  /\ lease' = lease
  /\ Gone(a)
  /\ Publish(NoEvent, {a})
  /\ UNCHANGED <<recovery, generation, leaseIds, tokens, known, applied>>

\* Detach, EOF, exit of the process, an error, or cancellation of the task at
\* an await: the ReleaseLease guard clears the lease if it is still this one.
End(a) ==
  /\ pc[a] \in {"granted", "live", "ending"}
  /\ lease' = IF held[a] # 0 /\ lease.id = held[a] THEN NoLease ELSE lease
  /\ Gone(a)
  /\ Publish(NoEvent, {a})
  /\ UNCHANGED <<recovery, generation, leaseIds, tokens, known, applied>>

\* The lease's deadline passes.
Deadline ==
  /\ lease.ttl /\ ~lease.due
  /\ lease' = [lease EXCEPT !.due = TRUE]
  /\ UNCHANGED <<recovery, generation, leaseIds, tokens, handler, inbox, lagged, known,
                 applied>>

Step(a) ==
  \/ GrantViewer(a) \/ RefuseLease(a) \/ GrantLease(a) \/ Respond(a)
  \/ FailCommand(a) \/ ApplyCommand(a) \/ ApplyFails(a)
  \/ RenewLease(a) \/ ReleaseLeaseCommand(a)
  \/ LeaseEvent(a) \/ ExpiryTimer(a) \/ End(a)

Next ==
  \/ \E a \in Attachments :
       \/ \E p \in Peers, readOnly, takeover \in BOOLEAN :
            \E token \in known[p] \cup {0} : Attach(a, p, readOnly, takeover, token)
       \/ \E kind \in Kinds : RejectCommand(a, kind)
       \/ \E kind \in Kinds, seq \in 1 .. MaxSeq : BeginCommand(a, kind, seq)
       \/ Step(a)
  \/ Deadline

Spec == Init /\ [][Next]_vars

---------------------------------------------------------------------------
TypeOK ==
  /\ lease \in Leases
  /\ recovery \in [client : Resumable \cup {NoPeer}, token : Tokens]
  /\ generation \in 0 .. MaxGeneration
  /\ leaseIds \in LeaseIds
  /\ tokens \in Tokens
  /\ pc \in [Attachments -> {"idle", "registered", "granted", "live",
                             "validating", "ending"}]
  /\ req \in [Attachments -> Requests]
  /\ held \in [Attachments -> LeaseIds]
  /\ credential \in [Attachments -> Tokens]
  /\ role \in [Attachments -> {"viewer", "controller"}]
  /\ cmd \in [Attachments -> [kind : Kinds, seq : 0 .. MaxSeq]]
  /\ inbox \in [Attachments -> Seq(Events)]
  /\ lagged \in [Attachments -> BOOLEAN]
  /\ known \in [Peers -> SUBSET (1 .. MaxGeneration)]
  /\ applied \in [id : LeaseIds, seq : 0 .. MaxSeq]

---------------------------------------------------------------------------
(* Properties.                                                             *)

\* A resume token that some request could still use.
Live(t) == t # 0 /\ (recovery.token = t \/ lease.token = t)

Before(x, y) == x.id < y.id \/ (x.id = y.id /\ x.seq < y.seq)

\* The handlers that captured the current lease.
Holders == {a \in Attachments : lease.id # 0 /\ held[a] = lease.id}

(* Authority is never split: every live credential is the newest one       *)
(* minted, and while a lease is active it agrees with the recovery record  *)
(* on the client and on the token (acquire_resumable_lease_at replaces     *)
(* both, release_lease_command clears both, expiry and cleanup only the    *)
(* lease).                                                                 *)
OneAuthority ==
  /\ \A t \in 1 .. MaxGeneration : Live(t) => t = tokens
  /\ \A a \in Holders : recovery.client = ClientId(req[a].peer)

(* A lease is never orphaned: exactly one running handler captured it, and *)
(* that handler will clear it when it ends, however it ends (the           *)
(* ReleaseLease drop guard of handle_attach_inner).                        *)
NoOrphanLease ==
  lease.id # 0 => \E a \in Attachments :
                    /\ Holders = {a}
                    /\ pc[a] \in {"granted", "live", "validating", "ending"}

(* Fencing and at-most-once: a command that passes validate_lease is newer *)
(* than everything that has reached the PTY, under any lease, even after a *)
(* write that failed half way without consuming its sequence number.       *)
NoReplay ==
  \A a \in Attachments :
    pc[a] = "validating" /\ Valid(a) =>
      Before(applied, [id |-> held[a], seq |-> cmd[a].seq])

RevocationPending(a) == \E i \in DOMAIN inbox[a] : inbox[a][i].id = held[a]

(* An attachment shown as controller owns the lease, or the revocation is  *)
(* still in its receiver, unless the receiver lagged.                      *)
RoleFollowsLease ==
  \A a \in Attachments :
    /\ pc[a] \in {"granted", "live", "validating"}
    /\ role[a] = "controller"
    /\ ~lagged[a]
    => lease.id = held[a] \/ RevocationPending(a)

(* What is over stays over.  A credential that stopped being usable, by    *)
(* takeover, explicit release, or for an N-1 peer by expiry or detach,     *)
(* never becomes usable again.  And a lease leaves only because its        *)
(* deadline passed, a newer grant replaced it, or its own handler gave it  *)
(* up: the delayed cleanup, command or timer of an older attachment never  *)
(* touches it.                                                             *)
NoResurrection ==
  [][/\ \A t \in 1 .. MaxGeneration : t <= tokens /\ ~Live(t) => ~Live(t)'
     /\ lease.id # 0 /\ lease'.id # lease.id =>
          \/ Expired(lease)
          \/ lease'.id > leaseIds
          \/ \E a \in Holders : pc'[a] # pc[a]]_vars

\* The client behind the lease or the recovery record.
Owner ==
  IF recovery.client # NoPeer THEN recovery.client
  ELSE IF Holders # {} THEN req[CHOOSE a \in Attachments : a \in Holders].peer
  ELSE NoPeer

Authority == INSTANCE InputAuthority WITH
  Clients <- Peers, Durable <- Resumable, Nobody <- NoPeer, Numbers <- 1 .. MaxSeq,
  owner <- Owner, epoch <- generation, writer <- lease.id, minted <- leaseIds

(* The abstract promise, with the client behind the lease as its owner:    *)
(* ownership passes to another client only by a new grant, never by a      *)
(* resume, an expiry or a stale step, and what reaches the PTY is ordered. *)
ImplementsAuthority == Authority!Spec
===========================================================================
