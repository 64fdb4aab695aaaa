-------------------------- MODULE InputAuthority --------------------------
(***************************************************************************)
(* What the input lease of a Terminal promises, without leases, tokens,    *)
(* handlers or clocks: at any time at most one client owns the input and   *)
(* at most one incarnation of that client writes.  Ownership passes to     *)
(* another client only by opening a new epoch; an owner may come back any  *)
(* number of times within its epoch, each time as a new incarnation; what  *)
(* reaches the PTY is ordered by incarnation and sequence number.          *)
(***************************************************************************)
EXTENDS Naturals

CONSTANTS
  Clients,   \* every client
  Durable,   \* the clients whose ownership survives the loss of the writer
  Nobody,    \* no client
  Numbers    \* command sequence numbers

VARIABLES
  owner,     \* the client that may write or come back
  epoch,     \* number of times ownership was granted
  writer,    \* the current incarnation of the owner, 0 when it is away
  minted,    \* incarnations so far
  applied    \* the last command that reached the PTY

vars == <<owner, epoch, writer, minted, applied>>

Init ==
  /\ owner = Nobody
  /\ epoch = 0
  /\ writer = 0
  /\ minted = 0
  /\ applied = [id |-> 0, seq |-> 0]

\* A first grant or an explicit takeover.
Claim(c) ==
  /\ owner' = c
  /\ epoch' = epoch + 1
  /\ writer' = minted + 1
  /\ minted' = minted + 1
  /\ UNCHANGED applied

\* The owner comes back; an incarnation that is still writing is replaced.
Resume ==
  /\ owner # Nobody
  /\ writer' = minted + 1
  /\ minted' = minted + 1
  /\ UNCHANGED <<owner, epoch, applied>>

\* The writer disconnects or lets its deadline pass.
Suspend ==
  /\ writer # 0
  /\ writer' = 0
  /\ owner' = IF owner \in Durable THEN owner ELSE Nobody
  /\ UNCHANGED <<epoch, minted, applied>>

\* The writer gives the input up.
Release ==
  /\ writer # 0
  /\ writer' = 0
  /\ owner' = Nobody
  /\ UNCHANGED <<epoch, minted, applied>>

Write(seq) ==
  /\ writer # 0
  /\ applied.id < writer \/ (applied.id = writer /\ applied.seq < seq)
  /\ applied' = [id |-> writer, seq |-> seq]
  /\ UNCHANGED <<owner, epoch, writer, minted>>

Next ==
  \/ \E c \in Clients : Claim(c)
  \/ Resume \/ Suspend \/ Release
  \/ \E seq \in Numbers : Write(seq)

Spec == Init /\ [][Next]_vars
===========================================================================
