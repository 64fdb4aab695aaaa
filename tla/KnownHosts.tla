----------------------------- MODULE KnownHosts -----------------------------
(***************************************************************************)
(* The file of trusted host certificates (src/known_hosts.rs): several     *)
(* client processes of one user verify the certificate a server presents,  *)
(* and add it to one shared file.  A client takes the lock file, reads the *)
(* file, decides, perhaps asks the user, and replaces the file through a   *)
(* temporary one; the lock is held from the read to the end.  A process    *)
(* can be killed at any step, and the machine can lose power.              *)
(*                                                                         *)
(* A line of the file is a host key and a fingerprint; a line the user     *)
(* wrote by hand may lack its fingerprint (Malformed) or belong to another *)
(* algorithm (Foreign).  The spelling of the lines, the permissions and    *)
(* the ownership of the file are left out: a failed check of those is one  *)
(* of the failures an attempt may end with.                                *)
(***************************************************************************)
EXTENDS Integers, Sequences, SequencesExt

CONSTANTS Clients, Hosts, Certificates,
          MaxConnects           \* verifications the clients start in all

VARIABLES file,                 \* the lines a reader of the file sees
          durable,              \* the lines that survive a loss of power
          lock,                 \* the process that holds the lock file
          client,
          told,                 \* the entries some client reported as added
          connects

vars == <<file, durable, lock, client, told, connects>>

NoClient == "no client"
Malformed == "malformed"
Foreign == "foreign"
Policies == {"yes", "ask", "accept-new", "no"}

\* A fingerprint is 64 hexadecimal digits, a line of this algorithm.
KnownHostsAssumption ==
    /\ NoClient \notin Clients
    /\ Malformed \notin Certificates /\ Foreign \notin Certificates

Line(host, fingerprint) == [host |-> host, fingerprint |-> fingerprint]

Idle == [step |-> "idle", result |-> "none"]

Init ==
    /\ \/ file = <<>>
       \/ \E h \in Hosts, f \in {Malformed, Foreign} : file = <<Line(h, f)>>
    /\ durable = file
    /\ lock = NoClient
    /\ client = [c \in Clients |-> Idle]
    /\ told = {}
    /\ connects = 0

-----------------------------------------------------------------------------
(* Deciding on what was read. *)

\* The line that settles the scan before its end: one without a fingerprint
\* is an error, one with this fingerprint is a known host.
Settling(lines, host, certificate) ==
    SelectInSeq(lines, LAMBDA l : l.host = host /\ l.fingerprint \in {Malformed, certificate})

Expected(lines, host) ==
    {l.fingerprint : l \in {m \in ToSet(lines) : m.host = host}} \ {Foreign}

Verdict(lines, host, certificate, policy) ==
    LET i == Settling(lines, host, certificate)
    IN CASE i # 0 /\ lines[i].fingerprint = certificate -> "known"
         [] i # 0 /\ lines[i].fingerprint = Malformed -> "refused"
         [] i = 0 /\ Expected(lines, host) # {} ->
                IF policy = "no" THEN "accepted" ELSE "changed"
         [] OTHER ->
                CASE policy = "yes" -> "refused"
                  [] policy = "ask" -> "ask"
                  [] policy = "accept-new" -> "append"
                  [] policy = "no" -> "accepted"

-----------------------------------------------------------------------------
(* One verification. *)

\* Returning, with a result or an error, drops the guard of the lock.
Finish(c, result) ==
    /\ client' = [client EXCEPT ![c] = [step |-> "idle", result |-> result]]
    /\ lock' = IF lock = c THEN NoClient ELSE lock

Goto(c, step) == client' = [client EXCEPT ![c].step = step]

Connect(c, host, certificate, policy) ==
    /\ client[c].step = "idle"
    /\ connects < MaxConnects
    /\ connects' = connects + 1
    /\ client' = [client EXCEPT ![c] =
                     [step |-> "lock", result |-> "none", host |-> host,
                      certificate |-> certificate, policy |-> policy, contents |-> <<>>]]
    /\ UNCHANGED <<file, durable, lock, told>>

\* A shared lock in place of the exclusive one.
AcquireShared(c) ==
    /\ client[c].step = "lock"
    /\ lock' = c
    /\ Goto(c, "read")
    /\ UNCHANGED <<file, durable, told, connects>>

Acquire(c) ==
    /\ client[c].step = "lock"
    /\ lock = NoClient
    /\ lock' = c
    /\ Goto(c, "read")
    /\ UNCHANGED <<file, durable, told, connects>>

Read(c) ==
    /\ client[c].step = "read"
    /\ LET me == client[c]
           verdict == Verdict(file, me.host, me.certificate, me.policy)
       IN IF verdict \in {"ask", "append"}
          THEN /\ client' = [client EXCEPT ![c].step = verdict, ![c].contents = file]
               /\ UNCHANGED lock
          ELSE Finish(c, verdict)
    /\ UNCHANGED <<file, durable, told, connects>>

Confirm(c) ==
    /\ client[c].step = "ask"
    /\ \/ Goto(c, "append") /\ UNCHANGED lock
       \/ Finish(c, "refused")
    /\ UNCHANGED <<file, durable, told, connects>>

\* The temporary file is created, written and synced.  A failure removes it.
WriteTemporary(c) ==
    /\ client[c].step = "append"
    /\ \/ Goto(c, "rename") /\ UNCHANGED lock
       \/ Finish(c, "failed")
    /\ UNCHANGED <<file, durable, told, connects>>

Rename(c) ==
    /\ client[c].step = "rename"
    /\ \/ /\ file' = Append(client[c].contents, Line(client[c].host, client[c].certificate))
          /\ Goto(c, "sync")
          /\ UNCHANGED lock
       \/ /\ Finish(c, "failed")
          /\ UNCHANGED file
    /\ UNCHANGED <<durable, told, connects>>

\* A failed sync fails the verification, though the file has its new line.
SyncDirectory(c) ==
    /\ client[c].step = "sync"
    /\ \/ /\ durable' = file
          /\ told' = told \cup {Line(client[c].host, client[c].certificate)}
          /\ Finish(c, "added")
       \/ /\ Finish(c, "failed")
          /\ UNCHANGED <<durable, told>>
    /\ UNCHANGED <<file, connects>>

\* The process is killed; the kernel drops its lock.
Kill(c) ==
    /\ client[c].step # "idle"
    /\ Finish(c, "none")
    /\ UNCHANGED <<file, durable, told, connects>>

\* A rename that was not synced may or may not have reached the disk.
PowerLoss ==
    /\ file' \in {file, durable}
    /\ durable' = file'
    /\ lock' = NoClient
    /\ client' = [c \in Clients |-> Idle]
    /\ UNCHANGED <<told, connects>>

Step(c) ==
    \/ Acquire(c)
    \/ Read(c)
    \/ Confirm(c)
    \/ WriteTemporary(c)
    \/ Rename(c)
    \/ SyncDirectory(c)
    \/ Kill(c)

Next ==
    \/ \E c \in Clients :
          \/ \E h \in Hosts, f \in Certificates, p \in Policies : Connect(c, h, f, p)
          \/ Step(c)
    \/ PowerLoss

Spec == Init /\ [][Next]_vars

-----------------------------------------------------------------------------
(* Properties. *)

\* A certificate a client reported as permanently added
\* (known_hosts.rs:154) is from then on the one the file has for the host:
\* no client that was reading or asking at the time writes the line away or
\* records another certificate beside it, and no loss of power takes it back.
AddedIsKept == \A t \in told : Expected(file, t.host) = {t.fingerprint}

=============================================================================
