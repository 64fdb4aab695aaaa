---------------------------- MODULE HostIdentity ----------------------------
(***************************************************************************)
(* The state directory of a daemon: `astrad init` (initialize_state of     *)
(* src/server.rs) creates the certificate, the private key, the list of    *)
(* authorized keys and the instance identifier, and `astrad serve` loads   *)
(* them.  Several of these processes may run at once, and each can be      *)
(* killed between any two of its steps.                                    *)
(*                                                                         *)
(* A file is absent, created but still empty, or holds what the process p  *)
(* wrote, which is p itself: the certificate and the key of p are the two  *)
(* halves of the pair p generated.  The checks of owner and mode are left  *)
(* out.                                                                    *)
(***************************************************************************)
EXTENDS Integers, Sequences, FiniteSets

CONSTANTS
  Initializers,  \* processes that run `astrad init`
  Daemons        \* processes that run `astrad serve`

VARIABLES file,                 \* the contents of each file
          process,              \* each runs one command, once
          gateway,              \* the process that holds gateway.lock
          served                \* what each server that started presents

vars == <<file, process, gateway, served>>

Processes == Initializers \cup Daemons
Files == {"cert", "key", "authorized_keys", "instance_id"}
Absent == "absent"
Empty == "empty"
NoProcess == "no process"

\* What a process writes is neither of the other states of a file.
IdentityAssumption == Absent \notin Processes /\ Empty \notin Processes

Init ==
    /\ file = [f \in Files |-> Absent]
    /\ process = [p \in Processes |-> [step |-> "idle"]]
    /\ gateway = NoProcess
    /\ served = {}

Exists(f) == file[f] # Absent

Goto(p, step, f) == process' = [process EXCEPT ![p] = [step |-> step, file |-> f]]

\* The process ends: done, refused or killed.  Its lock goes with it.
End(p) ==
    /\ process' = [process EXCEPT ![p] = [step |-> "ended"]]
    /\ gateway' = IF gateway = p THEN NoProcess ELSE gateway
    /\ UNCHANGED <<file, served>>

-----------------------------------------------------------------------------
(* astrad init *)

\* One of the two files alone is an incomplete identity.
StartInit(p) ==
    /\ p \in Initializers
    /\ process[p].step = "idle"
    /\ CASE ~Exists("cert") /\ ~Exists("key") -> Goto(p, "create", "cert")
         [] Exists("cert") /\ Exists("key") -> Goto(p, "look", "authorized_keys")
         [] OTHER -> process' = [process EXCEPT ![p] = [step |-> "ended"]]
    /\ UNCHANGED <<file, gateway, served>>

\* What follows the file f.
After(p, f) ==
    CASE f = "cert" -> Goto(p, "create", "key")
      [] f = "key" -> Goto(p, "look", "authorized_keys")
      [] f = "authorized_keys" -> Goto(p, "look", "instance_id")
      [] f = "instance_id" -> process' = [process EXCEPT ![p] = [step |-> "ended"]]

Look(p) ==
    /\ process[p].step = "look"
    /\ IF Exists(process[p].file)
       THEN After(p, process[p].file)
       ELSE Goto(p, "create", process[p].file)
    /\ UNCHANGED <<file, gateway, served>>

\* Opening for writing without create_new: a file that is there is emptied.
CreateOrTruncate(p) ==
    /\ process[p].step = "create"
    /\ file' = [file EXCEPT ![process[p].file] = Empty]
    /\ Goto(p, "write", process[p].file)
    /\ UNCHANGED <<gateway, served>>

\* create_new: a file another process made in between fails the command.
Create(p) ==
    /\ process[p].step = "create"
    /\ IF Exists(process[p].file)
       THEN End(p)
       ELSE /\ file' = [file EXCEPT ![process[p].file] = Empty]
            /\ Goto(p, "write", process[p].file)
            /\ UNCHANGED <<gateway, served>>

Write(p) ==
    /\ process[p].step = "write"
    /\ file' = [file EXCEPT ![process[p].file] = p]
    /\ After(p, process[p].file)
    /\ UNCHANGED <<gateway, served>>

-----------------------------------------------------------------------------
(* astrad serve *)

\* ensure_initialized, then the lock: a second server is refused.
StartServe(p) ==
    /\ p \in Daemons
    /\ process[p].step = "idle"
    /\ \A f \in {"cert", "key", "instance_id"} : Exists(f)
    /\ gateway = NoProcess
    /\ gateway' = p
    /\ process' = [process EXCEPT ![p] = [step |-> "instance"]]
    /\ UNCHANGED <<file, served>>

ReadInstance(p) ==
    /\ process[p].step = "instance"
    /\ process' = [process EXCEPT ![p] = [step |-> "certificate", instance |-> file["instance_id"]]]
    /\ UNCHANGED <<file, gateway, served>>

ReadCertificate(p) ==
    /\ process[p].step = "certificate"
    /\ process' = [process EXCEPT ![p] = [step |-> "key", instance |-> @.instance,
                                          certificate |-> file["cert"]]]
    /\ UNCHANGED <<file, gateway, served>>

\* An empty file, or a key of another pair, is an error of the TLS library.
ReadKey(p) ==
    /\ process[p].step = "key"
    /\ IF process[p].certificate # Empty /\ file["key"] = process[p].certificate
       THEN /\ process' = [process EXCEPT ![p] = [step |-> "serving"]]
            /\ served' = served \cup {[instance |-> process[p].instance,
                                       certificate |-> process[p].certificate]}
            /\ UNCHANGED <<file, gateway>>
       ELSE End(p)

Kill(p) == process[p].step \notin {"idle", "ended"} /\ End(p)

Next ==
    \E p \in Processes :
       \/ StartInit(p)
       \/ Look(p)
       \/ Create(p)
       \/ Write(p)
       \/ StartServe(p)
       \/ ReadInstance(p)
       \/ ReadCertificate(p)
       \/ ReadKey(p)
       \/ Kill(p)

Spec == Init /\ [][Next]_vars

-----------------------------------------------------------------------------
(* Properties. *)

\* Every server that ever starts from the directory presents the same
\* certificate, however many `astrad init` ran at once, were killed half way
\* or were run again (server.rs:169): a client that recorded the host never
\* sees it change.
OneIdentity == \A a, b \in served : a.certificate = b.certificate

=============================================================================
