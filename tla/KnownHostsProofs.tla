--------------------------- MODULE KnownHostsProofs ---------------------------
(***************************************************************************)
(* What a client reported as permanently added stays in the file, for any  *)
(* clients, hosts and certificates, any number of verifications, kills and *)
(* losses of power.                                                        *)
(*                                                                         *)
(* The lock makes the step from reading the file to replacing it one: what *)
(* a client decided on is still the file when it renames, and a host it    *)
(* adds is one the file did not have.  The directory is synced before the  *)
(* client reports, so both the file and what a loss of power leaves of it  *)
(* have the entry.                                                         *)
(***************************************************************************)
EXTENDS KnownHosts, WellFoundedInduction, TLAPS

Lines == [host : Hosts, fingerprint : Certificates \cup {Malformed, Foreign}]

Results == {"none", "known", "refused", "accepted", "changed", "failed", "added"}

Holding == {"read", "ask", "append", "rename", "sync"}

ClientStates ==
    [step : {"idle"}, result : Results]
    \cup [step : {"lock"} \cup Holding, result : Results, host : Hosts,
          certificate : Certificates, policy : Policies, contents : Seq(Lines)]

TypeOK ==
    /\ file \in Seq(Lines) /\ durable \in Seq(Lines)
    /\ lock \in Clients \cup {NoClient}
    /\ client \in [Clients -> ClientStates]
    /\ told \subseteq [host : Hosts, fingerprint : Certificates]

\* The lock is held from the read to the end.
Locked == \A c \in Clients : client[c].step \in Holding => lock = c

\* What a client decided on is what it is about to replace.
Decided ==
    \A c \in Clients :
       /\ client[c].step \in {"ask", "append", "rename"} =>
             client[c].contents = file /\ Expected(file, client[c].host) = {}
       /\ client[c].step = "sync" =>
             Expected(file, client[c].host) = {client[c].certificate}

\* An entry that was reported is the only one of its host, on the disk too.
Kept ==
    \A t \in told : /\ Expected(file, t.host) = {t.fingerprint}
                    /\ Expected(durable, t.host) = {t.fingerprint}

IndInv == TypeOK /\ Locked /\ Decided /\ Kept

-------------------------------------------------------------------------------
(* The operators the decision is made of.                                  *)

LEMMA MinFact ==
  ASSUME NEW I \in SUBSET Nat, I # {}
  PROVE  Min(I) \in I
<1>1. PICK x \in I : \A y \in I : ~(<<y, x>> \in OpToRel(<, Nat))
  BY NatLessThanWellFounded, WFMin
<1>2. ASSUME NEW y \in I, y < x
      PROVE  FALSE
  <2>1. <<y, x>> \in Nat \X Nat
    OBVIOUS
  <2>2. <<y, x>>[1] < <<y, x>>[2]
    BY <1>2
  <2>3. <<y, x>> \in OpToRel(<, Nat)
    BY <2>1, <2>2, Zenon DEF OpToRel
  <2> QED
    BY <1>1, <2>3
<1>3. \A y \in I : x <= y
  BY <1>2
<1> QED
  BY <1>3 DEF Min

LEMMA SettlingFact ==
  ASSUME NEW lines \in Seq(Lines), NEW host, NEW certificate,
         Settling(lines, host, certificate) # 0
  PROVE  lines[Settling(lines, host, certificate)].fingerprint \in {Malformed, certificate}
<1> DEFINE I == {i \in 1..Len(lines) : lines[i].host = host
                    /\ lines[i].fingerprint \in {Malformed, certificate}}
<1>1. Settling(lines, host, certificate) = IF I # {} THEN Min(I) ELSE 0
  BY DEF Settling, SelectInSeq
<1>2. I # {} /\ I \in SUBSET Nat
  BY <1>1
<1>3. Min(I) \in I
  BY <1>2, MinFact
<1> QED
  BY <1>1, <1>2, <1>3

(* A client asks its user or appends only for a host the file lacks.       *)
LEMMA VerdictFact ==
  ASSUME NEW lines \in Seq(Lines), NEW host \in Hosts, NEW certificate \in Certificates,
         NEW policy \in Policies
  PROVE  /\ Verdict(lines, host, certificate, policy) \in Results \cup {"ask", "append"}
         /\ Verdict(lines, host, certificate, policy) \in {"ask", "append"} =>
               Expected(lines, host) = {}
<1> DEFINE i == Settling(lines, host, certificate)
<1>1. i # 0 => lines[i].fingerprint \in {Malformed, certificate}
  BY SettlingFact
<1> HIDE DEF i
<1>2. CASE i # 0 /\ lines[i].fingerprint = certificate
  BY <1>2 DEF Verdict, i, Results
<1>3. CASE i # 0 /\ lines[i].fingerprint # certificate
  BY <1>1, <1>3 DEF Verdict, i, Results
<1>4. CASE i = 0 /\ Expected(lines, host) # {}
  BY <1>4 DEF Verdict, i, Results
<1>5. CASE i = 0 /\ Expected(lines, host) = {}
  BY <1>5 DEF Verdict, i, Results, Policies
<1> QED
  BY <1>2, <1>3, <1>4, <1>5

LEMMA ExpectedAppend ==
  ASSUME NEW lines \in Seq(Lines), NEW l \in Lines, NEW host
  PROVE  Expected(Append(lines, l), host) =
           Expected(lines, host) \cup (IF l.host = host THEN {l.fingerprint} \ {Foreign} ELSE {})
<1>1. ToSet(Append(lines, l)) = ToSet(lines) \cup {l}
  <2>1. /\ DOMAIN Append(lines, l) = 1..(Len(lines) + 1) /\ DOMAIN lines = 1..Len(lines)
        /\ Len(lines) \in Nat
        /\ \A i \in 1..Len(lines) : Append(lines, l)[i] = lines[i]
        /\ Append(lines, l)[Len(lines) + 1] = l
    OBVIOUS
  <2>2. \A i \in 1..(Len(lines) + 1) : i \in 1..Len(lines) \/ i = Len(lines) + 1
    BY <2>1
  <2>3. 1..Len(lines) \subseteq 1..(Len(lines) + 1) /\ Len(lines) + 1 \in 1..(Len(lines) + 1)
    BY <2>1
  <2> QED
    BY <2>1, <2>2, <2>3, Zenon DEF ToSet
<1> QED
  BY <1>1 DEF Expected

-------------------------------------------------------------------------------
LEMMA InitIndInv ==
  ASSUME KnownHostsAssumption, Init
  PROVE  IndInv
<1>1. file \in Seq(Lines)
  <2>1. CASE file = <<>>
    BY <2>1
  <2>2. ASSUME NEW h \in Hosts, NEW f \in {Malformed, Foreign}, file = <<Line(h, f)>>
        PROVE  file \in Seq(Lines)
    <3>1. Line(h, f) \in Lines
      BY DEF Line, Lines
    <3> QED
      BY <2>2, <3>1
  <2> QED
    BY <2>1, <2>2 DEF Init
<1>2. TypeOK
  BY <1>1 DEF Init, TypeOK, ClientStates, Idle, Results
<1>3. Locked /\ Decided /\ Kept
  BY DEF Init, Locked, Decided, Kept, Idle, Holding
<1> QED
  BY <1>2, <1>3 DEF IndInv

\* A step that leaves the file alone and moves one client to a state that
\* fits the file and the lock.
LEMMA MoveFact ==
  ASSUME IndInv, NEW c \in Clients, NEW state \in ClientStates,
         client' = [client EXCEPT ![c] = state],
         UNCHANGED <<file, durable, told>>,
         \/ lock' = lock /\ (state.step \in Holding => lock = c)
         \/ lock = NoClient /\ lock' = c
         \/ state.step = "idle" /\ lock' = IF lock = c THEN NoClient ELSE lock,
         NoClient \notin Clients,
         state.step \in {"ask", "append", "rename"} =>
            state.contents = file /\ Expected(file, state.host) = {},
         state.step # "sync"
  PROVE  IndInv'
<1>1. TypeOK'
  BY DEF IndInv, TypeOK
<1>2. \A d \in Clients : client'[d] = IF d = c THEN state ELSE client[d]
  BY DEF IndInv, TypeOK
<1>3. Locked'
  BY <1>2 DEF IndInv, Locked, Holding
<1>4. Decided'
  BY <1>2 DEF IndInv, Decided
<1>5. Kept'
  BY DEF IndInv, Kept
<1> QED
  BY <1>1, <1>3, <1>4, <1>5 DEF IndInv

LEMMA FinishFact ==
  ASSUME KnownHostsAssumption, IndInv, NEW c \in Clients, NEW result \in Results,
         Finish(c, result), UNCHANGED <<file, durable, told>>
  PROVE  IndInv'
<1> DEFINE state == [step |-> "idle", result |-> result]
<1>1. state \in ClientStates /\ state.step = "idle"
  BY DEF ClientStates
<1>2. /\ client' = [client EXCEPT ![c] = state]
      /\ lock' = IF lock = c THEN NoClient ELSE lock
  BY DEF Finish
<1> HIDE DEF state
<1> QED
  BY <1>1, <1>2, MoveFact DEF KnownHostsAssumption

\* A client that is not idle has all its fields, and Goto keeps them.
LEMMA GotoFact ==
  ASSUME IndInv, NEW c \in Clients, client[c].step # "idle", NEW step \in Holding, Goto(c, step)
  PROVE  \E state \in ClientStates :
            /\ client' = [client EXCEPT ![c] = state]
            /\ state.step = step
            /\ state.contents = client[c].contents
            /\ state.host = client[c].host
            /\ state.certificate = client[c].certificate
<1> DEFINE state == [client[c] EXCEPT !.step = step]
<1>1. client[c] \in [step : {"lock"} \cup Holding, result : Results, host : Hosts,
                     certificate : Certificates, policy : Policies, contents : Seq(Lines)]
  BY DEF IndInv, TypeOK, ClientStates
<1>2. /\ state \in ClientStates /\ state.step = step
      /\ state.contents = client[c].contents /\ state.host = client[c].host
      /\ state.certificate = client[c].certificate
  BY <1>1 DEF ClientStates
<1>3. client' = [client EXCEPT ![c] = state]
  BY DEF Goto
<1> QED
  BY <1>2, <1>3

-------------------------------------------------------------------------------
LEMMA ConnectStep ==
  ASSUME KnownHostsAssumption, IndInv, NEW c \in Clients, NEW h \in Hosts,
         NEW f \in Certificates, NEW p \in Policies, Connect(c, h, f, p)
  PROVE  IndInv'
<1> DEFINE state == [step |-> "lock", result |-> "none", host |-> h, certificate |-> f,
                     policy |-> p, contents |-> <<>>]
<1>1. state \in ClientStates /\ state.step = "lock"
  BY DEF ClientStates, Results
<1>2. client' = [client EXCEPT ![c] = state] /\ UNCHANGED <<file, durable, lock, told>>
  BY DEF Connect
<1> HIDE DEF state
<1> QED
  BY <1>1, <1>2, MoveFact DEF KnownHostsAssumption, Holding

LEMMA AcquireStep ==
  ASSUME KnownHostsAssumption, IndInv, NEW c \in Clients, Acquire(c)
  PROVE  IndInv'
<1>1. PICK state \in ClientStates :
         client' = [client EXCEPT ![c] = state] /\ state.step = "read"
  BY GotoFact DEF Acquire, Holding
<1>2. lock = NoClient /\ lock' = c /\ UNCHANGED <<file, durable, told>>
  BY DEF Acquire
<1> QED
  BY <1>1, <1>2, MoveFact DEF KnownHostsAssumption

LEMMA ReadStep ==
  ASSUME KnownHostsAssumption, IndInv, NEW c \in Clients, Read(c)
  PROVE  IndInv'
<1> DEFINE verdict == Verdict(file, client[c].host, client[c].certificate, client[c].policy)
<1>1. /\ client[c].step = "read" /\ lock = c
      /\ client[c] \in [step : {"lock"} \cup Holding, result : Results, host : Hosts,
                        certificate : Certificates, policy : Policies, contents : Seq(Lines)]
      /\ UNCHANGED <<file, durable, told>>
  BY DEF Read, IndInv, TypeOK, Locked, Holding, ClientStates
<1>2. /\ verdict \in Results \cup {"ask", "append"}
      /\ verdict \in {"ask", "append"} => Expected(file, client[c].host) = {}
  BY <1>1, VerdictFact DEF IndInv, TypeOK
<1> HIDE DEF verdict
<1>3. CASE verdict \in {"ask", "append"}
  <2> DEFINE state == [client[c] EXCEPT !.step = verdict, !.contents = file]
  <2>1. client' = [client EXCEPT ![c] = state] /\ lock' = lock
    BY <1>3 DEF Read, verdict
  <2>2. /\ state \in ClientStates /\ state.step = verdict
        /\ state.contents = file /\ state.host = client[c].host
    BY <1>1, <1>3 DEF ClientStates, Holding, IndInv, TypeOK
  <2> HIDE DEF state
  <2> QED
    BY <1>1, <1>2, <1>3, <2>1, <2>2, MoveFact DEF KnownHostsAssumption
<1>4. CASE verdict \notin {"ask", "append"}
  <2>1. Finish(c, verdict)
    BY <1>4 DEF Read, verdict
  <2> QED
    BY <1>1, <1>2, <1>4, <2>1, FinishFact
<1> QED
  BY <1>3, <1>4

\* The steps of a client between its decision and the rename.
LEMMA PrepareStep ==
  ASSUME KnownHostsAssumption, IndInv, NEW c \in Clients, Confirm(c) \/ WriteTemporary(c)
  PROVE  IndInv'
<1>1. /\ client[c].step \in {"ask", "append"} /\ lock = c
      /\ client[c].contents = file /\ Expected(file, client[c].host) = {}
      /\ UNCHANGED <<file, durable, told>>
  BY DEF Confirm, WriteTemporary, IndInv, Locked, Decided, Holding
<1>2. ASSUME NEW step \in {"append", "rename"}, Goto(c, step), lock' = lock
      PROVE  IndInv'
  <2>1. PICK state \in ClientStates :
            /\ client' = [client EXCEPT ![c] = state]
            /\ state.step = step
            /\ state.contents = client[c].contents
            /\ state.host = client[c].host
    BY <1>1, <1>2, GotoFact DEF Holding
  <2> QED
    BY <1>1, <1>2, <2>1, MoveFact DEF KnownHostsAssumption
<1>3. ASSUME NEW result \in {"refused", "failed"}, Finish(c, result)
      PROVE  IndInv'
  BY <1>1, <1>3, FinishFact DEF Results
<1> QED
  BY <1>2, <1>3 DEF Confirm, WriteTemporary

LEMMA RenameStep ==
  ASSUME KnownHostsAssumption, IndInv, NEW c \in Clients, Rename(c)
  PROVE  IndInv'
<1> DEFINE l == Line(client[c].host, client[c].certificate)
<1>1. /\ client[c].step = "rename" /\ lock = c
      /\ client[c].contents = file /\ Expected(file, client[c].host) = {}
      /\ client[c] \in [step : {"lock"} \cup Holding, result : Results, host : Hosts,
                        certificate : Certificates, policy : Policies, contents : Seq(Lines)]
      /\ UNCHANGED <<durable, told>>
  BY DEF Rename, IndInv, TypeOK, Locked, Decided, Holding, ClientStates
<1>2. CASE Finish(c, "failed") /\ UNCHANGED file
  BY <1>1, <1>2, FinishFact DEF Results
<1>3. CASE file' = Append(file, l) /\ Goto(c, "sync") /\ UNCHANGED lock
  <2>1. PICK state \in ClientStates :
            /\ client' = [client EXCEPT ![c] = state]
            /\ state.step = "sync"
            /\ state.host = client[c].host
            /\ state.certificate = client[c].certificate
    BY <1>1, <1>3, GotoFact DEF Holding
  <2>2. \A d \in Clients : client'[d] = IF d = c THEN state ELSE client[d]
    BY <2>1 DEF IndInv, TypeOK
  <2>3. /\ l \in Lines /\ l.host = client[c].host /\ l.fingerprint = client[c].certificate
        /\ l.fingerprint # Foreign
    BY <1>1 DEF Line, Lines, KnownHostsAssumption
  <2> HIDE DEF l
  <2>4. TypeOK'
    BY <1>1, <1>3, <2>1, <2>3 DEF IndInv, TypeOK
  <2>5. Locked'
    BY <1>1, <1>3, <2>2 DEF IndInv, Locked
  <2>6. /\ Expected(file', client[c].host) = {client[c].certificate}
        /\ \A h : h # client[c].host => Expected(file', h) = Expected(file, h)
    <3>1. file \in Seq(Lines) /\ file' = Append(file, l)
      BY <1>3 DEF IndInv, TypeOK
    <3>2. \A h : Expected(file', h) = Expected(file, h) \cup
                    (IF l.host = h THEN {l.fingerprint} \ {Foreign} ELSE {})
      BY <2>3, <3>1, ExpectedAppend
    <3>3. {l.fingerprint} \ {Foreign} = {l.fingerprint}
      BY <2>3
    <3>4. Expected(file', client[c].host) = {l.fingerprint}
      BY <1>1, <2>3, <3>2, <3>3
    <3>5. \A h : h # client[c].host => Expected(file', h) = Expected(file, h)
      BY <2>3, <3>2
    <3> QED
      BY <2>3, <3>4, <3>5
  <2>7. Decided'
    <3>1. \A d \in Clients : d # c => client[d].step \notin Holding
      BY <1>1 DEF IndInv, Locked
    <3> QED
      BY <2>1, <2>2, <2>6, <3>1 DEF Decided, Holding
  <2>8. Kept'
    <3>1. \A t \in told : t.host # client[c].host
      BY <1>1 DEF IndInv, Kept
    <3> QED
      BY <1>1, <2>6, <3>1 DEF IndInv, Kept
  <2> QED
    BY <2>4, <2>5, <2>7, <2>8 DEF IndInv
<1> QED
  BY <1>1, <1>2, <1>3 DEF Rename

LEMMA SyncStep ==
  ASSUME KnownHostsAssumption, IndInv, NEW c \in Clients, SyncDirectory(c)
  PROVE  IndInv'
<1> DEFINE l == Line(client[c].host, client[c].certificate)
<1>1. CASE Finish(c, "failed") /\ UNCHANGED <<durable, told>>
  BY <1>1, FinishFact DEF SyncDirectory, Results
<1>2. CASE durable' = file /\ told' = told \cup {l} /\ Finish(c, "added")
  <2> DEFINE state == [step |-> "idle", result |-> "added"]
  <2>1. /\ client[c].step = "sync" /\ file' = file
        /\ Expected(file, client[c].host) = {client[c].certificate}
        /\ client[c] \in [step : {"lock"} \cup Holding, result : Results, host : Hosts,
                          certificate : Certificates, policy : Policies, contents : Seq(Lines)]
    BY DEF SyncDirectory, IndInv, TypeOK, Decided, Holding, ClientStates
  <2>2. /\ client' = [client EXCEPT ![c] = state]
        /\ lock' = IF lock = c THEN NoClient ELSE lock
    BY <1>2 DEF Finish
  <2>3. state \in ClientStates /\ state.step = "idle"
    BY DEF ClientStates, Results
  <2> HIDE DEF state
  <2>4. /\ l \in [host : Hosts, fingerprint : Certificates]
        /\ l.host = client[c].host /\ l.fingerprint = client[c].certificate
    BY <2>1 DEF Line
  <2> HIDE DEF l
  <2>5. \A d \in Clients : client'[d] = IF d = c THEN state ELSE client[d]
    BY <2>2 DEF IndInv, TypeOK
  <2>6. TypeOK'
    BY <1>2, <2>1, <2>2, <2>3, <2>4 DEF IndInv, TypeOK
  <2>7. Locked'
    BY <2>2, <2>3, <2>5 DEF IndInv, Locked, Holding
  <2>8. Decided'
    BY <2>1, <2>3, <2>5 DEF IndInv, Decided
  <2>9. Kept'
    BY <1>2, <2>1, <2>4 DEF IndInv, Kept
  <2> QED
    BY <2>6, <2>7, <2>8, <2>9 DEF IndInv
<1> QED
  BY <1>1, <1>2 DEF SyncDirectory

LEMMA PowerLossStep ==
  ASSUME IndInv, PowerLoss
  PROVE  IndInv'
<1>1. TypeOK'
  BY DEF PowerLoss, IndInv, TypeOK, ClientStates, Idle, Results
<1>2. Locked' /\ Decided'
  BY DEF PowerLoss, Locked, Decided, Idle, Holding
<1>3. Kept'
  BY DEF PowerLoss, IndInv, Kept
<1> QED
  BY <1>1, <1>2, <1>3 DEF IndInv

LEMMA Inductive ==
  ASSUME KnownHostsAssumption, IndInv, [Next]_vars
  PROVE  IndInv'
<1>1. CASE UNCHANGED vars
  BY <1>1 DEF vars, IndInv, TypeOK, Locked, Decided, Kept
<1>2. ASSUME NEW c \in Clients, Kill(c)
      PROVE  IndInv'
  BY <1>2, FinishFact DEF Kill, Results
<1> QED
  BY <1>1, <1>2, ConnectStep, AcquireStep, ReadStep, PrepareStep, RenameStep, SyncStep,
     PowerLossStep DEF Next, Step

(* An entry that a client reported as permanently added is from then on    *)
(* the one the file has for its host: no other client writes it away or    *)
(* puts another beside it, and no loss of power takes it back.             *)
THEOREM AddedIsKeptHolds ==
  ASSUME KnownHostsAssumption
  PROVE  Spec => []AddedIsKept
<1>1. Init => IndInv
  BY InitIndInv
<1>2. IndInv /\ [Next]_vars => IndInv'
  BY Inductive
<1>3. IndInv => AddedIsKept
  BY DEF IndInv, Kept, AddedIsKept
<1> QED
  BY <1>1, <1>2, <1>3, PTL DEF Spec

===============================================================================
