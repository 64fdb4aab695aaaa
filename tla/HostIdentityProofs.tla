-------------------------- MODULE HostIdentityProofs --------------------------
(***************************************************************************)
(* A state directory has one identity, for any number of processes that    *)
(* initialise or serve it at once and are killed between any two steps.    *)
(*                                                                         *)
(* The argument is about the life of a file.  create_new makes one process *)
(* the writer of a file, which stays empty until that process writes it,   *)
(* and nothing opens it for writing again.  So a certificate that was read *)
(* whole is the one the file has from then on.                             *)
(***************************************************************************)
EXTENDS HostIdentity, TLAPS

ProcessStates ==
    [step : {"idle", "ended", "instance", "serving"}]
    \cup [step : {"create", "look", "write"}, file : Files]
    \cup [step : {"certificate"}, instance : Processes \cup {Absent, Empty}]
    \cup [step : {"key"}, instance : Processes \cup {Absent, Empty},
          certificate : Processes \cup {Absent, Empty}]

TypeOK ==
    /\ file \in [Files -> Processes \cup {Absent, Empty}]
    /\ process \in [Processes -> ProcessStates]

\* A file between its creation and its contents has one writer.
OneWriter ==
    /\ \A p \in Processes : process[p].step = "write" => file[process[p].file] = Empty
    /\ \A p, q \in Processes :
          process[p].step = "write" /\ process[q].step = "write"
          /\ process[p].file = process[q].file => p = q

\* A server starts when there is a certificate, and what it has read is the
\* certificate or the empty file it was before.
ReadIsCurrent ==
    \A p \in Processes :
       /\ process[p].step \in {"instance", "certificate"} => file["cert"] # Absent
       /\ process[p].step = "key" => process[p].certificate \in {Empty, file["cert"]}
                                     /\ process[p].certificate # Absent

\* What was served is what the file holds.
ServedIsCurrent ==
    \A s \in served : s.certificate = file["cert"] /\ s.certificate \in Processes

IndInv == TypeOK /\ OneWriter /\ ReadIsCurrent /\ ServedIsCurrent

-------------------------------------------------------------------------------
LEMMA InitIndInv == Init => IndInv
BY DEF Init, IndInv, TypeOK, OneWriter, ReadIsCurrent, ServedIsCurrent, ProcessStates, Files

\* Where a command goes on, seen from the process alone.
LEMMA AfterFact ==
  ASSUME NEW p \in Processes, NEW f \in Files, TypeOK, After(p, f)
  PROVE  \E state \in ProcessStates :
            /\ process' = [process EXCEPT ![p] = state]
            /\ state.step \in {"create", "look", "ended"}
<1>1. CASE f = "cert"
  <2> DEFINE state == [step |-> "create", file |-> "key"]
  <2>1. state \in ProcessStates /\ state.step = "create"
    BY DEF ProcessStates, Files
  <2>2. process' = [process EXCEPT ![p] = state]
    BY <1>1 DEF After, Goto
  <2> QED
    BY <2>1, <2>2
<1>2. CASE f = "key"
  <2> DEFINE state == [step |-> "look", file |-> "authorized_keys"]
  <2>1. state \in ProcessStates /\ state.step = "look"
    BY DEF ProcessStates, Files
  <2>2. process' = [process EXCEPT ![p] = state]
    BY <1>2 DEF After, Goto
  <2> QED
    BY <2>1, <2>2
<1>3. CASE f = "authorized_keys"
  <2> DEFINE state == [step |-> "look", file |-> "instance_id"]
  <2>1. state \in ProcessStates /\ state.step = "look"
    BY DEF ProcessStates, Files
  <2>2. process' = [process EXCEPT ![p] = state]
    BY <1>3 DEF After, Goto
  <2> QED
    BY <2>1, <2>2
<1>4. CASE f = "instance_id"
  <2> DEFINE state == [step |-> "ended"]
  <2>1. state \in ProcessStates /\ state.step = "ended"
    BY DEF ProcessStates
  <2>2. process' = [process EXCEPT ![p] = state]
    BY <1>4 DEF After
  <2> QED
    BY <2>1, <2>2
<1> QED
  BY <1>1, <1>2, <1>3, <1>4 DEF Files

\* A step that only moves a process to a state in which it neither writes
\* nor has read anything disturbs nothing.
LEMMA MoveFact ==
  ASSUME IndInv, NEW p \in Processes, NEW state \in ProcessStates,
         process' = [process EXCEPT ![p] = state],
         state.step \in {"create", "look", "ended", "serving"},
         UNCHANGED <<file, served>>
  PROVE  IndInv'
<1>1. TypeOK'
  BY DEF IndInv, TypeOK
<1>2. \A q \in Processes : process'[q] = IF q = p THEN state ELSE process[q]
  BY DEF IndInv, TypeOK
<1>3. OneWriter'
  BY <1>2 DEF IndInv, OneWriter
<1>4. ReadIsCurrent'
  BY <1>2 DEF IndInv, ReadIsCurrent
<1>5. ServedIsCurrent'
  BY DEF IndInv, ServedIsCurrent
<1> QED
  BY <1>1, <1>3, <1>4, <1>5 DEF IndInv

LEMMA EndFact ==
  ASSUME IndInv, NEW p \in Processes,
         process' = [process EXCEPT ![p] = [step |-> "ended"]], UNCHANGED <<file, served>>
  PROVE  IndInv'
<1> DEFINE state == [step |-> "ended"]
<1>1. state \in ProcessStates /\ state.step = "ended"
  BY DEF ProcessStates
<1> QED
  BY <1>1, MoveFact

-------------------------------------------------------------------------------
LEMMA CreateStep ==
  ASSUME IdentityAssumption, IndInv, NEW p \in Processes, Create(p)
  PROVE  IndInv'
<1>0. process[p].step = "create" /\ process[p] \in ProcessStates
  BY DEF Create, IndInv, TypeOK
<1> DEFINE f == process[p].file
<1>1. f \in Files
  BY <1>0 DEF ProcessStates
<1>2. CASE file[f] # Absent
  <2>1. End(p)
    BY <1>2 DEF Create, Exists
  <2> QED
    BY <2>1, EndFact DEF End
<1>3. CASE file[f] = Absent
  <2> DEFINE state == [step |-> "write", file |-> f]
  <2>1. /\ file' = [file EXCEPT ![f] = Empty]
        /\ process' = [process EXCEPT ![p] = state]
        /\ UNCHANGED <<gateway, served>>
    BY <1>3 DEF Create, Exists, Goto
  <2>2. state \in ProcessStates /\ state.step = "write" /\ state.file = f
    BY <1>1 DEF ProcessStates
  <2> HIDE DEF state, f
  <2>3. TypeOK'
    BY <1>1, <2>1, <2>2 DEF IndInv, TypeOK
  <2>4. /\ \A q \in Processes : process'[q] = IF q = p THEN state ELSE process[q]
        /\ \A g \in Files : file'[g] = IF g = f THEN Empty ELSE file[g]
    BY <1>1, <2>1 DEF IndInv, TypeOK
  <2>5. \A q \in Processes : process[q].step = "write" => process[q].file \in Files
    BY DEF IndInv, TypeOK, ProcessStates
  <2>6. OneWriter'
    <3>1. \A q \in Processes : process[q].step = "write" => process[q].file # f
      BY <1>3 DEF IndInv, OneWriter, Absent, Empty
    <3> QED
      BY <1>1, <2>2, <2>4, <2>5, <3>1 DEF IndInv, OneWriter
  <2>7. ReadIsCurrent'
    BY <1>1, <1>3, <2>2, <2>4 DEF IndInv, ReadIsCurrent, Files, Absent, Empty
  <2>8. ServedIsCurrent'
    BY <1>1, <1>3, <2>1, <2>4 DEF IndInv, ServedIsCurrent, Files, IdentityAssumption
  <2> QED
    BY <2>3, <2>6, <2>7, <2>8 DEF IndInv
<1> QED
  BY <1>2, <1>3

LEMMA WriteStep ==
  ASSUME IdentityAssumption, IndInv, NEW p \in Processes, Write(p)
  PROVE  IndInv'
<1>0. process[p].step = "write" /\ process[p] \in ProcessStates
  BY DEF Write, IndInv, TypeOK
<1> DEFINE f == process[p].file
<1>1. f \in Files /\ file[f] = Empty
  BY <1>0 DEF ProcessStates, IndInv, OneWriter
<1>2. file' = [file EXCEPT ![f] = p] /\ served' = served
  BY DEF Write
<1>3. PICK state \in ProcessStates :
         /\ process' = [process EXCEPT ![p] = state]
         /\ state.step \in {"create", "look", "ended"}
  BY <1>1, AfterFact DEF Write, IndInv
<1>4. /\ \A q \in Processes : process'[q] = IF q = p THEN state ELSE process[q]
      /\ \A g \in Files : file'[g] = IF g = f THEN p ELSE file[g]
  BY <1>1, <1>2, <1>3 DEF IndInv, TypeOK
<1>5. TypeOK'
  BY <1>1, <1>2, <1>3 DEF IndInv, TypeOK
<1>6. OneWriter'
  <2>1. \A q \in Processes : q # p /\ process[q].step = "write" =>
           process[q].file # f /\ process[q].file \in Files
    BY <1>0 DEF IndInv, OneWriter, TypeOK, ProcessStates
  <2> QED
    BY <1>3, <1>4, <2>1 DEF IndInv, OneWriter
<1>7. ReadIsCurrent'
  BY <1>1, <1>3, <1>4 DEF IndInv, ReadIsCurrent, Files, IdentityAssumption
<1>8. ServedIsCurrent'
  BY <1>1, <1>2, <1>4 DEF IndInv, ServedIsCurrent, Files, IdentityAssumption
<1> QED
  BY <1>5, <1>6, <1>7, <1>8 DEF IndInv

LEMMA ServeStep ==
  ASSUME IdentityAssumption, IndInv, NEW p \in Processes,
         StartServe(p) \/ ReadInstance(p) \/ ReadCertificate(p)
  PROVE  IndInv'
<1>1. /\ UNCHANGED <<file, served>>
      /\ \E state \in ProcessStates :
            /\ process' = [process EXCEPT ![p] = state]
            /\ state.step \in {"instance", "certificate"} => file["cert"] # Absent
            /\ state.step = "key" => state.certificate = file["cert"] /\ file["cert"] # Absent
            /\ state.step # "write"
  <2>1. CASE StartServe(p)
    <3> DEFINE state == [step |-> "instance"]
    <3>1. state \in ProcessStates /\ state.step = "instance"
      BY DEF ProcessStates
    <3> QED
      BY <2>1, <3>1 DEF StartServe, Exists
  <2>2. CASE ReadInstance(p)
    <3> DEFINE state == [step |-> "certificate", instance |-> file["instance_id"]]
    <3>1. state \in ProcessStates /\ state.step = "certificate"
      BY DEF ProcessStates, IndInv, TypeOK, Files
    <3> QED
      BY <2>2, <3>1 DEF ReadInstance, IndInv, ReadIsCurrent
  <2>3. CASE ReadCertificate(p)
    <3> DEFINE state == [step |-> "key", instance |-> process[p].instance,
                         certificate |-> file["cert"]]
    <3>0. process[p].step = "certificate" /\ process[p] \in ProcessStates
      BY <2>3 DEF ReadCertificate, IndInv, TypeOK
    <3>1. process[p].instance \in Processes \cup {Absent, Empty}
      BY <3>0 DEF ProcessStates
    <3>2. /\ state \in ProcessStates
          /\ state.step = "key" /\ state.certificate = file["cert"]
      BY <3>1 DEF ProcessStates, IndInv, TypeOK, Files
    <3>3. process' = [process EXCEPT ![p] = state]
      BY <2>3 DEF ReadCertificate
    <3>4. file["cert"] # Absent
      BY <3>0 DEF IndInv, ReadIsCurrent
    <3> HIDE DEF state
    <3> QED
      BY <2>3, <3>2, <3>3, <3>4 DEF ReadCertificate
  <2> QED
    BY <2>1, <2>2, <2>3
<1>2. PICK state \in ProcessStates :
         /\ process' = [process EXCEPT ![p] = state]
         /\ state.step \in {"instance", "certificate"} => file["cert"] # Absent
         /\ state.step = "key" => state.certificate = file["cert"] /\ file["cert"] # Absent
         /\ state.step # "write"
  BY <1>1
<1>3. \A q \in Processes : process'[q] = IF q = p THEN state ELSE process[q]
  BY <1>2 DEF IndInv, TypeOK
<1>4. TypeOK'
  BY <1>1, <1>2 DEF IndInv, TypeOK
<1>5. OneWriter' /\ ReadIsCurrent' /\ ServedIsCurrent'
  BY <1>1, <1>2, <1>3 DEF IndInv, OneWriter, ReadIsCurrent, ServedIsCurrent
<1> QED
  BY <1>4, <1>5 DEF IndInv

LEMMA ReadKeyStep ==
  ASSUME IdentityAssumption, IndInv, NEW p \in Processes, ReadKey(p)
  PROVE  IndInv'
<1>0. process[p].step = "key" /\ process[p] \in ProcessStates
  BY DEF ReadKey, IndInv, TypeOK
<1> DEFINE c == process[p].certificate
<1>1. CASE c # Empty /\ file["key"] = c
  <2> DEFINE state == [step |-> "serving"]
  <2>1. state \in ProcessStates /\ state.step = "serving"
    BY DEF ProcessStates
  <2>2. /\ process' = [process EXCEPT ![p] = state]
        /\ served' = served \cup {[instance |-> process[p].instance, certificate |-> c]}
        /\ file' = file
    BY <1>1 DEF ReadKey
  <2>3. c = file["cert"] /\ c \in Processes
    BY <1>0, <1>1 DEF IndInv, ReadIsCurrent, TypeOK, Files
  <2> HIDE DEF state
  <2>4. \A q \in Processes : process'[q] = IF q = p THEN state ELSE process[q]
    BY <2>2 DEF IndInv, TypeOK
  <2>5. TypeOK' /\ OneWriter' /\ ReadIsCurrent'
    BY <2>1, <2>2, <2>4 DEF IndInv, TypeOK, OneWriter, ReadIsCurrent
  <2>6. ServedIsCurrent'
    BY <2>2, <2>3 DEF IndInv, ServedIsCurrent
  <2> QED
    BY <2>5, <2>6 DEF IndInv
<1>2. CASE ~(c # Empty /\ file["key"] = c)
  BY <1>2, EndFact DEF ReadKey, End
<1> QED
  BY <1>1, <1>2

LEMMA Inductive ==
  ASSUME IdentityAssumption, IndInv, [Next]_vars
  PROVE  IndInv'
<1>1. CASE UNCHANGED vars
  BY <1>1 DEF vars, IndInv, TypeOK, OneWriter, ReadIsCurrent, ServedIsCurrent
<1>2. ASSUME NEW p \in Processes, StartInit(p)
      PROVE  IndInv'
  <2>1. UNCHANGED <<file, served>>
    BY <1>2 DEF StartInit
  <2>2. \/ process' = [process EXCEPT ![p] = [step |-> "create", file |-> "cert"]]
        \/ process' = [process EXCEPT ![p] = [step |-> "look", file |-> "authorized_keys"]]
        \/ process' = [process EXCEPT ![p] = [step |-> "ended"]]
    BY <1>2 DEF StartInit, Goto
  <2>3. /\ [step |-> "create", file |-> "cert"] \in ProcessStates
        /\ [step |-> "look", file |-> "authorized_keys"] \in ProcessStates
    BY DEF ProcessStates, Files
  <2>4. CASE process' = [process EXCEPT ![p] = [step |-> "create", file |-> "cert"]]
    BY <2>1, <2>3, <2>4, MoveFact
  <2>5. CASE process' = [process EXCEPT ![p] = [step |-> "look", file |-> "authorized_keys"]]
    BY <2>1, <2>3, <2>5, MoveFact
  <2>6. CASE process' = [process EXCEPT ![p] = [step |-> "ended"]]
    BY <2>1, <2>6, EndFact
  <2> QED
    BY <2>2, <2>4, <2>5, <2>6
<1>3. ASSUME NEW p \in Processes, Look(p)
      PROVE  IndInv'
  <2>0. process[p].step = "look" /\ process[p] \in ProcessStates /\ UNCHANGED <<file, served>>
    BY <1>3 DEF Look, IndInv, TypeOK
  <2>1. process[p].file \in Files
    BY <2>0 DEF ProcessStates
  <2>2. CASE After(p, process[p].file)
    BY <2>0, <2>1, <2>2, AfterFact, MoveFact DEF IndInv
  <2>3. CASE Goto(p, "create", process[p].file)
    <3> DEFINE state == [step |-> "create", file |-> process[p].file]
    <3>1. state \in ProcessStates /\ state.step = "create"
      BY <2>1 DEF ProcessStates
    <3>2. process' = [process EXCEPT ![p] = state]
      BY <2>3 DEF Goto
    <3> HIDE DEF state
    <3> QED
      BY <2>0, <3>1, <3>2, MoveFact
  <2> QED
    BY <1>3, <2>2, <2>3 DEF Look
<1>4. ASSUME NEW p \in Processes, Kill(p)
      PROVE  IndInv'
  BY <1>4, EndFact DEF Kill, End
<1> QED
  BY <1>1, <1>2, <1>3, <1>4, CreateStep, WriteStep, ServeStep, ReadKeyStep DEF Next

(* Every server that ever starts from a state directory presents the same  *)
(* certificate, whatever `astrad init` and `astrad serve` did at once and  *)
(* wherever they were killed.                                              *)
THEOREM OneIdentityHolds ==
  ASSUME IdentityAssumption
  PROVE  Spec => []OneIdentity
<1>1. IndInv => OneIdentity
  BY DEF IndInv, ServedIsCurrent, OneIdentity
<1>2. IndInv /\ [Next]_vars => IndInv'
  BY Inductive
<1> QED
  BY InitIndInv, <1>1, <1>2, PTL DEF Spec

===============================================================================
