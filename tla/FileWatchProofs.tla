--------------------------- MODULE FileWatchProofs ---------------------------
(***************************************************************************)
(* No change of a watched file is lost without a trace, for any names,     *)
(* files and requests and any limits of the queue and of a batch.          *)
(*                                                                         *)
(* The invariant follows a change through the places that stand for it:    *)
(* the queue, the batch, the answer, and the flag for what the queue had   *)
(* no room for.  It is silent while the watcher's thread is between the    *)
(* refused event and the flag, and the flag then stands for everything.    *)
(***************************************************************************)
EXTENDS FileWatch, TLAPS

Paths == Files \cup Directories

Steps == {"asked", "receive", "drain", "coalesce", "send", "closed"}

Responses == [rescan : BOOLEAN, changed : SUBSET [name : Names, path : Paths]]

TypeOK ==
    /\ sub \in [step : Steps, requested : SUBSET Names, roots : SUBSET Names,
                batch : Seq(Events), response : Responses]
    /\ queue \in Seq(Events)
    /\ rescanRequired \in BOOLEAN

\* Events are taken and answers made in turn.
Turns ==
    /\ sub.step \in {"asked", "closed"} => owed = {}
    /\ sub.step # "send" => sub.response = Silent
    /\ sub.step \notin {"drain", "coalesce"} => sub.batch = <<>>

\* What is owed has a name under which it can be told.
Reportable == \A path \in owed : path = Unknown \/ (path \in Paths /\ Reports(path) # {})

IndInv == TypeOK /\ Turns /\ Reportable /\ NothingSilentlyLost

-------------------------------------------------------------------------------
(* An event stands for a change of a path.                                 *)
StandsFor(e, path) == e.kind \in {"error", "rescan"} \/ (e.kind = "changed" /\ e.path = path)

LEMMA InEmpty == \A path : ~InEvents(<<>>, path)
BY DEF InEvents, ToSet

LEMMA InAppend ==
  ASSUME NEW s \in Seq(Events), NEW e \in Events, NEW path
  PROVE  InEvents(Append(s, e), path) <=> InEvents(s, path) \/ StandsFor(e, path)
<1>1. ToSet(Append(s, e)) = ToSet(s) \cup {e}
  <2>1. /\ DOMAIN Append(s, e) = 1..(Len(s) + 1) /\ DOMAIN s = 1..Len(s) /\ Len(s) \in Nat
        /\ \A i \in 1..Len(s) : Append(s, e)[i] = s[i]
        /\ Append(s, e)[Len(s) + 1] = e
    OBVIOUS
  <2>2. /\ \A i \in 1..(Len(s) + 1) : i \in 1..Len(s) \/ i = Len(s) + 1
        /\ 1..Len(s) \subseteq 1..(Len(s) + 1)
        /\ Len(s) + 1 \in 1..(Len(s) + 1)
    BY <2>1
  <2> QED
    BY <2>1, <2>2, Zenon DEF ToSet
<1> QED
  BY <1>1 DEF InEvents, StandsFor

LEMMA InTail ==
  ASSUME NEW s \in Seq(Events), s # <<>>, NEW path
  PROVE  InEvents(s, path) <=> InEvents(Tail(s), path) \/ StandsFor(Head(s), path)
<1>1. ToSet(s) = ToSet(Tail(s)) \cup {Head(s)}
  <2>1. /\ Len(s) \in Nat /\ Len(s) > 0 /\ DOMAIN s = 1..Len(s)
        /\ DOMAIN Tail(s) = 1..(Len(s) - 1)
        /\ \A i \in 1..(Len(s) - 1) : Tail(s)[i] = s[i + 1]
        /\ Head(s) = s[1]
    OBVIOUS
  <2>2. /\ \A i \in 1..Len(s) : i = 1 \/ (i - 1 \in 1..(Len(s) - 1) /\ (i - 1) + 1 = i)
        /\ \A i \in 1..(Len(s) - 1) : i + 1 \in 1..Len(s)
        /\ 1 \in 1..Len(s)
    BY <2>1
  <2>3. ASSUME NEW x \in ToSet(s) PROVE x \in ToSet(Tail(s)) \cup {Head(s)}
    <3>1. PICK i \in 1..Len(s) : x = s[i]
      BY <2>1 DEF ToSet
    <3>2. CASE i = 1
      BY <2>1, <3>1, <3>2
    <3>3. CASE i # 1
      <4>1. i - 1 \in 1..(Len(s) - 1) /\ Tail(s)[i - 1] = s[i]
        BY <2>1, <2>2, <3>3
      <4> QED
        BY <2>1, <3>1, <4>1, Zenon DEF ToSet
    <3> QED
      BY <3>2, <3>3
  <2>4. ASSUME NEW x \in ToSet(Tail(s)) PROVE x \in ToSet(s)
    <3>1. PICK i \in 1..(Len(s) - 1) : x = s[i + 1]
      BY <2>1 DEF ToSet
    <3>2. i + 1 \in DOMAIN s
      BY <2>1, <2>2
    <3> QED
      BY <3>1, <3>2, Zenon DEF ToSet
  <2>5. Head(s) \in ToSet(s)
    BY <2>1, <2>2, Zenon DEF ToSet
  <2> QED
    BY <2>3, <2>4, <2>5
<1> QED
  BY <1>1 DEF InEvents, StandsFor

(* Merging a batch keeps what its events stand for.                        *)
LEMMA CoalescedFact ==
  ASSUME WatchAssumption, NEW events \in Seq(Events), NEW path, InEvents(events, path),
         path = Unknown \/ (path \in Paths /\ Reports(path) # {})
  PROVE  \/ Coalesced(events).rescan
         \/ \E r \in Coalesced(events).changed : r.path = path
<1>1. PICK e \in ToSet(events) : StandsFor(e, path)
  BY DEF InEvents, StandsFor
<1>2. e \in Events
  BY DEF ToSet
<1>3. CASE e.kind \in {"error", "rescan"}
  BY <1>3 DEF Coalesced
<1>4. CASE e.kind = "changed" /\ e.path = path
  <2>1. path \in Paths
    BY <1>2, <1>4 DEF Events, Paths
  <2>2. path # Unknown
    BY <2>1 DEF WatchAssumption, Paths
  <2>3. PICK r \in Reports(path) : TRUE
    BY <2>2
  <2>4. r.path = path
    BY DEF Reports
  <2>5. r \in Coalesced(events).changed
    BY <1>4, <2>3 DEF Coalesced
  <2> QED
    BY <2>4, <2>5
<1> QED
  BY <1>1, <1>3, <1>4 DEF StandsFor

LEMMA CoalescedType ==
  ASSUME TypeOK, NEW events \in Seq(Events)
  PROVE  Coalesced(events) \in Responses
<1>1. \A e \in ToSet(events) : e \in Events
  BY DEF ToSet
<1>2. \A path \in Paths : Reports(path) \subseteq [name : Names, path : Paths]
  BY DEF Reports, TypeOK
<1>3. \A e \in ToSet(events) : e.kind \in {"changed", "rescan"} => e.path \in Paths
  BY <1>1 DEF Events, Paths
<1> QED
  BY <1>2, <1>3 DEF Coalesced, Responses

-------------------------------------------------------------------------------
(* The steps.                                                              *)

LEMMA SilentType == Silent \in Responses
BY DEF Silent, Responses

LEMMA InitIndInv == Init => IndInv
<1> SUFFICES ASSUME Init PROVE IndInv
  OBVIOUS
<1>1. TypeOK
  <2> DEFINE none == <<>>
             silent == Silent
             asked == "asked"
  <2>1. none \in Seq(Events) /\ silent \in Responses /\ asked \in Steps
    BY SilentType DEF Steps
  <2>2. /\ sub = [step |-> asked, requested |-> {}, roots |-> {}, batch |-> none,
                 response |-> silent]
        /\ queue = none /\ rescanRequired = FALSE
    BY DEF Init
  <2> HIDE DEF none, silent, asked
  <2> QED
    BY <2>1, <2>2 DEF TypeOK
<1>2. Turns /\ Reportable /\ NothingSilentlyLost
  BY DEF Init, Turns, Reportable, NothingSilentlyLost, Silent
<1> QED
  BY <1>1, <1>2 DEF IndInv

LEMMA WatchStep ==
  ASSUME WatchAssumption, IndInv, NEW r \in Requests, Watch(r)
  PROVE  IndInv'
<1>1. r.paths \in Seq(Names) /\ r.recursive \in BOOLEAN
  BY DEF WatchAssumption
<1>2. ToSet(r.paths) \subseteq Names /\ Requested(r.paths) \subseteq Names
  BY <1>1 DEF ToSet, Requested
<1>3. /\ sub.step = "asked" /\ owed = {} /\ sub.batch = <<>> /\ sub.response = Silent
      /\ UNCHANGED <<queue, rescanRequired, callback, owed, changes>>
  BY DEF Watch, IndInv, Turns
<1>4. /\ sub' \in [step : Steps, requested : SUBSET Names, roots : SUBSET Names,
                   batch : Seq(Events), response : Responses]
      /\ sub'.batch = <<>> /\ sub'.response = Silent
  <2>1. CASE ~Accepted(r)
    BY <1>3, <2>1 DEF Watch, IndInv, TypeOK, Steps
  <2>2. CASE Accepted(r) /\ r.recursive
    BY <1>2, <1>3, <2>2 DEF Watch, IndInv, TypeOK, Steps
  <2>3. CASE Accepted(r) /\ ~r.recursive
    BY <1>2, <1>3, <2>3 DEF Watch, IndInv, TypeOK, Steps
  <2> QED
    BY <2>1, <2>2, <2>3
<1>5. TypeOK'
  BY <1>3, <1>4 DEF IndInv, TypeOK
<1>6. Turns' /\ Reportable' /\ NothingSilentlyLost'
  BY <1>3, <1>4 DEF Turns, Reportable, NothingSilentlyLost
<1> QED
  BY <1>5, <1>6 DEF IndInv

LEMMA CallbackStep ==
  ASSUME WatchAssumption, IndInv, NEW e \in Events, Callback(e)
  PROVE  IndInv'
<1>1. /\ Open /\ callback = "idle" /\ owed' = owed \cup Owes(e)
      /\ UNCHANGED <<sub, rescanRequired>>
  BY DEF Callback
<1>2. \A path : Reports(path)' = Reports(path)
  BY <1>1 DEF Reports
<1>3. \A path \in Owes(e) : /\ StandsFor(e, path)
                            /\ path = Unknown \/ (path \in Paths /\ Reports(path) # {})
  <2>1. CASE e.kind = "error"
    BY <2>1 DEF Owes, StandsFor
  <2>2. CASE e.kind = "access"
    BY <2>2 DEF Owes
  <2>3. CASE e.kind \in {"changed", "rescan"}
    <3>1. e.path \in Paths
      BY <2>3 DEF Events, Paths
    <3>2. Owes(e) = IF Reports(e.path) = {} THEN {} ELSE {e.path}
      BY <2>3 DEF Owes
    <3> QED
      BY <2>3, <3>1, <3>2 DEF StandsFor
  <2> QED
    BY <2>1, <2>2, <2>3 DEF Events
<1>4. Reportable'
  BY <1>1, <1>2, <1>3 DEF IndInv, Reportable
<1>5. Turns'
  BY <1>1 DEF IndInv, Turns, Open
<1>6. CASE queue' = Append(queue, e) /\ UNCHANGED callback
  <2>1. TypeOK'
    BY <1>1, <1>6 DEF IndInv, TypeOK
  <2>2. \A path : InEvents(queue', path) <=> InEvents(queue, path) \/ StandsFor(e, path)
    BY <1>6, InAppend DEF IndInv, TypeOK
  <2>3. NothingSilentlyLost'
    BY <1>1, <1>3, <1>6, <2>2 DEF IndInv, NothingSilentlyLost, Open
  <2> QED
    BY <1>4, <1>5, <2>1, <2>3 DEF IndInv
<1>7. CASE callback' = "full" /\ UNCHANGED queue
  <2>1. TypeOK' /\ NothingSilentlyLost'
    BY <1>1, <1>7 DEF IndInv, TypeOK, NothingSilentlyLost
  <2> QED
    BY <1>4, <1>5, <2>1 DEF IndInv
<1> QED
  BY <1>6, <1>7 DEF Callback

LEMMA RaiseFlagStep ==
  ASSUME IndInv, RaiseFlag
  PROVE  IndInv'
<1>1. \A path : Reports(path)' = Reports(path)
  BY DEF RaiseFlag, Reports
<1>2. TypeOK' /\ Turns' /\ Reportable'
  BY <1>1 DEF RaiseFlag, IndInv, TypeOK, Turns, Reportable
<1>3. NothingSilentlyLost'
  BY DEF RaiseFlag, NothingSilentlyLost
<1> QED
  BY <1>2, <1>3 DEF IndInv

\* Taking an event from the queue into the batch.
LEMMA TakeFact ==
  ASSUME IndInv, queue # <<>>, queue' = Tail(queue), NEW step \in {"drain", "coalesce"},
         sub' = [sub EXCEPT !.step = step, !.batch = Append(sub.batch, Head(queue))],
         sub.step \in {"receive", "drain"},
         UNCHANGED <<rescanRequired, callback, owed, changes>>
  PROVE  IndInv'
<1>1. Head(queue) \in Events /\ Tail(queue) \in Seq(Events)
  BY DEF IndInv, TypeOK
<1>2. /\ sub' \in [step : Steps, requested : SUBSET Names, roots : SUBSET Names,
                   batch : Seq(Events), response : Responses]
      /\ sub'.step = step /\ sub'.batch = Append(sub.batch, Head(queue))
      /\ sub'.response = sub.response /\ sub'.requested = sub.requested /\ sub'.roots = sub.roots
  <2> DEFINE batch == Append(sub.batch, Head(queue))
  <2>1. batch \in Seq(Events) /\ step \in Steps
    BY <1>1 DEF IndInv, TypeOK, Steps
  <2>2. sub' = [sub EXCEPT !.step = step, !.batch = batch]
    OBVIOUS
  <2> HIDE DEF batch
  <2>3. /\ sub' \in [step : Steps, requested : SUBSET Names, roots : SUBSET Names,
                     batch : Seq(Events), response : Responses]
        /\ sub'.step = step /\ sub'.batch = batch
        /\ sub'.response = sub.response /\ sub'.requested = sub.requested
        /\ sub'.roots = sub.roots
    BY <2>1, <2>2 DEF IndInv, TypeOK
  <2> QED
    BY <2>3 DEF batch
<1>3. TypeOK'
  BY <1>1, <1>2 DEF IndInv, TypeOK
<1>4. Turns'
  BY <1>2 DEF IndInv, Turns
<1>5. Reportable'
  BY <1>2 DEF IndInv, Reportable, Reports
<1>6. \A path : InEvents(queue, path) => InEvents(queue', path) \/ InEvents(sub'.batch, path)
  BY <1>1, <1>2, InTail, InAppend DEF IndInv, TypeOK
<1>7. \A path : InEvents(sub.batch, path) => InEvents(sub'.batch, path)
  BY <1>1, <1>2, InAppend DEF IndInv, TypeOK
<1>8. NothingSilentlyLost'
  BY <1>2, <1>6, <1>7 DEF IndInv, NothingSilentlyLost, Open
<1> QED
  BY <1>3, <1>4, <1>5, <1>8 DEF IndInv

LEMMA ReceiveStep ==
  ASSUME IndInv, Receive
  PROVE  IndInv'
<1>1. sub.batch = <<>> /\ sub.step = "receive"
  BY DEF Receive, IndInv, Turns
<1>2. <<Head(queue)>> = Append(sub.batch, Head(queue))
  BY <1>1
<1> QED
  BY <1>1, <1>2, TakeFact DEF Receive

LEMMA DrainStep ==
  ASSUME IndInv, Drain
  PROVE  IndInv'
<1>1. CASE queue = <<>>
  <2>1. /\ sub.step = "drain" /\ sub' = [sub EXCEPT !.step = "coalesce"]
        /\ UNCHANGED <<queue, rescanRequired, callback, owed, changes>>
    BY <1>1 DEF Drain
  <2>2. /\ sub' \in [step : Steps, requested : SUBSET Names, roots : SUBSET Names,
                     batch : Seq(Events), response : Responses]
        /\ sub'.step = "coalesce" /\ sub'.batch = sub.batch /\ sub'.response = sub.response
        /\ sub'.requested = sub.requested /\ sub'.roots = sub.roots
    BY <2>1 DEF IndInv, TypeOK, Steps
  <2>3. TypeOK' /\ Turns'
    BY <2>1, <2>2 DEF IndInv, TypeOK, Turns
  <2>4. Reportable' /\ NothingSilentlyLost'
    BY <2>1, <2>2 DEF IndInv, Reportable, Reports, NothingSilentlyLost, Open
  <2> QED
    BY <2>3, <2>4 DEF IndInv
<1>2. CASE queue # <<>>
  <2> DEFINE step == IF Len(sub.batch) + 1 >= BatchLimit THEN "coalesce" ELSE "drain"
  <2>1. sub' = [sub EXCEPT !.step = step, !.batch = Append(sub.batch, Head(queue))]
    BY <1>2 DEF Drain
  <2>2. step \in {"drain", "coalesce"}
    OBVIOUS
  <2> HIDE DEF step
  <2> QED
    BY <1>2, <2>1, <2>2, TakeFact DEF Drain
<1> QED
  BY <1>1, <1>2

LEMMA CoalesceStep ==
  ASSUME WatchAssumption, IndInv, Coalesce
  PROVE  IndInv'
<1> DEFINE merged == Coalesced(sub.batch)
           response == [merged EXCEPT !.rescan = @ \/ rescanRequired]
<1>1. /\ sub.step = "coalesce" /\ sub.response = Silent
      /\ UNCHANGED <<queue, callback, owed, changes>> /\ rescanRequired' = FALSE
  BY DEF Coalesce, IndInv, Turns
<1>2. merged \in Responses
  BY CoalescedType DEF IndInv, TypeOK
<1>3. /\ response \in Responses
      /\ response.rescan <=> merged.rescan \/ rescanRequired
      /\ response.changed = merged.changed
  BY <1>2 DEF IndInv, TypeOK, Responses
<1>4. sub' = IF response = Silent
             THEN [sub EXCEPT !.step = "receive", !.batch = <<>>]
             ELSE [sub EXCEPT !.step = "send", !.batch = <<>>, !.response = response]
  BY DEF Coalesce
<1>5. ASSUME NEW path \in owed, rescanRequired \/ InEvents(sub.batch, path)
      PROVE  response.rescan \/ \E r \in response.changed : r.path = path
  <2>1. CASE rescanRequired
    BY <1>3, <2>1
  <2>2. CASE InEvents(sub.batch, path)
    BY <1>3, <2>2, CoalescedFact DEF IndInv, Reportable, TypeOK
  <2> QED
    BY <1>5, <2>1, <2>2
<1> HIDE DEF response, merged
<1>6. /\ sub' \in [step : Steps, requested : SUBSET Names, roots : SUBSET Names,
                   batch : Seq(Events), response : Responses]
      /\ sub'.step \in {"receive", "send"} /\ sub'.batch = <<>> /\ sub'.response = response
      /\ sub'.step = "receive" => response = Silent
      /\ sub'.requested = sub.requested /\ sub'.roots = sub.roots
  <2> DEFINE none == <<>>
             step == IF response = Silent THEN "receive" ELSE "send"
  <2>1. none \in Seq(Events) /\ step \in Steps
    BY DEF Steps
  <2>2. sub' = [sub EXCEPT !.step = step, !.batch = none, !.response = response]
    BY <1>1, <1>4 DEF IndInv, TypeOK
  <2>3. step \in {"receive", "send"} /\ (step = "receive" => response = Silent)
    OBVIOUS
  <2> HIDE DEF none, step
  <2>4. /\ sub' \in [step : Steps, requested : SUBSET Names, roots : SUBSET Names,
                     batch : Seq(Events), response : Responses]
        /\ sub'.step = step /\ sub'.batch = none /\ sub'.response = response
        /\ sub'.requested = sub.requested /\ sub'.roots = sub.roots
    BY <1>3, <2>1, <2>2 DEF IndInv, TypeOK
  <2> QED
    BY <2>3, <2>4 DEF none
<1>7. TypeOK' /\ Turns'
  BY <1>1, <1>6 DEF IndInv, TypeOK, Turns
<1>8. Reportable'
  BY <1>1, <1>6 DEF IndInv, Reportable, Reports
<1>9. NothingSilentlyLost'
  <2> SUFFICES ASSUME callback = "idle", NEW path \in owed
               PROVE  \/ InEvents(queue, path)
                      \/ response.rescan
                      \/ \E r \in response.changed : r.path = path
    BY <1>1, <1>6 DEF NothingSilentlyLost
  <2>1. \/ rescanRequired \/ InEvents(queue, path) \/ InEvents(sub.batch, path)
        \/ sub.response.rescan \/ \E r \in sub.response.changed : r.path = path
    BY <1>1 DEF IndInv, NothingSilentlyLost, Open
  <2>2. ~sub.response.rescan /\ sub.response.changed = {}
    BY <1>1 DEF Silent
  <2> QED
    BY <1>5, <2>1, <2>2
<1> QED
  BY <1>7, <1>8, <1>9 DEF IndInv

LEMMA SendStep ==
  ASSUME IndInv, Send
  PROVE  IndInv'
<1>1. /\ sub.step = "send" /\ sub' = [sub EXCEPT !.step = "receive", !.response = Silent]
      /\ owed' = Told(sub.response) /\ UNCHANGED <<queue, rescanRequired, callback, changes>>
  BY DEF Send
<1>2. /\ sub' \in [step : Steps, requested : SUBSET Names, roots : SUBSET Names,
                   batch : Seq(Events), response : Responses]
      /\ sub'.step = "receive" /\ sub'.batch = sub.batch /\ sub'.response = Silent
      /\ sub'.requested = sub.requested /\ sub'.roots = sub.roots
  BY <1>1, SilentType DEF IndInv, TypeOK, Steps
<1>3. TypeOK' /\ Turns'
  BY <1>1, <1>2 DEF IndInv, TypeOK, Turns
<1>4. \A path \in owed' : /\ path \in owed /\ ~sub.response.rescan
                          /\ ~\E r \in sub.response.changed : r.path = path
  BY <1>1 DEF Told
<1>5. Reportable'
  BY <1>2, <1>4 DEF IndInv, Reportable, Reports
<1>6. NothingSilentlyLost'
  BY <1>1, <1>2, <1>4 DEF IndInv, NothingSilentlyLost, Open
<1> QED
  BY <1>3, <1>5, <1>6 DEF IndInv

LEMMA CloseStep ==
  ASSUME IndInv, Close
  PROVE  IndInv'
<1>1. /\ sub' \in [step : Steps, requested : SUBSET Names, roots : SUBSET Names,
                   batch : Seq(Events), response : Responses]
      /\ sub'.step = "closed" /\ sub'.batch = <<>> /\ sub'.response = Silent
      /\ owed' = {} /\ queue' = <<>> /\ rescanRequired' = rescanRequired
  <2> DEFINE none == <<>>
             silent == Silent
  <2>1. none \in Seq(Events) /\ silent \in Responses /\ "closed" \in Steps
    BY SilentType DEF Steps
  <2>2. sub' = [sub EXCEPT !.step = "closed", !.batch = none, !.response = silent]
    BY DEF Close
  <2> HIDE DEF none, silent
  <2>3. /\ sub' \in [step : Steps, requested : SUBSET Names, roots : SUBSET Names,
                     batch : Seq(Events), response : Responses]
        /\ sub'.step = "closed" /\ sub'.batch = none /\ sub'.response = silent
    BY <2>1, <2>2 DEF IndInv, TypeOK
  <2> QED
    BY <2>3 DEF none, silent, Close
<1> QED
  BY <1>1 DEF IndInv, TypeOK, Turns, Reportable, NothingSilentlyLost

LEMMA Inductive ==
  ASSUME WatchAssumption, IndInv, [Next]_vars
  PROVE  IndInv'
<1>1. CASE UNCHANGED vars
  BY <1>1 DEF vars, IndInv, TypeOK, Turns, Reportable, Reports, NothingSilentlyLost, Open
<1> QED
  BY <1>1, WatchStep, CallbackStep, RaiseFlagStep, ReceiveStep, DrainStep, CoalesceStep,
     SendStep, CloseStep DEF Next

(* While the watcher's thread is outside its callback, every change the    *)
(* client has not been told of is in the queue, in the batch or in the     *)
(* answer, or the flag that asks for a rescan stands for it.               *)
THEOREM NothingSilentlyLostHolds ==
  ASSUME WatchAssumption
  PROVE  Spec => []NothingSilentlyLost
<1>1. IndInv /\ [Next]_vars => IndInv'
  BY Inductive
<1>2. IndInv => NothingSilentlyLost
  BY DEF IndInv
<1> QED
  BY InitIndInv, <1>1, <1>2, PTL DEF Spec

===============================================================================
