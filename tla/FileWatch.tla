------------------------------ MODULE FileWatch ------------------------------
(***************************************************************************)
(* A subscription to file changes (src/files.rs watch_files and            *)
(* FileChangeSubscription, and the request's loop in src/server.rs).  The  *)
(* watcher library calls back on a thread of its own; the callback puts    *)
(* the event into a bounded queue, and raises a flag when the queue is     *)
(* full.  The request's task takes the events in batches, merges them,     *)
(* clears the flag and sends what there is to tell.                        *)
(*                                                                         *)
(* Names is what a request may name, Target what a name resolves to, and   *)
(* Beneath the paths below a directory, itself included.  The three kinds  *)
(* of change that name a path (created, modified, removed) are one.        *)
(***************************************************************************)
EXTENDS Integers, Sequences, SequencesExt, FiniteSets

CONSTANTS Names, Files, Directories, Target, Beneath,
          Requests,             \* the requests the client may make
          MaxWatchedFiles, MaxRecursiveRoots,
          QueueLimit,           \* MAX_PENDING_FILE_EVENTS
          BatchLimit,           \* MAX_FILE_CHANGES_PER_EVENT
          MaxChanges            \* events the watcher delivers in all

VARIABLES sub,                  \* the subscription and the task that serves it
          queue,
          rescanRequired,       \* the shared flag
          callback,             \* where the watcher's thread is
          owed,                 \* what changed since the client was last told
          changes

vars == <<sub, queue, rescanRequired, callback, owed, changes>>

\* What an error of the watcher leaves the client to find out.
Unknown == "unknown"
WatchAssumption ==
    /\ Unknown \notin Files \cup Directories
    /\ \A r \in Requests : r.paths \in Seq(Names) /\ r.recursive \in BOOLEAN

Silent == [rescan |-> FALSE, changed |-> {}]

Init ==
    /\ sub = [step |-> "asked", requested |-> {}, roots |-> {}, batch |-> <<>>,
              response |-> Silent]
    /\ queue = <<>>
    /\ rescanRequired = FALSE
    /\ callback = "idle"
    /\ owed = {}
    /\ changes = 0

-----------------------------------------------------------------------------
(* Subscribing. *)

Accepted(request) ==
    /\ request.paths # <<>>
    /\ Len(request.paths) <= MaxWatchedFiles
    /\ request.recursive => Len(request.paths) <= MaxRecursiveRoots
    /\ \A n \in ToSet(request.paths) :
          Target[n] \in IF request.recursive THEN Directories ELSE Files

\* Two names of one file: the map keeps the name that came last.
Requested(paths) ==
    {paths[i] : i \in {j \in DOMAIN paths :
        \A k \in DOMAIN paths : k > j => Target[paths[k]] # Target[paths[j]]}}

Watch(request) ==
    /\ sub.step = "asked"
    /\ sub' = IF ~Accepted(request) THEN [sub EXCEPT !.step = "closed"]
              ELSE IF request.recursive
                   THEN [sub EXCEPT !.step = "receive", !.roots = ToSet(request.paths)]
                   ELSE [sub EXCEPT !.step = "receive", !.requested = Requested(request.paths)]
    /\ UNCHANGED <<queue, rescanRequired, callback, owed, changes>>

\* The names under which a change of the path is reported.
Reports(path) ==
    {[name |-> n, path |-> path] :
        n \in {m \in sub.requested : Target[m] = path}
              \cup {m \in sub.roots : path \in Beneath[Target[m]]}}

-----------------------------------------------------------------------------
(* The watcher's thread: one callback at a time. *)

Open == sub.step \notin {"asked", "closed"}

Owes(event) ==
    CASE event.kind = "error" -> {Unknown}
      [] event.kind = "access" -> {}
      [] OTHER -> IF Reports(event.path) = {} THEN {} ELSE {event.path}

Callback(event) ==
    /\ Open
    /\ callback = "idle"
    /\ changes < MaxChanges
    /\ changes' = changes + 1
    /\ owed' = owed \cup Owes(event)
    /\ IF Len(queue) < QueueLimit
       THEN queue' = Append(queue, event) /\ UNCHANGED callback
       ELSE callback' = "full" /\ UNCHANGED queue
    /\ UNCHANGED <<sub, rescanRequired>>

\* The event was dropped; the flag is raised by a second step.
RaiseFlag ==
    /\ callback = "full"
    /\ callback' = "idle"
    /\ rescanRequired' = TRUE
    /\ UNCHANGED <<sub, queue, owed, changes>>

-----------------------------------------------------------------------------
(* FileChangeSubscription::next and the loop around it. *)

\* The delay after the first event is the time until the first Drain.
Receive ==
    /\ sub.step = "receive"
    /\ queue # <<>>
    /\ sub' = [sub EXCEPT !.step = "drain", !.batch = <<Head(queue)>>]
    /\ queue' = Tail(queue)
    /\ UNCHANGED <<rescanRequired, callback, owed, changes>>

Drain ==
    /\ sub.step = "drain"
    /\ IF queue = <<>>
       THEN sub' = [sub EXCEPT !.step = "coalesce"] /\ UNCHANGED queue
       ELSE /\ queue' = Tail(queue)
            /\ sub' = [sub EXCEPT
                  !.batch = Append(@, Head(queue)),
                  !.step = IF Len(sub.batch) + 1 >= BatchLimit THEN "coalesce" ELSE "drain"]
    /\ UNCHANGED <<rescanRequired, callback, owed, changes>>

Coalesced(events) ==
    [rescan |-> \E e \in ToSet(events) : e.kind \in {"error", "rescan"},
     changed |-> UNION {Reports(e.path) :
                    e \in {f \in ToSet(events) : f.kind \in {"changed", "rescan"}}}]

Coalesce ==
    /\ sub.step = "coalesce"
    /\ LET merged == Coalesced(sub.batch)
           response == [merged EXCEPT !.rescan = @ \/ rescanRequired]
       IN sub' = IF response = Silent
                 THEN [sub EXCEPT !.step = "receive", !.batch = <<>>]
                 ELSE [sub EXCEPT !.step = "send", !.batch = <<>>, !.response = response]
    /\ rescanRequired' = FALSE
    /\ UNCHANGED <<queue, callback, owed, changes>>

\* The client looks at what it is told of, as it is by then.
Told(response) ==
    IF response.rescan THEN {} ELSE owed \ {r.path : r \in response.changed}

\* The flag cleared once the answer is out, and not as it is read.
SendThenClear ==
    /\ sub.step = "send"
    /\ owed' = Told(sub.response)
    /\ rescanRequired' = FALSE
    /\ sub' = [sub EXCEPT !.step = "receive", !.response = Silent]
    /\ UNCHANGED <<queue, callback, changes>>

Send ==
    /\ sub.step = "send"
    /\ owed' = Told(sub.response)
    /\ sub' = [sub EXCEPT !.step = "receive", !.response = Silent]
    /\ UNCHANGED <<queue, rescanRequired, callback, changes>>

\* The client goes away: the request ends with its stream, and the watcher
\* with the subscription.
Close ==
    /\ Open
    /\ sub' = [sub EXCEPT !.step = "closed", !.batch = <<>>, !.response = Silent]
    /\ queue' = <<>>
    /\ owed' = {}
    /\ UNCHANGED <<rescanRequired, callback, changes>>

Events ==
    [path : Files \cup Directories, kind : {"changed", "access", "rescan"}]
    \cup {[path |-> Unknown, kind |-> "error"]}

Next ==
    \/ \E r \in Requests : Watch(r)
    \/ \E e \in Events : Callback(e)
    \/ RaiseFlag
    \/ Receive
    \/ Drain
    \/ Coalesce
    \/ Send
    \/ Close

Spec == Init /\ [][Next]_vars

-----------------------------------------------------------------------------
(* Properties. *)

InEvents(events, path) ==
    \E e \in ToSet(events) : e.kind \in {"error", "rescan"} \/ (e.kind = "changed" /\ e.path = path)

\* While the watcher's thread is outside its callback, a change the client
\* has not been told of is still on its way: in the queue, in the batch or
\* in the answer being sent, or the raised flag stands for it
\* (files.rs:116, 296).
NothingSilentlyLost ==
    Open /\ callback = "idle" =>
        \A path \in owed :
            \/ rescanRequired
            \/ InEvents(queue, path)
            \/ InEvents(sub.batch, path)
            \/ sub.response.rescan
            \/ \E r \in sub.response.changed : r.path = path

=============================================================================
