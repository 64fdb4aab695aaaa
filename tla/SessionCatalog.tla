--------------------------- MODULE SessionCatalog ---------------------------
(***************************************************************************)
(* The SessionManager of session.rs: the Workspace catalog in memory and   *)
(* on disk, the operations that replace it, the Terminals that refer to a  *)
(* Workspace, and a daemon that may crash at any moment.                   *)
(*                                                                         *)
(* update_catalog holds the write lock while the candidate is written to a *)
(* temporary file, synced, renamed over the catalog and the directory is   *)
(* synced; only then does the candidate become the catalog in memory.  Any *)
(* of these steps may fail.  delete_workspace looks at the Terminals, and  *)
(* spawn at the Workspace, before and outside of the critical section.     *)
(*                                                                         *)
(* Abstractions.  The file system keeps a name durable only after the      *)
(* directory is synced and a content only after the file is; a crash keeps *)
(* either the old or the new one.  A UUID is a number never used before.   *)
(***************************************************************************)
EXTENDS Naturals, FiniteSets

CONSTANTS
  Callers,       \* threads that call the SessionManager
  Names,         \* workspace names, "Default" among them
  TerminalIds,   \* bound: Terminals that may be spawned
  MaxId,         \* bound: workspace ids
  MaxRevision,   \* bound: revisions of a workspace
  MaxCrashes     \* bound: crashes of the daemon

CatalogAssumption ==
  /\ "Default" \in Names
  /\ MaxId \in Nat \ {0} /\ MaxRevision \in Nat \ {0} /\ MaxCrashes \in Nat

VARIABLES
  phase,      \* of the daemon: "down", "booting", "up", "refused"
  memory,     \* SessionManager.catalog
  writing,    \* the update that holds the lock
  file,       \* the catalog file as processes see it
  durable,    \* the catalog file as a crash may leave it
  call,       \* what each caller has checked and not yet done
  terminals,  \* the registry of the TerminalManager: Terminal -> Workspace
  nextId,     \* ids used so far
  crashes,
  promised,   \* history: the catalog of the last update that succeeded
  attempted,  \* history: candidates written since
  seen        \* history: the workspaces of successful updates

daemon == <<phase, memory, writing>>
disk == <<file, durable>>
history == <<promised, attempted, seen>>
vars == <<daemon, disk, call, terminals, nextId, crashes, history>>

Ids == 1 .. MaxId
Workspaces == [id : Ids, name : Names, revision : 1 .. MaxRevision]
Catalogs == [default : Ids, workspaces : SUBSET Workspaces]

NoCatalog == [default |-> 0, workspaces |-> {}]
Torn == [default |-> 0, workspaces |-> {"torn"}]
NoUpdate == [step |-> "none", candidate |-> NoCatalog]
Idle == [op |-> "idle", id |-> 0]
Checked(op, id) == [op |-> op, id |-> id]

Stored(c, synced) == [content |-> c, synced |-> synced]
NoFile == Stored(NoCatalog, TRUE)

Exists(c, id) == \E w \in c.workspaces : w.id = id

\* validate_catalog.
Valid(c) ==
  /\ c \in Catalogs
  /\ \A v, w \in c.workspaces : (v.id = w.id \/ v.name = w.name) => v = w
  /\ Exists(c, c.default)

Init ==
  /\ phase = "down"
  /\ memory = NoCatalog
  /\ writing = NoUpdate
  /\ file = NoFile /\ durable = NoFile
  /\ call = [p \in Callers |-> Idle]
  /\ terminals = [t \in {} |-> 0]
  /\ nextId = 1
  /\ crashes = 0
  /\ promised = NoCatalog /\ attempted = {} /\ seen = {}

---------------------------------------------------------------------------
(* persist_catalog, step by step.                                          *)

Begin(c) ==
  /\ Valid(c)
  /\ writing = NoUpdate
  /\ writing' = [step |-> "write", candidate |-> c]
  /\ attempted' = attempted \cup {c}
  /\ UNCHANGED <<phase, memory, disk, terminals, crashes, promised, seen>>

\* Mutant: the temporary file is renamed without being synced.
RenameUnsynced == Stored(writing.candidate, FALSE)

\* The temporary file, written and synced.
SyncedTemporary == Stored(writing.candidate, TRUE)

\* Create, write and sync the temporary file, which no one else looks at.
WriteTemporary ==
  /\ writing.step = "write"
  /\ writing' = [writing EXCEPT !.step = "rename"]
  /\ UNCHANGED <<phase, memory, disk, call, terminals, nextId, crashes, history>>

Rename ==
  /\ writing.step = "rename"
  /\ file' = SyncedTemporary
  /\ writing' = [writing EXCEPT !.step = "sync"]
  /\ UNCHANGED <<phase, memory, durable, call, terminals, nextId, crashes, history>>

SyncedDirectory == file

\* The directory is synced and the candidate becomes the catalog in memory.
Commit ==
  /\ writing.step = "sync"
  /\ durable' = SyncedDirectory
  /\ phase' = "up"
  /\ memory' = writing.candidate
  /\ writing' = NoUpdate
  /\ promised' = writing.candidate
  /\ attempted' = {}
  /\ seen' = seen \cup writing.candidate.workspaces
  /\ UNCHANGED <<file, call, terminals, nextId, crashes>>

\* A step fails: the update returns an error and the memory is left alone.
Fail ==
  /\ writing.step # "none"
  /\ writing' = NoUpdate
  /\ phase' = IF phase = "booting" THEN "down" ELSE phase
  /\ UNCHANGED <<memory, disk, call, terminals, nextId, crashes, history>>

---------------------------------------------------------------------------
(* The daemon starts and crashes.                                          *)

FirstCatalog(id) ==
  [default |-> id, workspaces |-> {[id |-> id, name |-> "Default", revision |-> 1]}]

\* load_or_create_catalog.
Boot ==
  /\ phase = "down"
  /\ \/ /\ file = NoFile /\ nextId \in Ids
        /\ writing' = [step |-> "write", candidate |-> FirstCatalog(nextId)]
        /\ attempted' = attempted \cup {FirstCatalog(nextId)}
        /\ nextId' = nextId + 1
        /\ phase' = "booting"
        /\ UNCHANGED <<memory, promised, seen>>
     \/ /\ file # NoFile
        /\ phase' = IF Valid(file.content) THEN "up" ELSE "refused"
        /\ memory' = IF Valid(file.content) THEN file.content ELSE NoCatalog
        /\ UNCHANGED <<writing, nextId, history>>
  /\ UNCHANGED <<disk, call, terminals, crashes>>

\* The daemon is gone, and with it its Terminals.
Die ==
  /\ phase \in {"booting", "up"} /\ crashes < MaxCrashes
  /\ crashes' = crashes + 1
  /\ phase' = "down"
  /\ memory' = NoCatalog
  /\ writing' = NoUpdate
  /\ call' = [p \in Callers |-> Idle]
  /\ terminals' = [t \in {} |-> 0]
  /\ UNCHANGED <<nextId, history>>

\* The process is killed; the file system is not affected.
Kill == Die /\ UNCHANGED disk

\* What a crash may leave of a stored file.
Leftovers(s) == {s} \cup IF s.synced THEN {} ELSE {Stored(Torn, TRUE)}

\* The machine crashes.
Crash ==
  /\ Die
  /\ \E s \in Leftovers(file) \cup Leftovers(durable) : file' = s /\ durable' = s

---------------------------------------------------------------------------
(* Operations.                                                             *)

CreateWorkspace(p) ==
  \E n \in Names :
    LET w == [id |-> nextId, name |-> n, revision |-> 1] IN
    /\ phase = "up" /\ call[p] = Idle /\ nextId \in Ids
    /\ \A v \in memory.workspaces : v.name # n
    /\ Begin([memory EXCEPT !.workspaces = @ \cup {w}])
    /\ nextId' = nextId + 1
    /\ UNCHANGED call

\* Mutant: the revision stays.
RenamedInPlace(w, n) == [w EXCEPT !.name = n]

Renamed(w, n) == [w EXCEPT !.name = n, !.revision = @ + 1]

RenameWorkspace(p) ==
  \E w \in memory.workspaces, n \in Names :
    /\ phase = "up" /\ call[p] = Idle
    /\ w.revision < MaxRevision
    /\ \A v \in memory.workspaces : v.id # w.id => v.name # n
    /\ Begin([memory EXCEPT !.workspaces = (@ \ {w}) \cup {Renamed(w, n)}])
    /\ UNCHANGED <<call, nextId>>

\* There are no Terminals in the Workspace, exited ones included.
Unused(id) == \A t \in DOMAIN terminals : terminals[t] # id

\* delete_workspace: the Workspace is unused ...
CheckDelete(p) ==
  \E id \in Ids :
    /\ phase = "up" /\ call[p] = Idle
    /\ Unused(id)
    /\ call' = [call EXCEPT ![p] = Checked("delete", id)]
    /\ UNCHANGED <<daemon, disk, terminals, nextId, crashes, history>>

Deletable(id) == id # memory.default /\ Exists(memory, id)

Without(id) == [memory EXCEPT !.workspaces = {w \in @ : w.id # id}]

\* ... and then it is removed, under the lock.
DeleteWorkspace(p) ==
  /\ phase = "up" /\ call[p].op = "delete"
  /\ writing = NoUpdate
  /\ call' = [call EXCEPT ![p] = Idle]
  /\ UNCHANGED nextId
  /\ \/ Deletable(call[p].id) /\ Begin(Without(call[p].id))
     \/ /\ ~Deletable(call[p].id)
        /\ UNCHANGED <<daemon, disk, terminals, crashes, history>>

\* spawn: the Workspace exists (the read waits for the lock) ...
CheckSpawn(p) ==
  \E w \in memory.workspaces :
    /\ phase = "up" /\ call[p] = Idle
    /\ writing = NoUpdate
    /\ call' = [call EXCEPT ![p] = Checked("spawn", w.id)]
    /\ UNCHANGED <<daemon, disk, terminals, nextId, crashes, history>>

\* ... and then the Terminal is started and registered.
Spawn(p) ==
  \E t \in TerminalIds \ DOMAIN terminals :
    /\ phase = "up" /\ call[p].op = "spawn"
    /\ terminals' = [u \in DOMAIN terminals \cup {t} |->
                       IF u = t THEN call[p].id ELSE terminals[u]]
    /\ call' = [call EXCEPT ![p] = Idle]
    /\ UNCHANGED <<daemon, disk, nextId, crashes, history>>

\* An exited Terminal is removed after its retention.
Forget ==
  \E t \in DOMAIN terminals :
    /\ phase = "up"
    /\ terminals' = [u \in DOMAIN terminals \ {t} |-> terminals[u]]
    /\ UNCHANGED <<daemon, disk, call, nextId, crashes, history>>

Next ==
  \/ WriteTemporary \/ Rename \/ Commit \/ Fail
  \/ Boot \/ Kill \/ Crash \/ Forget
  \/ \E p \in Callers :
       \/ CreateWorkspace(p) \/ RenameWorkspace(p)
       \/ CheckDelete(p) \/ DeleteWorkspace(p)
       \/ CheckSpawn(p) \/ Spawn(p)

Spec == Init /\ [][Next]_vars

---------------------------------------------------------------------------
(* Properties.                                                             *)

(* Whatever step an update had reached when the machine crashed, the       *)
(* catalog it leaves can be loaded: the daemon never refuses to start.     *)
AlwaysLoadable == phase # "refused"

(* What a crash may bring back is the catalog of the last successful       *)
(* update or one that was being written after it, never an older one: an   *)
(* update that returned success is durable.                                *)
SuccessIsDurable ==
  promised # NoCatalog => {file.content, durable.content} \subseteq {promised} \cup attempted

(* The revision that a successful update gives a Workspace identifies its  *)
(* name: none is given out twice, across failed updates, crashes and       *)
(* restarts that load a candidate whose update never succeeded.            *)
RevisionIdentifiesName ==
  \A v, w \in seen : v.id = w.id /\ v.revision = w.revision => v.name = w.name

(* "A Terminal must refer to an existing Workspace" (ADR 0002), while      *)
(* calls of spawn and delete_workspace do not overlap, failed and crashed  *)
(* updates included.                                                       *)
TerminalHasWorkspace ==
  phase = "up" => \A t \in DOMAIN terminals : Exists(memory, terminals[t])
============================================================================
