----------------------------- MODULE MCHostState -----------------------------
(***************************************************************************)
(* Model-checking instance of what a host keeps for its users: the screen  *)
(* of a terminal, the Workspace catalog, a subscription to file changes    *)
(* and a directory.  A behaviour is one of the four, and the state of the  *)
(* others never moves.                                                     *)
(***************************************************************************)
EXTENDS MCTerminalEngine

CONSTANTS
  Callers, WorkspaceNames, TerminalIds, MaxId, MaxRevision, MaxCrashes,  \* SessionCatalog
  Files, Directories, MaxWatchedFiles, MaxRecursiveRoots, QueueLimit, BatchLimit,
  MaxFileChanges,                                                        \* FileWatch
  EntryNames, Limits, DefaultPage, MaxPage, MaxEntryChanges              \* DirectoryOps

VARIABLES
  part,  \* which of the four
  phase, memory, writing, file, durable, call, terminals, nextId, crashes,
  promised, attempted, seen,
  sub, queue, rescanRequired, callback, owed, changes,
  dir, ls, move, steady, clobbered, edits

\* Two names of one file, a directory above it, and a name of nothing.
MCPaths == {"f", "./f", "d", "gone"}
MCTarget == [n \in MCPaths |-> CASE n \in {"f", "./f"} -> "file"
                                 [] n = "d" -> "dir"
                                 [] n = "gone" -> "missing"]
MCBeneath == [d \in {"dir"} |-> {"dir", "file"}]
MCRequests ==
  [paths : {<<>>, <<"f">>, <<"f", "./f">>, <<"d">>, <<"gone">>, <<"d", "d">>},
   recursive : BOOLEAN]

S == INSTANCE SessionCatalog WITH Names <- WorkspaceNames
W == INSTANCE FileWatch WITH
       Names <- MCPaths, Target <- MCTarget, Beneath <- MCBeneath, Requests <- MCRequests,
       MaxChanges <- MaxFileChanges
D == INSTANCE DirectoryOps WITH
       Names <- EntryNames, MaxChanges <- MaxEntryChanges, changes <- edits

ASSUME S!CatalogAssumption /\ W!WatchAssumption

catalogVars ==
  <<phase, memory, writing, file, durable, call, terminals, nextId, crashes,
    promised, attempted, seen>>
watchVars == <<sub, queue, rescanRequired, callback, owed, changes>>
directoryVars == <<dir, ls, move, steady, clobbered, edits>>
all == <<part, vars, catalogVars, watchVars, directoryVars>>

\* A terminal that nothing was ever written to.
NoOutput ==
  /\ term = NewTerminal([rows |-> 1, cols |-> 1])
  /\ engine = NewEngine /\ held = <<>> /\ drawn = NotDrawn

HostInit ==
  /\ part \in {"terminal", "catalog", "watch", "directory"}
  /\ IF part = "terminal" THEN MCInit ELSE NoOutput
  /\ S!Init
  /\ W!Init
  /\ D!Init
  /\ part # "directory" => dir = {}

HostNext ==
  \/ /\ part = "terminal" /\ Next
     /\ UNCHANGED <<part, catalogVars, watchVars, directoryVars>>
  \/ /\ part = "catalog" /\ S!Next
     /\ UNCHANGED <<part, vars, watchVars, directoryVars>>
  \/ /\ part = "watch" /\ W!Next
     /\ UNCHANGED <<part, vars, catalogVars, directoryVars>>
  \/ /\ part = "directory" /\ D!Next
     /\ UNCHANGED <<part, vars, catalogVars, watchVars>>

HostSpec == HostInit /\ [][HostNext]_all

(* TerminalEngine's ExportsExact: states, viewports and pages that the      *)
(* engine exports are valid, a row's version tells whether it changed, and *)
(* a difference restores the state it was taken from.                      *)
StatesExact == part = "terminal" => ExportsExact

(* TerminalEngine's RenderExact: the client's terminal shows the state it  *)
(* was last sent, although only rows that changed are drawn.               *)
DrawnExact == part = "terminal" => RenderExact

(* TerminalEngine's HistoryPagesWhole: paging back gives every row of the  *)
(* scrollback, once and in order.                                          *)
HistoryWhole == part = "terminal" => HistoryPagesWhole

(* SessionCatalog's AlwaysLoadable and SuccessIsDurable: a crash at any    *)
(* step leaves a catalog that can be loaded, and never one older than the  *)
(* last update that succeeded.                                             *)
CatalogSurvives == S!AlwaysLoadable /\ S!SuccessIsDurable

(* SessionCatalog's RevisionIdentifiesName and TerminalHasWorkspace: over  *)
(* failed updates, crashes and restarts, a revision has one name and a     *)
(* Terminal has its Workspace.                                             *)
CatalogConsistent == S!RevisionIdentifiesName /\ S!TerminalHasWorkspace

(* FileWatch's NothingSilentlyLost: a change the client does not know of   *)
(* is on its way to it.                                                    *)
NothingSilentlyLost == W!NothingSilentlyLost

(* DirectoryOps' ListingComplete: a listing has every name that was there  *)
(* all along, once and in order.                                           *)
ListingComplete == D!ListingComplete
=============================================================================
