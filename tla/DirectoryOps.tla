---------------------------- MODULE DirectoryOps ----------------------------
(***************************************************************************)
(* The requests on a directory of the file service (src/files.rs): listing *)
(* it page by page, making, removing and renaming entries.  Each request   *)
(* runs on a blocking thread of its own, so those of several clients, and  *)
(* the programs of the host, interleave.  `astra file ls` asks for page    *)
(* after page from the cursor of the one before (src/bin/astra.rs).        *)
(*                                                                         *)
(* A name is a number; 0 is the empty cursor.  The order of the numbers is *)
(* the order of the bytes of the names.  Resolving a path inside the root  *)
(* and the kind, size and mode of an entry are left out.                   *)
(***************************************************************************)
EXTENDS Integers, Sequences, SequencesExt, FiniteSetsExt

CONSTANTS Names,
          Limits,               \* the page sizes a client asks for
          DefaultPage, MaxPage, \* 100 and MAX_DIRECTORY_PAGE_SIZE
          MaxChanges            \* changes to the directory in all

VARIABLES dir,                  \* the names in the directory
          ls,                   \* the listing client and its request
          move,                 \* the rename request
          steady,               \* the names present since the listing began
          clobbered,            \* a rename without overwrite replaced an entry
          changes

vars == <<dir, ls, move, steady, clobbered, changes>>

NoMove == [step |-> "idle"]

Init ==
    /\ dir \in SUBSET Names
    /\ ls = [step |-> "idle", cursor |-> 0, limit |-> 0, page |-> <<>>, more |-> FALSE,
             next |-> 1, printed |-> <<>>]
    /\ move = NoMove
    /\ steady = {}
    /\ clobbered = FALSE
    /\ changes = 0

-----------------------------------------------------------------------------
(* Listing. *)

PageSize(limit) == IF limit = 0 THEN DefaultPage ELSE Min({limit, MaxPage})

Begin(limit) ==
    /\ ls.step = "idle"
    /\ ls' = [ls EXCEPT !.step = "read", !.limit = limit]
    /\ steady' = dir
    /\ UNCHANGED <<dir, move, clobbered, changes>>

\* The directory is read whole; the page is cut from what was read.
ReadDirectory ==
    /\ ls.step = "read"
    /\ LET rest == SetToSortSeq({n \in dir : ls.cursor = 0 \/ n > ls.cursor}, <)
           size == PageSize(ls.limit)
       IN ls' = [ls EXCEPT !.step = "stat", !.next = 1,
                           !.more = Len(rest) > size,
                           !.page = SubSeq(rest, 1, Min({Len(rest), size}))]
    /\ UNCHANGED <<dir, move, steady, clobbered, changes>>

\* An entry that is gone by now fails the whole request, and the listing.
StatEntry ==
    /\ ls.step = "stat"
    /\ ls.next <= Len(ls.page)
    /\ ls' = IF ls.page[ls.next] \in dir
             THEN [ls EXCEPT !.next = @ + 1]
             ELSE [ls EXCEPT !.step = "failed", !.page = <<>>, !.printed = <<>>]
    /\ UNCHANGED <<dir, move, steady, clobbered, changes>>

\* The first name past the page, which the exclusive comparison then skips.
PastPage(page) == Last(page) + 1

NextCursor(page) == Last(page)

Answer ==
    /\ ls.step = "stat"
    /\ ls.next > Len(ls.page)
    /\ ls' = [ls EXCEPT !.step = IF ls.more THEN "read" ELSE "done",
                        !.cursor = IF ls.more THEN NextCursor(ls.page) ELSE 0,
                        !.printed = @ \o ls.page,
                        !.page = <<>>]
    /\ UNCHANGED <<dir, move, steady, clobbered, changes>>

-----------------------------------------------------------------------------
(* Changing the directory. *)

Becomes(names) ==
    /\ dir' = names
    /\ steady' = steady \cap names

\* mkdir, an upload that is published, or a program of the host.
MakeDirectory(n) ==
    /\ n \notin dir
    /\ changes < MaxChanges
    /\ changes' = changes + 1
    /\ Becomes(dir \cup {n})
    /\ UNCHANGED <<ls, move, clobbered>>

RemoveEntry(n) ==
    /\ n \in dir
    /\ changes < MaxChanges
    /\ changes' = changes + 1
    /\ Becomes(dir \ {n})
    /\ UNCHANGED <<ls, move, clobbered>>

\* A destination that is there refuses the rename, unless it may overwrite.
BeginRename(source, destination, overwrite) ==
    /\ move.step = "idle"
    /\ changes < MaxChanges
    /\ changes' = changes + 1
    /\ move' = IF destination \in dir /\ ~overwrite
               THEN NoMove
               ELSE [step |-> "checked", source |-> source, destination |-> destination,
                     overwrite |-> overwrite]
    /\ UNCHANGED <<dir, ls, steady, clobbered>>

\* The system call replaces whatever the destination is by now.
Rename ==
    /\ move.step = "checked"
    /\ move' = NoMove
    /\ IF move.source \in dir
       THEN /\ Becomes((dir \ {move.source}) \cup {move.destination})
            /\ clobbered' = (clobbered \/ (/\ ~move.overwrite
                                           /\ move.destination \in dir \ {move.source}))
       ELSE UNCHANGED <<dir, steady, clobbered>>
    /\ UNCHANGED <<ls, changes>>

Listing == ReadDirectory \/ StatEntry \/ Answer

Next ==
    \/ \E limit \in Limits : Begin(limit)
    \/ Listing
    \/ \E n \in Names : MakeDirectory(n) \/ RemoveEntry(n)
    \/ \E s, d \in Names, o \in BOOLEAN : BeginRename(s, d, o)
    \/ Rename

Spec == Init /\ [][Next]_vars

-----------------------------------------------------------------------------
(* Properties. *)

\* A listing that ends without an error has printed every name that was in
\* the directory all along, once and in order, whatever else came and went
\* between its pages (files.rs:401, 417).
ListingComplete ==
    ls.step = "done" =>
        /\ steady \subseteq ToSet(ls.printed)
        /\ \A i, j \in DOMAIN ls.printed : i < j => ls.printed[i] < ls.printed[j]

\* A rename that may not overwrite never replaces an entry (README.md:209).
RenameKeepsDestination == ~clobbered

=============================================================================
