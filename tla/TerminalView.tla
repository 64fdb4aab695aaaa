--------------------------- MODULE TerminalView ---------------------------
(***************************************************************************)
(* What keeping a client's screen in step with a Terminal promises,        *)
(* whatever the transport does: the client shows only states the Terminal  *)
(* really had, it never goes back to an older one, and it may skip any     *)
(* number of them.  A version is an epoch of the engine and a generation   *)
(* within it; generations restart in every epoch.                          *)
(***************************************************************************)
EXTENDS Naturals

CONSTANTS
  Epochs, Generations,   \* subsets of Nat \ {0}
  Blank                  \* nothing shown yet

VARIABLES
  truth,    \* the Terminal's current version
  view      \* the version the client shows

vars == <<truth, view>>

Versions == [epoch : Epochs, gen : Generations]

NotOlder(v, w) == v.epoch > w.epoch \/ (v.epoch = w.epoch /\ v.gen >= w.gen)

Init ==
  /\ truth \in Versions
  /\ view = Blank

\* The Terminal's state advances.
Advance ==
  /\ truth' \in Versions
  /\ NotOlder(truth', truth)
  /\ UNCHANGED view

\* The client moves to a version between what it shows and the present one.
Show ==
  /\ view' \in Versions
  /\ NotOlder(truth, view')
  /\ view # Blank => NotOlder(view', view)
  /\ UNCHANGED truth

Next == Advance \/ Show

Spec == Init /\ [][Next]_vars
===========================================================================
