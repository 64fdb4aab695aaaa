----------------------------- MODULE Admission -----------------------------
(***************************************************************************)
(* What two-layer admission promises (ADR 0003): a claim is granted as a   *)
(* whole or not at all, and what is granted together never exceeds the     *)
(* global limit nor, for each user, the user limit.                        *)
(***************************************************************************)
EXTENDS Naturals, FiniteSets

CONSTANTS
  Tasks,        \* the tasks that reserve
  Users,        \* Unix users
  Dims,         \* resource dimensions
  Claims,       \* what may be claimed, each in [Dims -> Nat]
  GlobalLimit,  \* limit of each dimension over all users
  UserLimit     \* limit of each dimension for one user

VARIABLES
  held,   \* the tasks whose claim is granted
  user,   \* on whose behalf a task claims
  claim   \* what it claims

\* One element for every unit of dimension d that the tasks T claim.
Units(T, d) == UNION {{t} \X (1 .. claim[t][d]) : t \in T}

Total(T, d) == Cardinality(Units(T, d))

OfUser(T, u) == {t \in T : user[t] = u}

WithinLimits(T) ==
  \A d \in Dims :
    /\ Total(T, d) <= GlobalLimit[d]
    /\ \A u \in Users : Total(OfUser(T, u), d) <= UserLimit[d]

Init ==
  /\ held = {}
  /\ user \in [Tasks -> Users]
  /\ claim \in [Tasks -> Claims]

\* A task that holds nothing makes up its mind.
Choose(t) ==
  /\ t \notin held
  /\ \E u \in Users, c \in Claims :
       /\ user' = [user EXCEPT ![t] = u]
       /\ claim' = [claim EXCEPT ![t] = c]
  /\ UNCHANGED held

Grant(t) ==
  /\ t \notin held
  /\ WithinLimits(held \cup {t})
  /\ held' = held \cup {t}
  /\ UNCHANGED <<user, claim>>

Release(t) ==
  /\ t \in held
  /\ held' = held \ {t}
  /\ UNCHANGED <<user, claim>>

Next == \E t \in Tasks : Choose(t) \/ Grant(t) \/ Release(t)

Spec == Init /\ [][Next]_<<held, user, claim>>
============================================================================
