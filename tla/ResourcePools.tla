--------------------------- MODULE ResourcePools ---------------------------
(***************************************************************************)
(* The admission control of resources.rs.  A ResourceAccount reserves a    *)
(* claim in the global pool and then in the pool of its user, each under   *)
(* that pool's own mutex; if the second refuses, the first reservation is  *)
(* dropped.  A ResourceReservation is dropped pool by pool, in the same    *)
(* order.  Every step below is one critical section of one task.           *)
(***************************************************************************)
EXTENDS Naturals, FiniteSets

CONSTANTS
  Tasks,        \* connections, streams, attachments ... that hold claims
  Users,        \* Unix users
  Dims,         \* the dimensions of a ResourceClaim
  Claims,       \* the claims tasks make, each in [Dims -> 0 .. MaxWord]
  GlobalLimit,  \* ResourcePolicy.global
  UserLimit,    \* ResourcePolicy.user
  MaxWord       \* u64::MAX

\* ResourcePolicy::validate: a user's whole capacity fits the global limit.
ASSUME PolicyAssumption ==
  /\ IsFiniteSet(Tasks)
  /\ MaxWord \in Nat
  /\ Claims # {} /\ Claims \subseteq [Dims -> 0 .. MaxWord]
  /\ GlobalLimit \in [Dims -> 0 .. MaxWord]
  /\ UserLimit \in [Dims -> 0 .. MaxWord]
  /\ \A d \in Dims : GlobalLimit[d] >= UserLimit[d]

VARIABLES
  usage,      \* usage of the global pool
  userUsage,  \* usage of each user's pool
  accounts,   \* the users the governor has made a pool for
  phase,      \* how far each task is with its reservation
  user,       \* whose account the task reserves from
  claim       \* what it reserves

vars == <<usage, userUsage, accounts, phase, user, claim>>

Zero == [d \in Dims |-> 0]

(* idle       nothing is reserved                                          *)
(* asked      in ResourceAccount::reserve, before the global pool          *)
(* half       the global pool has admitted the claim                       *)
(* refused    the user's pool has not; the global one is to be given back  *)
(* held       the caller has its ResourceReservation                       *)
(* dropping   dropping it; the global pool has been given back             *)
Phases == {"idle", "asked", "half", "refused", "held", "dropping"}

Init ==
  /\ usage = Zero
  /\ userUsage = [u \in Users |-> Zero]
  /\ accounts = {}
  /\ phase = [t \in Tasks |-> "idle"]
  /\ user \in [Tasks -> Users]
  /\ claim \in [Tasks -> Claims]

\* Mutant: the sum of two u64 wraps.
WrappingAdd(a, b) == [d \in Dims |-> (a[d] + b[d]) % (MaxWord + 1)]

Plus(a, b) == [d \in Dims |-> a[d] + b[d]]

Minus(a, b) == [d \in Dims |-> a[d] - b[d]]

\* checked_add gave a sum, and no dimension of it is over the limit.
Fits(next, limit) == \A d \in Dims : next[d] <= MaxWord /\ next[d] <= limit[d]

\* ResourceGovernor::account: one pool for each user, made on first use.
Account(u) ==
  /\ accounts' = accounts \cup {u}
  /\ userUsage' = IF u \in accounts THEN userUsage
                  ELSE [userUsage EXCEPT ![u] = Zero]

Ask(t) ==
  /\ phase[t] = "idle"
  /\ \E u \in Users, c \in Claims :
       /\ Account(u)
       /\ user' = [user EXCEPT ![t] = u]
       /\ claim' = [claim EXCEPT ![t] = c]
  /\ phase' = [phase EXCEPT ![t] = "asked"]
  /\ UNCHANGED usage

ReserveGlobal(t) ==
  LET next == Plus(usage, claim[t]) IN
  /\ phase[t] = "asked"
  /\ \/ /\ Fits(next, GlobalLimit)
        /\ usage' = next
        /\ phase' = [phase EXCEPT ![t] = "half"]
     \/ /\ ~Fits(next, GlobalLimit)
        /\ phase' = [phase EXCEPT ![t] = "idle"]
        /\ UNCHANGED usage
  /\ UNCHANGED <<userUsage, accounts, user, claim>>

ReserveUser(t) ==
  LET next == Plus(userUsage[user[t]], claim[t]) IN
  /\ phase[t] = "half"
  /\ \/ /\ Fits(next, UserLimit)
        /\ userUsage' = [userUsage EXCEPT ![user[t]] = next]
        /\ phase' = [phase EXCEPT ![t] = "held"]
     \/ /\ ~Fits(next, UserLimit)
        /\ phase' = [phase EXCEPT ![t] = "refused"]
        /\ UNCHANGED userUsage
  /\ UNCHANGED <<usage, accounts, user, claim>>

\* The `?` in ResourceAccount::reserve drops what was already reserved.
RollBack(t) ==
  /\ phase[t] = "refused"
  /\ usage' = Minus(usage, claim[t])
  /\ phase' = [phase EXCEPT ![t] = "idle"]
  /\ UNCHANGED <<userUsage, accounts, user, claim>>

DropGlobal(t) ==
  /\ phase[t] = "held"
  /\ usage' = Minus(usage, claim[t])
  /\ phase' = [phase EXCEPT ![t] = "dropping"]
  /\ UNCHANGED <<userUsage, accounts, user, claim>>

DropUser(t) ==
  /\ phase[t] = "dropping"
  /\ userUsage' = [userUsage EXCEPT ![user[t]] = Minus(@, claim[t])]
  /\ phase' = [phase EXCEPT ![t] = "idle"]
  /\ UNCHANGED <<usage, accounts, user, claim>>

Next ==
  \E t \in Tasks :
    \/ Ask(t) \/ ReserveGlobal(t) \/ ReserveUser(t)
    \/ RollBack(t) \/ DropGlobal(t) \/ DropUser(t)

Spec == Init /\ [][Next]_vars

---------------------------------------------------------------------------
TypeOK ==
  /\ usage \in [Dims -> 0 .. MaxWord]
  /\ userUsage \in [Users -> [Dims -> 0 .. MaxWord]]
  /\ accounts \subseteq Users
  /\ phase \in [Tasks -> Phases]
  /\ user \in [Tasks -> Users]
  /\ claim \in [Tasks -> Claims]

---------------------------------------------------------------------------
(* Properties.                                                             *)

\* One element for every unit of dimension d that the tasks T claim.
Units(T, d) == UNION {{t} \X (1 .. claim[t][d]) : t \in T}

InGlobal == {t \in Tasks : phase[t] \in {"half", "refused", "held"}}
InUser(u) ==
  {t \in Tasks : user[t] = u /\ phase[t] \in {"held", "dropping"}}

(* Nothing leaks and nothing is given back twice: between any two steps of *)
(* any number of tasks, each pool's usage is exactly what the tasks that   *)
(* hold a reservation in it have claimed.                                  *)
Conservation ==
  \A d \in Dims :
    /\ usage[d] = Cardinality(Units(InGlobal, d))
    /\ \A u \in Users : userUsage[u][d] = Cardinality(Units(InUser(u), d))

(* The accounting never underflows, so the `expect` in Drop cannot panic   *)
(* and poison the pool's mutex: whoever drops a reservation finds at least *)
(* its own claim in the pool.                                              *)
NoUnderflow ==
  \A t \in Tasks, d \in Dims :
    /\ phase[t] \in {"refused", "held"} => claim[t][d] <= usage[d]
    /\ phase[t] \in {"held", "dropping"} => claim[t][d] <= userUsage[user[t]][d]

Atomic == INSTANCE Admission WITH held <- {t \in Tasks : phase[t] = "held"}

(* Seen from outside, the two mutexes are one atomic admission: a claim is *)
(* granted in both layers or in neither, and only if both limits hold with *)
(* everything that is granted at that moment.                              *)
ImplementsAdmission == Atomic!Spec
============================================================================
