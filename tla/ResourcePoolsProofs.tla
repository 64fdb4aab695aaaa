------------------------ MODULE ResourcePoolsProofs ------------------------
(***************************************************************************)
(* Proofs about ResourcePools, for any finite set of tasks, any users,     *)
(* dimensions, claims and limits.  Sums are counted as sets of units, so   *)
(* that a reservation adds {t} \X (1 .. n) to a disjoint set.              *)
(***************************************************************************)
EXTENDS ResourcePools, FiniteSetTheorems, TLAPS

USE PolicyAssumption

\* The units of dimension d that the tasks T claim in c.
UnitsIn(c, T, d) == UNION {{t} \X (1 .. c[t][d]) : t \in T}

---------------------------------------------------------------------------
(* Counting units.                                                         *)

(* 1 .. n has n elements.                                                  *)
LEMMA IntervalCount ==
  ASSUME NEW n \in Nat
  PROVE  IsFiniteSet(1 .. n) /\ Cardinality(1 .. n) = n
<1>1. IsFiniteSet(1 .. n) /\ Cardinality(1 .. n) = IF 1 > n THEN 0 ELSE n - 1 + 1
  BY FS_Interval
<1> QED  BY <1>1

(* A set of units claimed by tasks of the model is finite.                 *)
LEMMA UnitsFinite ==
  ASSUME NEW c \in [Tasks -> Claims], NEW T \in SUBSET Tasks, NEW d \in Dims
  PROVE  /\ IsFiniteSet(UnitsIn(c, T, d))
         /\ Cardinality(UnitsIn(c, T, d)) \in Nat
<1>1. IsFiniteSet(Tasks \X (1 .. MaxWord))
  <2>1. IsFiniteSet(1 .. MaxWord)  BY IntervalCount
  <2>2. IsFiniteSet(Tasks)  OBVIOUS
  <2> HIDE PolicyAssumption
  <2> QED  BY <2>1, <2>2, FS_Product
<1>2. \A t \in T : 1 .. c[t][d] \subseteq 1 .. MaxWord
  <2> TAKE t \in T
  <2>1. c[t] \in [Dims -> 0 .. MaxWord]  OBVIOUS
  <2>2. c[t][d] \in 0 .. MaxWord  BY <2>1
  <2> QED  BY <2>2
<1>3. UnitsIn(c, T, d) \subseteq Tasks \X (1 .. MaxWord)
  <2> SUFFICES ASSUME NEW t \in T, NEW x \in {t} \X (1 .. c[t][d])
               PROVE  x \in Tasks \X (1 .. MaxWord)
    BY DEF UnitsIn
  <2> QED  BY <1>2
<1> QED  BY <1>1, <1>3, FS_Subset, FS_CardinalityType

(* Only the claims of the tasks counted matter.                            *)
LEMMA UnitsSame ==
  ASSUME NEW c, NEW e, NEW T, NEW d, \A t \in T : c[t] = e[t]
  PROVE  UnitsIn(c, T, d) = UnitsIn(e, T, d)
BY DEF UnitsIn

(* Fewer tasks, no more units.                                             *)
LEMMA UnitsMonotone ==
  ASSUME NEW c \in [Tasks -> Claims], NEW T \in SUBSET Tasks,
         NEW S \in SUBSET T, NEW d \in Dims
  PROVE  Cardinality(UnitsIn(c, S, d)) <= Cardinality(UnitsIn(c, T, d))
<1>1. UnitsIn(c, S, d) \subseteq UnitsIn(c, T, d)
  BY DEF UnitsIn
<1> QED  BY <1>1, UnitsFinite, FS_Subset

(* One more task adds exactly its claim.                                   *)
LEMMA UnitsAdd ==
  ASSUME NEW c \in [Tasks -> Claims], NEW T \in SUBSET Tasks,
         NEW t \in Tasks \ T, NEW d \in Dims
  PROVE  Cardinality(UnitsIn(c, T \cup {t}, d))
           = Cardinality(UnitsIn(c, T, d)) + c[t][d]
<1> DEFINE own == {t} \X (1 .. c[t][d])
<1>1. c[t][d] \in Nat
  <2>1. c[t] \in [Dims -> 0 .. MaxWord]  OBVIOUS
  <2> QED  BY <2>1
<1>2. IsFiniteSet(own) /\ Cardinality(own) = c[t][d]
  <2>1. IsFiniteSet({t}) /\ Cardinality({t}) = 1  BY FS_Singleton
  <2>2. IsFiniteSet(1 .. c[t][d]) /\ Cardinality(1 .. c[t][d]) = c[t][d]
    BY <1>1, IntervalCount
  <2> HIDE PolicyAssumption
  <2>3. IsFiniteSet(own) /\ Cardinality(own) = 1 * c[t][d]
    BY <2>1, <2>2, FS_Product
  <2> QED  BY <1>1, <2>3
<1>3. UnitsIn(c, T \cup {t}, d) = UnitsIn(c, T, d) \cup own
  BY DEF UnitsIn
<1>4. UnitsIn(c, T, d) \cap own = {}
  BY DEF UnitsIn
<1>5. IsFiniteSet(UnitsIn(c, T, d)) /\ Cardinality(UnitsIn(c, T, d)) \in Nat
  BY UnitsFinite
<1> HIDE DEF own
<1>6. Cardinality(UnitsIn(c, T, d) \cup own)
        = Cardinality(UnitsIn(c, T, d)) + Cardinality(own) - Cardinality({})
  BY <1>2, <1>4, <1>5, FS_Union
<1>7. Cardinality({}) = 0
  BY FS_EmptySet
<1>8. Cardinality(UnitsIn(c, T, d)) + c[t][d] - 0 = Cardinality(UnitsIn(c, T, d)) + c[t][d]
  BY <1>1, <1>5
<1> QED  BY <1>2, <1>3, <1>6, <1>7, <1>8

(* A task that leaves takes exactly its claim with it.                     *)
LEMMA UnitsRemove ==
  ASSUME NEW c \in [Tasks -> Claims], NEW T \in SUBSET Tasks,
         NEW t \in T, NEW d \in Dims
  PROVE  /\ c[t][d] \in Nat
         /\ c[t][d] <= Cardinality(UnitsIn(c, T, d))
         /\ Cardinality(UnitsIn(c, T \ {t}, d))
              = Cardinality(UnitsIn(c, T, d)) - c[t][d]
<1>1. c[t][d] \in Nat
  <2>1. c[t] \in [Dims -> 0 .. MaxWord]  OBVIOUS
  <2> QED  BY <2>1
<1>2. (T \ {t}) \cup {t} = T
  OBVIOUS
<1>3. Cardinality(UnitsIn(c, T, d))
        = Cardinality(UnitsIn(c, T \ {t}, d)) + c[t][d]
  BY <1>2, UnitsAdd
<1>4. Cardinality(UnitsIn(c, T \ {t}, d)) \in Nat
  BY UnitsFinite
<1> QED  BY <1>1, <1>3, <1>4

---------------------------------------------------------------------------
(* The inductive invariant.  Conservation alone is not inductive: the pool *)
(* that account() makes starts from zero, which is right only because      *)
(* nobody who has not asked for the account holds anything in it; and the  *)
(* limits keep the sums within a word.                                     *)

Within ==
  \A d \in Dims :
    /\ usage[d] <= GlobalLimit[d]
    /\ \A u \in Users : userUsage[u][d] <= UserLimit[d]

AskedFirst == \A t \in Tasks : phase[t] # "idle" => user[t] \in accounts

Inv == TypeOK /\ Conservation /\ Within /\ AskedFirst

(* The initial pools are empty.                                            *)
LEMMA InitInv == Init => Inv
<1> SUFFICES ASSUME Init PROVE Inv
  OBVIOUS
<1>1. TypeOK
  BY DEF Init, TypeOK, Zero, Phases
<1>2. InGlobal = {} /\ \A u \in Users : InUser(u) = {}
  BY DEF Init, InGlobal, InUser
<1>3. \A d \in Dims : Units({}, d) = {}
  BY DEF Units
<1>4. Conservation
  <2> SUFFICES ASSUME NEW d \in Dims
               PROVE  /\ usage[d] = Cardinality(Units(InGlobal, d))
                      /\ \A u \in Users : userUsage[u][d] = Cardinality(Units(InUser(u), d))
    BY DEF Conservation
  <2>1. Cardinality(Units({}, d)) = 0  BY <1>3, FS_EmptySet
  <2>2. usage[d] = 0 /\ \A u \in Users : userUsage[u][d] = 0
    BY DEF Init, Zero
  <2> QED  BY <1>2, <2>1, <2>2
<1>5. Within
  BY DEF Init, Within, Zero
<1>6. AskedFirst
  BY DEF Init, AskedFirst
<1> QED  BY <1>1, <1>4, <1>5, <1>6 DEF Inv

(* What the type invariant says about one task's numbers.                  *)
LEMMA NumberTypes ==
  ASSUME TypeOK, NEW t \in Tasks, NEW d \in Dims
  PROVE  /\ claim \in [Tasks -> Claims] /\ user[t] \in Users
         /\ claim[t] \in [Dims -> 0 .. MaxWord] /\ claim[t][d] \in Nat
         /\ usage[d] \in Nat /\ \A u \in Users : userUsage[u][d] \in Nat
<1>1. claim \in [Tasks -> Claims] /\ claim[t] \in [Dims -> 0 .. MaxWord]
  BY DEF TypeOK
<1>2. claim[t][d] \in Nat
  BY <1>1
<1>3. usage[d] \in Nat
  BY DEF TypeOK
<1>4. \A u \in Users : userUsage[u][d] \in Nat
  <2> TAKE u \in Users
  <2>1. userUsage[u] \in [Dims -> 0 .. MaxWord]  BY DEF TypeOK
  <2> QED  BY <2>1
<1> QED  BY <1>1, <1>2, <1>3, <1>4 DEF TypeOK

(* Conservation in terms of UnitsIn, before and after a step.              *)
LEMMA ConservationNow ==
  ASSUME Conservation
  PROVE  \A d \in Dims :
           /\ usage[d] = Cardinality(UnitsIn(claim, InGlobal, d))
           /\ \A u \in Users :
                userUsage[u][d] = Cardinality(UnitsIn(claim, InUser(u), d))
BY DEF Conservation, Units, UnitsIn

LEMMA ConservationNext ==
  ASSUME \A d \in Dims :
           /\ usage'[d] = Cardinality(UnitsIn(claim', InGlobal', d))
           /\ \A u \in Users :
                userUsage'[u][d] = Cardinality(UnitsIn(claim', InUser(u)', d))
  PROVE  Conservation'
BY DEF Conservation, Units, UnitsIn

(* Looking up an account changes no pool that is in use.                   *)
LEMMA AskInv == ASSUME Inv, NEW t \in Tasks, Ask(t) PROVE Inv'
<1>1. PICK u \in Users, c \in Claims :
        /\ Account(u)
        /\ user' = [user EXCEPT ![t] = u]
        /\ claim' = [claim EXCEPT ![t] = c]
  BY DEF Ask
<1>2. phase[t] = "idle" /\ phase' = [phase EXCEPT ![t] = "asked"] /\ usage' = usage
  BY DEF Ask
<1>3. TypeOK'
  BY <1>1, <1>2 DEF Inv, TypeOK, Account, Zero, Phases
<1>4. InGlobal' = InGlobal /\ \A v \in Users : InUser(v)' = InUser(v)
  BY <1>1, <1>2 DEF Inv, TypeOK, InGlobal, InUser
<1>5. t \notin InGlobal /\ \A v \in Users : t \notin InUser(v)
  BY <1>2 DEF InGlobal, InUser
<1>6. ASSUME NEW T \in SUBSET Tasks, t \notin T, NEW d \in Dims
      PROVE  UnitsIn(claim', T, d) = UnitsIn(claim, T, d)
  <2>1. \A s \in T : claim'[s] = claim[s]
    BY <1>1, <1>6 DEF Inv, TypeOK
  <2> QED  BY <2>1, UnitsSame
<1>7. \A v \in Users \ accounts : InUser(v) = {}
  BY DEF Inv, AskedFirst, InUser
<1>8. \A v \in Users : \A d \in Dims :
        userUsage'[v][d] = IF v = u /\ u \notin accounts THEN 0 ELSE userUsage[v][d]
  BY <1>1 DEF Inv, TypeOK, Account, Zero
<1>9. \A v \in Users : \A d \in Dims : userUsage'[v][d] = userUsage[v][d]
  <2> SUFFICES ASSUME NEW d \in Dims, u \notin accounts PROVE userUsage[u][d] = 0
    BY <1>8
  <2>1. userUsage[u][d] = Cardinality(Units({}, d))
    BY <1>7 DEF Inv, Conservation
  <2>2. Units({}, d) = {}
    BY DEF Units
  <2> QED  BY <2>1, <2>2, FS_EmptySet
<1>10. Conservation'
  <2> SUFFICES ASSUME NEW d \in Dims
               PROVE  /\ usage'[d] = Cardinality(UnitsIn(claim', InGlobal', d))
                      /\ \A v \in Users :
                           userUsage'[v][d] = Cardinality(UnitsIn(claim', InUser(v)', d))
    BY ConservationNext
  <2>1. /\ usage[d] = Cardinality(UnitsIn(claim, InGlobal, d))
        /\ \A v \in Users : userUsage[v][d] = Cardinality(UnitsIn(claim, InUser(v), d))
    BY ConservationNow DEF Inv
  <2>2. UnitsIn(claim', InGlobal, d) = UnitsIn(claim, InGlobal, d)
    BY <1>5, <1>6 DEF InGlobal
  <2>3. \A v \in Users : UnitsIn(claim', InUser(v), d) = UnitsIn(claim, InUser(v), d)
    BY <1>5, <1>6 DEF InUser
  <2> QED  BY <1>2, <1>4, <1>9, <2>1, <2>2, <2>3
<1>11. Within'
  BY <1>2, <1>9 DEF Inv, Within
<1>12. AskedFirst'
  BY <1>1, <1>2 DEF Inv, TypeOK, AskedFirst, Account
<1> QED  BY <1>3, <1>10, <1>11, <1>12 DEF Inv

(* The first critical section: the global pool admits the claim, or the    *)
(* task gives up with nothing reserved.                                    *)
LEMMA ReserveGlobalInv ==
  ASSUME Inv, NEW t \in Tasks, ReserveGlobal(t) PROVE Inv'
<1> DEFINE next == Plus(usage, claim[t])
<1>0. /\ phase[t] = "asked"
      /\ UNCHANGED <<userUsage, accounts, user, claim>>
  BY DEF ReserveGlobal
<1>1. \A d \in Dims : next[d] = usage[d] + claim[t][d]
  BY DEF Plus
<1>2. CASE ~Fits(next, GlobalLimit)
  <2>1. usage' = usage /\ phase' = [phase EXCEPT ![t] = "idle"]
    BY <1>2 DEF ReserveGlobal
  <2>2. TypeOK'
    BY <1>0, <2>1 DEF Inv, TypeOK, Phases
  <2>3. InGlobal' = InGlobal /\ \A v \in Users : InUser(v)' = InUser(v)
    BY <1>0, <2>1 DEF Inv, TypeOK, InGlobal, InUser
  <2>4. Conservation'
    BY <1>0, <2>1, <2>3, ConservationNow, ConservationNext DEF Inv
  <2>5. Within' /\ AskedFirst'
    BY <1>0, <2>1 DEF Inv, TypeOK, Within, AskedFirst
  <2> QED  BY <2>2, <2>4, <2>5 DEF Inv
<1>3. CASE Fits(next, GlobalLimit)
  <2>1. usage' = next /\ phase' = [phase EXCEPT ![t] = "half"]
    BY <1>3 DEF ReserveGlobal
  <2>2. \A d \in Dims : next[d] \in 0 .. MaxWord /\ next[d] <= GlobalLimit[d]
    BY <1>1, <1>3, NumberTypes DEF Fits, Inv
  <2>3. TypeOK'
    <3>1. next \in [Dims -> 0 .. MaxWord]  BY <2>2 DEF Plus
    <3> HIDE DEF next
    <3> QED  BY <1>0, <2>1, <3>1 DEF Inv, TypeOK, Phases
  <2>4. /\ t \notin InGlobal /\ InGlobal' = InGlobal \cup {t}
        /\ \A v \in Users : InUser(v)' = InUser(v)
    BY <1>0, <2>1 DEF Inv, TypeOK, InGlobal, InUser
  <2>5. Conservation'
    <3> SUFFICES ASSUME NEW d \in Dims
                 PROVE  /\ usage'[d] = Cardinality(UnitsIn(claim', InGlobal', d))
                        /\ \A v \in Users :
                             userUsage'[v][d] = Cardinality(UnitsIn(claim', InUser(v)', d))
      BY ConservationNext
    <3>1. claim \in [Tasks -> Claims] /\ InGlobal \in SUBSET Tasks /\ t \in Tasks \ InGlobal
      BY <2>4 DEF Inv, TypeOK, InGlobal
    <3>2. Cardinality(UnitsIn(claim, InGlobal \cup {t}, d))
            = Cardinality(UnitsIn(claim, InGlobal, d)) + claim[t][d]
      BY <3>1, UnitsAdd
    <3> HIDE DEF next
    <3> QED  BY <1>0, <1>1, <2>1, <2>4, <3>2, ConservationNow DEF Inv
  <2>6. Within'
    BY <1>0, <2>1, <2>2 DEF Inv, Within
  <2>7. AskedFirst'
    BY <1>0, <2>1 DEF Inv, TypeOK, AskedFirst
  <2> QED  BY <2>3, <2>5, <2>6, <2>7 DEF Inv
<1> QED  BY <1>2, <1>3

(* The second critical section: the user's pool admits the claim, or the   *)
(* task keeps only the global reservation, to be given back.               *)
LEMMA ReserveUserInv ==
  ASSUME Inv, NEW t \in Tasks, ReserveUser(t) PROVE Inv'
<1>u. PICK u \in Users : u = user[t]
  BY DEF Inv, TypeOK
<1> DEFINE next == Plus(userUsage[u], claim[t])
<1>0. /\ phase[t] = "half"
      /\ UNCHANGED <<usage, accounts, user, claim>>
  BY DEF ReserveUser, Inv, TypeOK
<1>1. \A d \in Dims : next[d] = userUsage[u][d] + claim[t][d]
  BY DEF Plus
<1>2. CASE ~Fits(next, UserLimit)
  <2>1. userUsage' = userUsage /\ phase' = [phase EXCEPT ![t] = "refused"]
    BY <1>2, <1>u DEF ReserveUser
  <2>2. TypeOK'
    BY <1>0, <2>1 DEF Inv, TypeOK, Phases
  <2>3. InGlobal' = InGlobal /\ \A v \in Users : InUser(v)' = InUser(v)
    BY <1>0, <2>1 DEF Inv, TypeOK, InGlobal, InUser
  <2>4. Conservation'
    BY <1>0, <2>1, <2>3, ConservationNow, ConservationNext DEF Inv
  <2>5. Within' /\ AskedFirst'
    BY <1>0, <2>1 DEF Inv, TypeOK, Within, AskedFirst
  <2> QED  BY <2>2, <2>4, <2>5 DEF Inv
<1>3. CASE Fits(next, UserLimit)
  <2>1. userUsage' = [userUsage EXCEPT ![u] = next] /\ phase' = [phase EXCEPT ![t] = "held"]
    BY <1>3, <1>u DEF ReserveUser
  <2>2. \A d \in Dims : next[d] \in 0 .. MaxWord /\ next[d] <= UserLimit[d]
    BY <1>0, <1>1, <1>3, NumberTypes DEF Fits, Inv
  <2>n. next \in [Dims -> 0 .. MaxWord]
    BY <2>2 DEF Plus
  <2> HIDE DEF next
  <2>3. TypeOK'
    BY <1>0, <2>1, <2>n DEF Inv, TypeOK, Phases
  <2>4. /\ t \notin InUser(u) /\ InUser(u)' = InUser(u) \cup {t}
        /\ InGlobal' = InGlobal
        /\ \A v \in Users \ {u} : InUser(v)' = InUser(v)
    BY <1>0, <1>u, <2>1 DEF Inv, TypeOK, InGlobal, InUser
  <2>v. /\ userUsage'[u] = next
        /\ \A v \in Users \ {u} : userUsage'[v] = userUsage[v]
    BY <1>0, <2>1 DEF Inv, TypeOK
  <2>5. Conservation'
    <3> SUFFICES ASSUME NEW d \in Dims
                 PROVE  /\ usage'[d] = Cardinality(UnitsIn(claim', InGlobal', d))
                        /\ \A v \in Users :
                             userUsage'[v][d] = Cardinality(UnitsIn(claim', InUser(v)', d))
      BY ConservationNext
    <3>1. claim \in [Tasks -> Claims] /\ InUser(u) \in SUBSET Tasks /\ t \in Tasks \ InUser(u)
      BY <2>4 DEF Inv, TypeOK, InUser
    <3>2. Cardinality(UnitsIn(claim, InUser(u) \cup {t}, d))
            = Cardinality(UnitsIn(claim, InUser(u), d)) + claim[t][d]
      BY <3>1, UnitsAdd
    <3>3. /\ usage[d] = Cardinality(UnitsIn(claim, InGlobal, d))
          /\ \A v \in Users : userUsage[v][d] = Cardinality(UnitsIn(claim, InUser(v), d))
      BY ConservationNow DEF Inv
    <3>4. userUsage'[u][d] = Cardinality(UnitsIn(claim', InUser(u)', d))
      BY <1>0, <1>1, <2>4, <2>v, <3>2, <3>3
    <3>5. \A v \in Users \ {u} : userUsage'[v][d] = Cardinality(UnitsIn(claim', InUser(v)', d))
      BY <1>0, <2>4, <2>v, <3>3
    <3>6. usage'[d] = Cardinality(UnitsIn(claim', InGlobal', d))
      BY <1>0, <2>4, <3>3
    <3> QED  BY <3>4, <3>5, <3>6
  <2>6. Within'
    BY <1>0, <2>2, <2>v DEF Inv, Within
  <2>7. AskedFirst'
    BY <1>0, <2>1 DEF Inv, TypeOK, AskedFirst
  <2> QED  BY <2>3, <2>5, <2>6, <2>7 DEF Inv
<1> QED  BY <1>2, <1>3

(* A task gives its claim back to the global pool, after a refusal or on   *)
(* drop.                                                                   *)
LEMMA GiveBackGlobal ==
  ASSUME Inv, NEW t \in Tasks, phase[t] \in {"refused", "held"},
         NEW p \in {"idle", "dropping"}, p = "idle" <=> phase[t] = "refused",
         usage' = Minus(usage, claim[t]), phase' = [phase EXCEPT ![t] = p],
         UNCHANGED <<userUsage, accounts, user, claim>>
  PROVE  Inv'
<1> DEFINE next == Minus(usage, claim[t])
<1>1. /\ t \in InGlobal /\ InGlobal' = InGlobal \ {t} /\ InGlobal \in SUBSET Tasks
      /\ \A v \in Users : InUser(v)' = InUser(v)
  BY DEF Inv, TypeOK, InGlobal, InUser
<1>2. ASSUME NEW d \in Dims
      PROVE  /\ next[d] \in Nat /\ next[d] <= usage[d]
             /\ next[d] = Cardinality(UnitsIn(claim, InGlobal \ {t}, d))
  <2>1. usage[d] = Cardinality(UnitsIn(claim, InGlobal, d))
    BY ConservationNow DEF Inv
  <2>2. /\ claim[t][d] \in Nat
        /\ claim[t][d] <= Cardinality(UnitsIn(claim, InGlobal, d))
        /\ Cardinality(UnitsIn(claim, InGlobal \ {t}, d))
             = Cardinality(UnitsIn(claim, InGlobal, d)) - claim[t][d]
    BY <1>1, UnitsRemove DEF Inv, TypeOK
  <2>3. usage[d] \in Nat
    BY NumberTypes DEF Inv
  <2>4. next[d] = usage[d] - claim[t][d]
    BY DEF Minus
  <2> HIDE DEF next
  <2> QED  BY <2>1, <2>2, <2>3, <2>4
<1>3. next \in [Dims -> 0 .. MaxWord]
  <2>1. \A d \in Dims : next[d] \in 0 .. MaxWord
    <3> TAKE d \in Dims
    <3>1. usage[d] \in 0 .. MaxWord  BY DEF Inv, TypeOK
    <3> QED  BY <1>2, <3>1
  <2> QED  BY <2>1 DEF Minus
<1> HIDE DEF next
<1>4. usage' = next
  BY DEF next
<1>5. TypeOK'
  BY <1>3, <1>4 DEF Inv, TypeOK, Phases
<1>6. Conservation'
  BY <1>1, <1>2, <1>4, ConservationNow, ConservationNext DEF Inv
<1>7. Within'
  <2> SUFFICES ASSUME NEW d \in Dims PROVE next[d] <= GlobalLimit[d]
    BY <1>4 DEF Inv, Within
  <2>1. usage[d] <= GlobalLimit[d]  BY DEF Inv, Within
  <2>2. usage[d] \in Nat  BY NumberTypes DEF Inv
  <2> QED  BY <1>2, <2>1, <2>2
<1>8. AskedFirst'
  BY DEF Inv, TypeOK, AskedFirst
<1> QED  BY <1>5, <1>6, <1>7, <1>8 DEF Inv

(* The last critical section of a drop.                                    *)
LEMMA DropUserInv == ASSUME Inv, NEW t \in Tasks, DropUser(t) PROVE Inv'
<1>u. PICK u \in Users : u = user[t]
  BY DEF Inv, TypeOK
<1> DEFINE next == Minus(userUsage[u], claim[t])
<1>0. /\ phase[t] = "dropping"
      /\ UNCHANGED <<usage, accounts, user, claim>>
      /\ userUsage' = [userUsage EXCEPT ![u] = next]
      /\ phase' = [phase EXCEPT ![t] = "idle"]
  BY <1>u DEF DropUser, Inv, TypeOK
<1>1. /\ t \in InUser(u) /\ InUser(u)' = InUser(u) \ {t} /\ InUser(u) \in SUBSET Tasks
      /\ InGlobal' = InGlobal
      /\ \A v \in Users \ {u} : InUser(v)' = InUser(v)
  BY <1>0, <1>u DEF Inv, TypeOK, InGlobal, InUser
<1>2. ASSUME NEW d \in Dims
      PROVE  /\ next[d] \in Nat /\ next[d] <= userUsage[u][d]
             /\ next[d] = Cardinality(UnitsIn(claim, InUser(u) \ {t}, d))
  <2>1. userUsage[u][d] = Cardinality(UnitsIn(claim, InUser(u), d))
    BY <1>0, ConservationNow DEF Inv
  <2>2. /\ claim[t][d] \in Nat
        /\ claim[t][d] <= Cardinality(UnitsIn(claim, InUser(u), d))
        /\ Cardinality(UnitsIn(claim, InUser(u) \ {t}, d))
             = Cardinality(UnitsIn(claim, InUser(u), d)) - claim[t][d]
    BY <1>1, UnitsRemove DEF Inv, TypeOK
  <2>3. userUsage[u][d] \in Nat
    BY <1>0, NumberTypes DEF Inv
  <2>4. next[d] = userUsage[u][d] - claim[t][d]
    BY DEF Minus
  <2> HIDE DEF next
  <2> QED  BY <2>1, <2>2, <2>3, <2>4
<1>3. next \in [Dims -> 0 .. MaxWord]
  <2>1. \A d \in Dims : next[d] \in 0 .. MaxWord
    <3> TAKE d \in Dims
    <3>1. userUsage[u] \in [Dims -> 0 .. MaxWord]  BY <1>0 DEF Inv, TypeOK
    <3>2. userUsage[u][d] \in 0 .. MaxWord  BY <3>1
    <3> QED  BY <1>2, <3>2
  <2> QED  BY <2>1 DEF Minus
<1> HIDE DEF next
<1>4. /\ userUsage'[u] = next
      /\ \A v \in Users \ {u} : userUsage'[v] = userUsage[v]
  BY <1>0 DEF Inv, TypeOK
<1>5. TypeOK'
  BY <1>0, <1>3 DEF Inv, TypeOK, Phases
<1>6. Conservation'
  <2> SUFFICES ASSUME NEW d \in Dims
               PROVE  /\ usage'[d] = Cardinality(UnitsIn(claim', InGlobal', d))
                      /\ \A v \in Users :
                           userUsage'[v][d] = Cardinality(UnitsIn(claim', InUser(v)', d))
    BY ConservationNext
  <2>1. /\ usage[d] = Cardinality(UnitsIn(claim, InGlobal, d))
        /\ \A v \in Users : userUsage[v][d] = Cardinality(UnitsIn(claim, InUser(v), d))
    BY ConservationNow DEF Inv
  <2>2. userUsage'[u][d] = Cardinality(UnitsIn(claim', InUser(u)', d))
    BY <1>0, <1>1, <1>2, <1>4
  <2>3. \A v \in Users \ {u} : userUsage'[v][d] = Cardinality(UnitsIn(claim', InUser(v)', d))
    BY <1>0, <1>1, <1>4, <2>1
  <2>4. usage'[d] = Cardinality(UnitsIn(claim', InGlobal', d))
    BY <1>0, <1>1, <2>1
  <2> QED  BY <2>2, <2>3, <2>4
<1>7. Within'
  <2> SUFFICES ASSUME NEW d \in Dims PROVE next[d] <= UserLimit[d]
    BY <1>0, <1>4 DEF Inv, Within
  <2>1. userUsage[u][d] <= UserLimit[d]  BY <1>0 DEF Inv, Within
  <2>2. userUsage[u][d] \in Nat  BY <1>0, NumberTypes DEF Inv
  <2> QED  BY <1>2, <2>1, <2>2
<1>8. AskedFirst'
  BY <1>0 DEF Inv, TypeOK, AskedFirst
<1> QED  BY <1>5, <1>6, <1>7, <1>8 DEF Inv

(* Every step preserves the invariant.                                     *)
LEMMA NextInv == Inv /\ [Next]_vars => Inv'
<1> SUFFICES ASSUME Inv, [Next]_vars PROVE Inv'
  OBVIOUS
<1>1. CASE UNCHANGED vars
  <2>1. InGlobal' = InGlobal /\ \A u \in Users : InUser(u)' = InUser(u)
    BY <1>1 DEF vars, InGlobal, InUser
  <2>2. Conservation'
    BY <1>1, <2>1, ConservationNow, ConservationNext DEF Inv, vars
  <2> QED  BY <1>1, <2>2 DEF Inv, vars, TypeOK, Within, AskedFirst
<1>2. ASSUME NEW t \in Tasks, Ask(t) PROVE Inv'
  BY <1>2, AskInv
<1>3. ASSUME NEW t \in Tasks, ReserveGlobal(t) PROVE Inv'
  BY <1>3, ReserveGlobalInv
<1>4. ASSUME NEW t \in Tasks, ReserveUser(t) PROVE Inv'
  BY <1>4, ReserveUserInv
<1>5. ASSUME NEW t \in Tasks, RollBack(t) PROVE Inv'
  BY <1>5, GiveBackGlobal DEF RollBack
<1>6. ASSUME NEW t \in Tasks, DropGlobal(t) PROVE Inv'
  BY <1>6, GiveBackGlobal DEF DropGlobal
<1>7. ASSUME NEW t \in Tasks, DropUser(t) PROVE Inv'
  BY <1>7, DropUserInv
<1> QED  BY <1>1, <1>2, <1>3, <1>4, <1>5, <1>6, <1>7 DEF Next

(* The invariant holds in every reachable state.                           *)
LEMMA Invariance == Spec => []Inv
<1> QED  BY InitInv, NextInv, PTL DEF Spec

---------------------------------------------------------------------------
(* No reservation leaks or is given back twice, whatever the interleaving  *)
(* of the critical sections and wherever reserve() fails.                  *)
THEOREM ConservationHolds == Spec => [](TypeOK /\ Conservation)
<1>1. Inv => TypeOK /\ Conservation
  BY DEF Inv
<1> QED  BY <1>1, Invariance, PTL

(* Drop never underflows, so its `expect` cannot poison a pool's mutex.    *)
THEOREM NoUnderflowHolds == Spec => []NoUnderflow
<1>1. Inv => NoUnderflow
  <2> SUFFICES ASSUME Inv, NEW t \in Tasks, NEW d \in Dims
               PROVE  /\ phase[t] \in {"refused", "held"} => claim[t][d] <= usage[d]
                      /\ phase[t] \in {"held", "dropping"} =>
                           claim[t][d] <= userUsage[user[t]][d]
    BY DEF NoUnderflow
  <2>1. claim \in [Tasks -> Claims] /\ user[t] \in Users
    BY DEF Inv, TypeOK
  <2>2. /\ usage[d] = Cardinality(UnitsIn(claim, InGlobal, d))
        /\ userUsage[user[t]][d] = Cardinality(UnitsIn(claim, InUser(user[t]), d))
    BY <2>1, ConservationNow DEF Inv
  <2>3. ASSUME phase[t] \in {"refused", "held"} PROVE claim[t][d] <= usage[d]
    <3>1. t \in InGlobal /\ InGlobal \in SUBSET Tasks  BY <2>3 DEF InGlobal
    <3> QED  BY <2>1, <2>2, <3>1, UnitsRemove
  <2>4. ASSUME phase[t] \in {"held", "dropping"}
        PROVE  claim[t][d] <= userUsage[user[t]][d]
    <3>1. t \in InUser(user[t]) /\ InUser(user[t]) \in SUBSET Tasks
      BY <2>4 DEF InUser
    <3> QED  BY <2>1, <2>2, <3>1, UnitsRemove
  <2> QED  BY <2>3, <2>4
<1> QED  BY <1>1, Invariance, PTL

---------------------------------------------------------------------------
(* The two critical sections implement one atomic admission.               *)

Held == {t \in Tasks : phase[t] = "held"}

HeldWithin ==
  \A d \in Dims :
    /\ Cardinality(UnitsIn(claim, Held, d)) <= GlobalLimit[d]
    /\ \A u \in Users :
         Cardinality(UnitsIn(claim, {t \in Held : user[t] = u}, d)) <= UserLimit[d]

(* What is granted at any moment is within both limits: each pool counts   *)
(* at least the granted claims, and no pool exceeds its limit.             *)
LEMMA HeldWithinLimits == Inv => HeldWithin
<1> SUFFICES ASSUME Inv, NEW d \in Dims
             PROVE  /\ Cardinality(UnitsIn(claim, Held, d)) <= GlobalLimit[d]
                    /\ \A u \in Users :
                         Cardinality(UnitsIn(claim, {t \in Held : user[t] = u}, d))
                           <= UserLimit[d]
  BY DEF HeldWithin
<1>1. claim \in [Tasks -> Claims]
  BY DEF Inv, TypeOK
<1>2. Cardinality(UnitsIn(claim, Held, d)) <= GlobalLimit[d]
  <2>1. InGlobal \in SUBSET Tasks /\ Held \in SUBSET InGlobal
    BY DEF InGlobal, Held
  <2>2. Cardinality(UnitsIn(claim, Held, d)) <= Cardinality(UnitsIn(claim, InGlobal, d))
    BY <1>1, <2>1, UnitsMonotone
  <2>3. /\ Cardinality(UnitsIn(claim, InGlobal, d)) \in Nat
        /\ Cardinality(UnitsIn(claim, Held, d)) \in Nat
    BY <1>1, <2>1, UnitsFinite
  <2>4. Cardinality(UnitsIn(claim, InGlobal, d)) <= GlobalLimit[d]
    BY ConservationNow DEF Inv, Within
  <2>5. GlobalLimit[d] \in Nat
    OBVIOUS
  <2> QED  BY <2>2, <2>3, <2>4, <2>5
<1>3. ASSUME NEW u \in Users
      PROVE  Cardinality(UnitsIn(claim, {t \in Held : user[t] = u}, d)) <= UserLimit[d]
  <2> DEFINE mine == {t \in Held : user[t] = u}
  <2>1. InUser(u) \in SUBSET Tasks /\ mine \in SUBSET InUser(u)
    BY DEF InUser, Held
  <2> HIDE DEF mine
  <2>2. Cardinality(UnitsIn(claim, mine, d)) <= Cardinality(UnitsIn(claim, InUser(u), d))
    BY <1>1, <2>1, UnitsMonotone
  <2>3. /\ Cardinality(UnitsIn(claim, InUser(u), d)) \in Nat
        /\ Cardinality(UnitsIn(claim, mine, d)) \in Nat
    BY <1>1, <2>1, UnitsFinite
  <2>4. Cardinality(UnitsIn(claim, InUser(u), d)) <= UserLimit[d]
    BY ConservationNow DEF Inv, Within
  <2>5. UserLimit[d] \in Nat
    OBVIOUS
  <2>6. Cardinality(UnitsIn(claim, mine, d)) <= UserLimit[d]
    BY <2>2, <2>3, <2>4, <2>5
  <2> QED  BY <2>6 DEF mine
<1> QED  BY <1>2, <1>3

(* Every step is an admission step, or invisible from outside.             *)
LEMMA StepSimulation ==
  ASSUME Inv, Inv', [Next]_vars
  PROVE  [Atomic!Next]_<<Held, user, claim>>
<1>1. CASE UNCHANGED vars
  BY <1>1 DEF vars, Held
<1>2. ASSUME NEW t \in Tasks, Ask(t) PROVE Atomic!Next
  <2>1. t \notin Held /\ Held' = Held
    BY <1>2 DEF Ask, Held, Inv, TypeOK
  <2> QED  BY <1>2, <2>1 DEF Ask, Atomic!Next, Atomic!Choose, Held
<1>3. ASSUME NEW t \in Tasks, ReserveGlobal(t) \/ RollBack(t) \/ DropUser(t)
      PROVE  UNCHANGED <<Held, user, claim>>
  BY <1>3 DEF ReserveGlobal, RollBack, DropUser, Held, Inv, TypeOK
<1>4. ASSUME NEW t \in Tasks, DropGlobal(t) PROVE Atomic!Next
  <2>1. t \in Held /\ Held' = Held \ {t}
    BY <1>4 DEF DropGlobal, Held, Inv, TypeOK
  <2> QED  BY <1>4, <2>1 DEF DropGlobal, Atomic!Next, Atomic!Release, Held
<1>5. ASSUME NEW t \in Tasks, ReserveUser(t)
      PROVE  Atomic!Next \/ UNCHANGED <<Held, user, claim>>
  <2>0. UNCHANGED <<user, claim>> /\ t \notin Held
    BY <1>5 DEF ReserveUser, Held
  <2>1. CASE phase' = [phase EXCEPT ![t] = "refused"]
    BY <2>0, <2>1 DEF Held, Inv, TypeOK
  <2>2. CASE phase' = [phase EXCEPT ![t] = "held"]
    <3>1. Held' = Held \cup {t}
      BY <2>2 DEF Held, Inv, TypeOK
    <3>2. HeldWithin'
      BY HeldWithinLimits, PTL
    <3>3. Atomic!WithinLimits(Held \cup {t})
      <4> DEFINE granted == Held \cup {t}
      <4> SUFFICES ASSUME NEW d \in Dims
                   PROVE  /\ Atomic!Total(granted, d) <= GlobalLimit[d]
                          /\ \A u \in Users :
                               Atomic!Total(Atomic!OfUser(granted, u), d) <= UserLimit[d]
        BY DEF Atomic!WithinLimits
      <4>1. \A T : Atomic!Total(T, d) = Cardinality(UnitsIn(claim, T, d))
        <5> TAKE T
        <5>1. Atomic!Units(T, d) = UnitsIn(claim, T, d)
          BY DEF Atomic!Units, UnitsIn
        <5> QED  BY <5>1 DEF Atomic!Total, Atomic!Cardinality, Cardinality
      <4>2. \A u \in Users : Atomic!OfUser(granted, u) = {s \in Held' : user'[s] = u}
        BY <2>0, <3>1 DEF Atomic!OfUser
      <4>3. /\ Cardinality(UnitsIn(claim, Held', d)) <= GlobalLimit[d]
            /\ \A u \in Users :
                 Cardinality(UnitsIn(claim, {s \in Held' : user'[s] = u}, d)) <= UserLimit[d]
        BY <2>0, <3>2 DEF HeldWithin, UnitsIn
      <4> HIDE DEF granted
      <4>4. Held' = granted
        BY <3>1 DEF granted
      <4> QED  BY <4>1, <4>2, <4>3, <4>4
    <3> QED  BY <2>0, <3>1, <3>3 DEF Atomic!Next, Atomic!Grant, Held
  <2> QED  BY <1>5, <2>1, <2>2 DEF ReserveUser
<1> QED  BY <1>1, <1>2, <1>3, <1>4, <1>5 DEF Next

(* Seen from outside, admission is atomic over both layers.                *)
THEOREM AdmissionIsAtomic == Spec => ImplementsAdmission
<1>1. Init => Atomic!Init
  BY DEF Init, Atomic!Init
<1>2. Inv /\ Inv' /\ [Next]_vars => [Atomic!Next]_<<Held, user, claim>>
  BY StepSimulation
<1>3. [Atomic!Next]_<<Held, user, claim>> => [Atomic!Next]_<<{t \in Tasks : phase[t] = "held"}, user, claim>>
  BY DEF Held
<1> QED  BY <1>1, <1>2, <1>3, Invariance, PTL DEF Spec, ImplementsAdmission, Atomic!Spec

============================================================================
