------------------------- MODULE ConnectionProofs -------------------------
(***************************************************************************)
(* Proofs about how a client comes to the gateway: what is negotiated, for *)
(* every hello and every support; the handshake and the request streams,   *)
(* for any clients, requests, set-ups and limits.                          *)
(***************************************************************************)
EXTENDS Connection, FiniteSetTheorems, TLAPS

---------------------------------------------------------------------------
(* Negotiation: the removals leave no dependency broken, and they remove   *)
(* no more than that takes.  The eight removals are made once, in a fixed  *)
(* order, so what has to be shown is that no later one breaks what an      *)
(* earlier one looked at.                                                  *)

(* One removal takes out at most its own capability, exactly when its      *)
(* condition fails, and leaves the versions of the others alone.           *)
LEMMA KeepFact ==
  ASSUME NEW s, NEW n, NEW c \in BOOLEAN
  PROVE  /\ \A k : k \in DOMAIN Keep(s, n, c) <=> k \in DOMAIN s /\ (k # n \/ c)
         /\ \A k \in DOMAIN Keep(s, n, c) : Keep(s, n, c)[k] = s[k]
BY DEF Keep

(* Which capabilities of s all eight removals keep, written without their  *)
(* order.                                                                  *)
Survives(s, n) ==
  LET semantic == Has(s, "semantic_state", 2)
      objects  == "session_objects" \in DOMAIN s
      ack      == "state_ack" \in DOMAIN s
  IN  /\ n \in DOMAIN s
      /\ n \in {"clipboard_write", "history_paging", "state_ack"} => semantic
      /\ n = "semantic_diff" => semantic /\ ack
      /\ n = "datagram_state" => semantic /\ ack /\ objects
      /\ n = "input_lease" => objects
      /\ n = "input_resume" => objects /\ "input_lease" \in DOMAIN s
      /\ n = "tcp_forward" => "stream_channels" \in DOMAIN s

(* The removals of negotiate_client_hello together keep what survives, at  *)
(* the version it had.                                                     *)
LEMMA PruneFact ==
  ASSUME NEW s
  PROVE  /\ \A n : n \in DOMAIN Prune(s) <=> Survives(s, n)
         /\ \A n \in DOMAIN Prune(s) : Prune(s)[n] = s[n]
<1> DEFINE sem == Has(s, "semantic_state", 2)
<1> DEFINE k1 == sem
           a1 == Keep(s, "clipboard_write", k1)
<1>a1. WithoutClipboard(s) = a1 /\ k1 \in BOOLEAN
  BY DEF WithoutClipboard, Has
<1> HIDE DEF k1
<1>d1. /\ \A k : k \in DOMAIN a1 <=> k \in DOMAIN s /\ (k # "clipboard_write" \/ k1)
      /\ \A k \in DOMAIN a1 : a1[k] = s[k]
  BY <1>a1, KeepFact
<1> HIDE DEF a1
<1>h1. Has(a1, "semantic_state", 2) = sem
  BY <1>d1 DEF Has
<1> DEFINE k2 == sem
           a2 == Keep(a1, "history_paging", k2)
<1>a2. WithoutHistory(a1) = a2 /\ k2 \in BOOLEAN
  BY <1>h1 DEF WithoutHistory, Has
<1> HIDE DEF k2
<1>d2. /\ \A k : k \in DOMAIN a2 <=> k \in DOMAIN a1 /\ (k # "history_paging" \/ k2)
      /\ \A k \in DOMAIN a2 : a2[k] = a1[k]
  BY <1>a2, KeepFact
<1> HIDE DEF a2
<1>h2. Has(a2, "semantic_state", 2) = sem
  BY <1>d2, <1>h1 DEF Has
<1> DEFINE k3 == sem
           a3 == Keep(a2, "state_ack", k3)
<1>a3. WithoutAck(a2) = a3 /\ k3 \in BOOLEAN
  BY <1>h2 DEF WithoutAck, Has
<1> HIDE DEF k3
<1>d3. /\ \A k : k \in DOMAIN a3 <=> k \in DOMAIN a2 /\ (k # "state_ack" \/ k3)
      /\ \A k \in DOMAIN a3 : a3[k] = a2[k]
  BY <1>a3, KeepFact
<1> HIDE DEF a3
<1>h3. Has(a3, "semantic_state", 2) = sem
  BY <1>d3, <1>h2 DEF Has
<1> DEFINE k4 == "state_ack" \in DOMAIN a3 /\ sem
           a4 == Keep(a3, "semantic_diff", k4)
<1>a4. WithoutDiff(a3) = a4 /\ k4 \in BOOLEAN
  BY <1>h3 DEF WithoutDiff, Has
<1> HIDE DEF k4
<1>d4. /\ \A k : k \in DOMAIN a4 <=> k \in DOMAIN a3 /\ (k # "semantic_diff" \/ k4)
      /\ \A k \in DOMAIN a4 : a4[k] = a3[k]
  BY <1>a4, KeepFact
<1> HIDE DEF a4
<1>h4. Has(a4, "semantic_state", 2) = sem
  BY <1>d4, <1>h3 DEF Has
<1> DEFINE k5 == {"state_ack", "session_objects"} \subseteq DOMAIN a4 /\ sem
           a5 == Keep(a4, "datagram_state", k5)
<1>a5. WithoutDatagrams(a4) = a5 /\ k5 \in BOOLEAN
  BY <1>h4 DEF WithoutDatagrams, Has
<1> HIDE DEF k5
<1>d5. /\ \A k : k \in DOMAIN a5 <=> k \in DOMAIN a4 /\ (k # "datagram_state" \/ k5)
      /\ \A k \in DOMAIN a5 : a5[k] = a4[k]
  BY <1>a5, KeepFact
<1> HIDE DEF a5
<1> DEFINE k6 == "session_objects" \in DOMAIN a5
           a6 == Keep(a5, "input_lease", k6)
<1>a6. WithoutLease(a5) = a6 /\ k6 \in BOOLEAN
  BY DEF WithoutLease
<1> HIDE DEF k6
<1>d6. /\ \A k : k \in DOMAIN a6 <=> k \in DOMAIN a5 /\ (k # "input_lease" \/ k6)
      /\ \A k \in DOMAIN a6 : a6[k] = a5[k]
  BY <1>a6, KeepFact
<1> HIDE DEF a6
<1> DEFINE k7 == "input_lease" \in DOMAIN a6
           a7 == Keep(a6, "input_resume", k7)
<1>a7. WithoutResume(a6) = a7 /\ k7 \in BOOLEAN
  BY DEF WithoutResume
<1> HIDE DEF k7
<1>d7. /\ \A k : k \in DOMAIN a7 <=> k \in DOMAIN a6 /\ (k # "input_resume" \/ k7)
      /\ \A k \in DOMAIN a7 : a7[k] = a6[k]
  BY <1>a7, KeepFact
<1> HIDE DEF a7
<1> DEFINE k8 == "stream_channels" \in DOMAIN a7
           a8 == Keep(a7, "tcp_forward", k8)
<1>a8. WithoutForward(a7) = a8 /\ k8 \in BOOLEAN
  BY DEF WithoutForward
<1> HIDE DEF k8
<1>d8. /\ \A k : k \in DOMAIN a8 <=> k \in DOMAIN a7 /\ (k # "tcp_forward" \/ k8)
      /\ \A k \in DOMAIN a8 : a8[k] = a7[k]
  BY <1>a8, KeepFact
<1> HIDE DEF a8
<1>1. Prune(s) = a8
  BY <1>a1, <1>a2, <1>a3, <1>a4, <1>a5, <1>a6, <1>a7, <1>a8 DEF Prune
<1>2. ASSUME NEW n
       PROVE  n \in DOMAIN a8 <=> Survives(s, n)
  BY <1>d1, <1>d2, <1>d3, <1>d4, <1>d5, <1>d6, <1>d7, <1>d8
     DEF Survives, k1, k2, k3, k4, k5, k6, k7, k8
<1>3. \A n \in DOMAIN a8 : a8[n] = s[n]
  BY <1>d1, <1>d2, <1>d3, <1>d4, <1>d5, <1>d6, <1>d7, <1>d8
<1> QED
  BY <1>1, <1>2, <1>3

(* negotiate_client_hello never selects a capability without the ones it   *)
(* needs, whatever was offered: validate_capability_dependencies, which    *)
(* both the client and the worker run on the answer, accepts it.           *)
THEOREM DependenciesKept ==
  ASSUME NEW s
  PROVE  DependenciesHold(Prune(s))
<1> DEFINE p == Prune(s)
<1>1. /\ \A n : n \in DOMAIN p <=> Survives(s, n)
      /\ \A n \in DOMAIN p : p[n] = s[n]
  BY PruneFact
<1> HIDE DEF p
<1>2. Has(s, "semantic_state", 2) => Has(p, "semantic_state", 2)
  BY <1>1 DEF Has, Survives
<1>3. DependenciesHold(p)
  BY <1>1, <1>2 DEF DependenciesHold, Survives
<1> QED
  BY <1>3 DEF p

(* The removals are no greater than the dependencies demand: any set of    *)
(* capabilities that both ends support and that could be used together is  *)
(* part of the selection, at the highest version both support.             *)
THEOREM SelectionIsBest ==
  ASSUME NEW offered, NEW supported
  PROVE  BestSelection(offered, supported, Prune(Overlap(offered, supported)))
<1> DEFINE both == Overlap(offered, supported)
           p == Prune(both)
<1>1. /\ \A n : n \in DOMAIN p <=> Survives(both, n)
      /\ \A n \in DOMAIN p : p[n] = both[n]
  BY PruneFact
<1> HIDE DEF both, p
<1>2. ASSUME NEW d \in SUBSET DOMAIN both,
             DependenciesHold([n \in d |-> both[n]])
      PROVE  d \subseteq DOMAIN p
  <2> DEFINE f == [n \in d |-> both[n]]
  <2>1. DOMAIN f = d /\ \A n \in d : f[n] = both[n]
    OBVIOUS
  <2>2. DependenciesHold(f)
    BY <1>2
  <2> HIDE DEF f
  <2>3. Has(f, "semantic_state", 2) => Has(both, "semantic_state", 2)
    BY <2>1 DEF Has
  <2>4. ASSUME NEW n \in d
        PROVE  Survives(both, n)
    BY <2>1, <2>2, <2>3 DEF DependenciesHold, Survives
  <2> QED
    BY <1>1, <2>4
<1> QED
  BY <1>1, <1>2 DEF BestSelection, both, p

(* Whatever a hello offers and a server supports, an accepted hello gets   *)
(* the best selection, and one in which no dependency is broken.           *)
THEOREM NegotiationSound ==
  ASSUME NEW hello, NEW support, NegotiateClientHello(hello, support).ok
  PROVE  LET n == NegotiateClientHello(hello, support)
         IN  /\ DependenciesHold(n.capabilities)
             /\ BestSelection(AsMap(hello.capabilities), AsMap(support.capabilities),
                              n.capabilities)
<1>1. NegotiateClientHello(hello, support).capabilities =
        Prune(Overlap(AsMap(hello.capabilities), AsMap(support.capabilities)))
  BY DEF NegotiateClientHello, Refused
<1> QED
  BY <1>1, DependenciesKept, SelectionIsBest

---------------------------------------------------------------------------
(* What the client and the worker read back.                               *)

\* What Retain makes of a list enumerates the indices it keeps, each once.
Enumerates(retained, list, kept) ==
  \E at \in [1 .. Cardinality(kept) -> kept] :
    /\ \A i, j \in 1 .. Cardinality(kept) : at[i] = at[j] => i = j
    /\ \A k \in kept : \E i \in 1 .. Cardinality(kept) : at[i] = k
    /\ retained = [i \in 1 .. Cardinality(kept) |-> list[at[i]]]

LEMMA RetainFacts ==
  ASSUME NEW n \in Nat, NEW kept \in SUBSET (1 .. n), NEW list
  PROVE  Cardinality(kept) \in 0 .. n /\ Enumerates(Retain(list, kept), list, kept)
<1> DEFINE N == Cardinality(kept)
           Below(k) == {j \in kept : j <= k}
           rank == [k \in kept |-> Cardinality(Below(k))]
           at == [i \in 1 .. N |-> CHOOSE k \in kept : Cardinality(Below(k)) = i]
<1>0. \A k, l \in kept : k < l \/ l < k \/ k = l
  OBVIOUS
<1>1. IsFiniteSet(kept) /\ N \in Nat /\ N <= n
  <2>1. IsFiniteSet(1 .. n) /\ Cardinality(1 .. n) = n
    BY FS_Interval
  <2> QED
    BY <2>1, FS_Subset, FS_CardinalityType
<1>2. ASSUME NEW k \in kept PROVE Cardinality(Below(k)) \in 1 .. N
  <2>1. Below(k) \in SUBSET kept /\ k \in Below(k)
    OBVIOUS
  <2>2. IsFiniteSet(Below(k)) /\ Cardinality(Below(k)) <= N
    BY <1>1, <2>1, FS_Subset
  <2>3. Cardinality(Below(k)) \in Nat /\ Cardinality(Below(k)) # 0
    BY <2>1, <2>2, FS_CardinalityType, FS_EmptySet
  <2> QED
    BY <1>1, <2>2, <2>3
<1>3. ASSUME NEW k \in kept, NEW l \in kept, k < l
      PROVE  Cardinality(Below(k)) # Cardinality(Below(l))
  <2>0. k \in Int /\ l \in Int /\ \A j \in kept : j \in Int
    OBVIOUS
  <2>1. Below(k) \in SUBSET Below(l) /\ l \in Below(l) /\ l \notin Below(k)
    <3>1. ASSUME NEW j \in Below(k) PROVE j \in Below(l)
      BY <1>3, <2>0
    <3>2. l \in Below(l)
      BY <2>0
    <3>3. l \notin Below(k)
      BY <1>3, <2>0
    <3> HIDE DEF Below
    <3> QED
      BY <3>1, <3>2, <3>3
  <2>2. IsFiniteSet(Below(l))
    BY <1>1, FS_Subset
  <2> HIDE DEF Below
  <2> QED
    BY <2>1, <2>2, FS_Subset
<1>4. rank \in Injection(kept, 1 .. N)
  <2>1. \A k, l \in kept : rank[k] = rank[l] => k = l
    BY <1>0, <1>3
  <2>2. rank \in [kept -> 1 .. N]
    BY <1>2
  <2> QED
    BY <2>1, <2>2 DEF Injection, IsInjective
<1>5. \A i \in 1 .. N : \E k \in kept : Cardinality(Below(k)) = i
  <2>1. IsFiniteSet(1 .. N) /\ Cardinality(1 .. N) = N
    BY <1>1, FS_Interval
  <2>2. rank \in Surjection(kept, 1 .. N)
    BY <1>4, <2>1, FS_Injection
  <2> QED
    BY <2>2 DEF Surjection
<1>6. \A i \in 1 .. N : at[i] \in kept /\ Cardinality(Below(at[i])) = i
  BY <1>5
<1>7. ASSUME NEW k \in kept PROVE \E i \in 1 .. N : at[i] = k
  <2> DEFINE i == Cardinality(Below(k))
  <2>1. i \in 1 .. N
    BY <1>2
  <2>2. Cardinality(Below(at[i])) = Cardinality(Below(k)) /\ at[i] \in kept
    BY <1>6, <2>1
  <2> DEFINE k2 == at[i]
  <2> HIDE DEF k2
  <2>3. k2 = k
    <3>1. k2 \in kept /\ Cardinality(Below(k2)) = Cardinality(Below(k))
      BY <2>2 DEF k2
    <3> HIDE DEF Below
    <3> QED
      BY <1>0, <1>3, <3>1
  <2> QED
    BY <2>1, <2>3 DEF k2
<1>8. at \in [1 .. N -> kept]
  BY <1>6
<1>9. \A i, j \in 1 .. N : at[i] = at[j] => i = j
  BY <1>6
<1>10. Retain(list, kept) = [i \in 1 .. N |-> list[at[i]]]
  BY DEF Retain
<1> HIDE DEF at
<1> QED
  BY <1>1, <1>7, <1>8, <1>9, <1>10 DEF Enumerates

\* A list in which no name is twice, as a map.
LEMMA AsMapFacts ==
  ASSUME NEW list, NoneTwice(list)
  PROVE  /\ \A i \in DOMAIN list :
              /\ list[i].name \in DOMAIN AsMap(list)
              /\ AsMap(list)[list[i].name] = [min |-> list[i].min, max |-> list[i].max]
         /\ \A n \in DOMAIN AsMap(list) : \E i \in DOMAIN list : list[i].name = n
<1> DEFINE names == {list[i].name : i \in DOMAIN list}
           at(n) == CHOOSE i \in DOMAIN list : list[i].name = n
<1>1. \A i \in DOMAIN list : at(list[i].name) = i
  <2> TAKE i \in DOMAIN list
  <2>1. at(list[i].name) \in DOMAIN list /\ list[at(list[i].name)].name = list[i].name
    OBVIOUS
  <2> HIDE DEF at
  <2> QED
    BY <2>1 DEF NoneTwice
<1>2. AsMap(list) = [n \in names |-> [min |-> list[at(n)].min, max |-> list[at(n)].max]]
  BY DEF AsMap
<1>3. \A i \in DOMAIN list : list[i].name \in names
  OBVIOUS
<1>4. \A n \in names : \E i \in DOMAIN list : list[i].name = n
  OBVIOUS
<1> HIDE DEF at, names
<1> QED
  BY <1>1, <1>2, <1>3, <1>4

LEMMA NamesValid == \A i \in 1 .. 13 : ValidName(NameOrder[i])
<1> DEFINE Names == {"tcp_forward", "payload_zstd", "session_objects", "clipboard_write",
                     "datagram_state", "history_paging", "input_lease", "input_resume",
                     "legacy_ansi", "semantic_diff", "semantic_state", "state_ack",
                     "stream_channels"}
<1>1. \A i \in 1 .. 13 : NameOrder[i] \in Names
  BY DEF NameOrder
<1>2. \A n \in Names : n # ""
  BY Zenon
<1> HIDE DEF Names
<1> QED
  BY <1>1, <1>2, Zenon DEF ValidName

\* What is sent of a selection is read back as it was.
LEMMA SelectionsFacts ==
  ASSUME NEW s, s = [n \in DOMAIN s |-> s[n]],
         \A n \in DOMAIN s : \E i \in 1 .. 13 : NameOrder[i] = n
  PROVE  /\ Len(Selections(s)) <= 13 /\ DOMAIN Selections(s) = 1 .. Len(Selections(s))
         /\ \A i \in DOMAIN Selections(s) :
              /\ Selections(s)[i].name \in DOMAIN s /\ ValidName(Selections(s)[i].name)
              /\ Selections(s)[i].version = s[Selections(s)[i].name]
         /\ NoneTwice(Selections(s))
         /\ SelectedMap(Selections(s)) = s
<1> DEFINE kept == {i \in DOMAIN NameOrder : NameOrder[i] \in DOMAIN s}
           names == Retain(NameOrder, kept)
           list == Selections(s)
<1>1. DOMAIN NameOrder = 1 .. 13
  BY DEF NameOrder
<1>2. \A i, j \in 1 .. 13 : NameOrder[i] = NameOrder[j] => i = j
  BY DEF NameOrder
<1>3. kept \in SUBSET (1 .. 13)
  BY <1>1
<1> HIDE DEF kept
<1> DEFINE N == Cardinality(kept)
<1>4. N \in 0 .. 13
  BY <1>3, RetainFacts
<1>5. PICK at \in [1 .. N -> kept] :
        /\ \A i, j \in 1 .. N : at[i] = at[j] => i = j
        /\ \A k \in kept : \E i \in 1 .. N : at[i] = k
        /\ names = [i \in 1 .. N |-> NameOrder[at[i]]]
  <2>1. 13 \in Nat
    OBVIOUS
  <2>2. Enumerates(names, NameOrder, kept)
    BY <1>3, <2>1, RetainFacts
  <2> HIDE DEF names
  <2> QED
    BY <2>2, Zenon DEF Enumerates
<1>6. \A i \in 1 .. N : at[i] \in 1 .. 13 /\ NameOrder[at[i]] \in DOMAIN s
  BY <1>3, <1>5 DEF kept
<1>7. list = [i \in DOMAIN names |-> [name |-> names[i], version |-> s[names[i]]]]
  BY DEF Selections, kept
<1> HIDE DEF N, names, list
<1>8. list = [i \in 1 .. N |-> [name |-> NameOrder[at[i]], version |-> s[NameOrder[at[i]]]]]
  BY <1>5, <1>7
<1>9. DOMAIN list = 1 .. N /\ Len(list) = N
  BY <1>4, <1>8
<1>10. \A i \in 1 .. N : list[i].name = NameOrder[at[i]] /\ list[i].version = s[list[i].name]
  BY <1>8
<1>11. NoneTwice(list)
  <2> SUFFICES ASSUME NEW i \in 1 .. N, NEW j \in 1 .. N, list[i].name = list[j].name
               PROVE  i = j
    BY <1>9 DEF NoneTwice
  <2>1. at[i] = at[j]
    BY <1>2, <1>6, <1>10
  <2> QED
    BY <1>5, <2>1
<1>12. ASSUME NEW n \in DOMAIN s PROVE \E i \in 1 .. N : list[i].name = n
  <2>1. PICK k \in 1 .. 13 : NameOrder[k] = n
    OBVIOUS
  <2>2. k \in kept
    BY <1>1, <2>1 DEF kept
  <2> QED
    BY <1>5, <1>10, <2>1, <2>2
<1>13. SelectedMap(list) = s
  <2> DEFINE dom == {list[i].name : i \in DOMAIN list}
             pos(n) == CHOOSE i \in DOMAIN list : list[i].name = n
  <2>1. dom = DOMAIN s
    <3>1. \A n : n \in dom <=> \E i \in 1 .. N : list[i].name = n
      BY <1>9
    <3> HIDE DEF dom
    <3>2. \A n : n \in dom => n \in DOMAIN s
      BY <1>6, <1>10, <3>1
    <3>3. \A n : n \in DOMAIN s => n \in dom
      BY <1>12, <3>1
    <3> QED
      BY <3>2, <3>3
  <2>2. \A n \in DOMAIN s : list[pos(n)].version = s[n]
    <3> TAKE n \in DOMAIN s
    <3>1. \E i \in DOMAIN list : list[i].name = n
      BY <1>9, <1>12
    <3>2. pos(n) \in DOMAIN list /\ list[pos(n)].name = n
      BY <3>1
    <3> HIDE DEF pos
    <3> QED
      BY <1>9, <1>10, <3>2
  <2>3. SelectedMap(list) = [n \in dom |-> list[pos(n)].version]
    BY DEF SelectedMap
  <2> HIDE DEF dom, pos
  <2>4. SelectedMap(list) = [n \in DOMAIN s |-> s[n]]
    BY <2>1, <2>2, <2>3
  <2> QED
    BY <2>4
<1>14. \A i \in DOMAIN list : list[i].name \in DOMAIN s /\ ValidName(list[i].name)
  <2> TAKE i \in DOMAIN list
  <2>1. list[i].name = NameOrder[at[i]] /\ at[i] \in 1 .. 13 /\ NameOrder[at[i]] \in DOMAIN s
    BY <1>6, <1>9, <1>10
  <2> QED
    BY <2>1, NamesValid
<1>15. /\ Len(list) <= 13 /\ DOMAIN list = 1 .. Len(list)
       /\ \A i \in DOMAIN list : list[i].version = s[list[i].name]
  BY <1>4, <1>9, <1>10
<1> QED
  BY <1>11, <1>13, <1>14, <1>15 DEF list

---------------------------------------------------------------------------
(* What the gateway and the worker support.                                *)

LEMMA RaisedFacts ==
  /\ DOMAIN Raised = 1 .. 13
  /\ \A i \in 1 .. 13 : /\ Raised[i].min \in Nat /\ Raised[i].max \in Nat
                        /\ Raised[i].min > 0 /\ Raised[i].min <= Raised[i].max
                        /\ ValidName(Raised[i].name)
                        /\ \E k \in 1 .. 13 : NameOrder[k] = Raised[i].name
  /\ NoneTwice(Raised)
<1> DEFINE pos == <<1, 13, 2, 9, 11, 6, 12, 10, 5, 4, 3, 8, 7>>
<1>1. DOMAIN Runtime.capabilities = 1 .. 13
  BY DEF Runtime
<1>2. DOMAIN Raised = 1 .. 13
  BY <1>1 DEF Raised
<1>3. ASSUME NEW i \in 1 .. 13
      PROVE  /\ Runtime.capabilities[i].min \in {1, 2}
             /\ Runtime.capabilities[i].max = Runtime.capabilities[i].min
             /\ Raised[i].name = Runtime.capabilities[i].name
             /\ Raised[i].min = Runtime.capabilities[i].min
             /\ Raised[i].max \in {Runtime.capabilities[i].max, 3}
  <2>1. /\ Runtime.capabilities[i].min \in {1, 2}
        /\ Runtime.capabilities[i].max = Runtime.capabilities[i].min
    BY DEF Runtime, Pinned, Offer
  <2>2. \E n, v : Runtime.capabilities[i] = Offer(n, v, v)
    BY DEF Runtime, Pinned
  <2> QED
    BY <1>1, <2>1, <2>2 DEF Raised, Offer
<1>4. ASSUME NEW i \in 1 .. 13
      PROVE  /\ ValidName(Runtime.capabilities[i].name)
             /\ \E k \in 1 .. 13 : NameOrder[k] = Runtime.capabilities[i].name
  <2>1. pos[i] \in 1 .. 13 /\ NameOrder[pos[i]] = Runtime.capabilities[i].name
    BY DEF Runtime, Pinned, Offer, NameOrder
  <2> HIDE DEF pos
  <2> QED
    BY <2>1, NamesValid
<1>5. ASSUME NEW i \in 1 .. 13, NEW j \in 1 .. 13,
             Runtime.capabilities[i].name = Runtime.capabilities[j].name
      PROVE  i = j
  BY <1>5 DEF Runtime, Pinned, Offer
<1>6. NoneTwice(Raised)
  <2> SUFFICES ASSUME NEW i \in 1 .. 13, NEW j \in 1 .. 13, Raised[i].name = Raised[j].name
               PROVE  i = j
    BY <1>2 DEF NoneTwice
  <2>1. Runtime.capabilities[i].name = Runtime.capabilities[j].name
    BY <1>3
  <2> QED
    BY <1>5, <2>1
<1>7. ASSUME NEW i \in 1 .. 13
      PROVE  /\ Raised[i].min \in Nat /\ Raised[i].max \in Nat
             /\ Raised[i].min > 0 /\ Raised[i].min <= Raised[i].max
             /\ ValidName(Raised[i].name)
             /\ \E k \in 1 .. 13 : NameOrder[k] = Raised[i].name
  <2>1. /\ Raised[i].min \in {1, 2} /\ Raised[i].max \in {Raised[i].min, 3}
        /\ Raised[i].name = Runtime.capabilities[i].name
    BY <1>3
  <2>2. /\ Raised[i].min \in Nat /\ Raised[i].max \in Nat
        /\ Raised[i].min > 0 /\ Raised[i].min <= Raised[i].max
    BY <2>1
  <2> QED
    BY <1>4, <2>1, <2>2
<1> QED
  BY <1>2, <1>6, <1>7

Range0(k) == [min |-> Raised[k].min, max |-> Raised[k].max]

\* A support that offers nothing but what the table has.
Tabled(support) ==
  /\ support.min = 1 /\ support.max = 2
  /\ \A n \in DOMAIN AsMap(support.capabilities) : \E k \in 1 .. 13 :
       Raised[k].name = n /\ AsMap(support.capabilities)[n] = Range0(k)

\* One that offers all of it.
Full(support) ==
  /\ ValidSupport(support)
  /\ \A k \in 1 .. 13 : /\ Raised[k].name \in DOMAIN AsMap(support.capabilities)
                         /\ AsMap(support.capabilities)[Raised[k].name] = Range0(k)

LEMMA SupportFacts ==
  ASSUME NEW f \in BOOLEAN, NEW d \in BOOLEAN
  PROVE  Tabled(ServerSupport(f, d)) /\ (f /\ d => Full(ServerSupport(f, d)))
<1> DEFINE kept == {i \in DOMAIN Raised : /\ f \/ Raised[i].name # "tcp_forward"
                                          /\ d \/ Raised[i].name # "datagram_state"}
           N == Cardinality(kept)
           list == Retain(Raised, kept)
           support == ServerSupport(f, d)
<1>1. support.min = 1 /\ support.max = 2 /\ support.capabilities = list
  BY DEF ServerSupport, Runtime, MinimumProtocolVersion, ProtocolVersion
<1>2. kept \in SUBSET (1 .. 13) /\ (f /\ d => kept = 1 .. 13)
  BY RaisedFacts
<1> HIDE DEF kept
<1>3. N \in 0 .. 13 /\ Enumerates(list, Raised, kept)
  <2>1. 13 \in Nat
    OBVIOUS
  <2> QED
    BY <1>2, <2>1, RetainFacts
<1> HIDE DEF list
<1>4. PICK at \in [1 .. N -> kept] :
        /\ \A i, j \in 1 .. N : at[i] = at[j] => i = j
        /\ \A k \in kept : \E i \in 1 .. N : at[i] = k
        /\ list = [i \in 1 .. N |-> Raised[at[i]]]
  BY <1>3, Zenon DEF Enumerates
<1> HIDE DEF N
<1>5. DOMAIN list = 1 .. N /\ Len(list) = N
  BY <1>3, <1>4
<1>6. \A i \in 1 .. N : list[i] = Raised[at[i]] /\ at[i] \in 1 .. 13
  BY <1>2, <1>4
<1>7. NoneTwice(list)
  <2> SUFFICES ASSUME NEW i \in 1 .. N, NEW j \in 1 .. N, list[i].name = list[j].name
               PROVE  i = j
    BY <1>5 DEF NoneTwice
  <2>1. \A k, l \in 1 .. 13 : Raised[k].name = Raised[l].name => k = l
    BY RaisedFacts DEF NoneTwice
  <2>2. Raised[at[i]].name = Raised[at[j]].name
    BY <1>6
  <2>3. at[i] \in 1 .. 13 /\ at[j] \in 1 .. 13
    BY <1>6
  <2>4. at[i] = at[j]
    BY <2>1, <2>2, <2>3
  <2> QED
    BY <1>4, <2>4
<1>8. ASSUME NEW i \in 1 .. N
      PROVE  Raised[at[i]].name \in DOMAIN AsMap(list)
               /\ AsMap(list)[Raised[at[i]].name] = Range0(at[i])
  BY <1>5, <1>6, <1>7, AsMapFacts DEF Range0
<1>9. ASSUME NEW n \in DOMAIN AsMap(list)
      PROVE  \E k \in 1 .. 13 : Raised[k].name = n /\ AsMap(list)[n] = Range0(k)
  <2>1. PICK i \in DOMAIN list : list[i].name = n
    BY <1>7, AsMapFacts
  <2>2. at[i] \in 1 .. 13 /\ Raised[at[i]].name = n
    BY <1>5, <1>6, <2>1
  <2> QED
    BY <1>5, <1>8, <2>1, <2>2
<1>10. ASSUME f, d
       PROVE  /\ ValidSupport(support)
              /\ \A k \in 1 .. 13 : Raised[k].name \in DOMAIN AsMap(list)
                                      /\ AsMap(list)[Raised[k].name] = Range0(k)
  <2>1. ASSUME NEW k \in 1 .. 13
        PROVE  Raised[k].name \in DOMAIN AsMap(list)
                 /\ AsMap(list)[Raised[k].name] = Range0(k)
    <3>1. PICK i \in 1 .. N : at[i] = k
      BY <1>2, <1>4, <1>10
    <3> QED
      BY <1>8, <3>1
  <2>2. ASSUME NEW i \in 1 .. N
        PROVE  ValidName(list[i].name) /\ list[i].min > 0 /\ list[i].min <= list[i].max
    BY <1>6, RaisedFacts
  <2>3. ValidOffers(list)
    BY <1>3, <1>5, <1>7, <2>2 DEF ValidOffers, MaxCapabilities
  <2> QED
    BY <1>1, <2>1, <2>3 DEF ValidSupport
<1>11. Tabled(support)
  BY <1>1, <1>9 DEF Tabled
<1>12. f /\ d => Full(support)
  BY <1>1, <1>10 DEF Full
<1> QED
  BY <1>11, <1>12

\* The versions in a hello are numbers.
IsHello(hello) ==
  /\ hello.hint \in Nat /\ hello.min \in Nat /\ hello.max \in Nat
  /\ \A i \in DOMAIN hello.capabilities :
       hello.capabilities[i].min \in Nat /\ hello.capabilities[i].max \in Nat

\* A list whose versions lie within the ranges of a map passes Within.
LEMMA WithinFacts ==
  ASSUME NEW s, NEW ranges, s = [n \in DOMAIN s |-> s[n]],
         \A n \in DOMAIN s : \E i \in 1 .. 13 : NameOrder[i] = n,
         \A n \in DOMAIN s : n \in DOMAIN ranges /\ s[n] \in ranges[n].min .. ranges[n].max,
         DependenciesHold(s)
  PROVE  Within(Selections(s), ranges)
<1> DEFINE list == Selections(s)
<1>1. /\ Len(list) <= 13 /\ DOMAIN list = 1 .. Len(list)
      /\ \A i \in DOMAIN list : /\ list[i].name \in DOMAIN s /\ ValidName(list[i].name)
                                /\ list[i].version = s[list[i].name]
      /\ NoneTwice(list)
      /\ SelectedMap(list) = s
  BY SelectionsFacts
<1>2. Len(list) <= 64
  BY <1>1, SelectionsFacts
<1> HIDE DEF list
<1>3. Within(list, ranges)
  BY <1>1, <1>2, Zenon DEF Within, MaxCapabilities
<1> QED
  BY <1>3 DEF list

LEMMA NegotiatedFacts ==
  ASSUME NEW hello, IsHello(hello), NEW f \in BOOLEAN, NEW d \in BOOLEAN
  PROVE  LET n == NegotiateClientHello(hello, ServerSupport(f, d))
         IN  /\ SoundFor(hello, ServerSupport(f, d))
             /\ n.ok => /\ DependenciesHold(n.capabilities)
                        /\ \A m \in DOMAIN n.capabilities : Has(n.capabilities, m, 1)
<1> DEFINE support == ServerSupport(f, d)
           full == ServerSupport(TRUE, TRUE)
           O == AsMap(hello.capabilities)
           P == AsMap(support.capabilities)
           W == AsMap(full.capabilities)
           both == Overlap(O, P)
           s == Prune(both)
           range == HelloRange(hello)
           low == Greatest(range.min, support.min)
           high == Least(range.max, support.max)
           n == NegotiateClientHello(hello, support)
           list == Selections(s)
<1> SUFFICES ASSUME n.ok
             PROVE  /\ DependenciesHold(n.capabilities)
                    /\ \A m \in DOMAIN n.capabilities : Has(n.capabilities, m, 1)
                    /\ BestSelection(O, P, n.capabilities)
                    /\ ValidateServerHello(hello, n.version, Selections(n.capabilities)) = n
                    /\ ValidateWorkerSelection(n.version, Selections(n.capabilities), full) = n
  BY DEF SoundFor
<1>1. /\ ValidSupport(support) /\ range.ok /\ low <= high /\ ValidOffers(hello.capabilities)
      /\ n = [ok |-> TRUE, version |-> high, capabilities |-> s]
  <2> DEFINE passes == ValidSupport(support) /\ range.ok /\ low <= high
                         /\ ValidOffers(hello.capabilities)
             made == [ok |-> TRUE, version |-> high, capabilities |-> s]
  <2>1. n = IF ~passes THEN Refused ELSE made
    BY DEF NegotiateClientHello
  <2>2. ~Refused.ok
    BY DEF Refused
  <2> HIDE DEF n, passes, made
  <2>3. passes /\ n = made
    BY <2>1, <2>2
  <2> QED
    BY <2>3 DEF passes, made
<1>2. n.version = high /\ n.capabilities = s
  <2>1. n = [ok |-> TRUE, version |-> high, capabilities |-> s]
    BY <1>1
  <2> HIDE DEF n, high, s
  <2> QED
    BY <2>1
<1>3. /\ support.min = 1 /\ support.max = 2 /\ full.min = 1 /\ full.max = 2
      /\ ValidSupport(full)
      /\ \A m \in DOMAIN P : \E k \in 1 .. 13 : Raised[k].name = m /\ P[m] = Range0(k)
      /\ \A k \in 1 .. 13 : Raised[k].name \in DOMAIN W /\ W[Raised[k].name] = Range0(k)
  <2>1. Tabled(support) /\ Tabled(full) /\ Full(full)
    BY SupportFacts
  <2> HIDE DEF support, full
  <2> QED
    BY <2>1 DEF Tabled, Full
<1>4. \A m \in DOMAIN O : O[m].min \in Nat /\ O[m].max \in Nat
  <2>1. NoneTwice(hello.capabilities)
    BY <1>1 DEF ValidOffers
  <2> TAKE m \in DOMAIN O
  <2>2. PICK i \in DOMAIN hello.capabilities : hello.capabilities[i].name = m
    BY <2>1, AsMapFacts
  <2>3. O[m] = [min |-> hello.capabilities[i].min, max |-> hello.capabilities[i].max]
    BY <2>1, <2>2, AsMapFacts
  <2> QED
    BY <2>2, <2>3 DEF IsHello
<1>5. /\ \A m \in DOMAIN s : m \in DOMAIN both /\ s[m] = both[m]
      /\ s = [m \in DOMAIN s |-> s[m]]
  <2>1. \A m \in DOMAIN s : m \in DOMAIN both /\ s[m] = both[m]
    BY PruneFact DEF Survives
  <2>2. s = [m \in DOMAIN s |-> s[m]]
    BY DEF Prune, WithoutForward, Keep
  <2> QED
    BY <2>1, <2>2
<1>6. DependenciesHold(s) /\ BestSelection(O, P, s)
  BY DependenciesKept, SelectionIsBest
<1>7. high \in range.min .. range.max /\ high \in 1 .. 2
  <2>1. range.min \in Nat /\ range.max \in Nat
    BY DEF HelloRange, IsHello
  <2> HIDE DEF range, support
  <2>2. \A l, h \in Nat : Greatest(l, 1) <= Least(h, 2)
          => Least(h, 2) \in l .. h /\ Least(h, 2) \in 1 .. 2
    BY DEF Greatest, Least
  <2> QED
    BY <1>1, <1>3, <2>1, <2>2
<1> HIDE DEF s, n, high, low, support, full, W, O, P
<1>8. ASSUME NEW m \in DOMAIN s
      PROVE  /\ \E k \in 1 .. 13 : NameOrder[k] = m
             /\ m \in DOMAIN O /\ s[m] \in O[m].min .. O[m].max
             /\ m \in DOMAIN W /\ s[m] \in W[m].min .. W[m].max
             /\ s[m] >= 1
  <2>1. /\ m \in DOMAIN O /\ m \in DOMAIN P
        /\ Greatest(O[m].min, P[m].min) <= Least(O[m].max, P[m].max)
        /\ s[m] = Least(O[m].max, P[m].max)
    BY <1>5 DEF Overlap, Overlaps
  <2>2. PICK k \in 1 .. 13 : Raised[k].name = m /\ P[m] = Range0(k)
    BY <1>3, <2>1
  <2>3. Raised[k].min \in Nat /\ Raised[k].max \in Nat /\ Raised[k].min > 0
    BY RaisedFacts
  <2>4. P[m].min = Raised[k].min /\ P[m].max = Raised[k].max
    BY <2>2 DEF Range0
  <2>5. O[m].min \in Nat /\ O[m].max \in Nat
    BY <1>4, <2>1
  <2>6. s[m] \in O[m].min .. O[m].max /\ s[m] \in P[m].min .. P[m].max /\ s[m] >= 1
    <3>1. \A a, b, u, v \in Nat : u > 0 /\ Greatest(a, u) <= Least(b, v) =>
            Least(b, v) \in a .. b /\ Least(b, v) \in u .. v /\ Least(b, v) >= 1
      BY DEF Greatest, Least
    <3> QED
      BY <2>1, <2>3, <2>4, <2>5, <3>1
  <2>7. m \in DOMAIN W /\ W[m] = P[m]
    BY <1>3, <2>2
  <2>8. \E l \in 1 .. 13 : NameOrder[l] = m
    BY <2>2, RaisedFacts
  <2> QED
    BY <2>1, <2>6, <2>7, <2>8
<1>9. Within(list, O) /\ Within(list, W)
  BY <1>5, <1>6, <1>8, WithinFacts
<1>10. SelectedMap(list) = s
  BY <1>5, <1>8, SelectionsFacts
<1> HIDE DEF list
<1>11. ValidateServerHello(hello, high, list) = n
  BY <1>1, <1>7, <1>9, <1>10 DEF ValidateServerHello, O
<1>12. ValidateWorkerSelection(high, list, full) = n
  BY <1>1, <1>3, <1>7, <1>9, <1>10 DEF ValidateWorkerSelection, W
<1>13. \A m \in DOMAIN s : Has(s, m, 1)
  BY <1>8 DEF Has
<1> QED
  BY <1>2, <1>6, <1>11, <1>12, <1>13 DEF list

(* What negotiate_client_hello selects from any hello, for a server with or *)
(* without forwarding and datagrams, is the best selection, and both the   *)
(* client that offered it and the worker it is handed to accept it and     *)
(* read it back as it was selected.                                        *)
THEOREM SelectionReadBack ==
  ASSUME NEW hello, IsHello(hello), NEW f \in BOOLEAN, NEW d \in BOOLEAN
  PROVE  SoundFor(hello, ServerSupport(f, d))
BY NegotiatedFacts

---------------------------------------------------------------------------
(* The connection.  The inductive invariant, in parts.                     *)

ClientStates == {"idle", "absent", "greeting", "signing", "ready", "failed"}
ServerStates ==
  {"none", "accepted", "challenged", "refused", "reserved", "granted", "serving", "ended"}
StreamStates ==
  {"unopened", "ended", "sent", "greeted", "late", "routed", "running", "answered"}
Choices == {Chosen[p][s] : p \in Profiles, s \in Servers} \cup {NoSelection}

ClientErrors == {Empty, "lost", "connection_quota_exceeded", "authentication_failed"}
ClientRecords ==
  [pc : ClientStates, profile : Profiles, key : {"k"}, negotiated : Choices,
   epoch : Epochs \cup {0}, error : ClientErrors]
ServerRecords == [pc : ServerStates, negotiated : Choices, epoch : Epochs \cup {0}]
HelloRecords ==
  [epoch : Epochs \cup {0}, kind : {Empty, "forward", "terminal", "file", "control"},
   handle : {Empty, "x"}]
StreamRecords ==
  [pc : StreamStates, command : Commands \cup {Empty}, handle : {Empty, "x"},
   hello : HelloRecords, answer : {Empty} \cup Errors \cup {Expected(a) : a \in Commands},
   seen : {"nothing", "waiting", "unsent", "answer", "late", "lost"}]

ConnectionTypes ==
  /\ setup \in Servers /\ account \in KeyFiles
  /\ client \in [Conns -> ClientRecords]
  /\ server \in [Conns -> ServerRecords]
  /\ link \in [Conns -> {"none", "up", "down"}]
  /\ DOMAIN up = Conns /\ DOMAIN down = Conns
  /\ stream \in [Requests -> StreamRecords]

\* What the gateway selects for the client of c.
Choice(c) == Chosen[client[c].profile][setup]

\* The gateway has told the client of c the selection and the epoch.
Admitted(c) ==
  /\ server[c].pc \in {"granted", "serving", "ended"}
  /\ Choice(c).ok /\ server[c].negotiated = Choice(c)
  /\ IF Has(Choice(c).capabilities, "stream_channels", 1)
       THEN server[c].epoch \in Epochs ELSE server[c].epoch = 0

Welcome(c) == <<AuthResult(TRUE, Empty, server[c].epoch)>>
Refusals == {<<AuthResult(FALSE, code, 0)>> : code \in {Empty, "connection_quota_exceeded"}}

\* Where the two ends of a handshake may be, and what is between them.
Greeting(c) ==
  \/ server[c].pc = "accepted" /\ up[c] = <<[kind |-> "hello"]>> /\ down[c] = <<>>
  \/ /\ server[c].pc \in {"challenged", "ended"}
     /\ Choice(c).ok /\ server[c].negotiated = Choice(c)
     /\ up[c] = <<>> /\ down[c] = <<ServerHello(Choice(c))>>
  \/ server[c].pc = "ended" /\ down[c] = <<>>

Signing(c) ==
  /\ Choice(c).ok /\ client[c].negotiated = Choice(c) /\ server[c].negotiated = Choice(c)
  /\ \/ server[c].pc \in {"challenged", "reserved", "ended"} /\ down[c] = <<>>
     \/ server[c].pc \in {"refused", "ended"} /\ down[c] \in Refusals
     \/ Admitted(c) /\ down[c] = Welcome(c)

HandshakeAt(c) ==
  /\ client[c].pc \in {"idle", "absent"} =>
       server[c].pc = "none" /\ up[c] = <<>> /\ down[c] = <<>>
  /\ client[c].pc = "greeting" => Greeting(c)
  /\ client[c].pc = "signing" => Signing(c)
  /\ client[c].pc = "ready" =>
       /\ Admitted(c)
       /\ client[c].negotiated = Choice(c) /\ client[c].epoch = server[c].epoch
  /\ client[c].pc = "failed" => link[c] = "down"

Handshake == \A c \in Conns : HandshakeAt(c)

\* A stream that was opened is one the gateway and the worker accept.
StreamAt(r) ==
  stream[r].pc \notin {"unopened", "ended"} =>
    /\ Admitted(ConnOf[r]) /\ stream[r].command \in Commands
    /\ ValidateStreamRequest(Negotiated(ConnOf[r]), server[ConnOf[r]].epoch, stream[r])
    /\ stream[r].pc = "answered" =>
         stream[r].answer \in Errors \cup {Expected(stream[r].command)}

Streaming == \A r \in Requests : StreamAt(r)

Reserved == Cardinality(Held) <= ConnectionLimit

ConnectionInv == ConnectionTypes /\ Handshake /\ Streaming /\ Reserved

---------------------------------------------------------------------------
\* What the tables of the three checks say of a selection.
LEMMA ChosenFacts ==
  ASSUME NEW p \in Profiles, NEW s \in Servers, Chosen[p][s].ok
  PROVE  /\ ClientVerdict[p][ServerHello(Chosen[p][s])] = Chosen[p][s]
         /\ WorkerVerdict[Chosen[p][s]]
         /\ Has(Chosen[p][s].capabilities, "tcp_forward", 1) =>
              Has(Chosen[p][s].capabilities, "stream_channels", 1)
<1> DEFINE hello == ClientHello(p)
           support == ServerSupport(s.forwarding, s.datagrams)
           n == Chosen[p][s]
           list == Selections(n.capabilities)
<1>1. IsHello(hello) /\ s.forwarding \in BOOLEAN /\ s.datagrams \in BOOLEAN
  BY LimitsAssumption DEF ClientHello, IsHello
<1>2. n = NegotiateClientHello(hello, support)
  BY DEF Chosen
<1> HIDE DEF hello, support
<1>3. /\ SoundFor(hello, support) /\ DependenciesHold(n.capabilities)
      /\ \A m \in DOMAIN n.capabilities : Has(n.capabilities, m, 1)
  BY <1>1, <1>2, NegotiatedFacts DEF support
<1>4. /\ ValidateServerHello(hello, n.version, list) = n
      /\ ValidateWorkerSelection(n.version, list, ServerSupport(TRUE, TRUE)) = n
  BY <1>2, <1>3 DEF SoundFor
<1>5. n \in Selected
  BY DEF Selected
<1>6. ServerHello(n) \in {ServerHello(m) : m \in Selected}
  BY <1>5
<1>7. ServerHello(n).version = n.version /\ ServerHello(n).selections = list
  BY DEF ServerHello
<1> HIDE DEF n, list
<1>8. ClientVerdict[p][ServerHello(n)] = n
  BY <1>4, <1>6, <1>7 DEF ClientVerdict, hello
<1>9. WorkerVerdict[n]
  <2> DEFINE has(v) == Has(v.capabilities, "datagram_state", 1)
             again == ValidateWorkerSelection(n.version, Selections(n.capabilities),
                                              ServerSupport(TRUE, TRUE))
  <2>1. WorkerVerdict[n] =
          (again.ok /\ has(again) = ((IF has(n) THEN 1200 ELSE 0) > 0))
    BY <1>5, Zenon DEF WorkerVerdict
  <2>2. again = n /\ n.ok
    BY <1>4 DEF list, n
  <2>3. has(n) = ((IF has(n) THEN 1200 ELSE 0) > 0)
    BY DEF Has
  <2> HIDE DEF has, again
  <2> QED
    BY <2>1, <2>2, <2>3, Zenon
<1>10. Has(n.capabilities, "tcp_forward", 1) => Has(n.capabilities, "stream_channels", 1)
  BY <1>3 DEF DependenciesHold, Has
<1> QED
  BY <1>8, <1>9, <1>10 DEF n

\* A step at c leaves the other connections as they are.
LEMMA HandshakeFrame ==
  ASSUME NEW c \in Conns, ConnectionTypes, Handshake, setup' = setup,
         \A d \in Conns \ {c} : /\ client'[d] = client[d] /\ server'[d] = server[d]
                                /\ link'[d] = link[d] /\ up'[d] = up[d] /\ down'[d] = down[d],
         HandshakeAt(c)'
  PROVE  Handshake'
<1> SUFFICES ASSUME NEW d \in Conns \ {c} PROVE HandshakeAt(d)'
  BY DEF Handshake
<1>1. HandshakeAt(d)
  BY DEF Handshake
<1>2. /\ client'[d] = client[d] /\ server'[d] = server[d]
      /\ link'[d] = link[d] /\ up'[d] = up[d] /\ down'[d] = down[d]
  OBVIOUS
<1>3. /\ Choice(d)' = Choice(d) /\ Admitted(d)' = Admitted(d) /\ Welcome(d)' = Welcome(d)
  BY <1>2 DEF Choice, Admitted, Welcome
<1>4. Greeting(d)' = Greeting(d) /\ Signing(d)' = Signing(d)
  BY <1>2, <1>3 DEF Greeting, Signing
<1> QED
  BY <1>1, <1>2, <1>3, <1>4 DEF HandshakeAt

\* What was told to a client stays true of its connection.
LEMMA StreamFrame ==
  ASSUME Streaming, stream' = stream, setup' = setup, ConnectionTypes,
         \A d \in Conns : client'[d].profile = client[d].profile,
         \A d \in Conns : server[d].pc \in {"granted", "serving", "ended"} =>
           /\ server'[d].pc \in {"granted", "serving", "ended"}
           /\ server'[d].negotiated = server[d].negotiated
           /\ server'[d].epoch = server[d].epoch
  PROVE  Streaming'
<1> SUFFICES ASSUME NEW r \in Requests, stream[r].pc \notin {"unopened", "ended"}
             PROVE  StreamAt(r)'
  BY DEF Streaming, StreamAt
<1> DEFINE d == ConnOf[r]
<1>1. d \in Conns
  BY LimitsAssumption
<1>2. /\ Admitted(d) /\ stream[r].command \in Commands
      /\ ValidateStreamRequest(Negotiated(d), server[d].epoch, stream[r])
      /\ stream[r].pc = "answered" =>
           stream[r].answer \in Errors \cup {Expected(stream[r].command)}
  BY DEF Streaming, StreamAt
<1> HIDE DEF d
<1>3. server[d].pc \in {"granted", "serving", "ended"}
  BY <1>2 DEF Admitted
<1>4. /\ Choice(d)' = Choice(d) /\ server'[d].negotiated = server[d].negotiated
      /\ server'[d].epoch = server[d].epoch
      /\ server'[d].pc \in {"granted", "serving", "ended"}
  BY <1>1, <1>3 DEF Choice
<1>5. Admitted(d)'
  BY <1>2, <1>4 DEF Admitted
<1>6. Negotiated(d)' = Negotiated(d)
  BY <1>4 DEF Negotiated
<1> QED
  BY <1>2, <1>4, <1>5, <1>6 DEF StreamAt, d

\* A step that makes no reservation.
LEMMA ReservedFrame ==
  ASSUME Reserved,
         \A d \in Conns : server'[d].pc \in {"reserved", "granted", "serving"} =>
                            server[d].pc \in {"reserved", "granted", "serving"}
  PROVE  Reserved'
<1> DEFINE before == Held
           after == Held'
<1>1. after \subseteq before /\ before \subseteq Conns
  BY DEF Held
<1>2. IsFiniteSet(Conns)
  BY LimitsAssumption
<1> HIDE DEF before, after
<1>3. IsFiniteSet(before)
  BY <1>1, <1>2, FS_Subset
<1>4. Cardinality(after) \in Nat /\ Cardinality(before) \in Nat
        /\ Cardinality(after) <= Cardinality(before)
  BY <1>1, <1>3, FS_Subset, FS_CardinalityType
<1>5. Cardinality(before) <= ConnectionLimit
  BY DEF Reserved, before
<1>6. Cardinality(after) <= ConnectionLimit
  BY <1>4, <1>5, LimitsAssumption
<1> QED
  BY <1>6 DEF Reserved, after

---------------------------------------------------------------------------
LEMMA EmptyFacts == Empty \notin {"hello", "epoch", "connection_quota_exceeded"}
BY Zenon DEF Empty

LEMMA ConnectionInit ==
  ASSUME Init
  PROVE  ConnectionInv
<1>1. ConnectionTypes
  <2>1. \A p \in Profiles, pc \in {"idle", "absent"} : NewClient(p, pc) \in ClientRecords
    BY DEF NewClient, ClientRecords, ClientStates, ClientErrors, Choices
  <2>2. client \in [Conns -> ClientRecords]
    <3>1. {NewClient(p, pc) : p \in Profiles, pc \in {"idle", "absent"}} \subseteq ClientRecords
      BY <2>1
    <3> QED
      BY <3>1 DEF Init
  <2>3. server \in [Conns -> ServerRecords]
    <3> DEFINE new == [pc |-> "none", negotiated |-> NoSelection, epoch |-> 0]
    <3>1. new \in ServerRecords
      BY DEF ServerRecords, ServerStates, Choices
    <3>2. server = [c \in Conns |-> new]
      BY DEF Init
    <3> HIDE DEF new
    <3> QED
      BY <3>1, <3>2
  <2>4. Unopened \in StreamRecords /\ Unmade \in StreamRecords
    <3>1. NoHello \in HelloRecords
      BY DEF NoHello, HelloRecords
    <3> QED
      BY <3>1 DEF Unopened, Unmade, StreamRecords, StreamStates
  <2>5. stream \in [Requests -> StreamRecords]
    BY <2>4 DEF Init
  <2> QED
    BY <2>2, <2>3, <2>5 DEF ConnectionTypes, Init
<1>2. Handshake
  <2> SUFFICES ASSUME NEW c \in Conns PROVE HandshakeAt(c)
    BY DEF Handshake
  <2>1. PICK p \in Profiles, pc \in {"idle", "absent"} : client[c] = NewClient(p, pc)
    BY DEF Init
  <2>2. client[c].pc \in {"idle", "absent"}
    BY <2>1 DEF NewClient
  <2>3. server[c].pc = "none" /\ up[c] = <<>> /\ down[c] = <<>>
    BY DEF Init
  <2> QED
    BY <2>2, <2>3 DEF HandshakeAt
<1>3. Streaming
  <2> SUFFICES ASSUME NEW r \in Requests PROVE stream[r].pc \in {"unopened", "ended"}
    BY DEF Streaming, StreamAt
  <2>1. Unopened.pc = "unopened" /\ Unmade.pc = "ended"
    BY DEF Unopened, Unmade
  <2>2. stream[r] \in {Unopened, Unmade}
    BY DEF Init
  <2> QED
    BY <2>1, <2>2
<1>4. Reserved
  <2>1. Held = {}
    BY DEF Init, Held
  <2>2. Cardinality(Held) = 0
    BY <2>1, FS_EmptySet
  <2> QED
    BY <2>2, LimitsAssumption DEF Reserved
<1> QED
  BY <1>1, <1>2, <1>3, <1>4 DEF ConnectionInv

---------------------------------------------------------------------------
(* The handshake actions, in the states of the invariant.                  *)

\* The client accepts the hello it is sent.
LEMMA ServerHelloEffect ==
  ASSUME ConnectionInv, NEW c \in Conns, RecvServerHello(c)
  PROVE  /\ Choice(c).ok /\ server[c].negotiated = Choice(c)
         /\ server[c].pc \in {"challenged", "ended"}
         /\ client' = [client EXCEPT ![c].pc = "signing", ![c].negotiated = Choice(c)]
         /\ DOMAIN up' = Conns /\ \A d \in Conns \ {c} : up'[d] = up[d]
         /\ down' = [down EXCEPT ![c] = <<>>]
         /\ UNCHANGED <<setup, account, server, link, stream>>
<1> DEFINE hi == ServerHello(Choice(c))
<1>1. client[c].pc = "greeting" /\ down[c] # <<>>
  BY DEF RecvServerHello
<1>2. Greeting(c)
  BY <1>1 DEF ConnectionInv, Handshake, HandshakeAt
<1>3. /\ down[c] = <<hi>> /\ Choice(c).ok /\ server[c].negotiated = Choice(c)
      /\ server[c].pc \in {"challenged", "ended"}
  BY <1>1, <1>2 DEF Greeting
<1> HIDE DEF hi
<1>4. Head(down[c]) = hi /\ Tail(down[c]) = <<>>
  BY <1>3
<1>5. client[c].profile \in Profiles /\ setup \in Servers
  BY DEF ConnectionInv, ConnectionTypes, ClientRecords
<1>6. ClientVerdict[client[c].profile][hi] = Choice(c)
  BY <1>3, <1>5, ChosenFacts DEF Choice, hi
<1>7. /\ client' = [client EXCEPT ![c].pc = "signing", ![c].negotiated = Choice(c)]
      /\ up' = [up EXCEPT ![c] = Append(@, [kind |-> "auth"])]
      /\ UNCHANGED link
  BY <1>3, <1>4, <1>6 DEF RecvServerHello
<1>8. DOMAIN up = Conns
  BY DEF ConnectionInv, ConnectionTypes
<1>9. /\ down' = [down EXCEPT ![c] = <<>>]
      /\ UNCHANGED <<setup, account, server, stream>>
  BY <1>4 DEF RecvServerHello, fixed
<1> QED
  BY <1>3, <1>7, <1>8, <1>9

RefusalCodes == {"connection_quota_exceeded", "authentication_failed"}

\* The client accepts the epoch it is told, or is refused for a reason.
LEMMA AuthResultEffect ==
  ASSUME ConnectionInv, NEW c \in Conns, RecvAuthResult(c)
  PROVE  /\ Choice(c).ok /\ client[c].negotiated = Choice(c)
         /\ \/ /\ Admitted(c)
               /\ client' = [client EXCEPT ![c].pc = "ready", ![c].epoch = server[c].epoch]
               /\ UNCHANGED link
            \/ \E code \in RefusalCodes :
                 /\ client' = [client EXCEPT ![c].pc = "failed", ![c].error = code]
                 /\ Close(c)
         /\ DOMAIN down' = Conns /\ \A d \in Conns \ {c} : down'[d] = down[d]
         /\ UNCHANGED <<setup, account, server, up, stream>>
<1> DEFINE m == Head(down[c])
<1>1. client[c].pc = "signing" /\ down[c] # <<>>
  BY DEF RecvAuthResult
<1>2. Signing(c)
  BY <1>1 DEF ConnectionInv, Handshake, HandshakeAt
<1>3. /\ Choice(c).ok /\ client[c].negotiated = Choice(c)
      /\ down[c] \in Refusals \/ (Admitted(c) /\ down[c] = Welcome(c))
  BY <1>1, <1>2 DEF Signing
<1>4. /\ DOMAIN down' = Conns /\ \A d \in Conns \ {c} : down'[d] = down[d]
      /\ UNCHANGED <<setup, account, server, up, stream>>
  BY DEF RecvAuthResult, fixed, ConnectionInv, ConnectionTypes
<1>5. CASE down[c] \in Refusals
  <2>1. PICK code \in {Empty, "connection_quota_exceeded"} :
          down[c] = <<AuthResult(FALSE, code, 0)>>
    BY <1>5 DEF Refusals
  <2>2. m = AuthResult(FALSE, code, 0)
    BY <2>1
  <2>3. ~m.ok /\ m.code = code
    BY <2>2 DEF AuthResult
  <2> HIDE DEF m
  <2> DEFINE told0 == IF m.code # Empty THEN m.code ELSE "authentication_failed"
  <2>4. told0 \in RefusalCodes
    BY <2>3, EmptyFacts DEF RefusalCodes
  <2>5. client' = [client EXCEPT ![c].pc = "failed", ![c].error = told0] /\ Close(c)
    BY <2>3 DEF RecvAuthResult, m
  <2> HIDE DEF told0
  <2> QED
    BY <1>3, <1>4, <2>4, <2>5
<1>6. CASE Admitted(c) /\ down[c] = Welcome(c)
  <2>1. m = AuthResult(TRUE, Empty, server[c].epoch)
    BY <1>6 DEF Welcome
  <2>2. m.ok /\ m.epoch = server[c].epoch
    BY <2>1 DEF AuthResult
  <2> HIDE DEF m
  <2>3. Has(client[c].negotiated.capabilities, "stream_channels", 1) = (m.epoch # 0)
    <3>1. 0 \notin Epochs
      BY LimitsAssumption
    <3> QED
      BY <1>3, <1>6, <2>2, <3>1 DEF Admitted, Has
  <2>4. /\ client' = [client EXCEPT ![c].pc = "ready", ![c].epoch = m.epoch]
        /\ UNCHANGED link
    BY <2>2, <2>3 DEF RecvAuthResult, m
  <2> QED
    BY <1>3, <1>4, <1>6, <2>2, <2>4
<1> QED
  BY <1>3, <1>5, <1>6

\* The actions of a connection change it in one of these ways.
HandshakeNext(c) ==
  \/ Connect(c) \/ RecvClientHello(c) \/ RecvServerHello(c) \/ RecvAuthRequest(c)
  \/ CloseRefused(c) \/ Grant(c) \/ Serve(c) \/ AuthTimeout(c) \/ RecvAuthResult(c)
  \/ Lose(c) \/ ClientNotices(c) \/ ServerNotices(c)

LEMMA HandshakeTypes ==
  ASSUME ConnectionInv, NEW c \in Conns, HandshakeNext(c)
  PROVE  /\ ConnectionTypes' /\ UNCHANGED <<setup, account, stream>>
         /\ \A d \in Conns : client'[d].profile = client[d].profile
         /\ \A d \in Conns \ {c} :
              /\ client'[d] = client[d] /\ server'[d] = server[d]
              /\ link'[d] = link[d] /\ up'[d] = up[d] /\ down'[d] = down[d]
<1> DEFINE Rest == /\ setup' = setup /\ account' = account /\ stream' = stream
                   /\ DOMAIN up' = Conns /\ DOMAIN down' = Conns
                   /\ \A d \in Conns \ {c} : up'[d] = up[d] /\ down'[d] = down[d]
           Client0 == /\ client' \in [Conns -> ClientRecords]
                      /\ client'[c].profile = client[c].profile
                      /\ \A d \in Conns \ {c} : client'[d] = client[d]
           Server0 == /\ server' \in [Conns -> ServerRecords]
                      /\ \A d \in Conns \ {c} : server'[d] = server[d]
           Link0 == /\ link' \in [Conns -> {"none", "up", "down"}]
                    /\ \A d \in Conns \ {c} : link'[d] = link[d]
<1> SUFFICES Rest /\ Client0 /\ Server0 /\ Link0
  BY DEF ConnectionInv, ConnectionTypes
<1>1. /\ client \in [Conns -> ClientRecords] /\ server \in [Conns -> ServerRecords]
      /\ link \in [Conns -> {"none", "up", "down"}]
      /\ DOMAIN up = Conns /\ DOMAIN down = Conns /\ setup \in Servers
  BY DEF ConnectionInv, ConnectionTypes
<1>2. Rest
  <2>1. CASE RecvServerHello(c)
    BY <1>1, <2>1, ServerHelloEffect
  <2>2. CASE RecvAuthResult(c)
    BY <1>1, <2>2, AuthResultEffect
  <2>3. CASE RecvAuthRequest(c)
    BY <1>1, <2>3 DEF RecvAuthRequest, Decide, RefuseAuth, fixed
  <2>4. CASE RecvClientHello(c)
    BY <1>1, <2>4 DEF RecvClientHello, fixed
  <2>5. CASE Connect(c) \/ Grant(c) \/ ClientNotices(c)
    BY <1>1, <2>5 DEF Connect, Grant, ClientNotices, fixed
  <2>6. CASE CloseRefused(c) \/ Serve(c) \/ AuthTimeout(c) \/ Lose(c) \/ ServerNotices(c)
    BY <1>1, <2>6 DEF CloseRefused, Serve, AuthTimeout, Lose, ServerNotices, fixed
  <2> QED
    BY <2>1, <2>2, <2>3, <2>4, <2>5, <2>6 DEF HandshakeNext
<1>3. Link0
  <2>1. CASE UNCHANGED link
    BY <1>1, <2>1
  <2>2. CASE Close(c)
    BY <1>1, <2>2 DEF Close
  <2>3. CASE Connect(c)
    BY <1>1, <2>3 DEF Connect
  <2>4. CASE RecvServerHello(c) \/ RecvAuthResult(c)
    BY <2>1, <2>2, <2>4, ServerHelloEffect, AuthResultEffect
  <2> QED
    BY <2>1, <2>2, <2>3, <2>4 DEF HandshakeNext, RecvClientHello, RecvAuthRequest, CloseRefused,
       Grant, Serve, AuthTimeout, Lose, ClientNotices, ServerNotices
<1>4. Client0
  <2>0. /\ {"signing", "ready", "failed"} \subseteq ClientStates
        /\ "lost" \in ClientErrors /\ client[c] \in ClientRecords
    BY <1>1 DEF ClientStates, ClientErrors
  <2>6. ASSUME NEW error \in ClientErrors,
               client' = [client EXCEPT ![c].pc = "failed", ![c].error = error]
        PROVE  Client0
    <3> DEFINE y == [client[c] EXCEPT !.pc = "failed", !.error = error]
    <3>1. y \in ClientRecords /\ y.profile = client[c].profile
      BY <2>0 DEF ClientRecords
    <3>2. client' = [client EXCEPT ![c] = y]
      BY <1>1, <2>6
    <3> HIDE DEF y
    <3> QED
      BY <1>1, <3>1, <3>2
  <2>1. CASE UNCHANGED client
    BY <1>1, <2>1
  <2>2. CASE Connect(c)
    <3> DEFINE y == [client[c] EXCEPT !.pc = "greeting"]
    <3>1. y \in ClientRecords /\ y.profile = client[c].profile
      BY <2>0 DEF ClientRecords, ClientStates
    <3>2. client' = [client EXCEPT ![c] = y]
      BY <1>1, <2>2 DEF Connect
    <3> HIDE DEF y
    <3> QED
      BY <1>1, <3>1, <3>2
  <2>3. CASE RecvServerHello(c)
    <3>1. Choice(c) \in Choices
      BY <1>1 DEF Choices, Choice, ClientRecords
    <3>2. client' = [client EXCEPT ![c].pc = "signing", ![c].negotiated = Choice(c)]
      BY <2>3, ServerHelloEffect
    <3> DEFINE y == [client[c] EXCEPT !.pc = "signing", !.negotiated = Choice(c)]
    <3>3. y \in ClientRecords /\ y.profile = client[c].profile
      BY <2>0, <3>1 DEF ClientRecords
    <3>4. client' = [client EXCEPT ![c] = y]
      BY <1>1, <3>2
    <3> HIDE DEF y
    <3> QED
      BY <1>1, <3>3, <3>4
  <2>4. CASE RecvAuthResult(c)
    <3>1. CASE client' = [client EXCEPT ![c].pc = "ready", ![c].epoch = server[c].epoch]
      <4> DEFINE y == [client[c] EXCEPT !.pc = "ready", !.epoch = server[c].epoch]
      <4>1. server[c].epoch \in Epochs \cup {0}
        BY <1>1 DEF ServerRecords
      <4>2. y \in ClientRecords /\ y.profile = client[c].profile
        BY <2>0, <4>1 DEF ClientRecords
      <4>3. client' = [client EXCEPT ![c] = y]
        BY <1>1, <3>1
      <4> HIDE DEF y
      <4> QED
        BY <1>1, <4>2, <4>3
    <3>2. ASSUME NEW code \in RefusalCodes,
                 client' = [client EXCEPT ![c].pc = "failed", ![c].error = code]
          PROVE  Client0
      <4> code \in ClientErrors
        BY <3>2 DEF RefusalCodes, ClientErrors
      <4> QED
        BY <2>6, <3>2
    <3> QED
      BY <2>4, <3>1, <3>2, AuthResultEffect
  <2>5. CASE ClientNotices(c)
    BY <2>0, <2>5, <2>6 DEF ClientNotices
  <2> QED
    BY <2>1, <2>2, <2>3, <2>4, <2>5 DEF HandshakeNext, RecvClientHello, RecvAuthRequest,
       CloseRefused, Grant, Serve, AuthTimeout, Lose, ServerNotices
<1>5. Server0
  <2>0. server[c] \in ServerRecords
    BY <1>1
  <2>1. CASE UNCHANGED server
    BY <1>1, <2>1
  <2>2. ASSUME NEW pc \in ServerStates, server' = [server EXCEPT ![c].pc = pc]
        PROVE  Server0
    BY <1>1, <2>2 DEF ServerRecords
  <2>3. {"accepted", "challenged", "ended", "refused", "reserved", "serving"} \subseteq ServerStates
    BY DEF ServerStates
  <2>4. CASE RecvClientHello(c)
    <3>1. Choice(c) \in Choices
      BY <1>1 DEF Choices, Choice, ClientRecords
    <3>2. \/ server' = [server EXCEPT ![c].pc = "challenged", ![c].negotiated = Choice(c)]
          \/ server' = [server EXCEPT ![c].pc = "ended"]
      BY <2>4 DEF RecvClientHello, Choice
    <3>3. CASE server' = [server EXCEPT ![c].pc = "challenged", ![c].negotiated = Choice(c)]
      <4> DEFINE y == [server[c] EXCEPT !.pc = "challenged", !.negotiated = Choice(c)]
      <4>1. y \in ServerRecords
        BY <2>0, <3>1 DEF ServerRecords, ServerStates
      <4>2. server' = [server EXCEPT ![c] = y]
        BY <1>1, <3>3
      <4> HIDE DEF y
      <4> QED
        BY <1>1, <4>1, <4>2
    <3> QED
      BY <2>2, <2>3, <3>2, <3>3
  <2>5. CASE Grant(c)
    <3>1. PICK e \in Epochs \cup {0} :
            server' = [server EXCEPT ![c].pc = "granted", ![c].epoch = e]
      BY <2>5 DEF Grant, StreamEpochs
    <3> DEFINE y == [server[c] EXCEPT !.pc = "granted", !.epoch = e]
    <3>2. y \in ServerRecords
      BY <2>0 DEF ServerRecords, ServerStates
    <3>3. server' = [server EXCEPT ![c] = y]
      BY <1>1, <3>1
    <3> HIDE DEF y
    <3> QED
      BY <1>1, <3>2, <3>3
  <2>6. CASE \E pc \in ServerStates : server' = [server EXCEPT ![c].pc = pc]
    BY <2>2, <2>6
  <2> QED
    BY <2>1, <2>3, <2>4, <2>5, <2>6 DEF HandshakeNext, Connect, RecvServerHello, RecvAuthRequest,
       Decide, RefuseAuth, CloseRefused, Serve, AuthTimeout, RecvAuthResult, Lose, ClientNotices,
       ServerNotices
<1> QED
  BY <1>2, <1>3, <1>4, <1>5

LEMMA HandshakeStep ==
  ASSUME ConnectionInv, NEW c \in Conns, HandshakeNext(c)
  PROVE  HandshakeAt(c)'
<1>1. /\ ConnectionTypes' /\ UNCHANGED setup /\ client'[c].profile = client[c].profile
  BY HandshakeTypes
<1>2. Choice(c)' = Choice(c)
  BY <1>1 DEF Choice
<1>3. /\ client \in [Conns -> ClientRecords] /\ server \in [Conns -> ServerRecords]
      /\ DOMAIN link = Conns /\ DOMAIN up = Conns /\ DOMAIN down = Conns
  BY DEF ConnectionInv, ConnectionTypes
<1>4. /\ DOMAIN client = Conns /\ DOMAIN server = Conns
      /\ client[c] \in ClientRecords /\ server[c] \in ServerRecords
  BY <1>3
<1>5. HandshakeAt(c)
  BY DEF ConnectionInv, Handshake
<1>6. ASSUME client'[c].pc = "failed", link'[c] = "down"
      PROVE  HandshakeAt(c)'
  BY <1>6 DEF HandshakeAt
<1>7. CASE Connect(c)
  <2>1. client'[c].pc = "greeting" /\ server'[c].pc = "accepted" /\ up'[c] = <<[kind |-> "hello"]>>
          /\ down'[c] = <<>>
    BY <1>3, <1>4, <1>5, <1>7 DEF Connect, HandshakeAt, ClientRecords, ServerRecords
  <2> QED
    BY <2>1 DEF HandshakeAt, Greeting
<1>8. CASE RecvClientHello(c)
  <2>1. server[c].pc = "accepted" /\ link[c] = "up" /\ client' = client
    BY <1>8 DEF RecvClientHello
  <2>2. client[c].pc = "greeting" /\ up[c] = <<[kind |-> "hello"]>> /\ down[c] = <<>>
    BY <1>4, <1>5, <2>1 DEF HandshakeAt, Greeting, Signing, Admitted, ClientRecords, ClientStates
  <2>3. up'[c] = <<>>
    BY <1>3, <1>8, <2>2 DEF RecvClientHello
  <2>4. CASE Choice(c).ok
    <3> DEFINE hi == ServerHello(Choice(c))
    <3>1. /\ server' = [server EXCEPT ![c].pc = "challenged", ![c].negotiated = Choice(c)]
          /\ down' = [down EXCEPT ![c] = Append(@, hi)]
      BY <1>8, <2>4 DEF RecvClientHello, Choice
    <3> HIDE DEF hi
    <3>2. down'[c] = <<hi>>
      BY <1>3, <2>2, <3>1
    <3>3. server'[c].pc = "challenged" /\ server'[c].negotiated = Choice(c)
      BY <1>4, <3>1 DEF ServerRecords
    <3>4. Greeting(c)'
      BY <1>2, <2>3, <2>4, <3>2, <3>3 DEF Greeting, hi
    <3> QED
      BY <2>1, <2>2, <3>4 DEF HandshakeAt
  <2>5. CASE ~Choice(c).ok
    <3>1. server' = [server EXCEPT ![c].pc = "ended"] /\ down' = down
      BY <1>8, <2>5 DEF RecvClientHello, Choice
    <3>2. server'[c].pc = "ended" /\ down'[c] = <<>>
      BY <1>4, <2>2, <3>1 DEF ServerRecords
    <3>3. Greeting(c)'
      BY <3>2 DEF Greeting
    <3> QED
      BY <2>1, <2>2, <3>3 DEF HandshakeAt
  <2> QED
    BY <2>4, <2>5
<1>9. CASE RecvServerHello(c)
  <2>1. /\ Choice(c).ok /\ server[c].negotiated = Choice(c)
        /\ server[c].pc \in {"challenged", "ended"}
        /\ client' = [client EXCEPT ![c].pc = "signing", ![c].negotiated = Choice(c)]
        /\ down' = [down EXCEPT ![c] = <<>>] /\ server' = server
    BY <1>9, ServerHelloEffect
  <2>2. client'[c].pc = "signing" /\ client'[c].negotiated = Choice(c) /\ down'[c] = <<>>
    BY <1>3, <1>4, <2>1 DEF ClientRecords
  <2>3. Signing(c)'
    BY <1>2, <2>1, <2>2 DEF Signing
  <2> QED
    BY <2>2, <2>3 DEF HandshakeAt
<1>10. CASE RecvAuthRequest(c)
  <2>1. server[c].pc = "challenged" /\ link[c] = "up" /\ up[c] # <<>> /\ client' = client
    BY <1>10 DEF RecvAuthRequest
  <2>2. client[c].pc = "signing" /\ Signing(c) /\ down[c] = <<>>
    BY <1>4, <1>5, <2>1 DEF HandshakeAt, Greeting, Signing, Admitted, ClientRecords, ClientStates
  <2>3. CASE server' = [server EXCEPT ![c].pc = "reserved"] /\ down' = down
    <3>1. /\ server'[c].pc = "reserved" /\ server'[c].negotiated = server[c].negotiated
          /\ down'[c] = <<>>
      BY <1>4, <2>2, <2>3 DEF ServerRecords
    <3>2. Signing(c)'
      BY <1>2, <2>1, <2>2, <3>1 DEF Signing
    <3> QED
      BY <2>1, <2>2, <3>2 DEF HandshakeAt
  <2>4. ASSUME NEW code \in {Empty, "connection_quota_exceeded"}, RefuseAuth(c, code)
        PROVE  HandshakeAt(c)'
    <3> DEFINE m == AuthResult(FALSE, code, 0)
    <3>1. /\ server' = [server EXCEPT ![c].pc = "refused"]
          /\ down' = [down EXCEPT ![c] = Append(@, m)]
      BY <2>4 DEF RefuseAuth
    <3>2. <<m>> \in Refusals
      BY DEF Refusals
    <3> HIDE DEF m
    <3>3. down'[c] \in Refusals
      BY <1>3, <2>2, <3>1, <3>2
    <3>4. server'[c].pc = "refused" /\ server'[c].negotiated = server[c].negotiated
      BY <1>4, <3>1 DEF ServerRecords
    <3>5. Signing(c)'
      BY <1>2, <2>1, <2>2, <3>3, <3>4 DEF Signing
    <3> QED
      BY <2>1, <2>2, <3>5 DEF HandshakeAt
  <2> QED
    BY <1>10, <2>3, <2>4 DEF RecvAuthRequest, Decide
<1>11. CASE CloseRefused(c) \/ AuthTimeout(c) \/ ServerNotices(c)
  <2>1. /\ server[c].pc # "none" /\ server' = [server EXCEPT ![c].pc = "ended"]
        /\ link' = link \/ link' = [link EXCEPT ![c] = "down"]
        /\ UNCHANGED <<client, up, down>>
    BY <1>11 DEF CloseRefused, AuthTimeout, ServerNotices, Close
  <2>2. /\ server'[c].pc = "ended" /\ server'[c].negotiated = server[c].negotiated
        /\ server'[c].epoch = server[c].epoch
    BY <1>4, <2>1 DEF ServerRecords
  <2>3. Admitted(c) => Admitted(c)'
    BY <1>2, <2>2 DEF Admitted
  <2>4. Welcome(c)' = Welcome(c)
    BY <2>2 DEF Welcome
  <2>5. CASE client[c].pc = "greeting"
    <3>1. Greeting(c)
      BY <1>5, <2>5 DEF HandshakeAt
    <3>2. Greeting(c)'
      BY <1>2, <2>1, <2>2, <3>1 DEF Greeting
    <3> QED
      BY <2>1, <2>5, <3>2 DEF HandshakeAt
  <2>6. CASE client[c].pc = "signing"
    <3>1. Signing(c)
      BY <1>5, <2>6 DEF HandshakeAt
    <3>2. Signing(c)'
      BY <1>2, <2>1, <2>2, <2>3, <2>4, <3>1 DEF Signing
    <3> QED
      BY <2>1, <2>6, <3>2 DEF HandshakeAt
  <2>7. CASE client[c].pc = "ready"
    BY <1>2, <1>5, <2>1, <2>2, <2>3, <2>7 DEF HandshakeAt
  <2>8. CASE client[c].pc = "failed"
    BY <1>3, <1>5, <2>1, <2>8 DEF HandshakeAt
  <2> QED
    BY <1>4, <1>5, <2>1, <2>5, <2>6, <2>7, <2>8 DEF HandshakeAt, ClientRecords, ClientStates
<1>12. CASE Grant(c)
  <2>1. server[c].pc = "reserved" /\ link[c] = "up" /\ client' = client
    BY <1>12 DEF Grant
  <2>2. client[c].pc = "signing" /\ Signing(c) /\ down[c] = <<>>
    BY <1>4, <1>5, <2>1 DEF HandshakeAt, Greeting, Signing, Admitted, ClientRecords, ClientStates
  <2>3. PICK e \in StreamEpochs(c) :
          /\ server' = [server EXCEPT ![c].pc = "granted", ![c].epoch = e]
          /\ down' = [down EXCEPT ![c] = Append(@, AuthResult(TRUE, Empty, e))]
    BY <1>12 DEF Grant
  <2>4. /\ server'[c].pc = "granted" /\ server'[c].negotiated = server[c].negotiated
        /\ server'[c].epoch = e
    BY <1>4, <2>3 DEF ServerRecords
  <2>5. Admitted(c)'
    BY <1>2, <2>2, <2>4 DEF Admitted, Signing, StreamEpochs
  <2>6. down'[c] = Welcome(c)'
    <3> DEFINE m == AuthResult(TRUE, Empty, e)
    <3>1. Welcome(c)' = <<m>>
      BY <2>4 DEF Welcome
    <3>2. down' = [down EXCEPT ![c] = Append(@, m)]
      BY <2>3
    <3> HIDE DEF m
    <3>3. down'[c] = Append(<<>>, m)
      BY <1>3, <2>2, <3>2
    <3>4. Append(<<>>, m) = <<m>>
      OBVIOUS
    <3> QED
      BY <3>1, <3>3, <3>4, Zenon
  <2>7. Signing(c)'
    <3>1. /\ Choice(c).ok /\ client[c].negotiated = Choice(c)
          /\ server[c].negotiated = Choice(c)
      BY <2>2 DEF Signing
    <3>2. /\ Choice(c)'.ok /\ client'[c].negotiated = Choice(c)'
          /\ server'[c].negotiated = Choice(c)'
      BY <1>2, <2>1, <2>4, <3>1
    <3> QED
      BY <2>5, <2>6, <3>2 DEF Signing
  <2> QED
    BY <2>1, <2>2, <2>7 DEF HandshakeAt
<1>13. CASE Serve(c)
  <2>1. /\ server[c].pc = "granted" /\ server' = [server EXCEPT ![c].pc = "serving"]
        /\ UNCHANGED <<client, link, up, down>>
    BY <1>13 DEF Serve
  <2>2. /\ server'[c].pc = "serving" /\ server'[c].negotiated = server[c].negotiated
        /\ server'[c].epoch = server[c].epoch
    BY <1>4, <2>1 DEF ServerRecords
  <2>3. Admitted(c) => Admitted(c)'
    BY <1>2, <2>2 DEF Admitted
  <2>4. Welcome(c)' = Welcome(c)
    BY <2>2 DEF Welcome
  <2>5. CASE client[c].pc = "signing"
    <3>1. Signing(c)'
      BY <1>2, <1>5, <2>1, <2>2, <2>3, <2>4, <2>5 DEF HandshakeAt, Signing
    <3> QED
      BY <2>1, <2>5, <3>1 DEF HandshakeAt
  <2>6. CASE client[c].pc = "ready"
    BY <1>2, <1>5, <2>1, <2>2, <2>3, <2>6 DEF HandshakeAt
  <2>7. CASE client[c].pc = "failed"
    BY <1>5, <2>1, <2>7 DEF HandshakeAt
  <2> QED
    BY <1>4, <1>5, <2>1, <2>5, <2>6, <2>7 DEF HandshakeAt, Greeting, ClientRecords, ClientStates
<1>14. CASE RecvAuthResult(c)
  <2>1. CASE /\ Admitted(c)
             /\ client' = [client EXCEPT ![c].pc = "ready", ![c].epoch = server[c].epoch]
    <3>1. server' = server /\ client[c].negotiated = Choice(c)
      BY <1>14, AuthResultEffect
    <3>2. /\ client'[c].pc = "ready" /\ client'[c].epoch = server[c].epoch
          /\ client'[c].negotiated = client[c].negotiated
      BY <1>4, <2>1 DEF ClientRecords
    <3>3. Admitted(c)'
      BY <1>2, <2>1, <3>1 DEF Admitted
    <3> QED
      BY <1>2, <3>1, <3>2, <3>3 DEF HandshakeAt
  <2>2. ASSUME NEW code \in RefusalCodes, Close(c),
               client' = [client EXCEPT ![c].pc = "failed", ![c].error = code]
        PROVE  HandshakeAt(c)'
    <3>1. client'[c].pc = "failed"
      BY <1>4, <2>2 DEF ClientRecords
    <3>2. link'[c] = "down"
      BY <1>3, <2>2 DEF Close
    <3> QED
      BY <1>6, <3>1, <3>2
  <2> QED
    BY <1>14, <2>1, <2>2, AuthResultEffect
<1>15. CASE Lose(c)
  <2>1. link'[c] = "down" /\ UNCHANGED <<client, server, up, down>>
    BY <1>3, <1>15 DEF Lose, Close
  <2>2. /\ Admitted(c)' = Admitted(c) /\ Welcome(c)' = Welcome(c)
    BY <1>2, <2>1 DEF Admitted, Welcome
  <2>3. Greeting(c)' = Greeting(c) /\ Signing(c)' = Signing(c)
    BY <1>2, <2>1, <2>2 DEF Greeting, Signing
  <2> QED
    BY <1>2, <1>5, <2>1, <2>2, <2>3 DEF HandshakeAt
<1>16. CASE ClientNotices(c)
  <2>1. link' = link /\ link[c] = "down"
        /\ client' = [client EXCEPT ![c].pc = "failed", ![c].error = "lost"]
    BY <1>16 DEF ClientNotices
  <2>2. client'[c].pc = "failed"
    BY <1>4, <2>1 DEF ClientRecords
  <2> QED
    BY <1>6, <2>1, <2>2
<1> QED
  BY <1>7, <1>8, <1>9, <1>10, <1>11, <1>12, <1>13, <1>14, <1>15, <1>16 DEF HandshakeNext

\* The quota, and what was told to the clients of open streams.
LEMMA HandshakeKeeps ==
  ASSUME ConnectionInv, NEW c \in Conns, HandshakeNext(c)
  PROVE  ConnectionInv'
<1>1. /\ ConnectionTypes' /\ UNCHANGED <<setup, account, stream>>
      /\ \A d \in Conns : client'[d].profile = client[d].profile
      /\ \A d \in Conns \ {c} :
           /\ client'[d] = client[d] /\ server'[d] = server[d]
           /\ link'[d] = link[d] /\ up'[d] = up[d] /\ down'[d] = down[d]
  BY HandshakeTypes
<1>2. Handshake'
  BY <1>1, HandshakeStep, HandshakeFrame DEF ConnectionInv
<1>3. server \in [Conns -> ServerRecords] /\ server[c] \in ServerRecords
  BY DEF ConnectionInv, ConnectionTypes
<1>4. \/ server' = server
      \/ /\ server[c].pc \in {"none", "accepted", "challenged", "refused", "reserved"}
         /\ server'[c].pc \in ServerStates
         /\ server'[c].pc \in {"reserved", "granted", "serving"} =>
              server[c].pc = "reserved" \/ RecvAuthRequest(c)
      \/ /\ server'[c].pc \in {"serving", "ended"}
         /\ server'[c].negotiated = server[c].negotiated
         /\ server'[c].epoch = server[c].epoch
         /\ server'[c].pc = "serving" => server[c].pc = "granted"
  <2>1. CASE Connect(c)
    <3>1. server[c].pc = "none"
      BY <2>1 DEF Connect, ConnectionInv, Handshake, HandshakeAt
    <3>2. server'[c].pc = "accepted"
      BY <1>3, <2>1 DEF Connect, ServerRecords
    <3> QED
      BY <3>1, <3>2 DEF ServerStates
  <2>2. CASE RecvClientHello(c)
    <3>1. \/ server' = [server EXCEPT ![c].pc = "challenged", ![c].negotiated = Choice(c)]
          \/ server' = [server EXCEPT ![c].pc = "ended"]
      BY <2>2 DEF RecvClientHello, Choice
    <3>2. server'[c].pc \in {"challenged", "ended"}
      BY <1>3, <3>1 DEF ServerRecords
    <3> QED
      BY <2>2, <3>2 DEF RecvClientHello, ServerStates
  <2>3. CASE RecvAuthRequest(c)
    <3>1. \/ server' = [server EXCEPT ![c].pc = "refused"]
          \/ server' = [server EXCEPT ![c].pc = "reserved"]
      BY <2>3 DEF RecvAuthRequest, Decide, RefuseAuth
    <3>2. server'[c].pc \in {"refused", "reserved"}
      BY <1>3, <3>1 DEF ServerRecords
    <3> QED
      BY <2>3, <3>2 DEF RecvAuthRequest, ServerStates
  <2>4. CASE Grant(c)
    <3>1. server'[c].pc = "granted"
      BY <1>3, <2>4 DEF Grant, ServerRecords
    <3> QED
      BY <2>4, <3>1 DEF Grant, ServerStates
  <2>5. CASE Serve(c)
    BY <1>3, <2>5 DEF Serve, ServerRecords
  <2>6. CASE CloseRefused(c) \/ AuthTimeout(c) \/ ServerNotices(c)
    <3>1. server' = [server EXCEPT ![c].pc = "ended"]
      BY <2>6 DEF CloseRefused, AuthTimeout, ServerNotices
    <3> QED
      BY <1>3, <3>1 DEF ServerRecords
  <2>7. CASE RecvServerHello(c) \/ RecvAuthResult(c) \/ Lose(c) \/ ClientNotices(c)
    BY <2>7 DEF RecvServerHello, RecvAuthResult, Lose, ClientNotices
  <2> QED
    BY <2>1, <2>2, <2>3, <2>4, <2>5, <2>6, <2>7 DEF HandshakeNext
<1>5. Streaming'
  <2>1. ASSUME NEW d \in Conns, server[d].pc \in {"granted", "serving", "ended"}
        PROVE  /\ server'[d].pc \in {"granted", "serving", "ended"}
               /\ server'[d].negotiated = server[d].negotiated
               /\ server'[d].epoch = server[d].epoch
    BY <1>1, <1>4, <2>1
  <2> QED
    BY <1>1, <2>1, StreamFrame DEF ConnectionInv
<1>6. Reserved'
  <2>1. CASE RecvAuthRequest(c) /\ server'[c].pc = "reserved"
    <3>1. Cardinality(Held) < ConnectionLimit
      <4>1. CASE RefuseAuth(c, Empty) \/ RefuseAuth(c, "connection_quota_exceeded")
        BY <1>3, <2>1, <4>1 DEF RefuseAuth, ServerRecords
      <4> QED
        BY <2>1, <4>1 DEF RecvAuthRequest, Decide
    <3> DEFINE before == Held
               after == Held'
    <3>2. after = before \cup {c} /\ before \subseteq Conns
      BY <1>1, <2>1 DEF Held
    <3>3. IsFiniteSet(Conns) /\ ConnectionLimit \in Nat
      BY LimitsAssumption
    <3>4. Cardinality(before) < ConnectionLimit
      BY <3>1
    <3> HIDE DEF before, after
    <3>5. IsFiniteSet(before) /\ Cardinality(before) \in Nat
      BY <3>2, <3>3, FS_Subset, FS_CardinalityType
    <3>6. Cardinality(after) = Cardinality(before) \/ Cardinality(after) = Cardinality(before) + 1
      BY <3>2, <3>5, FS_AddElement
    <3>7. Cardinality(after) <= ConnectionLimit
      BY <3>3, <3>4, <3>5, <3>6
    <3> QED
      BY <3>7 DEF Reserved, after
  <2>2. CASE ~(RecvAuthRequest(c) /\ server'[c].pc = "reserved")
    <3>1. ASSUME NEW d \in Conns, server'[d].pc \in {"reserved", "granted", "serving"}
          PROVE  server[d].pc \in {"reserved", "granted", "serving"}
      <4>1. RecvAuthRequest(c) => server'[c].pc \in {"refused", "reserved"}
        BY <1>3 DEF RecvAuthRequest, Decide, RefuseAuth, ServerRecords
      <4> QED
        BY <1>1, <1>4, <2>2, <3>1, <4>1
    <3> QED
      BY <3>1, ReservedFrame DEF ConnectionInv
  <2> QED
    BY <2>1, <2>2
<1> QED
  BY <1>1, <1>2, <1>5, <1>6 DEF ConnectionInv

---------------------------------------------------------------------------
(* The stream actions.                                                     *)

\* What the two ends agree on for a stream in the state y.
Accepted(r, y) ==
  y.pc \notin {"unopened", "ended"} =>
    /\ Admitted(ConnOf[r]) /\ y.command \in Commands
    /\ ValidateStreamRequest(Negotiated(ConnOf[r]), server[ConnOf[r]].epoch, y)
    /\ y.pc = "answered" => y.answer \in Errors \cup {Expected(y.command)}

LEMMA StreamUpdate ==
  ASSUME ConnectionInv, NEW r \in Requests, NEW y \in StreamRecords, Accepted(r, y),
         stream' = [stream EXCEPT ![r] = y],
         UNCHANGED <<setup, account, client, server, link, up, down>>
  PROVE  ConnectionInv'
<1>1. stream \in [Requests -> StreamRecords]
  BY DEF ConnectionInv, ConnectionTypes
<1>2. ConnectionTypes'
  BY <1>1 DEF ConnectionInv, ConnectionTypes
<1>3. \A c \in Conns : /\ Choice(c)' = Choice(c) /\ Admitted(c)' = Admitted(c)
                       /\ Welcome(c)' = Welcome(c) /\ Negotiated(c)' = Negotiated(c)
  BY DEF Choice, Admitted, Welcome, Negotiated
<1>4. Handshake'
  <2> SUFFICES ASSUME NEW c \in Conns PROVE HandshakeAt(c)'
    BY DEF Handshake
  <2>1. HandshakeAt(c)
    BY DEF ConnectionInv, Handshake
  <2>2. Greeting(c)' = Greeting(c) /\ Signing(c)' = Signing(c)
    BY <1>3 DEF Greeting, Signing
  <2> QED
    BY <1>3, <2>1, <2>2 DEF HandshakeAt
<1>5. Reserved'
  BY DEF ConnectionInv, Reserved, Held
<1>6. Streaming'
  <2> SUFFICES ASSUME NEW q \in Requests PROVE StreamAt(q)'
    BY DEF Streaming
  <2>1. ConnOf[q] \in Conns
    BY LimitsAssumption
  <2>2. CASE q = r
    BY <1>1, <1>3, <2>1, <2>2 DEF Accepted, StreamAt
  <2>3. CASE q # r
    <3>1. stream'[q] = stream[q] /\ StreamAt(q)
      BY <1>1, <2>3 DEF ConnectionInv, Streaming
    <3> QED
      BY <1>3, <2>1, <3>1 DEF StreamAt
  <2> QED
    BY <2>2, <2>3
<1> QED
  BY <1>2, <1>4, <1>5, <1>6 DEF ConnectionInv

\* The dispatch answers with what the client's method takes, or an error.
LEMMA AnswersExpected ==
  ASSUME NEW c, NEW command \in Commands
  PROVE  Answers(c, command) \subseteq Errors \cup {Expected(command)}
<1>1. command \in FileCommands \cup ObjectCommands \cup TerminalCommands
  BY CommandsAssumption
<1>2. CASE command \in FileCommands
  BY <1>2 DEF Answers, FileAnswers, Expected, Errors, FileCommands, UploadCommands
<1>3. CASE command \in ObjectCommands
  <2>1. command \notin FileCommands
    BY <1>3 DEF FileCommands, UploadCommands, ObjectCommands
  <2> QED
    BY <1>3, <2>1 DEF Answers, ObjectAnswers, Expected, Errors, ObjectCommands, UploadCommands
<1>4. CASE command \in TerminalCommands
  <2>1. command \notin FileCommands /\ command \notin ObjectCommands
    BY <1>4 DEF FileCommands, UploadCommands, ObjectCommands, TerminalCommands
  <2> QED
    BY <1>4, <2>1 DEF Answers, TerminalAnswers, Expected, Errors, TerminalCommands, UploadCommands
<1> QED
  BY <1>1, <1>2, <1>3, <1>4

\* A client that is told it may use a stream opens one that is accepted.
LEMMA OpenKeeps ==
  ASSUME ConnectionInv, NEW r \in Requests, Open(r)
  PROVE  ConnectionInv'
<1> DEFINE c == ConnOf[r]
           caps == client[c].negotiated.capabilities
           channels == Has(caps, "stream_channels", 1)
           hello(command, handle) == HelloFor(command, handle, client[c].epoch)
           sent(command, handle, h) ==
             [Unopened EXCEPT !.pc = "sent", !.command = command, !.handle = handle,
                              !.hello = h, !.seen = "waiting"]
           unsent == [Unopened EXCEPT !.pc = "ended", !.seen = "unsent"]
<1>1. c \in Conns
  BY LimitsAssumption
<1> HIDE DEF c
<1>2. client[c].pc = "ready" /\ UNCHANGED <<setup, account, client, server, link, up, down>>
  BY DEF Open, fixed, c
<1>3. /\ Admitted(c) /\ client[c].negotiated = Choice(c) /\ client[c].epoch = server[c].epoch
  BY <1>1, <1>2 DEF ConnectionInv, Handshake, HandshakeAt
<1>4. /\ Choice(c).ok /\ server[c].negotiated = Choice(c) /\ caps = Negotiated(c)
      /\ ~channels => server[c].epoch = 0
      /\ server[c].epoch \in Epochs \cup {0}
  BY <1>3 DEF Admitted, Negotiated
<1>5. Has(caps, "tcp_forward", 1) => channels
  <2>1. client[c].profile \in Profiles /\ setup \in Servers
    BY <1>1 DEF ConnectionInv, ConnectionTypes, ClientRecords
  <2>2. Has(Choice(c).capabilities, "tcp_forward", 1) =>
          Has(Choice(c).capabilities, "stream_channels", 1)
    BY <1>4, <2>1, ChosenFacts DEF Choice
  <2> QED
    BY <1>3, <2>2
<1> DEFINE Does(command, handle) ==
      /\ command = "open_forward" => Has(caps, "tcp_forward", 1)
      /\ \/ /\ channels /\ ValidHello(hello(command, handle), client[c].epoch)
            /\ stream' = [stream EXCEPT ![r] = sent(command, handle, hello(command, handle))]
         \/ stream' = [stream EXCEPT ![r] = unsent]
         \/ /\ ~channels
            /\ stream' = [stream EXCEPT ![r] = sent(command, handle, NoHello)]
<1>6a. PICK command \in Commands : \E handle \in Handles(command) : Does(command, handle)
  BY DEF Open, Opened, Offers, c
<1>6b. PICK handle \in Handles(command) : Does(command, handle)
  BY <1>6a
<1>6. command \in Commands /\ handle \in Handles(command) /\ Does(command, handle)
  BY <1>6a, <1>6b
<1> DEFINE h == hello(command, handle)
<1>7. handle \in {Empty, "x"}
  BY <1>6 DEF Handles
<1>8. h \in HelloRecords /\ NoHello \in HelloRecords
  BY <1>3, <1>4, <1>7 DEF HelloFor, Channel, HelloRecords, NoHello
<1>9. ASSUME NEW g \in HelloRecords
      PROVE  /\ sent(command, handle, g) \in StreamRecords
             /\ sent(command, handle, g).pc = "sent"
             /\ sent(command, handle, g).command = command
             /\ sent(command, handle, g).handle = handle
             /\ sent(command, handle, g).hello = g
  BY <1>6, <1>7 DEF Unopened, StreamRecords, StreamStates
<1>10. unsent \in StreamRecords /\ unsent.pc = "ended"
  BY <1>8 DEF Unopened, StreamRecords, StreamStates
<1> HIDE DEF hello, sent, unsent, caps
<1>11. CASE /\ channels /\ ValidHello(h, client[c].epoch)
            /\ stream' = [stream EXCEPT ![r] = sent(command, handle, h)]
  <2> DEFINE y == sent(command, handle, h)
  <2>1. y \in StreamRecords /\ y.pc = "sent" /\ y.command = command
          /\ y.handle = handle /\ y.hello = h
    BY <1>8, <1>9
  <2> HIDE DEF y
  <2>2. ValidRequest(y.hello, y.command, y.handle, server[c].epoch)
    BY <1>3, <1>11, <2>1 DEF ValidRequest, hello
  <2>3. ValidateStreamRequest(Negotiated(c), server[c].epoch, y)
    BY <1>4, <1>6, <1>11, <2>1, <2>2 DEF ValidateStreamRequest
  <2>4. Accepted(r, y)
    BY <1>3, <1>6, <2>1, <2>3 DEF Accepted, c
  <2>5. stream' = [stream EXCEPT ![r] = y]
    BY <1>11 DEF y
  <2> QED
    BY <1>2, <2>1, <2>4, <2>5, StreamUpdate
<1>12. CASE stream' = [stream EXCEPT ![r] = unsent]
  <2>1. Accepted(r, unsent)
    BY <1>10 DEF Accepted
  <2> QED
    BY <1>2, <1>10, <1>12, <2>1, StreamUpdate
<1>13. CASE /\ ~channels
            /\ stream' = [stream EXCEPT ![r] = sent(command, handle, NoHello)]
  <2> DEFINE y == sent(command, handle, NoHello)
  <2>1. y \in StreamRecords /\ y.pc = "sent" /\ y.command = command /\ y.hello = NoHello
    BY <1>8, <1>9
  <2> HIDE DEF y
  <2>2. ValidateStreamRequest(Negotiated(c), server[c].epoch, y)
    BY <1>4, <1>5, <1>6, <1>13, <2>1 DEF ValidateStreamRequest
  <2>3. Accepted(r, y)
    BY <1>3, <1>6, <2>1, <2>2 DEF Accepted, c
  <2>4. stream' = [stream EXCEPT ![r] = y]
    BY <1>13 DEF y
  <2> QED
    BY <1>2, <2>1, <2>3, <2>4, StreamUpdate
<1> QED
  BY <1>6, <1>11, <1>12, <1>13

\* A step of a stream that keeps what was sent on it.
LEMMA StreamMoves ==
  ASSUME ConnectionInv, NEW r \in Requests, NEW y \in StreamRecords,
         stream' = [stream EXCEPT ![r] = y],
         UNCHANGED <<setup, account, client, server, link, up, down>>,
         y.command = stream[r].command, y.handle = stream[r].handle, y.hello = stream[r].hello,
         y.pc = stream[r].pc \/ stream[r].pc \notin {"unopened", "ended"},
         y.pc = "answered" =>
           \/ y.pc = stream[r].pc /\ y.answer = stream[r].answer
           \/ y.answer \in Errors \cup {Expected(stream[r].command)}
  PROVE  ConnectionInv'
<1>1. StreamAt(r)
  BY DEF ConnectionInv, Streaming
<1>2. ASSUME y.pc \notin {"unopened", "ended"}
      PROVE  /\ Admitted(ConnOf[r]) /\ y.command \in Commands
             /\ ValidateStreamRequest(Negotiated(ConnOf[r]), server[ConnOf[r]].epoch, y)
             /\ y.pc = "answered" => y.answer \in Errors \cup {Expected(y.command)}
  BY <1>1, <1>2 DEF StreamAt, ValidateStreamRequest
<1>3. Accepted(r, y)
  BY <1>2 DEF Accepted
<1> QED
  BY <1>3, StreamUpdate

LEMMA StepKeeps ==
  ASSUME ConnectionInv, NEW r \in Requests, stream[r].pc \notin {"unopened", "ended"},
         NEW pc \in StreamStates \ {"answered"}, Step(r, pc),
         UNCHANGED <<setup, account, client, server, link, up, down>>
  PROVE  ConnectionInv'
<1> DEFINE y == [stream[r] EXCEPT !.pc = pc]
<1>1. stream \in [Requests -> StreamRecords] /\ stream[r] \in StreamRecords
  BY DEF ConnectionInv, ConnectionTypes
<1>2. /\ y \in StreamRecords /\ y.pc = pc /\ y.command = stream[r].command
      /\ y.handle = stream[r].handle /\ y.hello = stream[r].hello
  BY <1>1 DEF StreamRecords
<1>3. stream' = [stream EXCEPT ![r] = y]
  BY <1>1 DEF Step
<1> HIDE DEF y
<1> QED
  BY <1>2, <1>3, StreamMoves

LEMMA ReplyKeeps ==
  ASSUME ConnectionInv, NEW r \in Requests, stream[r].pc \notin {"unopened", "ended"},
         NEW a \in Errors \cup {Expected(stream[r].command)}, Reply(r, a),
         UNCHANGED <<setup, account, client, server, link, up, down>>
  PROVE  ConnectionInv'
<1> DEFINE y == [stream[r] EXCEPT !.pc = "answered", !.answer = a]
<1>1. stream \in [Requests -> StreamRecords] /\ stream[r] \in StreamRecords
  BY DEF ConnectionInv, ConnectionTypes
<1>2. stream[r].command \in Commands
  BY DEF ConnectionInv, Streaming, StreamAt
<1>3. a \in {Empty} \cup Errors \cup {Expected(b) : b \in Commands}
  BY <1>2
<1>4. /\ y \in StreamRecords /\ y.answer = a /\ y.command = stream[r].command
      /\ y.handle = stream[r].handle /\ y.hello = stream[r].hello
  BY <1>1, <1>3 DEF StreamRecords, StreamStates
<1>5. stream' = [stream EXCEPT ![r] = y]
  BY <1>1 DEF Reply
<1> HIDE DEF y
<1> QED
  BY <1>4, <1>5, StreamMoves

LEMMA SeeKeeps ==
  ASSUME ConnectionInv, NEW r \in Requests, NEW what \in {"answer", "late", "lost"}, See(r, what),
         UNCHANGED <<setup, account, client, server, link, up, down>>
  PROVE  ConnectionInv'
<1> DEFINE y == [stream[r] EXCEPT !.seen = what]
<1>1. stream \in [Requests -> StreamRecords] /\ stream[r] \in StreamRecords
  BY DEF ConnectionInv, ConnectionTypes
<1>2. /\ y \in StreamRecords /\ y.pc = stream[r].pc /\ y.command = stream[r].command
      /\ y.handle = stream[r].handle /\ y.hello = stream[r].hello /\ y.answer = stream[r].answer
  BY <1>1 DEF StreamRecords
<1>3. stream' = [stream EXCEPT ![r] = y]
  BY <1>1 DEF See
<1> HIDE DEF y
<1> QED
  BY <1>2, <1>3, StreamMoves

StreamNext(r) ==
  \/ Open(r) \/ ReadHello(r) \/ HelloTimeout(r) \/ ReadRequest(r) \/ Handle(r) \/ Answer(r)
  \/ ReadResponse(r) \/ ReadEnd(r)

LEMMA StreamKeeps ==
  ASSUME ConnectionInv, NEW r \in Requests, StreamNext(r)
  PROVE  ConnectionInv'
<1> DEFINE c == ConnOf[r]
<1>1. c \in Conns
  BY LimitsAssumption
<1>2. {"greeted", "late", "routed", "running"} \subseteq StreamStates \ {"answered"}
  BY DEF StreamStates
<1>3. "quota" \in Errors
  BY DEF Errors
<1>4. stream[r] \in StreamRecords /\ stream[r].pc \in StreamStates
  BY DEF ConnectionInv, ConnectionTypes, StreamRecords
<1>5. ASSUME stream[r].pc \notin {"unopened", "ended"}
      PROVE  /\ Admitted(c) /\ stream[r].command \in Commands
             /\ ValidateStreamRequest(Negotiated(c), server[c].epoch, stream[r])
             /\ stream[r].pc = "answered" =>
                  stream[r].answer \in Errors \cup {Expected(stream[r].command)}
  BY <1>5 DEF ConnectionInv, Streaming, StreamAt
<1> HIDE DEF c
<1>6. CASE Open(r)
  BY <1>6, OpenKeeps
<1>7. CASE ReadHello(r)
  <2>1. stream[r].pc = "sent" /\ UNCHANGED <<setup, account, client, server, link, up, down>>
    BY <1>7 DEF ReadHello, fixed
  <2>2. Has(Negotiated(c), "stream_channels", 1) => ValidHello(stream[r].hello, server[c].epoch)
    BY <1>5, <2>1 DEF ValidateStreamRequest, ValidRequest
  <2>3. Step(r, "greeted")
    BY <1>7, <2>2 DEF ReadHello, c
  <2> QED
    BY <1>2, <2>1, <2>3, StepKeeps
<1>8. CASE HelloTimeout(r)
  BY <1>2, <1>8, StepKeeps DEF HelloTimeout, fixed
<1>9. CASE ReadRequest(r)
  <2>1. stream[r].pc = "greeted" /\ UNCHANGED <<setup, account, client, server, link, up, down>>
    BY <1>9 DEF ReadRequest, fixed
  <2>2. ValidateStreamRequest(Negotiated(c), server[c].epoch, stream[r])
    BY <1>5, <2>1
  <2>3. Reply(r, "quota") \/ Step(r, "routed")
    BY <1>9, <2>2 DEF ReadRequest, c
  <2> QED
    BY <1>2, <1>3, <2>1, <2>3, StepKeeps, ReplyKeeps
<1>10. CASE Handle(r)
  <2>1. stream[r].pc = "routed" /\ UNCHANGED <<setup, account, client, server, link, up, down>>
    BY <1>10 DEF Handle, fixed
  <2>2. ValidateStreamRequest(Negotiated(c), server[c].epoch, stream[r]) /\ Admitted(c)
    BY <1>5, <2>1
  <2>3. WorkerAccepts(c)
    <3>1. client[c].profile \in Profiles /\ setup \in Servers
      BY <1>1 DEF ConnectionInv, ConnectionTypes, ClientRecords
    <3> QED
      BY <2>2, <3>1, ChosenFacts DEF WorkerAccepts, Admitted, Choice
  <2>4. Step(r, "running") \/ Reply(r, "quota")
    BY <1>10, <2>2, <2>3 DEF Handle, c
  <2> QED
    BY <1>2, <1>3, <2>1, <2>4, StepKeeps, ReplyKeeps
<1>11. CASE Answer(r)
  <2>1. stream[r].pc = "running" /\ UNCHANGED <<setup, account, client, server, link, up, down>>
    BY <1>11 DEF Answer, fixed
  <2>2. stream[r].command \in Commands
    BY <1>5, <2>1
  <2>3. PICK a \in Answers(c, stream[r].command) : Reply(r, a)
    BY <1>11 DEF Answer, c
  <2>4. a \in Errors \cup {Expected(stream[r].command)}
    BY <2>2, <2>3, AnswersExpected
  <2> QED
    BY <2>1, <2>3, <2>4, ReplyKeeps
<1>12. CASE ReadResponse(r)
  <2>1. stream[r].pc = "answered" /\ UNCHANGED <<setup, account, client, server, link, up, down>>
    BY <1>12 DEF ReadResponse, fixed
  <2>2. stream[r].answer \in Errors \cup {Expected(stream[r].command)}
    BY <1>5, <2>1
  <2>3. See(r, "answer")
    BY <1>12, <2>2 DEF ReadResponse
  <2> QED
    BY <2>1, <2>3, SeeKeeps
<1>13. CASE ReadEnd(r)
  <2>1. UNCHANGED <<setup, account, client, server, link, up, down>>
    BY <1>13 DEF ReadEnd, fixed
  <2>2. See(r, "late") \/ See(r, "lost")
    BY <1>4, <1>13 DEF ReadEnd, StreamStates
  <2> QED
    BY <2>1, <2>2, SeeKeeps
<1> QED
  BY <1>6, <1>7, <1>8, <1>9, <1>10, <1>11, <1>12, <1>13 DEF StreamNext

LEMMA ConnectionStep ==
  ASSUME ConnectionInv, [Next]_vars
  PROVE  ConnectionInv'
<1>1. ASSUME NEW c \in Conns, HandshakeNext(c) PROVE ConnectionInv'
  BY <1>1, HandshakeKeeps
<1>2. ASSUME NEW r \in Requests, StreamNext(r) PROVE ConnectionInv'
  BY <1>2, StreamKeeps
<1>3. CASE UNCHANGED vars
  <2>1. \A c \in Conns : /\ Choice(c)' = Choice(c) /\ Admitted(c)' = Admitted(c)
                         /\ Welcome(c)' = Welcome(c) /\ Negotiated(c)' = Negotiated(c)
    BY <1>3 DEF vars, Choice, Admitted, Welcome, Negotiated
  <2>2. ASSUME NEW c \in Conns
        PROVE  Greeting(c)' = Greeting(c) /\ Signing(c)' = Signing(c)
    <3>1. /\ client'[c] = client[c] /\ server'[c] = server[c]
          /\ up'[c] = up[c] /\ down'[c] = down[c]
      BY <1>3 DEF vars
    <3>2. Greeting(c)' = Greeting(c)
      BY <2>1, <3>1 DEF Greeting
    <3>3. Signing(c)' = Signing(c)
      BY <2>1, <3>1 DEF Signing
    <3> QED
      BY <3>2, <3>3
  <2>3. Handshake'
    BY <1>3, <2>1, <2>2 DEF vars, ConnectionInv, Handshake, HandshakeAt
  <2>4. Streaming'
    BY <1>3, StreamFrame DEF vars, ConnectionInv
  <2>5. ConnectionTypes' /\ Reserved'
    BY <1>3 DEF vars, ConnectionInv, ConnectionTypes, Reserved, Held
  <2> QED
    BY <2>3, <2>4, <2>5 DEF ConnectionInv
<1>4. CASE Next
  BY <1>1, <1>2, <1>4 DEF Next, HandshakeNext, StreamNext
<1> QED
  BY <1>3, <1>4

LEMMA ConnectionHolds == Spec => []ConnectionInv
<1>1. Init => ConnectionInv
  BY ConnectionInit
<1>2. ConnectionInv /\ [Next]_vars => ConnectionInv'
  BY ConnectionStep
<1> QED
  BY <1>1, <1>2, PTL DEF Spec

LEMMA InvariantSuffices == ConnectionInv => WelcomeIsReserved /\ NoProtocolError
<1> SUFFICES ASSUME ConnectionInv PROVE WelcomeIsReserved /\ NoProtocolError
  OBVIOUS
<1>1. WelcomeIsReserved
  BY DEF WelcomeIsReserved, ConnectionInv, Reserved, Handshake, HandshakeAt, Admitted
<1>2. \A c \in Conns : client[c].error \notin {"hello", "epoch"}
  <2>1. \A c \in Conns : client[c].error \in ClientErrors
    BY DEF ConnectionInv, ConnectionTypes, ClientRecords
  <2>2. \A e \in ClientErrors : e \notin {"hello", "epoch"}
    BY EmptyFacts DEF ClientErrors
  <2> QED
    BY <2>1, <2>2
<1>3. \A r \in Requests : stream[r].seen # "wrong" /\ stream[r].pc # "reset"
  BY DEF ConnectionInv, ConnectionTypes, StreamRecords, StreamStates
<1> QED
  BY <1>1, <1>2, <1>3 DEF NoProtocolError

(* A client that is told ok is counted by the gateway until the gateway    *)
(* has seen its connection end, both act on the same selection and epoch,  *)
(* and the user's connections never exceed the quota (handle_connection,   *)
(* authenticate_connection and the client's authenticate), for any number  *)
(* of clients, whatever their builds offer.                                *)
THEOREM WelcomeIsReservedHolds == Spec => []WelcomeIsReserved
BY ConnectionHolds, InvariantSuffices, PTL

(* Two builds of this code never take each other for a broken peer: no     *)
(* hello, epoch, preamble, worker check or answer is refused, whatever     *)
(* commands are sent and whatever either end has switched off.             *)
THEOREM NoProtocolErrorHolds == Spec => []NoProtocolError
BY ConnectionHolds, InvariantSuffices, PTL

\* The hellos that SelectionSound looks at are hellos.
LEMMA HelloWithTyped ==
  ASSUME NEW d, NEW range \in Ranges
  PROVE  IsHello(HelloWith(d, range))
<1> DEFINE names == Retain(NameOrder, {i \in DOMAIN NameOrder : NameOrder[i] \in d})
           offers == [i \in DOMAIN names |-> Offer(names[i], range[1], range[2])]
<1>1. range[1] \in Nat /\ range[2] \in Nat
  BY DEF Ranges
<1>2. HelloWith(d, range) = [hint |-> 1, min |-> 1, max |-> 2, capabilities |-> offers]
  BY DEF HelloWith
<1> HIDE DEF names
<1>3. \A i \in DOMAIN offers : offers[i].min \in Nat /\ offers[i].max \in Nat
  BY <1>1 DEF Offer
<1> DEFINE hello == HelloWith(d, range)
<1> HIDE DEF offers
<1>4. hello.hint = 1 /\ hello.min = 1 /\ hello.max = 2 /\ hello.capabilities = offers
  BY <1>2
<1> HIDE DEF hello
<1>5. IsHello(hello)
  BY <1>3, <1>4 DEF IsHello
<1> QED
  BY <1>5 DEF hello

(* Whatever subset of the capabilities a client offers, the gateway makes  *)
(* the largest selection without a broken dependency, and the client and   *)
(* the worker read it back (negotiation.rs): the general form is           *)
(* SelectionReadBack.                                                      *)
THEOREM SelectionSoundHolds == Spec => []SelectionSound
<1>1. ConnectionInv => SelectionSound
  <2> SUFFICES ASSUME ConnectionInv, NEW d \in SUBSET Dependent, NEW range \in Ranges
               PROVE  SoundFor(HelloWith(d, range), ServerSupport(setup.forwarding, setup.datagrams))
    BY DEF SelectionSound
  <2>1. setup.forwarding \in BOOLEAN /\ setup.datagrams \in BOOLEAN
    BY LimitsAssumption DEF ConnectionInv, ConnectionTypes
  <2> QED
    BY <2>1, HelloWithTyped, SelectionReadBack
<1> QED
  BY <1>1, ConnectionHolds, PTL
===========================================================================
