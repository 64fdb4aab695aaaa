---------------------------- MODULE Negotiation ----------------------------
(***************************************************************************)
(* Version and capability negotiation (negotiation.rs): what the gateway   *)
(* selects from a ClientHello, and the two checks of that selection, by    *)
(* the client that receives it and by the worker it is handed to.          *)
(*                                                                         *)
(* Lists travel as sequences of entries; a BTreeMap is a function.  A name *)
(* that validate_capability_name refuses is represented by "".             *)
(***************************************************************************)
EXTENDS Naturals, Sequences, FiniteSets

MaxCapabilities == 64

\* In the order of their names on the wire, which is that of a BTreeMap.
NameOrder ==
  <<"tcp_forward", "payload_zstd", "session_objects", "clipboard_write",
    "datagram_state", "history_paging", "input_lease", "input_resume", "legacy_ansi",
    "semantic_diff", "semantic_state", "state_ack", "stream_channels">>

Offer(name, lo, hi) == [name |-> name, min |-> lo, max |-> hi]

Pinned(name, version) == Offer(name, version, version)

MinimumProtocolVersion == 1
ProtocolVersion == 2

\* ProtocolSupport::runtime and rust_semantic_client.
Runtime ==
  [min |-> MinimumProtocolVersion, max |-> ProtocolVersion,
   capabilities |->
     <<Pinned("tcp_forward", 1), Pinned("stream_channels", 1), Pinned("payload_zstd", 1),
       Pinned("legacy_ansi", 1), Pinned("semantic_state", 2), Pinned("history_paging", 1),
       Pinned("state_ack", 1), Pinned("semantic_diff", 1), Pinned("datagram_state", 2),
       Pinned("clipboard_write", 1), Pinned("session_objects", 1),
       Pinned("input_resume", 2), Pinned("input_lease", 1)>>]

CommandLineClient ==
  [min |-> MinimumProtocolVersion, max |-> ProtocolVersion,
   capabilities |-> <<Pinned("tcp_forward", 1), Pinned("stream_channels", 1),
                      Pinned("legacy_ansi", 1), Pinned("payload_zstd", 1)>>]

\* The entries of a list at the indices in kept, in their order.
Retain(list, kept) ==
  [i \in 1 .. Cardinality(kept) |->
     list[CHOOSE k \in kept : Cardinality({j \in kept : j <= k}) = i]]

\* server_protocol_support: v3 datagrams, minus what is switched off.
Raised ==
  [i \in DOMAIN Runtime.capabilities |->
     LET o == Runtime.capabilities[i]
     IN  IF o.name = "datagram_state" THEN [o EXCEPT !.max = 3] ELSE o]

ServerSupport(forwarding, datagrams) ==
  LET kept(o) == /\ forwarding \/ o.name # "tcp_forward"
                 /\ datagrams \/ o.name # "datagram_state"
  IN  [Runtime EXCEPT !.capabilities = Retain(Raised, {i \in DOMAIN Raised : kept(Raised[i])})]

\* client_hello: the legacy hint stays at one.
ClientHello(support) ==
  [hint |-> 1, min |-> support.min, max |-> support.max,
   capabilities |-> support.capabilities]

---------------------------------------------------------------------------
\* hello_version_range: a hello without a range offers its hint alone.
HelloRange(hello) ==
  IF hello.min = 0 /\ hello.max = 0
    THEN [ok |-> hello.hint > 0, min |-> hello.hint, max |-> hello.hint]
    ELSE [ok |-> /\ hello.min > 0 /\ hello.min <= hello.max
                 /\ hello.hint \in hello.min .. hello.max,
          min |-> hello.min, max |-> hello.max]

ValidName(name) == name # ""

NoneTwice(list) == \A i, j \in DOMAIN list : list[i].name = list[j].name => i = j

ValidOffers(list) ==
  /\ Len(list) <= MaxCapabilities
  /\ \A i \in DOMAIN list :
       ValidName(list[i].name) /\ list[i].min > 0 /\ list[i].min <= list[i].max
  /\ NoneTwice(list)

ValidSupport(support) ==
  /\ support.min > 0 /\ support.min <= support.max
  /\ ValidOffers(support.capabilities)

\* The list as a map from names to ranges.
AsMap(list) ==
  [n \in {list[i].name : i \in DOMAIN list} |->
     LET i == CHOOSE i \in DOMAIN list : list[i].name = n
     IN  [min |-> list[i].min, max |-> list[i].max]]

Least(a, b) == IF a <= b THEN a ELSE b
Greatest(a, b) == IF a >= b THEN a ELSE b

\* Both support some version of n.
Overlaps(offered, supported, n) ==
  /\ n \in DOMAIN offered /\ n \in DOMAIN supported
  /\ Greatest(offered[n].min, supported[n].min) <= Least(offered[n].max, supported[n].max)

\* Every capability both support, at the highest common version.
Overlap(offered, supported) ==
  [n \in {m \in DOMAIN supported : Overlaps(offered, supported, m)} |->
     Least(offered[n].max, supported[n].max)]

Has(selected, n, version) == n \in DOMAIN selected /\ selected[n] >= version

Keep(selected, n, condition) ==
  [m \in {k \in DOMAIN selected : k # n \/ condition} |-> selected[m]]

\* The removals of negotiate_client_hello, in its order: a later one sees
\* what an earlier one left.
WithoutClipboard(s) == Keep(s, "clipboard_write", Has(s, "semantic_state", 2))
WithoutHistory(s) == Keep(s, "history_paging", Has(s, "semantic_state", 2))
WithoutAck(s) == Keep(s, "state_ack", Has(s, "semantic_state", 2))
WithoutDiff(s) ==
  Keep(s, "semantic_diff", "state_ack" \in DOMAIN s /\ Has(s, "semantic_state", 2))
WithoutDatagrams(s) ==
  Keep(s, "datagram_state", /\ {"state_ack", "session_objects"} \subseteq DOMAIN s
                            /\ Has(s, "semantic_state", 2))
WithoutLease(s) == Keep(s, "input_lease", "session_objects" \in DOMAIN s)
WithoutResume(s) == Keep(s, "input_resume", "input_lease" \in DOMAIN s)
WithoutForward(s) == Keep(s, "tcp_forward", "stream_channels" \in DOMAIN s)

\* Mutant: input_resume is examined before the lease it needs.
ResumeFirst(s) ==
  WithoutForward(WithoutLease(WithoutResume(WithoutDatagrams(
    WithoutDiff(WithoutAck(WithoutHistory(WithoutClipboard(s))))))))

Prune(s) ==
  WithoutForward(WithoutResume(WithoutLease(WithoutDatagrams(
    WithoutDiff(WithoutAck(WithoutHistory(WithoutClipboard(s))))))))

Refused == [ok |-> FALSE]

NegotiateClientHello(hello, support) ==
  LET range == HelloRange(hello)
      low   == Greatest(range.min, support.min)
      high  == Least(range.max, support.max)
  IN  IF ~(ValidSupport(support) /\ range.ok /\ low <= high /\ ValidOffers(hello.capabilities))
        THEN Refused
        ELSE [ok |-> TRUE, version |-> high,
              capabilities |-> Prune(Overlap(AsMap(hello.capabilities),
                                             AsMap(support.capabilities)))]

\* validate_capability_dependencies.
DependenciesHold(s) ==
  LET needs(n, others) == n \in DOMAIN s => others \subseteq DOMAIN s
      semantic(n) == n \in DOMAIN s => Has(s, "semantic_state", 2)
  IN  /\ needs("tcp_forward", {"stream_channels"})
      /\ semantic("clipboard_write") /\ semantic("history_paging") /\ semantic("state_ack")
      /\ semantic("semantic_diff") /\ needs("semantic_diff", {"state_ack"})
      /\ semantic("datagram_state") /\ needs("datagram_state", {"state_ack", "session_objects"})
      /\ needs("input_lease", {"session_objects"})
      /\ needs("input_resume", {"input_lease"})

\* The selection as it is sent: one entry for each capability.
Selections(s) ==
  LET names == Retain(NameOrder, {i \in DOMAIN NameOrder : NameOrder[i] \in DOMAIN s})
  IN  [i \in DOMAIN names |-> [name |-> names[i], version |-> s[names[i]]]]

SelectedMap(list) ==
  [n \in {list[i].name : i \in DOMAIN list} |->
     (list[CHOOSE i \in DOMAIN list : list[i].name = n]).version]

Within(list, ranges) ==
  /\ Len(list) <= MaxCapabilities
  /\ \A i \in DOMAIN list :
       /\ ValidName(list[i].name) /\ list[i].name \in DOMAIN ranges
       /\ list[i].version \in ranges[list[i].name].min .. ranges[list[i].name].max
  /\ NoneTwice(list)
  /\ DependenciesHold(SelectedMap(list))

\* The check at the worker boundary.
ValidateWorkerSelection(version, list, support) ==
  IF /\ ValidSupport(support)
     /\ version \in support.min .. support.max
     /\ Within(list, AsMap(support.capabilities))
    THEN [ok |-> TRUE, version |-> version, capabilities |-> SelectedMap(list)]
    ELSE Refused

\* The check by the client of what its server selected.
ValidateServerHello(hello, version, list) ==
  LET range == HelloRange(hello)
  IN  IF /\ range.ok /\ version \in range.min .. range.max
         /\ ValidOffers(hello.capabilities)
         /\ Within(list, AsMap(hello.capabilities))
        THEN [ok |-> TRUE, version |-> version, capabilities |-> SelectedMap(list)]
        ELSE Refused

---------------------------------------------------------------------------
(* The selection s is the best one for what both ends offer: every set of  *)
(* capabilities they could use together, with no dependency broken, is     *)
(* part of it, and each has the highest version both support.              *)
BestSelection(offered, supported, s) ==
  LET all == Overlap(offered, supported)
  IN  /\ \A d \in SUBSET DOMAIN all :
           DependenciesHold([n \in d |-> all[n]]) => d \subseteq DOMAIN s
      /\ \A n \in DOMAIN s : s[n] = all[n]

(* What is selected from a hello is the best selection, and the client and *)
(* the worker, which check it each in its own way, both read it back       *)
(* unchanged.                                                              *)
SoundFor(hello, support) ==
  LET n == NegotiateClientHello(hello, support)
      list == Selections(n.capabilities)
  IN  n.ok =>
        /\ BestSelection(AsMap(hello.capabilities), AsMap(support.capabilities), n.capabilities)
        /\ ValidateServerHello(hello, n.version, list) = n
        /\ ValidateWorkerSelection(n.version, list, ServerSupport(TRUE, TRUE)) = n
============================================================================
