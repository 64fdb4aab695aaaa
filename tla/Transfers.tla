------------------------------ MODULE Transfers ------------------------------
(***************************************************************************)
(* Bodies that are larger than one message, and how they are cut up and    *)
(* put together again: states and history pages in chunks on the reliable  *)
(* stream (src/server.rs terminal_state_chunks, history_page_chunks;       *)
(* src/terminal_streaming.rs TransferAssembler; src/compression.rs), whose *)
(* client decodes each chunk in a job of its own (src/client.rs            *)
(* next_event); and viewport deltas in datagrams that must each fit the    *)
(* path (src/terminal_datagram_v3.rs), which the gateway checks            *)
(* (src/worker.rs validate_worker_datagram).                               *)
(*                                                                         *)
(* A body is an identity, its length and the length zstd gives it.  The    *)
(* bytes of an encoded body are intervals of positions, from excluded to   *)
(* included.                                                               *)
(***************************************************************************)
EXTENDS Integers, Sequences, SequencesExt, FiniteSetsExt

CONSTANTS Bodies,               \* records [raw, packed]
          Deltas,               \* records [raw, packed, budget, keyframe]
          ChunkBytes,           \* TERMINAL_STATE_CHUNK_BYTES
          MaxBytes,             \* the limit of each kind of body
          MinInput, MinSaving,  \* when compression is tried, and kept
          MaxWorkingBytes, MaxFragments,
          MaxBodies             \* bodies sent in all

VARIABLES zstd,                 \* payload compression was negotiated
          stream,               \* chunks on their way to the client
          sent,                 \* the bodies sent so far
          client,
          viewport              \* the fragments of the last delta

vars == <<zstd, stream, sent, client, viewport>>

Kinds == {"state", "history"}
NoJob == [kind |-> "none"]
NoTransfer == [id |-> 0]
NoDelta == [delta |-> [raw |-> 0], packets |-> <<>>]

Init ==
    /\ zstd \in BOOLEAN
    /\ stream = <<>>
    /\ sent = <<>>
    /\ client = [job |-> NoJob, pending |-> [k \in Kinds |-> NoTransfer],
                 delivered |-> <<>>, failed |-> FALSE]
    /\ viewport = NoDelta

DivCeil(a, b) == (a + b - 1) \div b

-----------------------------------------------------------------------------
(* compression.rs *)

Saving(raw) == Max({MinSaving, DivCeil(raw, 20)})

Encoded(body) ==
    IF zstd /\ body.raw >= MinInput /\ body.packed + Saving(body.raw) <= body.raw
    THEN [encoding |-> "zstd", length |-> body.packed, uncompressed |-> body.raw]
    ELSE [encoding |-> "none", length |-> body.raw, uncompressed |-> 0]

HeaderValid(encoding, uncompressed, length, kind) ==
    /\ length <= MaxBytes[kind]
    /\ IF encoding = "none"
       THEN uncompressed = 0
       ELSE zstd /\ uncompressed > 0 /\ uncompressed <= MaxBytes[kind]

-----------------------------------------------------------------------------
(* The sender: all chunks of a body, one after the other. *)

ChunkCount(length) == DivCeil(Max({length, 1}), ChunkBytes)

Chunks(kind, id, e) ==
    [i \in 1..ChunkCount(e.length) |->
        [kind |-> kind, id |-> id, index |-> i - 1, count |-> ChunkCount(e.length),
         total |-> e.length, encoding |-> e.encoding, uncompressed |-> e.uncompressed,
         from |-> (i - 1) * ChunkBytes, to |-> Min({i * ChunkBytes, e.length})]]

SendBody(kind, body) ==
    /\ Len(sent) < MaxBodies /\ viewport = NoDelta
    /\ body.raw <= MaxBytes[kind]
    /\ sent' = Append(sent, [kind |-> kind, id |-> Len(sent) + 1])
    /\ stream' = stream \o Chunks(kind, Len(sent) + 1, Encoded(body))
    /\ UNCHANGED <<zstd, client, viewport>>

-----------------------------------------------------------------------------
(* The client: one chunk at a time goes through a job of its own. *)

ReadChunk ==
    /\ ~client.failed
    /\ client.job = NoJob
    /\ stream # <<>>
    /\ client' = [client EXCEPT !.job = Head(stream)]
    /\ stream' = Tail(stream)
    /\ UNCHANGED <<zstd, sent, viewport>>

\* The job kept in the future that is dropped, and not in the attachment.
CancelJob ==
    /\ client.job # NoJob
    /\ client' = [client EXCEPT !.job = NoJob]
    /\ UNCHANGED <<zstd, stream, sent, viewport>>

\* The caller drops next_event to send input; the job stays.
Cancel ==
    /\ client.job # NoJob
    /\ UNCHANGED vars

\* The transfer a chunk belongs to: the pending one, or the one it begins.
Begun(chunk, pending) ==
    IF pending = NoTransfer
    THEN [id |-> chunk.id, total |-> chunk.total, encoding |-> chunk.encoding,
          uncompressed |-> chunk.uncompressed, count |-> chunk.count, parts |-> {}]
    ELSE pending

Size(parts) == FoldSet(LAMBDA p, n : n + p.to - p.from, 0, parts)

Admissible(chunk, pending) ==
    /\ chunk.count \in 1..4096 /\ chunk.index < chunk.count
    /\ HeaderValid(chunk.encoding, chunk.uncompressed, chunk.total, chunk.kind)
    /\ IF pending = NoTransfer
       THEN chunk.index = 0
       ELSE /\ pending.id = chunk.id /\ pending.total = chunk.total
            /\ pending.encoding = chunk.encoding
            /\ pending.uncompressed = chunk.uncompressed
            /\ pending.count = chunk.count

Part(chunk) == [index |-> chunk.index, from |-> chunk.from, to |-> chunk.to]

\* A chunk received again changes nothing.
Added(chunk, transfer) == [transfer EXCEPT !.parts = @ \cup {Part(chunk)}]

Complete(transfer) == Cardinality(transfer.parts) = transfer.count

\* The chunks in order of index are the encoded body.
Assembled(transfer) ==
    /\ Size(transfer.parts) = transfer.total
    /\ \A p \in transfer.parts :
          p.from = Size({q \in transfer.parts : q.index < p.index})

FinishJob ==
    /\ client.job # NoJob
    /\ LET chunk == client.job
           pending == client.pending[chunk.kind]
           transfer == Added(chunk, Begun(chunk, pending))
       IN client' =
            CASE ~Admissible(chunk, pending) \/ Size(transfer.parts) > transfer.total ->
                    [client EXCEPT !.job = NoJob, !.failed = TRUE]
              [] Admissible(chunk, pending) /\ ~Complete(transfer) ->
                    [client EXCEPT !.job = NoJob, !.pending[chunk.kind] = transfer]
              [] Assembled(transfer) ->
                    [client EXCEPT !.job = NoJob, !.pending[chunk.kind] = NoTransfer,
                                   !.delivered = Append(@, [kind |-> chunk.kind, id |-> chunk.id])]
              [] OTHER -> [client EXCEPT !.job = NoJob, !.failed = TRUE]
    /\ UNCHANGED <<zstd, stream, sent, viewport>>

-----------------------------------------------------------------------------
(* Viewport deltas in fragments.  The lengths are those of the messages:    *)
(* identifiers of 36 bytes, an epoch and a transfer ID of 16, a digest of   *)
(* 32, generations below 128.                                               *)

VarintLength(n) == IF n < 128 THEN 1 ELSE IF n < 16384 THEN 2 ELSE 3

WorkingBytesFit(raw, encoded) ==
    raw > 0 /\ encoded > 0 /\ 2 * encoded + raw + 1 <= MaxWorkingBytes

BalancedRange(index, count, total) ==
    [from |-> (index * total) \div count, to |-> ((index + 1) * total) \div count]

DataLength(index, count, total) ==
    BalancedRange(index, count, total).to - BalancedRange(index, count, total).from

\* The fields of a fragment but its data; zero is not encoded.
HeaderLength(h, index, count) ==
    18 + 2 + 2 + 18 + 34
    + (IF index = 0 THEN 0 ELSE 1 + VarintLength(index))
    + 1 + VarintLength(count)
    + 1 + VarintLength(h.total)
    + 1 + VarintLength(h.raw)
    + (IF h.encoding = "zstd" THEN 2 ELSE 0)

PacketLength(h, index, count) ==
    LET data == DataLength(index, count, h.total)
        inner == HeaderLength(h, index, count) + 1 + VarintLength(data) + data
    IN 76 + 1 + VarintLength(inner) + inner

\* Zstd writes into a buffer of what the working bytes leave.
FragmentBody(delta) ==
    IF /\ delta.raw >= 1024
       /\ delta.packed <= (MaxWorkingBytes - delta.raw - 1) \div 2
       /\ delta.packed + Max({64, DivCeil(delta.raw, 20)}) <= delta.raw
    THEN [encoding |-> "zstd", total |-> delta.packed, raw |-> delta.raw]
    ELSE [encoding |-> "none", total |-> delta.raw, raw |-> delta.raw]

FitsBudget(h, count, budget) == \A i \in 0..(count - 1) : PacketLength(h, i, count) <= budget

WireBytes(h, count) == FoldSet(LAMBDA i, n : n + PacketLength(h, i, count), 0, 0..(count - 1))

Packets(h, count) ==
    [i \in 1..count |->
        [index |-> i - 1, count |-> count, total |-> h.total, raw |-> h.raw,
         encoding |-> h.encoding, length |-> PacketLength(h, i - 1, count),
         from |-> BalancedRange(i - 1, count, h.total).from,
         to |-> BalancedRange(i - 1, count, h.total).to]]

\* No fragments: the body goes out as a reliable keyframe.
Fragments(delta) ==
    LET h == FragmentBody(delta)
        counts == {c \in 1..Min({MaxFragments, h.total}) : FitsBudget(h, c, delta.budget)}
    IN IF \/ delta.raw = 0 \/ delta.raw >= MaxWorkingBytes \/ delta.budget = 0
          \/ (MaxWorkingBytes - delta.raw - 1) \div 2 = 0
          \/ ~WorkingBytesFit(delta.raw, h.total)
          \/ counts = {}
          \/ WireBytes(h, Min(counts)) >= delta.keyframe
       THEN <<>>
       ELSE Packets(h, Min(counts))

\* Nothing is kept of a delta once it is sent, and it shares nothing with the
\* transfers: one delta, in a behaviour of its own, is enough.
Prepare(delta) ==
    /\ sent = <<>> /\ viewport = NoDelta
    /\ viewport' = [delta |-> delta, packets |-> Fragments(delta)]
    /\ UNCHANGED <<zstd, stream, sent, client>>

\* What the gateway demands of a worker's fragment.
ValidFragment(p) ==
    /\ p.count > 0 /\ p.count <= MaxFragments /\ p.index < p.count
    /\ p.total >= p.count /\ p.raw > 0
    /\ p.raw + 2 * p.total < 65535
    /\ p.to - p.from = ((p.index + 1) * p.total) \div p.count - (p.index * p.total) \div p.count
    /\ p.encoding = "none" => p.raw = p.total

Next ==
    \/ \E k \in Kinds, b \in Bodies : SendBody(k, b)
    \/ ReadChunk
    \/ Cancel
    \/ FinishJob
    \/ \E d \in Deltas : Prepare(d)

Spec == Init /\ [][Next]_vars

-----------------------------------------------------------------------------
(* Properties. *)

\* The client never takes a transfer for damaged, though its caller cancels
\* next_event between any two steps, states and pages share the stream and
\* each body is compressed or not (client.rs:925, terminal_streaming.rs:184);
\* it delivers the bodies in the order they were sent.
TransfersExact == ~client.failed /\ IsPrefix(client.delivered, sent)

\* The fragments of a delta are exactly its encoded body, each fits the path
\* and passes the gateway's check, and together they cost less than the
\* keyframe they replace (terminal_datagram_v3.rs:103, worker.rs:652).
FragmentsFit ==
    viewport.packets # <<>> =>
        LET ps == viewport.packets
        IN /\ \A i \in DOMAIN ps :
                 /\ ps[i].from = IF i = 1 THEN 0 ELSE ps[i - 1].to
                 /\ ps[i].length <= viewport.delta.budget
                 /\ ValidFragment(ps[i])
           /\ Last(ps).to = ps[1].total
           /\ FoldSeq(LAMBDA p, n : n + p.length, 0, ps) < viewport.delta.keyframe

\* Payloads that are cut in pieces are put together whole.
PayloadsWhole == TransfersExact /\ FragmentsFit

=============================================================================
