------------------------- MODULE FileUploadProofs -------------------------
(***************************************************************************)
(* Proofs about FileUpload, for any clients, any size of the files and any *)
(* number of lost connections, kills and power losses.                     *)
(*                                                                         *)
(* The argument is about inodes.  What is at the destination was complete  *)
(* and synced before it got there, and no upload writes to it: a private   *)
(* file that is still linked there holds the client's whole file, so that  *)
(* a begin finds the upload done instead of resuming it.                   *)
(***************************************************************************)
EXTENDS FileUpload, TLAPS

Pieces == Clients \cup {"foreign", Zero}
Inodes == 1 .. Len(inodes)
States == {"none", "active", "completed", "aborted"}
Errors == {"conflict", "not_found", "checksum"}

Upload0 == [state : States, offset : Nat]
Commit0 ==
  {NoCommit} \cup [client : Clients, step : {"sync", "publish", "unlink"}, connection : Nat]
Client0 ==
  [pc : {"begin", "resume", "recommit", "write", "commit", "done", "failed"}, offset : Nat,
   waiting : BOOLEAN, connection : Nat, broken : BOOLEAN, error : {"none"} \cup Errors]
Request0 ==
  [client : Clients, op : {"begin", "write", "commit"}, offset : Nat, connection : Nat]
Answer0 == [kind : {"status"} \cup Errors, state : States, offset : Nat]
Response0 == [client : Clients, connection : Nat, answer : Answer0]

DiskOK ==
  /\ inodes \in Seq(Seq(Pieces))
  /\ synced \subseteq Inodes
  /\ target \in {0} \cup Inodes
  /\ temporary \in [Clients -> {0} \cup Inodes]

TypeOK ==
  /\ DiskOK
  /\ uploads \in [Clients -> Upload0]
  /\ committing \in Commit0
  /\ client \in [Clients -> Client0]
  /\ requests \subseteq Request0
  /\ responses \subseteq Response0
  /\ held \subseteq Clients

\* The private files are apart from each other.
Apart == \A c, d \in Clients : temporary[c] # 0 /\ temporary[c] = temporary[d] => c = d

\* What is at the destination is on stable storage, and is another
\* program's or was published whole.
Published ==
  target # 0 => /\ target \in synced
                /\ inodes[target] = Foreign \/ \E c \in held : inodes[target] = Source(c)

\* A private file that is still linked there is complete.
Linked ==
  \A c \in Clients : target # 0 /\ temporary[c] = target => inodes[target] = Source(c)

\* An active upload writes to a private file, which is linked to the
\* destination only between the last two steps of its commit.
Active ==
  \A c \in Clients : uploads[c].state = "active" =>
    \/ temporary[c] # 0 /\ temporary[c] # target
    \/ committing.client = c /\ committing.step = "unlink"

\* A commit works on a file it has verified.
Commit ==
  /\ committing.step \in {"sync", "publish"} =>
       /\ uploads[committing.client].state = "active"
       /\ temporary[committing.client] # 0
       /\ inodes[temporary[committing.client]] = Source(committing.client)
       /\ committing.step = "publish" => temporary[committing.client] \in synced
  /\ committing.step = "unlink" => committing.client \in held

\* Whoever is, or is about to be, told of a success has been published.
Told ==
  /\ \A c \in Clients : uploads[c].state = "completed" \/ client[c].pc = "done" => c \in held
  /\ \A r \in responses : r.answer.state = "completed" => r.client \in held

IndInv == TypeOK /\ Apart /\ Published /\ Linked /\ Active /\ Commit /\ Told

---------------------------------------------------------------------------
(* The contents of files.                                                  *)

LEMMA Contents ==
  ASSUME UploadAssumption
  PROVE  /\ \A c, d \in Clients : Source(c) = Source(d) => c = d
         /\ \A c \in Clients : Source(c) # Foreign
         /\ \A c \in Clients : Source(c) \in Seq(Pieces)
         /\ Foreign \in Seq(Pieces)
<1>1. 1 \in 1 .. Size /\ Size \in Nat
  BY DEF UploadAssumption
<1>2. \A c \in Clients : Source(c)[1] = c
  BY <1>1 DEF Source
<1>3. Foreign[1] = "foreign"
  BY <1>1 DEF Foreign
<1>4. ASSUME NEW c \in Clients PROVE Source(c) \in Seq(Pieces)
  BY <1>1 DEF Source, Pieces
<1>5. Foreign \in Seq(Pieces)
  BY <1>1 DEF Foreign, Pieces
<1> QED
  BY <1>2, <1>3, <1>4, <1>5 DEF UploadAssumption

\* A power loss leaves a file a file.
LEMMA DamagedContent ==
  ASSUME NEW content \in Seq(Pieces), NEW after \in Damaged(content)
  PROVE  after \in Seq(Pieces)
<1>1. Len(content) \in Nat /\ \A i \in 1 .. Len(content) : content[i] \in Pieces
  OBVIOUS
<1>2. CASE \E n \in 0 .. Len(content) : after = SubSeq(content, 1, n)
  BY <1>1, <1>2
<1>3. CASE \E n \in 0 .. Len(content) :
             after = [i \in 1 .. Len(content) |-> IF i <= n THEN content[i] ELSE Zero]
  <2>1. PICK n \in 0 .. Len(content) :
             after = [i \in 1 .. Len(content) |-> IF i <= n THEN content[i] ELSE Zero]
    BY <1>3
  <2>2. \A i \in 1 .. Len(content) : after[i] \in Pieces
    BY <1>1, <2>1 DEF Pieces
  <2> QED
    BY <1>1, <2>1, <2>2
<1> QED
  BY <1>2, <1>3 DEF Damaged

LEMMA InitIndInv == UploadAssumption /\ Init => IndInv
<1> SUFFICES ASSUME UploadAssumption, Init PROVE IndInv
  OBVIOUS
<1>1. TypeOK
  BY DEF Init, TypeOK, DiskOK, Inodes, NoUpload, States, Upload0, Commit0, Client0, Errors
<1> QED
  BY <1>1 DEF Init, IndInv, Apart, Published, Linked, Active, Commit, Told, NoUpload, NoCommit

---------------------------------------------------------------------------
(* The service.  A request is handled while no commit is under way.        *)

LEMMA Idle ==
  ASSUME TypeOK, committing = NoCommit
  PROVE  /\ committing.step = "none"
         /\ \A c \in Clients : ~(committing.client = c /\ committing.step = "unlink")
  BY DEF NoCommit

\* An answer reports success only to a client that has been published.
Honest(c, answer) == answer \in Answer0 /\ (answer.state = "completed" => c \in held)

LEMMA ReplyFacts ==
  ASSUME TypeOK, Told, NEW q, q.client \in Clients, q.connection \in Nat,
         NEW answer, Honest(q.client, answer), Reply(q, answer)
  PROVE  /\ responses' \subseteq Response0
         /\ \A r \in responses' : r.answer.state = "completed" => r.client \in held
<1> DEFINE new == [client |-> q.client, connection |-> q.connection, answer |-> answer]
<1>1. responses' = responses \cup {new}
  BY DEF Reply
<1>2. /\ new \in Response0
      /\ new.client = q.client /\ new.answer = answer
  BY DEF Honest, Response0
<1>3. responses \subseteq Response0
  BY DEF TypeOK
<1> HIDE DEF new
<1> QED
  BY <1>1, <1>2, <1>3 DEF Told, Honest

LEMMA StatusHonest ==
  ASSUME TypeOK, Told, NEW c \in Clients
  PROVE  Honest(c, Status(uploads[c]))
<1>1. uploads[c] \in Upload0
  BY DEF TypeOK
<1> QED
  BY <1>1 DEF Status, Honest, Answer0, Upload0, Told

LEMMA FailureHonest ==
  ASSUME NEW c \in Clients, NEW code \in Errors
  PROVE  Honest(c, Failure(code))
  BY DEF Failure, Honest, Answer0, States

\* What every handler leaves alone.
Handled(q) ==
  /\ requests' = requests \ {q}
  /\ UNCHANGED <<client, faults, held, target>>

LEMMA RetainedFacts ==
  ASSUME TypeOK
  PROVE  /\ Retained \in [Clients -> Upload0]
         /\ \A c \in Clients : Retained[c].state \in {"active", "none"}
         /\ \A c \in Clients : Retained[c].state = "active" => uploads[c].state = "active"
<1>1. \A c \in Clients : uploads[c] \in Upload0
  BY DEF TypeOK
<1>2. NoUpload \in Upload0 /\ NoUpload.state = "none"
  BY DEF NoUpload, Upload0, States
<1> QED
  BY <1>1, <1>2 DEF Retained

\* A begin that finds nothing to resume, or opens or resumes an upload.
LEMMA BeginStep ==
  ASSUME UploadAssumption, IndInv, committing = NoCommit, NEW q \in requests, Handled(q),
         BeginUpload(q)
  PROVE  IndInv'
<1> DEFINE c == q.client
<1>q. c \in Clients /\ q.connection \in Nat
  BY DEF IndInv, TypeOK, Request0
<1>i. /\ committing.step = "none" /\ committing' = NoCommit
      /\ UNCHANGED <<committing, synced, target, client, held>>
      /\ requests' \subseteq requests
  BY DEF BeginUpload, Handled, NoCommit
<1>s. /\ Retained \in [Clients -> Upload0]
      /\ \A d \in Clients : Retained[d].state \in {"active", "none"}
      /\ \A d \in Clients : Retained[d].state = "active" => uploads[d].state = "active"
  BY RetainedFacts DEF IndInv
<1>a. \A d \in Clients : uploads[d].state = "active" => temporary[d] # 0 /\ temporary[d] # target
  BY <1>i DEF IndInv, Active
\* What remains to be shown, once the uploads and the answer are known.
<1>f. ASSUME NEW answer, Honest(c, answer), Reply(q, answer),
             uploads' \in [Clients -> Upload0],
             \A d \in Clients : uploads'[d].state = "completed" => d \in held
      PROVE  /\ responses' \subseteq Response0
             /\ Told'
  <2>1. /\ responses' \subseteq Response0
        /\ \A r \in responses' : r.answer.state = "completed" => r.client \in held
    BY <1>q, <1>f, ReplyFacts DEF IndInv
  <2> QED
    BY <2>1, <1>i, <1>f DEF IndInv, Told
<1>g. ASSUME UNCHANGED <<inodes, temporary>>, Told',
             responses' \subseteq Response0,
             uploads' \in [Clients -> Upload0],
             \A d \in Clients : uploads'[d].state = "active" =>
                                  temporary[d] # 0 /\ temporary[d] # target
      PROVE  IndInv'
  <2>1. TypeOK'
    BY <1>g, <1>i DEF IndInv, TypeOK, DiskOK, Inodes
  <2> QED
    BY <2>1, <1>g, <1>i DEF IndInv, Apart, Published, Linked, Active, Commit
<1>1. CASE uploads[c] # NoUpload /\ Reply(q, Status(uploads[c]))
             /\ UNCHANGED <<uploads, inodes, temporary>>
  <2>1. Honest(c, Status(uploads[c]))
    BY <1>q, StatusHonest DEF IndInv
  <2>2. uploads' \in [Clients -> Upload0]
    BY <1>1 DEF IndInv, TypeOK
  <2>3. \A d \in Clients : uploads'[d].state = "completed" => d \in held
    BY <1>1 DEF IndInv, Told
  <2>4. /\ responses' \subseteq Response0
        /\ Told'
    BY <1>1, <1>f, <2>1, <2>2, <2>3
  <2> QED
    BY <1>1, <1>a, <1>g, <2>2, <2>4
<1>2. CASE /\ AlreadyThere(c)
           /\ uploads' = [Retained EXCEPT ![c] = Upload("completed", Size)]
           /\ Reply(q, Status(uploads'[c]))
           /\ UNCHANGED <<inodes, temporary>>
  <2>1. c \in held
    <3>1. target # 0 /\ inodes[target] = Source(c)
      BY <1>2 DEF AlreadyThere
    <3>2. held \subseteq Clients
      BY DEF IndInv, TypeOK
    <3> QED
      BY <1>q, <3>1, <3>2, Contents DEF IndInv, Published
  <2>2. /\ uploads' \in [Clients -> Upload0]
        /\ uploads'[c] = Upload("completed", Size)
        /\ \A d \in Clients \ {c} : uploads'[d] = Retained[d]
    BY <1>2, <1>q, <1>s DEF Upload, Upload0, States, UploadAssumption
  <2>3. Honest(c, Status(uploads'[c]))
    BY <2>1, <2>2 DEF Upload, Status, Honest, Answer0, States, UploadAssumption
  <2>4. \A d \in Clients : uploads'[d].state = "completed" => d \in held
    BY <2>1, <2>2, <1>s
  <2>5. /\ responses' \subseteq Response0
        /\ Told'
    BY <1>2, <1>f, <2>2, <2>3, <2>4
  <2>6. \A d \in Clients : uploads'[d].state = "active" =>
                             temporary[d] # 0 /\ temporary[d] # target
    BY <2>2, <1>s, <1>a DEF Upload
  <2> QED
    BY <1>2, <1>g, <2>2, <2>5, <2>6
<1>3. CASE uploads' = Retained /\ Reply(q, Failure("conflict")) /\ UNCHANGED <<inodes, temporary>>
  <2>1. Honest(c, Failure("conflict"))
    BY <1>q, FailureHonest DEF Errors
  <2>2. \A d \in Clients : uploads'[d].state = "completed" => d \in held
    BY <1>3, <1>s
  <2>3. /\ responses' \subseteq Response0
        /\ Told'
    BY <1>3, <1>s, <1>f, <2>1, <2>2
  <2> QED
    BY <1>3, <1>s, <1>a, <1>g, <2>3
<1>4. CASE /\ ~AlreadyThere(c)
           /\ NewTemporary(c)
           /\ uploads' = [Retained EXCEPT ![c] =
                            Upload("active", CommittedOffset(inodes'[temporary'[c]]))]
           /\ Reply(q, Status(uploads'[c]))
  <2>1. /\ inodes' \in Seq(Seq(Pieces))
        /\ Len(inodes') >= Len(inodes)
        /\ \A i \in Inodes : inodes'[i] = inodes[i]
        /\ temporary' \in [Clients -> {0} \cup 1 .. Len(inodes')]
        /\ temporary'[c] \in 1 .. Len(inodes')
        /\ \A d \in Clients \ {c} : temporary'[d] = temporary[d]
        /\ temporary'[c] = temporary[c] \/ temporary'[c] \notin Inodes
    <3>1. /\ inodes \in Seq(Seq(Pieces)) /\ Len(inodes) \in Nat
          /\ temporary \in [Clients -> {0} \cup 1 .. Len(inodes)]
      BY DEF IndInv, TypeOK, DiskOK, Inodes
    <3>2. CASE temporary[c] # 0
      BY <1>4, <1>q, <3>1, <3>2 DEF NewTemporary, Inodes
    <3>3. CASE temporary[c] = 0
      <4>1. /\ inodes' = Append(inodes, <<>>)
            /\ temporary' = [temporary EXCEPT ![c] = Len(inodes) + 1]
        BY <1>4, <3>3 DEF NewTemporary
      <4>2. /\ Len(inodes') = Len(inodes) + 1 /\ inodes' \in Seq(Seq(Pieces))
            /\ \A i \in Inodes : inodes'[i] = inodes[i]
        BY <3>1, <4>1 DEF Inodes
      <4>3. /\ temporary'[c] = Len(inodes) + 1
            /\ \A d \in Clients \ {c} : temporary'[d] = temporary[d]
            /\ temporary' \in [Clients -> {0} \cup 1 .. Len(inodes) + 1]
        BY <3>1, <4>1, <1>q
      <4> QED
        BY <3>1, <4>2, <4>3 DEF Inodes
    <3> QED
      BY <3>2, <3>3
  <2>2. temporary'[c] # target /\ temporary'[c] # 0
    <3>1. temporary'[c] # 0
      BY <2>1
    <3>2. target \in {0} \cup Inodes
      BY DEF IndInv, TypeOK, DiskOK
    <3>3. CASE temporary'[c] \notin Inodes
      BY <3>1, <3>2, <3>3
    <3>4. CASE temporary'[c] = temporary[c]
      BY <1>4, <1>q, <3>1, <3>4 DEF IndInv, Linked, AlreadyThere
    <3> QED
      BY <2>1, <3>3, <3>4
  <2> DEFINE n == CommittedOffset(inodes'[temporary'[c]])
  <2>3. n \in Nat
    BY <2>1 DEF CommittedOffset
  <2>4. /\ uploads' \in [Clients -> Upload0]
        /\ uploads'[c] = Upload("active", n)
        /\ \A d \in Clients \ {c} : uploads'[d] = Retained[d]
    <3> HIDE DEF n
    <3> QED
      BY <1>4, <1>q, <1>s, <2>3 DEF Upload, Upload0, States, n
  <2> HIDE DEF n
  <2>5. Honest(c, Status(uploads'[c]))
    BY <2>3, <2>4 DEF Upload, Status, Honest, Answer0, States
  <2>6. \A d \in Clients : uploads'[d].state = "completed" => d \in held
    BY <2>4, <1>s DEF Upload
  <2>7. /\ responses' \subseteq Response0
        /\ Told'
    BY <1>4, <1>f, <2>4, <2>5, <2>6
  <2>8. TypeOK'
    <3>1. synced' \subseteq 1 .. Len(inodes') /\ target' \in {0} \cup 1 .. Len(inodes')
      BY <2>1, <1>i DEF IndInv, TypeOK, DiskOK, Inodes
    <3>2. DiskOK'
      BY <2>1, <3>1 DEF DiskOK, Inodes
    <3> QED
      BY <2>4, <2>7, <3>2, <1>i DEF IndInv, TypeOK
  <2>9. Apart'
    <3> SUFFICES ASSUME NEW d \in Clients, NEW e \in Clients, temporary'[d] # 0,
                        temporary'[d] = temporary'[e]
                 PROVE  d = e
      BY DEF Apart
    <3>1. \A x \in Clients : temporary[x] # 0 => temporary[x] \in Inodes
      BY DEF IndInv, TypeOK, DiskOK
    <3>2. CASE d # c /\ e # c
      BY <2>1, <3>2 DEF IndInv, Apart
    <3>3. ASSUME NEW x \in Clients, x # c, temporary'[x] = temporary'[c] PROVE FALSE
      <4>1. temporary[x] = temporary'[c] /\ temporary[x] # 0
        BY <2>1, <2>2, <3>3
      <4>2. temporary'[c] = temporary[c]
        BY <2>1, <3>1, <4>1
      <4> QED
        BY <1>q, <3>3, <4>1, <4>2 DEF IndInv, Apart
    <3> QED
      BY <3>2, <3>3
  <2>10. Published' /\ Linked'
    BY <2>1, <2>2, <1>i DEF IndInv, TypeOK, Published, Linked, DiskOK, Inodes
  <2>11. Active'
    <3> SUFFICES ASSUME NEW d \in Clients, uploads'[d].state = "active"
                 PROVE  temporary'[d] # 0 /\ temporary'[d] # target
      BY <1>i DEF Active
    <3>1. CASE d = c
      BY <2>2, <3>1
    <3>2. CASE d # c
      BY <2>1, <2>4, <1>s, <1>a, <3>2
    <3> QED
      BY <3>1, <3>2
  <2>12. Commit'
    BY <1>i DEF Commit
  <2> QED
    BY <2>7, <2>8, <2>9, <2>10, <2>11, <2>12 DEF IndInv
<1> QED
  BY <1>1, <1>2, <1>3, <1>4 DEF BeginUpload

\* An answer that changes nothing but the requests and the responses.
LEMMA AnswerStep ==
  ASSUME IndInv, NEW q, q.client \in Clients, q.connection \in Nat,
         NEW answer, Honest(q.client, answer), Reply(q, answer),
         requests' \subseteq requests,
         UNCHANGED <<disk, server, client, held>>
  PROVE  IndInv'
<1>1. /\ responses' \subseteq Response0
      /\ \A r \in responses' : r.answer.state = "completed" => r.client \in held
  BY ReplyFacts DEF IndInv
<1>2. TypeOK'
  BY <1>1 DEF IndInv, TypeOK, DiskOK, Inodes, disk, server
<1>3. Told'
  BY <1>1 DEF IndInv, Told, server
<1> QED
  BY <1>2, <1>3 DEF IndInv, Apart, Published, Linked, Active, Commit, disk, server

LEMMA WriteStep ==
  ASSUME UploadAssumption, IndInv, committing = NoCommit, NEW q \in requests, Handled(q),
         WriteChunk(q)
  PROVE  IndInv'
<1> DEFINE c == q.client
           t == temporary[c]
           content == inodes[t]
<1>q. c \in Clients /\ q.connection \in Nat
  BY DEF IndInv, TypeOK, Request0
<1>i. /\ committing.step = "none" /\ committing' = NoCommit
      /\ UNCHANGED <<committing, target, temporary, client, held>>
      /\ requests' \subseteq requests
  BY DEF WriteChunk, Handled, NoCommit
<1>s. Honest(c, Status(uploads[c]))
  BY <1>q, StatusHonest DEF IndInv
<1>1. ASSUME NEW answer, Honest(c, answer), Reply(q, answer),
             UNCHANGED <<inodes, synced, uploads>>
      PROVE  IndInv'
  <2>1. UNCHANGED <<disk, server, client, held>>
    BY <1>1, <1>i DEF disk, server
  <2> QED
    BY <1>1, <1>i, <1>q, <2>1, AnswerStep
<1>2. CASE /\ Reply(q, Failure(IF uploads[c] = NoUpload THEN "not_found" ELSE "conflict"))
           /\ UNCHANGED <<inodes, synced, uploads>>
  BY <1>1, <1>2, <1>q, FailureHonest DEF Errors
<1>3. CASE Reply(q, Status(uploads[c])) /\ UNCHANGED <<inodes, synced, uploads>>
  BY <1>1, <1>3, <1>s
<1>4. CASE /\ Reply(q, IF q.offset < Len(content) /\ content[q.offset + 1] = c
                        THEN Status(uploads[c]) ELSE Failure("conflict"))
           /\ UNCHANGED <<inodes, synced, uploads>>
  <2>1. Honest(c, Failure("conflict"))
    BY <1>q, FailureHonest DEF Errors
  <2>2. Reply(q, Status(uploads[c])) \/ Reply(q, Failure("conflict"))
    BY <1>4
  <2> QED
    BY <1>1, <1>4, <1>s, <2>1, <2>2
<1>5. CASE /\ uploads[c].state = "active"
           /\ inodes' = [inodes EXCEPT ![t] = Append(@, c)]
           /\ synced' = synced \ {t}
           /\ uploads' = [uploads EXCEPT ![c].offset = @ + 1]
           /\ Reply(q, Status(uploads'[c]))
  <2>1. /\ inodes \in Seq(Seq(Pieces)) /\ synced \subseteq Inodes
        /\ target \in {0} \cup Inodes /\ temporary \in [Clients -> {0} \cup Inodes]
        /\ uploads \in [Clients -> Upload0]
    BY DEF IndInv, TypeOK, DiskOK
  <2>2. t # 0 /\ t # target /\ t \in Inodes
    BY <1>5, <1>i, <1>q, <2>1 DEF IndInv, Active
  <2>3. /\ inodes' \in Seq(Seq(Pieces)) /\ Len(inodes') = Len(inodes)
        /\ \A i \in Inodes \ {t} : inodes'[i] = inodes[i]
    <3>1. Append(inodes[t], c) \in Seq(Pieces)
      BY <2>1, <2>2, <1>q DEF Inodes, Pieces
    <3> DEFINE longer == Append(inodes[t], c)
    <3> HIDE DEF longer
    <3>2. inodes' = [inodes EXCEPT ![t] = longer]
      BY <1>5 DEF longer
    <3> QED
      BY <2>1, <2>2, <3>1, <3>2 DEF Inodes, longer
  <2>4. /\ uploads' \in [Clients -> Upload0]
        /\ \A d \in Clients : uploads'[d].state = uploads[d].state
    BY <1>5, <1>q, <2>1 DEF Upload0
  <2>5. Honest(c, Status(uploads'[c]))
    BY <2>4, <1>q DEF Status, Honest, Answer0, Upload0, IndInv, Told
  <2>6. /\ responses' \subseteq Response0
        /\ \A r \in responses' : r.answer.state = "completed" => r.client \in held
    BY <1>5, <1>q, <2>5, ReplyFacts DEF IndInv
  <2>7. Inodes' = Inodes
    BY <2>3 DEF Inodes
  <2>8. TypeOK'
    BY <2>1, <2>3, <2>4, <2>6, <2>7, <1>i, <1>5 DEF IndInv, TypeOK, DiskOK
  <2>9. Apart' /\ Commit'
    BY <1>i DEF IndInv, Apart, Commit
  <2>10. Published' /\ Linked'
    BY <1>i, <1>5, <2>1, <2>2, <2>3 DEF IndInv, Published, Linked
  <2>11. Active' /\ Told'
    BY <1>i, <2>4, <2>6 DEF IndInv, Active, Told
  <2> QED
    BY <2>8, <2>9, <2>10, <2>11 DEF IndInv
<1> QED
  BY <1>2, <1>3, <1>4, <1>5 DEF WriteChunk

LEMMA CommitStep ==
  ASSUME UploadAssumption, IndInv, committing = NoCommit, NEW q \in requests, Handled(q),
         CommitUpload(q)
  PROVE  IndInv'
<1> DEFINE c == q.client
           u == uploads[c]
<1>q. c \in Clients /\ q.connection \in Nat
  BY DEF IndInv, TypeOK, Request0
<1>i. UNCHANGED <<disk, uploads, client, held, target>> /\ requests' \subseteq requests
  BY DEF CommitUpload, Handled
<1>1. ASSUME NEW answer, Honest(c, answer), Reply(q, answer), UNCHANGED committing
      PROVE  IndInv'
  BY <1>1, <1>i, <1>q, AnswerStep DEF server
<1>2. CASE Reply(q, Status(u)) /\ UNCHANGED committing
  BY <1>1, <1>2, <1>q, StatusHonest DEF IndInv
<1>3. CASE (\E code \in Errors : Reply(q, Failure(code))) /\ UNCHANGED committing
  BY <1>1, <1>3, <1>q, FailureHonest
<1>4. CASE /\ u.state = "active" /\ Verified(c)
           /\ committing' = [client |-> c, step |-> "sync", connection |-> q.connection]
           /\ UNCHANGED responses
  <2>1. committing' \in Commit0 /\ committing'.client = c /\ committing'.step = "sync"
    BY <1>4, <1>q DEF Commit0
  <2>2. temporary[c] # 0 /\ \A d \in Clients : uploads[d].state = "active" =>
                              temporary[d] # 0 /\ temporary[d] # target
    BY <1>4, <1>q DEF IndInv, Active, NoCommit
  <2>3. TypeOK'
    BY <1>4, <1>i, <2>1 DEF IndInv, TypeOK, DiskOK, Inodes, disk
  <2>4. Apart' /\ Published' /\ Linked' /\ Told'
    BY <1>4, <1>i DEF IndInv, Apart, Published, Linked, Told, disk
  <2>5. Active'
    BY <1>i, <2>2 DEF Active, disk
  <2>6. Commit'
    BY <1>4, <1>i, <2>1, <2>2 DEF Commit, Verified, disk
  <2> QED
    BY <2>3, <2>4, <2>5, <2>6 DEF IndInv
<1> QED
  <2>1. CASE u.state = "completed" /\ Reply(q, Status(u)) /\ UNCHANGED committing
    BY <1>2, <2>1
  <2>2. CASE ~(u.state = "completed" /\ Reply(q, Status(u)) /\ UNCHANGED committing)
    BY <1>3, <1>4, <2>2 DEF CommitUpload, Errors
  <2> QED
    BY <2>1, <2>2

\* The client of a commit that is under way.
LEMMA Committing ==
  ASSUME TypeOK, committing.step # "none"
  PROVE  /\ committing.client \in Clients /\ committing.connection \in Nat
         /\ committing \in [client : Clients, step : {"sync", "publish", "unlink"},
                            connection : Nat]
  BY DEF TypeOK, Commit0, NoCommit

LEMMA SyncStep ==
  ASSUME IndInv, SyncContent
  PROVE  IndInv'
<1> DEFINE c == committing.client
<1>1. c \in Clients /\ committing' \in Commit0 /\ committing'.client = c
        /\ committing'.step = "publish"
  BY Committing DEF IndInv, SyncContent, Commit0
<1>2. /\ UNCHANGED <<inodes, target, temporary, uploads, client, requests, responses, held>>
      /\ synced' = synced \cup {temporary[c]}
      /\ committing.step = "sync"
  BY DEF SyncContent, SyncTemporary, network
<1>3. uploads[c].state = "active" /\ temporary[c] # 0 /\ inodes[temporary[c]] = Source(c)
  BY <1>2 DEF IndInv, Commit
<1>4. temporary[c] \in Inodes
  BY <1>1, <1>3 DEF IndInv, TypeOK, DiskOK
<1>5. TypeOK'
  BY <1>1, <1>2, <1>4 DEF IndInv, TypeOK, DiskOK, Inodes
<1>6. Apart' /\ Published' /\ Linked' /\ Told'
  BY <1>2 DEF IndInv, Apart, Published, Linked, Told
<1>7. Active' /\ Commit'
  BY <1>1, <1>2, <1>3 DEF IndInv, Active, Commit
<1> QED
  BY <1>5, <1>6, <1>7 DEF IndInv

LEMMA PublishStep ==
  ASSUME UploadAssumption, IndInv, Publish
  PROVE  IndInv'
<1> DEFINE c == committing.client
           t == temporary[c]
<1>1. c \in Clients /\ committing.connection \in Nat /\ committing.step = "publish"
  BY Committing DEF IndInv, Publish
<1>2. /\ uploads[c].state = "active" /\ t # 0 /\ inodes[t] = Source(c) /\ t \in synced
  BY <1>1 DEF IndInv, Commit
<1>3. UNCHANGED <<inodes, synced, uploads, client, requests>>
  BY DEF Publish
<1>4. CASE MayPublish(c)
  <2>1. /\ target' = t
        /\ temporary' = [temporary EXCEPT ![c] = IF c \in Overwriters THEN 0 ELSE @]
        /\ committing' = [committing EXCEPT !.step = "unlink"]
        /\ held' = held \cup {c}
        /\ UNCHANGED responses
    BY <1>4 DEF Publish
  <2>2. committing' \in Commit0 /\ committing'.client = c /\ committing'.step = "unlink"
    BY <1>1, <2>1, Committing DEF IndInv, Commit0
  <2>3. /\ t \in Inodes
        /\ temporary \in [Clients -> {0} \cup Inodes]
    BY <1>1, <1>2 DEF IndInv, TypeOK, DiskOK
  <2>4. /\ temporary' \in [Clients -> {0} \cup Inodes]
        /\ \A d \in Clients \ {c} : temporary'[d] = temporary[d]
        /\ temporary'[c] \in {0, t}
    BY <1>1, <2>1, <2>3
  <2>5. TypeOK'
    BY <1>1, <1>3, <2>1, <2>2, <2>3, <2>4 DEF IndInv, TypeOK, DiskOK, Inodes
  <2>6. \A d \in Clients \ {c} : temporary[d] # t
    BY <1>1, <1>2 DEF IndInv, Apart
  <2>7. Apart'
    BY <1>1, <2>4 DEF IndInv, Apart
  <2>8. Published'
    BY <1>2, <1>3, <2>1 DEF Published
  <2>9. Linked'
    BY <1>1, <1>2, <1>3, <2>1, <2>4, <2>6 DEF Linked
  <2>10. Active'
    <3> SUFFICES ASSUME NEW d \in Clients, d # c, uploads[d].state = "active"
                 PROVE  temporary'[d] # 0 /\ temporary'[d] # t
      BY <1>3, <2>1, <2>2 DEF Active
    <3> QED
      BY <2>4, <2>6 DEF IndInv, Active
  <2>11. Commit' /\ Told'
    BY <1>3, <2>1, <2>2 DEF IndInv, Commit, Told
  <2> QED
    BY <2>5, <2>7, <2>8, <2>9, <2>10, <2>11 DEF IndInv
<1>5. CASE ~MayPublish(c)
  <2>1. /\ committing' = NoCommit
        /\ Reply(committing, Failure("conflict"))
        /\ UNCHANGED <<target, temporary, held>>
    BY <1>5 DEF Publish
  <2>2. Honest(c, Failure("conflict"))
    BY <1>1, FailureHonest DEF Errors
  <2>3. /\ responses' \subseteq Response0
        /\ \A r \in responses' : r.answer.state = "completed" => r.client \in held
    BY <1>1, <2>1, <2>2, ReplyFacts DEF IndInv
  <2>4. TypeOK'
    BY <1>3, <2>1, <2>3 DEF IndInv, TypeOK, DiskOK, Inodes, Commit0
  <2>5. Active'
    BY <1>1, <1>3, <2>1 DEF IndInv, Active
  <2>6. Apart' /\ Published' /\ Linked' /\ Commit' /\ Told'
    BY <1>3, <2>1, <2>3 DEF IndInv, Apart, Published, Linked, Commit, Told, NoCommit
  <2> QED
    BY <2>4, <2>5, <2>6 DEF IndInv
<1> QED
  BY <1>4, <1>5

LEMMA FinishStep ==
  ASSUME IndInv, Finish
  PROVE  IndInv'
<1> DEFINE c == committing.client
<1>1. /\ c \in Clients /\ committing.connection \in Nat /\ committing.step = "unlink"
      /\ c \in held
  BY Committing DEF IndInv, Finish, Commit
<1>2. /\ temporary' = [temporary EXCEPT ![c] = 0]
      /\ uploads' = [uploads EXCEPT ![c].state = "completed"]
      /\ committing' = NoCommit
      /\ Reply(committing, Status(uploads'[c]))
      /\ UNCHANGED <<inodes, synced, target, client, requests, held>>
  BY DEF Finish
<1>3. /\ uploads' \in [Clients -> Upload0] /\ uploads'[c].state = "completed"
      /\ \A d \in Clients \ {c} : uploads'[d] = uploads[d]
  BY <1>1, <1>2 DEF IndInv, TypeOK, Upload0, States
<1>4. /\ temporary' \in [Clients -> {0} \cup Inodes] /\ temporary'[c] = 0
      /\ \A d \in Clients \ {c} : temporary'[d] = temporary[d]
  BY <1>1, <1>2 DEF IndInv, TypeOK, DiskOK
<1>5. Honest(c, Status(uploads'[c]))
  BY <1>1, <1>3 DEF Status, Honest, Answer0, Upload0
<1>6. /\ responses' \subseteq Response0
      /\ \A r \in responses' : r.answer.state = "completed" => r.client \in held
  BY <1>1, <1>2, <1>5, ReplyFacts DEF IndInv
<1>7. TypeOK'
  BY <1>2, <1>3, <1>4, <1>6 DEF IndInv, TypeOK, DiskOK, Inodes, Commit0
<1>8. Apart' /\ Linked'
  BY <1>1, <1>2, <1>4 DEF IndInv, Apart, Linked
<1>9. Active'
  BY <1>1, <1>2, <1>3, <1>4 DEF IndInv, Active
<1>10. Published' /\ Commit' /\ Told'
  BY <1>1, <1>2, <1>3, <1>6 DEF IndInv, Published, Commit, Told, NoCommit
<1> QED
  BY <1>7, <1>8, <1>9, <1>10 DEF IndInv

---------------------------------------------------------------------------
(* Crashes, other programs and clients.                                    *)

\* A server that dies forgets its uploads; the disk keeps what matters: the
\* synced content, and which inode is where.
LEMMA DieStep ==
  ASSUME IndInv, Die,
         inodes' \in Seq(Seq(Pieces)), Len(inodes') = Len(inodes),
         \A i \in synced : inodes'[i] = inodes[i],
         synced \subseteq synced', synced' \subseteq Inodes
  PROVE  IndInv'
<1>1. /\ uploads' = [c \in Clients |-> NoUpload] /\ committing' = NoCommit
      /\ requests' = {} /\ responses' = {}
      /\ client' = [c \in Clients |-> [client[c] EXCEPT !.broken = TRUE]]
      /\ UNCHANGED <<target, temporary, held>>
  BY DEF Die
<1>2. uploads' \in [Clients -> Upload0] /\ \A c \in Clients : uploads'[c].state = "none"
  BY <1>1 DEF NoUpload, Upload0, States
<1>3. client' \in [Clients -> Client0] /\ \A c \in Clients : client'[c].pc = client[c].pc
  <2>1. client \in [Clients -> Client0]
    BY DEF IndInv, TypeOK
  <2>2. ASSUME NEW c \in Clients
        PROVE  client'[c] \in Client0 /\ client'[c].pc = client[c].pc
    BY <1>1, <2>1 DEF Client0
  <2> QED
    BY <1>1, <2>2
<1>4. Inodes' = Inodes
  BY DEF Inodes
<1>5. TypeOK'
  BY <1>1, <1>2, <1>3, <1>4 DEF IndInv, TypeOK, DiskOK, Commit0
<1>6. Published' /\ Linked'
  BY <1>1 DEF IndInv, Published, Linked
<1>7. Apart' /\ Active' /\ Commit'
  BY <1>1, <1>2 DEF IndInv, Apart, Active, Commit, NoCommit
<1>8. Told'
  BY <1>1, <1>2, <1>3 DEF IndInv, Told
<1> QED
  BY <1>5, <1>6, <1>7, <1>8 DEF IndInv

LEMMA KillStep ==
  ASSUME IndInv, Kill
  PROVE  IndInv'
<1>1. Die /\ UNCHANGED <<inodes, synced>>
  BY DEF Kill
<1>2. inodes' \in Seq(Seq(Pieces)) /\ synced' \subseteq Inodes
  BY <1>1 DEF IndInv, TypeOK, DiskOK
<1> QED
  BY <1>1, <1>2, DieStep

LEMMA PowerLossStep ==
  ASSUME IndInv, PowerLoss
  PROVE  IndInv'
<1>1. inodes \in Seq(Seq(Pieces)) /\ Len(inodes) \in Nat /\ synced \subseteq 1 .. Len(inodes)
  BY DEF IndInv, TypeOK, DiskOK, Inodes
<1>2. PICK after \in [1 .. Len(inodes) -> UNION {Damaged(inodes[i]) : i \in 1 .. Len(inodes)}] :
        /\ \A i \in 1 .. Len(inodes) :
             after[i] \in IF i \in synced THEN {inodes[i]} ELSE Damaged(inodes[i])
        /\ inodes' = after
  BY DEF PowerLoss
<1>3. \A i \in 1 .. Len(inodes) : after[i] \in Seq(Pieces)
  <2> SUFFICES ASSUME NEW i \in 1 .. Len(inodes) PROVE after[i] \in Seq(Pieces)
    OBVIOUS
  <2>1. inodes[i] \in Seq(Pieces)
    BY <1>1
  <2>2. after[i] = inodes[i] \/ after[i] \in Damaged(inodes[i])
    BY <1>2
  <2> QED
    BY <2>1, <2>2, DamagedContent
<1>4. inodes' \in Seq(Seq(Pieces)) /\ Len(inodes') = Len(inodes)
  <2>1. DOMAIN after = 1 .. Len(inodes)
    BY <1>2
  <2>2. after = [i \in 1 .. Len(inodes) |-> after[i]]
    BY <1>2
  <2> QED
    BY <1>1, <1>2, <1>3, <2>1, <2>2
<1>5. \A i \in synced : inodes'[i] = inodes[i]
  BY <1>1, <1>2
<1>6. Die /\ synced' = 1 .. Len(inodes)
  BY DEF PowerLoss
<1> QED
  BY <1>1, <1>4, <1>5, <1>6, DieStep DEF Inodes

LEMMA MeddleStep ==
  ASSUME UploadAssumption, IndInv, Meddle
  PROVE  IndInv'
<1>1. UNCHANGED <<temporary, uploads, committing, client, requests, responses, held>>
  BY DEF Meddle, server, network
<1>2. inodes \in Seq(Seq(Pieces)) /\ Len(inodes) \in Nat /\ synced \subseteq Inodes
  BY DEF IndInv, TypeOK, DiskOK
<1>3. CASE target' = 0 /\ UNCHANGED <<inodes, synced>>
  <2>1. TypeOK'
    BY <1>1, <1>3 DEF IndInv, TypeOK, DiskOK, Inodes
  <2>2. Active'
    BY <1>1, <1>3 DEF IndInv, Active
  <2> QED
    BY <1>1, <1>3, <2>1, <2>2 DEF IndInv, Apart, Published, Linked, Commit, Told
<1>4. CASE /\ inodes' = Append(inodes, Foreign)
           /\ synced' = synced \cup {Len(inodes) + 1}
           /\ target' = Len(inodes) + 1
  <2>1. Foreign \in Seq(Pieces)
    BY Contents
  <2>2. /\ inodes' \in Seq(Seq(Pieces)) /\ Len(inodes') = Len(inodes) + 1
        /\ inodes'[target'] = Foreign
        /\ \A i \in Inodes : inodes'[i] = inodes[i]
    BY <1>2, <1>4, <2>1 DEF Inodes
  <2>3. Inodes \subseteq Inodes' /\ target' \in Inodes' /\ target' \notin Inodes /\ target' # 0
    BY <1>2, <1>4, <2>2 DEF Inodes
  <2>4. \A c \in Clients : temporary[c] \in {0} \cup Inodes
    BY DEF IndInv, TypeOK, DiskOK
  <2>5. temporary' \in [Clients -> {0} \cup Inodes'] /\ synced' \subseteq Inodes'
    BY <1>1, <1>2, <1>4, <2>3 DEF IndInv, TypeOK, DiskOK
  <2>6. TypeOK'
    BY <1>1, <2>2, <2>3, <2>5 DEF IndInv, TypeOK, DiskOK
  <2>7. Apart' /\ Told'
    BY <1>1 DEF IndInv, Apart, Told
  <2>8. Published'
    BY <1>4, <2>2 DEF Published
  <2>9. Linked'
    BY <1>1, <2>3, <2>4 DEF Linked
  <2>10. Active'
    BY <1>1, <2>3, <2>4 DEF IndInv, Active
  <2>11. Commit'
    <3>1. committing.step \in {"sync", "publish"} => committing.client \in Clients
      BY Committing DEF IndInv
    <3>2. committing.step \in {"sync", "publish"} =>
            /\ temporary[committing.client] \in Inodes
            /\ inodes'[temporary[committing.client]] = inodes[temporary[committing.client]]
      BY <2>2, <2>4, <3>1 DEF IndInv, Commit
    <3> QED
      BY <1>1, <1>4, <3>2 DEF IndInv, Commit
  <2> QED
    BY <2>6, <2>7, <2>8, <2>9, <2>10, <2>11 DEF IndInv
<1> QED
  BY <1>3, <1>4 DEF Meddle

LEMMA AbortStep ==
  ASSUME IndInv, AbortUpload
  PROVE  IndInv'
<1>1. PICK c \in Clients :
        /\ committing = NoCommit /\ uploads[c].state = "active"
        /\ temporary' = [temporary EXCEPT ![c] = 0]
        /\ uploads' = [uploads EXCEPT ![c].state = "aborted"]
        /\ UNCHANGED <<inodes, synced, target, committing, client, requests, responses, held>>
  BY DEF AbortUpload, network
<1>2. /\ uploads' \in [Clients -> Upload0] /\ uploads'[c].state = "aborted"
      /\ \A d \in Clients \ {c} : uploads'[d] = uploads[d]
  BY <1>1 DEF IndInv, TypeOK, Upload0, States
<1>3. /\ temporary' \in [Clients -> {0} \cup Inodes] /\ temporary'[c] = 0
      /\ \A d \in Clients \ {c} : temporary'[d] = temporary[d]
  BY <1>1 DEF IndInv, TypeOK, DiskOK
<1>4. TypeOK'
  BY <1>1, <1>2, <1>3 DEF IndInv, TypeOK, DiskOK, Inodes
<1>5. Apart' /\ Linked'
  BY <1>1, <1>3 DEF IndInv, Apart, Linked
<1>6. Active'
  BY <1>1, <1>2, <1>3 DEF IndInv, Active
<1>7. Published' /\ Commit' /\ Told'
  BY <1>1, <1>2 DEF IndInv, Published, Commit, Told, NoCommit
<1> QED
  BY <1>4, <1>5, <1>6, <1>7 DEF IndInv

\* A step of client c: it may only be done when its file has been published.
LEMMA ClientStep ==
  ASSUME IndInv, NEW c \in Clients, NEW me \in Client0, client' = [client EXCEPT ![c] = me],
         me.pc = "done" => c \in held,
         requests' \subseteq Request0, responses' \subseteq responses,
         UNCHANGED <<disk, server, held>>
  PROVE  IndInv'
<1>1. client' \in [Clients -> Client0] /\ client'[c] = me
        /\ \A d \in Clients \ {c} : client'[d] = client[d]
  BY DEF IndInv, TypeOK
<1>2. TypeOK'
  BY <1>1 DEF IndInv, TypeOK, DiskOK, Inodes, disk, server
<1>3. Told'
  BY <1>1 DEF IndInv, Told, server
<1> QED
  BY <1>2, <1>3 DEF IndInv, Apart, Published, Linked, Active, Commit, disk, server

LEMMA SendStep ==
  ASSUME IndInv, NEW c \in Clients, Send(c)
  PROVE  IndInv'
<1> DEFINE me == [client[c] EXCEPT !.waiting = TRUE]
           new == [client |-> c, op |-> Op(client[c].pc), offset |-> client[c].offset,
                   connection |-> client[c].connection]
<1>1. client \in [Clients -> Client0] /\ client[c] \in Client0
  BY DEF IndInv, TypeOK
<1>2. me \in Client0 /\ me.pc = client[c].pc /\ client' = [client EXCEPT ![c] = me]
  BY <1>1 DEF Send, Client0
<1>3. new \in Request0
  BY <1>1 DEF Send, Client0, Request0, Op
<1>4. requests' \in {requests, requests \cup {new}}
  BY DEF Send
<1>5. responses' \subseteq responses /\ UNCHANGED <<disk, server, held>>
  BY DEF Send
<1> HIDE DEF me, new
<1>6. requests' \subseteq Request0
  BY <1>3, <1>4 DEF IndInv, TypeOK
<1>7. me.pc = "done" => c \in held
  BY <1>2 DEF IndInv, Told
<1> QED
  BY <1>2, <1>5, <1>6, <1>7, ClientStep

LEMMA ReconnectStep ==
  ASSUME IndInv, NEW c \in Clients, Reconnect(c)
  PROVE  IndInv'
<1> DEFINE me == [client[c] EXCEPT !.waiting = FALSE, !.connection = @ + 1, !.broken = FALSE,
                                   !.pc = Resumption(@)]
<1>1. client[c] \in Client0
  BY DEF IndInv, TypeOK
<1>2. /\ me \in Client0 /\ me.pc = Resumption(client[c].pc)
      /\ client' = [client EXCEPT ![c] = me]
  <2>1. Resumption(client[c].pc)
          \in {"begin", "resume", "recommit", "write", "commit", "done", "failed"}
    BY <1>1 DEF Client0, Resumption
  <2>2. client[c].connection + 1 \in Nat
    BY <1>1 DEF Client0
  <2>3. me \in Client0 /\ me.pc = Resumption(client[c].pc)
    <3> DEFINE now == Resumption(client[c].pc)
               next == client[c].connection + 1
    <3> HIDE DEF now, next
    <3>1. me = [client[c] EXCEPT !.waiting = FALSE, !.connection = next, !.broken = FALSE,
                                 !.pc = now]
      BY DEF now, next
    <3>2. /\ next \in Nat
          /\ now \in {"begin", "resume", "recommit", "write", "commit", "done", "failed"}
      BY <2>1, <2>2 DEF now, next
    <3> HIDE DEF me
    <3>3. me \in Client0 /\ me.pc = now
      BY <1>1, <3>1, <3>2 DEF Client0
    <3> QED
      BY <3>3 DEF now
  <2>4. client' = [client EXCEPT ![c] = me]
    BY DEF Reconnect
  <2> QED
    BY <2>3, <2>4
<1>3. responses' \subseteq responses /\ requests' = requests /\ UNCHANGED <<disk, server, held>>
  BY DEF Reconnect, network
<1> HIDE DEF me
<1>4. me.pc = "done" => c \in held
  BY <1>2 DEF IndInv, Told, Resumption
<1>5. requests' \subseteq Request0
  BY <1>3 DEF IndInv, TypeOK
<1> QED
  BY <1>2, <1>3, <1>4, <1>5, ClientStep

LEMMA ReceiveStep ==
  ASSUME IndInv, NEW c \in Clients, Receive(c)
  PROVE  IndInv'
<1>1. PICK r \in responses :
        /\ r.client = c
        /\ responses' = responses \ {r}
        /\ \/ /\ r.answer.kind = "status"
              /\ client' = [client EXCEPT ![c] =
                              [client[c] EXCEPT !.waiting = FALSE, !.offset = r.answer.offset,
                                                !.pc = Following(client[c].pc, r.answer)]]
           \/ /\ r.answer.kind # "status"
              /\ client' = [client EXCEPT ![c] =
                              [client[c] EXCEPT !.waiting = FALSE, !.pc = "failed",
                                                !.error = r.answer.kind]]
        /\ UNCHANGED <<disk, server, requests, held>>
  BY DEF Receive
<1>2. client[c] \in Client0 /\ r.answer \in Answer0 /\ requests' \subseteq Request0
  BY <1>1 DEF IndInv, TypeOK, Response0
<1>3. r.answer.state = "completed" => c \in held
  BY <1>1 DEF IndInv, Told
<1>4. CASE r.answer.kind = "status"
  <2> DEFINE me == [client[c] EXCEPT !.waiting = FALSE, !.offset = r.answer.offset,
                                     !.pc = Following(client[c].pc, r.answer)]
  <2>1. /\ me \in Client0 /\ me.pc = Following(client[c].pc, r.answer)
        /\ client' = [client EXCEPT ![c] = me]
    <3> DEFINE now == Following(client[c].pc, r.answer)
    <3>1. now \in {"done", "failed", "write", "commit"} /\ r.answer.offset \in Nat
      BY <1>2 DEF Answer0, Following
    <3> HIDE DEF now
    <3>2. me \in Client0 /\ me.pc = now
      <4>1. me = [client[c] EXCEPT !.waiting = FALSE, !.offset = r.answer.offset, !.pc = now]
        BY DEF now
      <4> HIDE DEF me
      <4> QED
        BY <1>2, <3>1, <4>1 DEF Client0
    <3>3. client' = [client EXCEPT ![c] = me]
      BY <1>1, <1>4
    <3> QED
      BY <3>2, <3>3 DEF now
  <2> HIDE DEF me
  <2>2. me.pc = "done" => c \in held
    BY <1>3, <2>1 DEF Following
  <2>3. responses' \subseteq responses
    BY <1>1
  <2> QED
    BY <1>1, <1>2, <2>1, <2>2, <2>3, ClientStep
<1>5. CASE r.answer.kind # "status"
  <2> DEFINE me == [client[c] EXCEPT !.waiting = FALSE, !.pc = "failed",
                                     !.error = r.answer.kind]
  <2>1. /\ me \in Client0 /\ me.pc = "failed" /\ client' = [client EXCEPT ![c] = me]
    BY <1>1, <1>2, <1>5 DEF Client0, Answer0
  <2> HIDE DEF me
  <2>2. responses' \subseteq responses
    BY <1>1
  <2> QED
    BY <1>1, <1>2, <2>1, <2>2, ClientStep
<1> QED
  BY <1>4, <1>5

---------------------------------------------------------------------------
(* The theorems.                                                           *)

LEMMA Inductive ==
  ASSUME UploadAssumption, IndInv, [Next]_vars
  PROVE  IndInv'
<1>1. CASE Handle
  <2>1. PICK q \in requests :
          /\ committing = NoCommit
          /\ requests' = requests \ {q}
          /\ BeginUpload(q) \/ WriteChunk(q) \/ CommitUpload(q)
          /\ UNCHANGED <<client, faults, held>>
    BY <1>1 DEF Handle
  <2>2. Handled(q)
    BY <2>1 DEF Handled, BeginUpload, WriteChunk, CommitUpload, disk
  <2> QED
    BY <2>1, <2>2, BeginStep, WriteStep, CommitStep
<1>2. CASE SyncContent
  BY <1>2, SyncStep
<1>3. CASE Publish
  BY <1>3, PublishStep
<1>4. CASE Finish
  BY <1>4, FinishStep
<1>5. CASE Kill
  BY <1>5, KillStep
<1>6. CASE PowerLoss
  BY <1>6, PowerLossStep
<1>7. CASE Meddle
  BY <1>7, MeddleStep
<1>8. CASE AbortUpload
  BY <1>8, AbortStep
<1>9. ASSUME NEW c \in Clients, Send(c) \/ Reconnect(c) \/ Receive(c)
      PROVE  IndInv'
  BY <1>9, SendStep, ReconnectStep, ReceiveStep
<1>10. CASE UNCHANGED vars
  <2>1. UNCHANGED <<disk, server, client, requests, responses, held>>
    BY <1>10 DEF vars, network
  <2>2. TypeOK'
    BY <2>1 DEF IndInv, TypeOK, DiskOK, Inodes, disk, server
  <2> QED
    BY <2>1, <2>2 DEF IndInv, Apart, Published, Linked, Active, Commit, Told, disk, server
<1> QED
  BY <1>1, <1>2, <1>3, <1>4, <1>5, <1>6, <1>7, <1>8, <1>9, <1>10 DEF Next

LEMMA Invariance ==
  ASSUME UploadAssumption
  PROVE  Spec => []IndInv
<1>1. Init => IndInv
  BY InitIndInv
<1>2. IndInv /\ [Next]_vars => IndInv'
  BY Inductive
<1> QED
  BY <1>1, <1>2, PTL DEF Spec

(* Uploads are published atomically (commit_upload): whatever is killed,   *)
(* loses power or is retried, what is found at the destination is one      *)
(* client's whole file or another program's.                               *)
THEOREM PublishedWholeHolds ==
  ASSUME UploadAssumption
  PROVE  Spec => []PublishedWhole
<1>1. IndInv => PublishedWhole
  BY DEF IndInv, TypeOK, Published, PublishedWhole
<1> QED
  BY <1>1, Invariance, PTL

(* A client that reports success has had its file at the destination: no   *)
(* retry, replayed request or other program makes a completed status of    *)
(* something else.                                                         *)
THEOREM SuccessIsTrueHolds ==
  ASSUME UploadAssumption
  PROVE  Spec => []SuccessIsTrue
<1>1. IndInv => SuccessIsTrue
  BY DEF IndInv, Told, SuccessIsTrue
<1> QED
  BY <1>1, Invariance, PTL

(* Without --overwrite a commit replaces nothing, not even a file that     *)
(* appeared after the service had looked: the destination moves to another *)
(* inode only by hard_link onto a free name, for an overwriter, or by      *)
(* another program, with an inode of its own.                              *)
THEOREM NoClobberHolds ==
  ASSUME UploadAssumption
  PROVE  Spec => NoClobber
<1> DEFINE Safe == target # 0 /\ target' \notin {0, target} /\ inodes' = inodes =>
                     committing.client \in Overwriters
<1>1. ASSUME IndInv, [Next]_vars PROVE Safe
  <2> SUFFICES ASSUME target # 0, target' # 0, target' # target, inodes' = inodes
               PROVE  committing.client \in Overwriters
    OBVIOUS
  <2>1. CASE Publish
    BY <2>1 DEF Publish, MayPublish
  <2>2. CASE Meddle
    <3>1. inodes' = Append(inodes, Foreign)
      BY <2>2 DEF Meddle
    <3>2. inodes \in Seq(Seq(Pieces)) /\ Foreign \in Seq(Pieces)
      BY <1>1, Contents DEF IndInv, TypeOK, DiskOK
    <3>3. Len(inodes') = Len(inodes) + 1 /\ Len(inodes) \in Nat
      BY <3>1, <3>2
    <3> QED
      BY <3>3
  <2>3. CASE Handle
    BY <2>3 DEF Handle, BeginUpload, WriteChunk, CommitUpload, disk
  <2>4. CASE SyncContent \/ Finish \/ Kill \/ PowerLoss \/ AbortUpload
    BY <2>4 DEF SyncContent, Finish, Kill, PowerLoss, Die, AbortUpload
  <2>5. ASSUME NEW c \in Clients, Send(c) \/ Reconnect(c) \/ Receive(c) PROVE FALSE
    BY <2>5 DEF Send, Reconnect, Receive, disk
  <2>6. CASE UNCHANGED vars
    BY <2>6 DEF vars, disk
  <2> QED
    BY <1>1, <2>1, <2>2, <2>3, <2>4, <2>5, <2>6 DEF Next
<1>2. IndInv /\ [Next]_vars => [Safe]_vars
  BY <1>1
<1> QED
  BY <1>2, Invariance, PTL DEF Spec, NoClobber

============================================================================
