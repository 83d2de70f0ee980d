---------------------------- MODULE RecordsProofs ----------------------------
(***************************************************************************)
(* The records that are kept of people and of work, proved for any rows,   *)
(* any number of handlers and any dates and amounts: what MCDelivery and   *)
(* MCPeople claim.  Each part has its invariant (Rows: what its tables     *)
(* hold; Held: what a handler has seen and will write, and, alone, that it *)
(* is still so), the moves of its handlers, and what a step of another     *)
(* part leaves alone (Quiet).                                              *)
(***************************************************************************)
EXTENDS MCPeople, MCDelivery, FiniteSetTheorems, Sums, TLAPS


-----------------------------------------------------------------------------
\* What all handlers have in common: alone, one is at work at a time.
InTurn ==
    /\ alone \in BOOLEAN
    /\ sess = [s \in Sessions |-> sess[s]]
    /\ alone => \A s, t \in Sessions : sess[s] # Idle /\ sess[t] # Idle => s = t

\* A step of handler s: it begins, goes on or ends.
Turns(s, w) ==
    /\ alone' = alone
    /\ sess' = [sess EXCEPT ![s] = w]
    /\ \/ sess[s] # Idle
       \/ alone => \A t \in Sessions : sess[t] = Idle

LEMMA TurnKeeps ==
    ASSUME InTurn, NEW s \in Sessions, NEW w, Turns(s, w)
    PROVE  /\ InTurn'
           /\ sess'[s] = w
           /\ \A t \in Sessions \ {s} : sess'[t] = sess[t] /\ (alone => sess[t] = Idle)
<1>1. sess'[s] = w /\ \A t \in Sessions \ {s} : sess'[t] = sess[t]
  BY DEF InTurn, Turns
<1>2. \A t \in Sessions \ {s} : alone => sess[t] = Idle
  BY DEF InTurn, Turns
<1>3. sess' = [t \in Sessions |-> sess'[t]]
  BY DEF InTurn, Turns
<1> QED
  BY <1>1, <1>2, <1>3 DEF InTurn, Turns

-----------------------------------------------------------------------------
\* Documents.  What a handler holds, and what is true of the versions.
DocumentAdds(w) ==
    \E n \in D!Row : /\ w = [op |-> "add", table |-> "documents", new |-> n]
                     /\ alone => n = D!NewRow(n.name, n.asked, n.file)
DocumentEdits(w) ==
    \E d \in DOMAIN documents, q \in D!Row :
        w = [op |-> "edit", table |-> "documents", key |-> d, seen |-> q, new |-> [q EXCEPT !.live = FALSE]]
DocumentUploads(w) ==
    \E name \in Names, asked \in AskedVersions : w = [op |-> "stored", name |-> name, asked |-> asked]
DocumentWork(w) ==
    \/ w = Idle \/ DocumentUploads(w)
    \/ DocumentAdds(w) \/ DocumentEdits(w)
    \/ \E object : w = [op |-> "cleanup", object |-> object]
DocumentRows ==
    /\ documents \in Seq(D!Row) /\ Len(documents) <= MaxDocuments
    /\ D!VersionsUnique
DocumentInv ==
    /\ DocumentRows
    /\ branch = "documents" => \A s \in Sessions : DocumentWork(sess[s])

DocumentDone == InTurn' /\ DocumentInv' /\ alone' = alone

LEMMA DocumentStarts ==
    ASSUME D!Init PROVE DocumentInv
<1>1. DocumentRows
  BY DeliveryAssumption DEF D!Init, DocumentRows, D!VersionsUnique
<1>2. \A s \in Sessions : DocumentWork(sess[s])
  BY DEF D!Init, D!AllIdle, D!Idle, DocumentWork, Idle
<1> QED
  BY <1>1, <1>2 DEF DocumentInv

LEMMA DocumentTyped ==
    ASSUME DocumentRows PROVE D!TypeOK
  BY DeliveryAssumption DEF DocumentRows, D!TypeOK

LEMMA DocumentOps ==
    ASSUME NEW v, DocumentWork(v)
    PROVE  /\ v.op = "stored" => DocumentUploads(v)
           /\ v.op = "add" => DocumentAdds(v)
           /\ v.op = "edit" => DocumentEdits(v)
<1>1. CASE v = Idle
  BY <1>1 DEF Idle
<1>2. CASE DocumentUploads(v)
  BY <1>2 DEF DocumentUploads
<1>3. CASE DocumentAdds(v)
  BY <1>3 DEF DocumentAdds
<1>4. CASE DocumentEdits(v)
  <2>1. PICK d, q : v = [op |-> "edit", table |-> "documents", key |-> d, seen |-> q, new |-> [q EXCEPT !.live = FALSE]]
    BY <1>4 DEF DocumentEdits
  <2> QED
    BY <1>4, <2>1
<1>5. CASE \E object : v = [op |-> "cleanup", object |-> object]
  BY <1>5
<1> QED
  BY <1>1, <1>2, <1>3, <1>4, <1>5 DEF DocumentWork

LEMMA DocumentTypes ==
    ASSUME DocumentRows, NEW d \in DOMAIN documents
    PROVE  /\ d \in 1 .. Len(documents) /\ documents[d] \in D!Row
           /\ documents[d].name \in Names /\ documents[d].asked \in AskedVersions /\ documents[d].version \in Nat
<1>1. d \in 1 .. Len(documents) /\ documents[d] \in D!Row
  BY DEF DocumentRows
<1> QED
  BY <1>1 DEF D!Row

LEMMA NextVersion ==
    ASSUME DocumentRows, NEW name \in Names, NEW asked \in AskedVersions, NEW file \in D!Objects
    PROVE  /\ D!NewRow(name, asked, file) \in D!Row
           /\ D!NewRow(name, asked, file).name = name /\ D!NewRow(name, asked, file).asked = asked
           /\ D!NewRow(name, asked, file).file = file
           /\ (asked = 10 /\ D!Versions(name) # {}) =>
                \E d \in D!Versions(name) : /\ \A e \in D!Versions(name) : e <= d
                                           /\ D!NewRow(name, asked, file).version = documents[d].version + 1
<1> DEFINE rows == D!Versions(name)
           v == D!NextVersion(name, asked)
<1>1. rows \in SUBSET (1 .. Len(documents)) /\ \A d \in rows : documents[d].version \in Nat
  BY DocumentTypes DEF D!Versions
<1>2. IsFiniteSet(rows)
  <2>1. Len(documents) \in Nat
    BY DEF DocumentRows
  <2>2. IsFiniteSet(1 .. Len(documents))
    BY <2>1, FS_Interval
  <2> HIDE DEF rows
  <2> QED
    BY <1>1, <2>2, FS_Subset
<1>3. ASSUME asked = 10, rows # {}
      PROVE  \E d \in rows : (\A e \in rows : e <= d) /\ v = documents[d].version + 1
  <2> DEFINE f == [d \in rows |-> d]
  <2>1. PICK d \in rows : \A e \in rows : f[e] <= f[d]
    <3>1. \A x \in rows : f[x] \in Int
      BY <1>1
    <3> HIDE DEF rows, f
    <3> QED
      BY <1>2, <1>3, <3>1, Highest
  <2>2. \A e \in rows : e <= d
    BY <2>1
  <2>3. \A x \in rows : (\A e \in rows : e <= x) => x = d
    BY <1>1, <2>2
  <2>4. (CHOOSE x \in rows : \A e \in rows : e <= x) = d
    <3> HIDE DEF rows
    <3> QED
      BY <2>2, <2>3
  <2>5. v = documents[d].version + 1
    BY <1>3, <2>4 DEF D!NextVersion, D!Default, D!Bump
  <2> QED
    BY <2>2, <2>5
<1>4. v \in Nat
  <2>1. CASE asked = 10 /\ rows # {}
    BY <1>1, <1>3, <2>1
  <2>2. CASE ~(asked = 10 /\ rows # {})
    BY <2>2, DeliveryAssumption DEF D!NextVersion, D!Default
  <2> QED
    BY <2>1, <2>2
<1> HIDE DEF v
<1>5. D!NewRow(name, asked, file) = [name |-> name, version |-> v, asked |-> asked, file |-> file, live |-> TRUE]
  BY DEF D!NewRow, v
<1> QED
  BY <1>3, <1>4, <1>5 DEF D!Row

\* Nothing is stored: handler s goes on with w.
LEMMA DocumentGoes ==
    ASSUME InTurn, DocumentInv, branch = "documents", branch' = branch, documents' = documents,
           NEW s \in Sessions, NEW w, Turns(s, w), DocumentWork(w)
    PROVE  DocumentDone
<1>1. DocumentRows'
  BY DEF DocumentInv, DocumentRows, D!VersionsUnique, D!Versions, Turns
<1>2. ASSUME NEW t \in Sessions PROVE DocumentWork(sess[t])'
  <2>1. PICK v : v = sess'[t]
    OBVIOUS
  <2>2. DocumentWork(v)
    BY <2>1, TurnKeeps DEF DocumentInv
  <2>3. DocumentWork(v)'
    BY <2>2 DEF DocumentWork, DocumentUploads, DocumentAdds, DocumentEdits, D!NewRow, D!NextVersion, D!Versions, Turns
  <2> QED
    BY <2>1, <2>3
<1> QED
  BY <1>1, <1>2, TurnKeeps DEF DocumentInv, DocumentDone, Turns

\* Rows are stored: handler s goes on with w, that does not depend on them.
LEMMA DocumentWrites ==
    ASSUME InTurn, DocumentInv, branch = "documents", branch' = branch, DocumentRows',
           DOMAIN documents \subseteq DOMAIN documents', NEW s \in Sessions, NEW w, Turns(s, w), DocumentWork(w)'
    PROVE  DocumentDone
<1>1. ASSUME NEW t \in Sessions PROVE DocumentWork(sess[t])'
  <2>1. PICK v : v = sess'[t]
    OBVIOUS
  <2>2. \/ DocumentWork(v)'
        \/ DocumentWork(v) /\ (~alone \/ v = Idle)
    BY <2>1, TurnKeeps DEF DocumentInv
  <2>3. DocumentWork(v)'
    BY <2>2 DEF DocumentWork, DocumentUploads, DocumentAdds, DocumentEdits, Turns
  <2> QED
    BY <2>1, <2>3
<1> QED
  BY <1>1, TurnKeeps DEF DocumentInv, DocumentDone, Turns

LEMMA DocumentOrder ==
    ASSUME alone' = alone,
           alone => \A d, e \in DOMAIN documents' :
               (/\ d < e /\ documents'[d].name = documents'[e].name
                /\ \A k \in DOMAIN documents' : documents'[k].name = documents'[d].name => documents'[k].asked = 10)
               => documents'[d].version < documents'[e].version
    PROVE  D!VersionsUnique'
  BY DEF D!VersionsUnique, D!Default, D!Versions

LEMMA DocumentInsert ==
    ASSUME DocumentRows, alone' = alone, NEW n \in D!Row, alone => n = D!NewRow(n.name, n.asked, n.file),
           Len(documents) < MaxDocuments, documents' = Append(documents, n)
    PROVE  DocumentRows'
<1>1. documents' \in Seq(D!Row) /\ Len(documents') <= MaxDocuments
  BY DeliveryAssumption DEF DocumentRows
<1>2. ASSUME alone, NEW d \in DOMAIN documents', NEW e \in DOMAIN documents', d < e,
             documents'[d].name = documents'[e].name,
             \A k \in DOMAIN documents' : documents'[k].name = documents'[d].name => documents'[k].asked = 10
      PROVE  documents'[d].version < documents'[e].version
  <2>1. /\ d \in DOMAIN documents /\ documents'[d] = documents[d] /\ documents[d] \in D!Row
        /\ \A k \in DOMAIN documents : k \in DOMAIN documents' /\ documents'[k] = documents[k]
    BY <1>2 DEF DocumentRows
  <2>2. \A k \in D!Versions(documents[d].name) : documents[k].asked = 10
    BY <1>2, <2>1 DEF D!Versions
  <2>3. CASE e \in DOMAIN documents
    BY <1>2, <2>1, <2>2, <2>3 DEF DocumentRows, D!VersionsUnique, D!Default
  <2>4. CASE e \notin DOMAIN documents
    <3>1. documents'[e] = n /\ e \in DOMAIN documents'
      BY <2>4 DEF DocumentRows
    <3>2. n.asked = 10 /\ n.name = documents[d].name
      BY <1>2, <2>1, <3>1
    <3>3. d \in D!Versions(n.name) /\ n.name \in Names /\ n.asked \in AskedVersions /\ n.file \in D!Objects
      BY <2>1, <3>2 DEF D!Versions, D!Row
    <3>4. PICK x \in D!Versions(n.name) : (\A y \in D!Versions(n.name) : y <= x) /\ n.version = documents[x].version + 1
      BY <1>2, <3>2, <3>3, NextVersion
    <3>5. d = x \/ documents[d].version < documents[x].version
      <4>1. x \in DOMAIN documents /\ documents[x].name = documents[d].name /\ d <= x /\ d \in Int /\ x \in Int
        BY <3>2, <3>3, <3>4 DEF D!Versions, DocumentRows
      <4> QED
        BY <1>2, <2>1, <2>2, <4>1 DEF DocumentRows, D!VersionsUnique, D!Default
    <3>6. documents[d].version \in Int /\ documents[x].version \in Int
      BY <2>1, <3>4, DocumentTypes DEF D!Versions
    <3> QED
      BY <2>1, <3>1, <3>4, <3>5, <3>6
  <2> QED
    BY <2>3, <2>4
<1>3. D!VersionsUnique'
  BY <1>2, DocumentOrder
<1> QED
  BY <1>1, <1>3 DEF DocumentRows

LEMMA DocumentSame ==
    ASSUME DocumentRows, alone' = alone, DOMAIN documents' = DOMAIN documents,
           \A e \in DOMAIN documents : /\ documents'[e].name = documents[e].name /\ documents'[e].asked = documents[e].asked
                                      /\ documents'[e].version = documents[e].version
    PROVE  D!VersionsUnique'
<1>1. ASSUME alone, NEW x \in DOMAIN documents', NEW y \in DOMAIN documents', x < y,
             documents'[x].name = documents'[y].name,
             \A k \in DOMAIN documents' : documents'[k].name = documents'[x].name => documents'[k].asked = 10
      PROVE  documents'[x].version < documents'[y].version
  <2>1. \A k \in D!Versions(documents[x].name) : documents[k].asked = 10
    BY <1>1 DEF D!Versions
  <2> QED
    BY <1>1, <2>1 DEF DocumentRows, D!VersionsUnique, D!Default
<1> QED
  BY <1>1, DocumentOrder

LEMMA DocumentMerge ==
    ASSUME NEW now \in D!Row, NEW q \in D!Row
    PROVE  \E live \in BOOLEAN :
             D!Merge(now, q, [q EXCEPT !.live = FALSE]) =
             [name |-> now.name, version |-> now.version, asked |-> now.asked, file |-> now.file, live |-> live]
<1> DEFINE n == [q EXCEPT !.live = FALSE]
<1>1. n.live = FALSE /\ n.name = q.name /\ n.version = q.version /\ n.asked = q.asked /\ n.file = q.file
  BY DEF D!Row
<1>2. DOMAIN now = {"name", "version", "asked", "file", "live"}
  BY DEF D!Row
<1> HIDE DEF n
<1>3. D!Merge(now, q, n) = [name |-> now.name, version |-> now.version, asked |-> now.asked, file |-> now.file,
                            live |-> IF n.live = q.live THEN now.live ELSE n.live]
  BY <1>1, <1>2 DEF D!Merge
<1>4. (IF n.live = q.live THEN now.live ELSE n.live) \in BOOLEAN
  BY <1>1 DEF D!Row
<1> QED
  BY <1>3, <1>4 DEF n

LEMMA DocumentDelete ==
    ASSUME DocumentRows, alone' = alone, NEW d \in DOMAIN documents, NEW q \in D!Row,
           documents' = [documents EXCEPT ![d] = D!Merge(@, q, [q EXCEPT !.live = FALSE])]
    PROVE  DocumentRows' /\ DOMAIN documents' = DOMAIN documents
<1> DEFINE now == documents[d]
           m == D!Merge(now, q, [q EXCEPT !.live = FALSE])
<1>1. now \in D!Row
  BY DEF DocumentRows
<1>2. PICK live \in BOOLEAN : m = [name |-> now.name, version |-> now.version, asked |-> now.asked, file |-> now.file, live |-> live]
  BY <1>1, DocumentMerge
<1> HIDE DEF m
<1>3. m \in D!Row /\ m.name = now.name /\ m.version = now.version /\ m.asked = now.asked
  <2> HIDE DEF now
  <2> QED
    BY <1>1, <1>2 DEF D!Row
<1>4. /\ documents' \in Seq(D!Row) /\ DOMAIN documents' = DOMAIN documents /\ Len(documents') = Len(documents)
      /\ documents'[d] = m /\ \A e \in DOMAIN documents : e # d => documents'[e] = documents[e]
  BY <1>3 DEF DocumentRows, m
<1>5. \A e \in DOMAIN documents : /\ documents'[e].name = documents[e].name /\ documents'[e].asked = documents[e].asked
                                  /\ documents'[e].version = documents[e].version
  BY <1>3, <1>4
<1>6. \A name : D!Versions(name)' = D!Versions(name)
  BY <1>4, <1>5 DEF D!Versions
<1>7. D!VersionsUnique'
  BY <1>4, <1>5, DocumentSame
<1> QED
  BY <1>4, <1>7 DEF DocumentRows

LEMMA DocumentStep ==
    ASSUME InTurn, DocumentInv, branch = "documents", branch' = branch, NEW s \in Sessions, D!Step(s)
    PROVE  DocumentDone
<1> USE DEF D!Begin, D!Go, D!Finish, D!Add, D!Edit, D!Idle, Idle
<1>1. ASSUME NEW name \in Names, NEW asked \in AskedVersions, NEW file \in D!Objects, D!Register(s, name, asked, file)
      PROVE  DocumentDone
  <2>1. PICK n : n = D!NewRow(name, asked, file)
    OBVIOUS
  <2>2. PICK w : w = [op |-> "add", table |-> "documents", new |-> n]
    OBVIOUS
  <2>3. Turns(s, w) /\ documents' = documents
    BY <1>1, <2>1, <2>2 DEF D!Register, Turns
  <2>4. DocumentAdds(w)
    BY <2>1, <2>2, NextVersion DEF DocumentAdds, DocumentInv
  <2> QED
    BY <2>3, <2>4, DocumentGoes DEF DocumentWork
<1>2. ASSUME NEW name \in Names, NEW asked \in AskedVersions, D!Upload(s, name, asked)
      PROVE  DocumentDone
  <2>1. PICK w : w = [op |-> "stored", name |-> name, asked |-> asked]
    OBVIOUS
  <2>2. Turns(s, w) /\ documents' = documents
    BY <1>2, <2>1 DEF D!Upload, Turns
  <2> QED
    BY <2>1, <2>2, DocumentGoes DEF DocumentWork, DocumentUploads
<1>3. ASSUME NEW d \in DOMAIN documents, D!Delete(s, d)
      PROVE  DocumentDone
  <2>1. PICK q \in D!Row : q = documents[d]
    BY DEF DocumentInv, DocumentRows
  <2>2. PICK w : w = [op |-> "edit", table |-> "documents", key |-> d, seen |-> q, new |-> [q EXCEPT !.live = FALSE]]
    OBVIOUS
  <2>3. Turns(s, w) /\ documents' = documents
    BY <1>3, <2>1, <2>2 DEF D!Delete, Turns
  <2> QED
    BY <2>1, <2>2, <2>3, DocumentGoes DEF DocumentWork, DocumentEdits
<1>4. PICK v : v = sess[s] /\ DocumentWork(v)
  BY DEF DocumentInv
<1>5. CASE D!UploadRegister(s)
  <2>1. PICK name \in Names, asked \in AskedVersions : v = [op |-> "stored", name |-> name, asked |-> asked]
    BY <1>4, <1>5, DocumentOps DEF D!UploadRegister, DocumentUploads
  <2>2. PICK n, file : file = D!ObjectOf(name, asked) /\ n = D!NewRow(name, asked, file)
    OBVIOUS
  <2>3. PICK w : w = [op |-> "add", table |-> "documents", new |-> n]
    OBVIOUS
  <2>4. Turns(s, w) /\ documents' = documents
    BY <1>4, <1>5, <2>1, <2>2, <2>3 DEF D!UploadRegister, Turns
  <2>5. DocumentAdds(w)
    <3>1. file \in D!Objects
      BY <2>2 DEF D!Objects
    <3> QED
      BY <2>2, <2>3, <3>1, NextVersion DEF DocumentAdds, DocumentInv
  <2> QED
    BY <2>4, <2>5, DocumentGoes DEF DocumentWork
<1>6. CASE D!Insert(s)
  <2>1. PICK n \in D!Row : v = [op |-> "add", table |-> "documents", new |-> n] /\ (alone => n = D!NewRow(n.name, n.asked, n.file))
    BY <1>4, <1>6, DocumentOps DEF D!Insert, D!Adding, DocumentAdds
  <2>2. Turns(s, Idle)
    BY <1>4, <1>6, <2>1 DEF D!Insert, Turns
  <2>3. documents' = Append(documents, n) /\ Len(documents) < MaxDocuments
    BY <1>4, <1>6, <2>1 DEF D!Insert
  <2>4. DocumentRows' /\ DOMAIN documents \subseteq DOMAIN documents'
    BY <2>1, <2>2, <2>3, DocumentInsert DEF DocumentInv, DocumentRows, Turns
  <2>5. DocumentWork(Idle)'
    BY DEF DocumentWork
  <2> QED
    BY <2>2, <2>4, <2>5, DocumentWrites
<1>7. CASE D!DeleteCommit(s)
  <2>1. PICK d \in DOMAIN documents, q \in D!Row :
           v = [op |-> "edit", table |-> "documents", key |-> d, seen |-> q, new |-> [q EXCEPT !.live = FALSE]]
    <3>1. DocumentEdits(v)
      BY <1>4, <1>7, DocumentOps DEF D!DeleteCommit, D!Editing
    <3> QED
      BY <3>1 DEF DocumentEdits
  <2>2. PICK w : w = [op |-> "cleanup", object |-> q.file]
    OBVIOUS
  <2>3. Turns(s, w)
    BY <1>4, <1>7, <2>1, <2>2 DEF D!DeleteCommit, Turns
  <2>4. documents' = [documents EXCEPT ![d] = D!Merge(@, q, [q EXCEPT !.live = FALSE])]
    BY <1>4, <1>7, <2>1 DEF D!DeleteCommit, D!Edited
  <2>5. DocumentRows' /\ DOMAIN documents \subseteq DOMAIN documents'
    BY <2>3, <2>4, DocumentDelete DEF DocumentInv, Turns
  <2>6. DocumentWork(w)'
    BY <2>2 DEF DocumentWork
  <2> QED
    BY <2>3, <2>5, <2>6, DocumentWrites
<1>8. CASE D!Cleanup(s) \/ (D!Abort(s) /\ UNCHANGED <<documents, files>>)
  <2>1. Turns(s, Idle) /\ documents' = documents
    BY <1>8 DEF D!Cleanup, D!Abort, Turns
  <2>2. DocumentWork(Idle)
    BY DEF DocumentWork
  <2> QED
    BY <2>1, <2>2, DocumentGoes
<1> QED
  BY <1>1, <1>2, <1>3, <1>5, <1>6, <1>7, <1>8 DEF D!Step

LEMMA DocumentQuiet ==
    ASSUME DocumentInv, UNCHANGED <<branch, alone, documents>>, branch = "documents" => sess' = sess
    PROVE  DocumentInv'
<1>1. DocumentRows'
  BY DEF DocumentInv, DocumentRows, D!VersionsUnique, D!Versions
<1>2. ASSUME branch = "documents", NEW t \in Sessions PROVE DocumentWork(sess[t])'
  <2>1. PICK v : v = sess[t] /\ v = sess'[t]
    BY <1>2
  <2>2. DocumentWork(v)
    BY <1>2, <2>1 DEF DocumentInv
  <2>3. DocumentWork(v)'
    BY <2>2 DEF DocumentWork, DocumentUploads, DocumentAdds, DocumentEdits, D!NewRow, D!NextVersion, D!Versions
  <2> QED
    BY <2>1, <2>3
<1> QED
  BY <1>1, <1>2 DEF DocumentInv

-----------------------------------------------------------------------------
\* Projects, their tasks, subtasks, comments and members.
SubtasksOf(t) == {u \in Subtasks : subtasks[u].of = t}
SubtasksNumbered ==
    alone => \A u \in Subtasks : W!Stored(subtasks, u) =>
                subtasks[u].n <= Cardinality(SubtasksOf(subtasks[u].of))
WorkRows ==
    /\ W!TypeOK
    /\ \A t \in Works : W!Stored(works, t) => W!Stored(projects, works[t].of)
    /\ W!TaskSlugsUnique /\ W!SubtaskSlugsUnique /\ SubtasksNumbered

\* What a handler may write of a row it has seen.
ProjectMove(q, n) ==
    \/ n = q
    \/ q.status = "DRAFT" /\ n = [q EXCEPT !.status = "ACTIVE"]
    \/ \E status \in {"COMPLETED", "TERMINATED"} : n = [q EXCEPT !.status = status]
TextMove(q, n) == q.live /\ (n = W!Changed(q) \/ n = W!Deleted(q))

AddsProject(w) == w = [op |-> "add", table |-> "projects", new |-> [status |-> "DRAFT", counter |-> 0]]
AddsSubtask(w) ==
    \E n \in W!SubtaskRow : /\ w = [op |-> "add", table |-> "subtasks", new |-> n]
                            /\ alone => n.n = Cardinality(SubtasksOf(n.of)) + 1
AddsComment(w) == \E n \in W!CommentRow : w = [op |-> "add", table |-> "comments", new |-> n]
EditsProject(w) ==
    \E p \in Projects, q \in W!ProjectRow, n \in W!ProjectRow :
        /\ w = [op |-> "edit", table |-> "projects", key |-> p, seen |-> q, new |-> n]
        /\ W!Stored(projects, p) /\ ProjectMove(q, n) /\ (alone => q = projects[p])
EditsTask(w) ==
    \E t \in Works, q \in W!TaskRow, n \in W!TaskRow :
        /\ w = [op |-> "edit", table |-> "tasks", key |-> t, seen |-> q, new |-> n]
        /\ W!Stored(works, t) /\ TextMove(q, n)
EditsSubtask(w) ==
    \E u \in Subtasks, q \in W!SubtaskRow, n \in W!SubtaskRow :
        /\ w = [op |-> "edit", table |-> "subtasks", key |-> u, seen |-> q, new |-> n]
        /\ W!Stored(subtasks, u) /\ TextMove(q, n)
EditsComment(w) ==
    \E c \in Comments, q \in W!CommentRow, n \in W!CommentRow :
        /\ w = [op |-> "edit", table |-> "comments", key |-> c, seen |-> q, new |-> n]
        /\ W!Stored(comments, c) /\ TextMove(q, n)
TakesNumber(w) ==
    \E p \in Projects : /\ w = [op |-> "slug", project |-> p, n |-> projects[p].counter + 1]
                        /\ W!Stored(projects, p)
Joins(w)  == \E p \in Projects : w = [op |-> "join", project |-> p]
Leaves(w) == \E m \in Members : w = [op |-> "leave", member |-> m]
WorkHeld(w) ==
    \/ w = Idle \/ AddsProject(w) \/ AddsSubtask(w) \/ AddsComment(w)
    \/ EditsProject(w) \/ EditsTask(w) \/ EditsSubtask(w) \/ EditsComment(w)
    \/ TakesNumber(w) \/ Joins(w) \/ Leaves(w)
LockedOnce ==
    \A s, t \in Sessions :
        sess[s].op = "slug" /\ sess[t].op = "slug" /\ sess[s].project = sess[t].project => s = t
WorkInv ==
    /\ WorkRows
    /\ branch = "work" => (\A s \in Sessions : WorkHeld(sess[s])) /\ LockedOnce

LEMMA WorkTypes ==
    ASSUME W!TypeOK
    PROVE  /\ \A p \in Projects : W!Stored(projects, p) <=> projects[p] \in W!ProjectRow
           /\ \A t \in Works : W!Stored(works, t) <=> works[t] \in W!TaskRow
           /\ \A u \in Subtasks : W!Stored(subtasks, u) <=> subtasks[u] \in W!SubtaskRow
           /\ \A c \in Comments : W!Stored(comments, c) <=> comments[c] \in W!CommentRow
<1>1. W!NoRow \notin W!ProjectRow
  BY DEF W!NoRow, W!ProjectRow
<1>2. W!NoRow \notin W!TaskRow /\ W!NoRow \notin W!SubtaskRow /\ W!NoRow \notin W!CommentRow
  BY DeliveryAssumption DEF W!NoRow, W!TaskRow, W!SubtaskRow, W!CommentRow
<1> QED
  BY <1>1, <1>2 DEF W!TypeOK, W!Stored

LEMMA WorkOps ==
    ASSUME NEW v, WorkHeld(v)
    PROVE  /\ v.op = "slug" => TakesNumber(v)
           /\ v.op = "join" => Joins(v)
           /\ v.op = "leave" => Leaves(v)
           /\ v.op = "add" /\ v.table = "projects" => AddsProject(v)
           /\ v.op = "add" /\ v.table = "subtasks" => AddsSubtask(v)
           /\ v.op = "add" /\ v.table = "comments" => AddsComment(v)
           /\ v.op = "edit" /\ v.table = "projects" => EditsProject(v)
           /\ v.op = "edit" /\ v.table = "tasks" => EditsTask(v)
           /\ v.op = "edit" /\ v.table = "subtasks" => EditsSubtask(v)
           /\ v.op = "edit" /\ v.table = "comments" => EditsComment(v)
<1>1. v = Idle => v.op = "idle"
  BY DEF Idle
<1>2. AddsProject(v) => v.op = "add" /\ v.table = "projects"
  BY DEF AddsProject
<1>3. AddsSubtask(v) => v.op = "add" /\ v.table = "subtasks"
  BY DEF AddsSubtask
<1>4. AddsComment(v) => v.op = "add" /\ v.table = "comments"
  BY DEF AddsComment
<1>5. EditsProject(v) => v.op = "edit" /\ v.table = "projects"
  BY DEF EditsProject
<1>6. EditsTask(v) => v.op = "edit" /\ v.table = "tasks"
  BY DEF EditsTask
<1>7. EditsSubtask(v) => v.op = "edit" /\ v.table = "subtasks"
  BY DEF EditsSubtask
<1>8. EditsComment(v) => v.op = "edit" /\ v.table = "comments"
  BY DEF EditsComment
<1>9. (TakesNumber(v) => v.op = "slug") /\ (Joins(v) => v.op = "join") /\ (Leaves(v) => v.op = "leave")
  BY DEF TakesNumber, Joins, Leaves
<1> QED
  BY <1>1, <1>2, <1>3, <1>4, <1>5, <1>6, <1>7, <1>8, <1>9 DEF WorkHeld

LEMMA WorkStarts ==
    ASSUME W!Init PROVE WorkInv
<1>1. WorkRows
  BY DEF W!Init, WorkRows, W!TypeOK, W!Stored, W!NoRow, W!TaskSlugsUnique, W!SubtaskSlugsUnique, SubtasksNumbered
<1>2. \A s \in Sessions : sess[s] = Idle
  BY DEF W!Init, W!AllIdle, W!Idle, Idle
<1> QED
  <2>1. \A s \in Sessions : WorkHeld(sess[s])
    BY <1>2 DEF WorkHeld
  <2>2. \A s \in Sessions : sess[s].op = "idle"
    BY <1>2 DEF Idle
  <2>3. LockedOnce
    BY <2>2 DEF LockedOnce
  <2> QED
    BY <1>1, <2>1, <2>3 DEF WorkInv

LEMMA ProjectMerge ==
    ASSUME NEW now \in W!ProjectRow, NEW q \in W!ProjectRow, NEW n, ProjectMove(q, n)
    PROVE  /\ W!Merge(now, q, n) \in W!ProjectRow
           /\ W!Merge(now, q, n).counter = now.counter
           /\ now = q /\ q.status \in {"COMPLETED", "TERMINATED"} =>
                 W!Merge(now, q, n).status \in {"COMPLETED", "TERMINATED"}
<1>1. n \in W!ProjectRow /\ n.counter = q.counter
      /\ (q.status \in {"COMPLETED", "TERMINATED"} => n.status \in {"COMPLETED", "TERMINATED"})
  BY DEF ProjectMove, W!ProjectRow
<1>2. DOMAIN now = {"status", "counter"}
  BY DEF W!ProjectRow
<1>3. W!Merge(now, q, n) = [status  |-> IF n.status = q.status THEN now.status ELSE n.status,
                            counter |-> now.counter]
  BY <1>1, <1>2 DEF W!Merge
<1> QED
  BY <1>1, <1>3 DEF W!ProjectRow

LEMMA TextMerge ==
    ASSUME NEW Owners,
           NEW now \in [of: Owners, n: Nat, text: BOOLEAN, live: BOOLEAN],
           NEW q \in [of: Owners, n: Nat, text: BOOLEAN, live: BOOLEAN], NEW n, TextMove(q, n)
    PROVE  \E text, live \in BOOLEAN :
             /\ W!Merge(now, q, n) = [of |-> now.of, n |-> now.n, text |-> text, live |-> live]
             /\ live => now.live
<1>1. n.of = q.of /\ n.n = q.n /\ n.text \in BOOLEAN /\ n.live \in BOOLEAN
  BY DEF TextMove, W!Changed, W!Deleted
<1>2. DOMAIN now = {"of", "n", "text", "live"}
  OBVIOUS
<1>3. W!Merge(now, q, n) = [of |-> now.of, n |-> now.n,
                            text |-> IF n.text = q.text THEN now.text ELSE n.text,
                            live |-> IF n.live = q.live THEN now.live ELSE n.live]
  BY <1>1, <1>2 DEF W!Merge
<1>4. /\ (IF n.text = q.text THEN now.text ELSE n.text) \in BOOLEAN
      /\ (IF n.live = q.live THEN now.live ELSE n.live) \in BOOLEAN
  BY <1>1
<1>5. (IF n.live = q.live THEN now.live ELSE n.live) => now.live
  BY <1>1 DEF TextMove
<1> QED
  BY <1>3, <1>4, <1>5

LEMMA CommentMerge ==
    ASSUME NEW now \in W!CommentRow, NEW q \in W!CommentRow, NEW n, TextMove(q, n)
    PROVE  \E text, live \in BOOLEAN :
             /\ W!Merge(now, q, n) = [of |-> now.of, author |-> now.author, text |-> text, live |-> live]
             /\ live => now.live
<1>1. n.of = q.of /\ n.author = q.author /\ n.text \in BOOLEAN /\ n.live \in BOOLEAN
  BY DEF TextMove, W!Changed, W!Deleted, W!CommentRow
<1>2. DOMAIN now = {"of", "author", "text", "live"}
  BY DEF W!CommentRow
<1>3. W!Merge(now, q, n) = [of |-> now.of, author |-> now.author,
                            text |-> IF n.text = q.text THEN now.text ELSE n.text,
                            live |-> IF n.live = q.live THEN now.live ELSE n.live]
  BY <1>1, <1>2 DEF W!Merge
<1>4. /\ (IF n.text = q.text THEN now.text ELSE n.text) \in BOOLEAN
      /\ (IF n.live = q.live THEN now.live ELSE n.live) \in BOOLEAN
  BY <1>1 DEF W!CommentRow
<1>5. (IF n.live = q.live THEN now.live ELSE n.live) => now.live
  BY <1>1 DEF TextMove
<1> QED
  BY <1>3, <1>4, <1>5

\* What a step may never do to a row.
WorkKeeps ==
    /\ \A t \in Works : W!Stored(works, t) /\ ~works[t].live => ~works'[t].live
    /\ \A u \in Subtasks : W!Stored(subtasks, u) /\ ~subtasks[u].live => ~subtasks'[u].live
    /\ \A c \in Comments : W!Stored(comments, c) /\ ~comments[c].live => ~comments'[c].live
    /\ \A p \in Projects : alone /\ projects[p] # W!NoRow /\ projects[p].status \in {"COMPLETED", "TERMINATED"}
                           => projects'[p].status \in {"COMPLETED", "TERMINATED"}
WorkGoal == InTurn /\ WorkInv
WorkDone == InTurn' /\ WorkInv' /\ WorkKeeps /\ alone' = alone

\* Nothing is stored: handler s goes on with w.
LEMMA WorkGoes ==
    ASSUME WorkGoal, branch = "work", branch' = branch, UNCHANGED work,
           NEW s \in Sessions, NEW w, Turns(s, w), WorkHeld(w),
           w.op = "slug" => \A t \in Sessions : t # s /\ sess[t].op = "slug" => sess[t].project # w.project
    PROVE  WorkDone
<1> USE DEF work, WorkGoal
<1>1. WorkRows'
  BY DEF WorkInv, WorkRows, W!TypeOK, W!Stored, W!TaskSlugsUnique, W!SubtaskSlugsUnique,
         SubtasksNumbered, SubtasksOf, Turns
<1>2. ASSUME NEW t \in Sessions PROVE WorkHeld(sess[t])'
  <2>1. PICK v : v = sess'[t]
    OBVIOUS
  <2>2. WorkHeld(v)
    BY <2>1, TurnKeeps DEF WorkInv
  <2>3. WorkHeld(v)'
    BY <2>2 DEF WorkHeld, AddsProject, AddsSubtask, AddsComment, EditsProject, EditsTask, EditsSubtask,
       EditsComment, TakesNumber, Joins, Leaves, SubtasksOf, W!Stored, Turns
  <2> QED
    BY <2>1, <2>3
<1>3. LockedOnce'
  <2>1. \A x, y \in Sessions :
          sess[x].op = "slug" /\ sess[y].op = "slug" /\ sess[x].project = sess[y].project => x = y
    BY DEF WorkInv, LockedOnce
  <2>2. sess'[s] = w /\ \A t \in Sessions : t # s => sess'[t] = sess[t]
    BY TurnKeeps
  <2>3. ASSUME NEW x \in Sessions, NEW y \in Sessions, sess'[x].op = "slug", sess'[y].op = "slug",
               sess'[x].project = sess'[y].project, x # y
        PROVE  FALSE
    BY <2>1, <2>2, <2>3
  <2> QED
    BY <2>3 DEF LockedOnce
<1>4. WorkKeeps
  BY DEF WorkKeeps, W!Stored
<1> QED
  BY <1>1, <1>2, <1>3, <1>4, TurnKeeps DEF WorkInv, WorkDone, Turns

\* Rows are stored, and handler s is done.
WorkStays(s) ==
    /\ \A p \in Projects : W!Stored(projects, p) =>
          /\ W!Stored(projects', p)
          /\ projects'[p].counter = projects[p].counter \/ (sess[s].op = "slug" /\ sess[s].project = p)
    /\ \A t \in Works : W!Stored(works, t) => W!Stored(works', t)
    /\ \A u \in Subtasks : W!Stored(subtasks, u) => W!Stored(subtasks', u)
    /\ \A c \in Comments : W!Stored(comments, c) => W!Stored(comments', c)

LEMMA WorkWrites ==
    ASSUME WorkGoal, branch = "work", branch' = branch, WorkRows', WorkKeeps,
           NEW s \in Sessions, Turns(s, Idle), WorkStays(s)
    PROVE  WorkDone
<1> USE DEF WorkGoal
<1>1. ASSUME NEW t \in Sessions PROVE WorkHeld(sess[t])'
  <2>1. PICK v : v = sess'[t]
    OBVIOUS
  <2>2. CASE v = Idle
    BY <2>1, <2>2 DEF WorkHeld
  <2>3. CASE v # Idle
    <3>1. t # s /\ v = sess[t] /\ ~alone /\ WorkHeld(v)
      BY <2>1, <2>3, TurnKeeps DEF WorkInv
    <3>2. TakesNumber(v) => TakesNumber(v)'
      <4> SUFFICES ASSUME TakesNumber(v) PROVE TakesNumber(v)'
        OBVIOUS
      <4>1. PICK p \in Projects : /\ v = [op |-> "slug", project |-> p, n |-> projects[p].counter + 1]
                                  /\ W!Stored(projects, p)
        BY DEF TakesNumber
      <4>2. v.op = "slug" /\ v.project = p
        BY <4>1
      <4>3. ~(sess[s].op = "slug" /\ sess[s].project = p)
        BY <3>1, <4>2 DEF WorkInv, LockedOnce
      <4>4. W!Stored(projects', p) /\ projects'[p].counter = projects[p].counter
        BY <4>1, <4>3 DEF WorkStays
      <4> QED
        BY <4>1, <4>4 DEF TakesNumber, W!Stored
    <3>3. alone' = alone
      BY DEF Turns
    <3>4. /\ AddsProject(v) => AddsProject(v)'
          /\ AddsSubtask(v) => AddsSubtask(v)'
          /\ AddsComment(v) => AddsComment(v)'
          /\ Joins(v) => Joins(v)'
          /\ Leaves(v) => Leaves(v)'
      BY <3>1, <3>3 DEF AddsProject, AddsSubtask, AddsComment, Joins, Leaves
    <3>5. EditsProject(v) => EditsProject(v)'
      BY <3>1, <3>3 DEF EditsProject, WorkStays, W!Stored
    <3>6. EditsTask(v) => EditsTask(v)'
      BY DEF EditsTask, WorkStays, W!Stored
    <3>7. EditsSubtask(v) => EditsSubtask(v)'
      BY DEF EditsSubtask, WorkStays, W!Stored
    <3>8. EditsComment(v) => EditsComment(v)'
      BY DEF EditsComment, WorkStays, W!Stored
    <3>9. WorkHeld(v)'
      BY <3>1, <3>2, <3>4, <3>5, <3>6, <3>7, <3>8 DEF WorkHeld
    <3> QED
      BY <2>1, <3>9
  <2> QED
    BY <2>2, <2>3
<1>2. LockedOnce'
  <2>1. \A x, y \in Sessions :
          sess[x].op = "slug" /\ sess[y].op = "slug" /\ sess[x].project = sess[y].project => x = y
    BY DEF WorkInv, LockedOnce
  <2>2. sess'[s].op = "idle" /\ \A t \in Sessions : t # s => sess'[t] = sess[t]
    BY TurnKeeps DEF Idle
  <2> QED
    BY <2>1, <2>2 DEF LockedOnce
<1> QED
  BY <1>1, <1>2, TurnKeeps DEF WorkInv, WorkDone, Turns

LEMMA ProjectRowsKept ==
    ASSUME WorkRows, alone' = alone, UNCHANGED <<works, subtasks, comments, members>>,
           NEW p \in Projects, NEW row \in W!ProjectRow, projects' = [projects EXCEPT ![p] = row],
           W!Stored(projects, p) => row.counter = projects[p].counter
    PROVE  WorkRows' /\ \A r \in Projects : W!Stored(projects, r) =>
                           W!Stored(projects', r) /\ projects'[r].counter = projects[r].counter
<1>1. projects'[p] = row /\ (\A r \in Projects : r # p => projects'[r] = projects[r])
      /\ projects' \in [Projects -> W!ProjectRow \cup {W!NoRow}]
  BY DEF WorkRows, W!TypeOK
<1>2. W!TypeOK'
  BY <1>1 DEF WorkRows, W!TypeOK
<1>3. row # W!NoRow
  BY DEF W!ProjectRow, W!NoRow
<1>4. \A r \in Projects : W!Stored(projects, r) =>
          W!Stored(projects', r) /\ projects'[r].counter = projects[r].counter
  BY <1>1, <1>3 DEF W!Stored
<1>5. \A t \in Works : W!Stored(works, t) => works[t].of \in Projects
  BY WorkTypes DEF WorkRows, W!TaskRow
<1>6. W!TaskSlugsUnique' /\ \A t \in Works : W!Stored(works, t)' => W!Stored(projects', works'[t].of)
  BY <1>4, <1>5 DEF WorkRows, W!TaskSlugsUnique, W!Stored
<1>7. W!SubtaskSlugsUnique' /\ SubtasksNumbered'
  BY DEF WorkRows, W!SubtaskSlugsUnique, SubtasksNumbered, SubtasksOf, W!Stored
<1> QED
  BY <1>2, <1>4, <1>6, <1>7 DEF WorkRows, W!Stored

LEMMA TaskRowsKept ==
    ASSUME WorkRows, alone' = alone, UNCHANGED <<projects, subtasks, comments, members>>,
           NEW t \in Works, W!Stored(works, t), NEW text \in BOOLEAN, NEW live \in BOOLEAN,
           works' = [works EXCEPT ![t] = [of |-> works[t].of, n |-> works[t].n, text |-> text, live |-> live]]
    PROVE  WorkRows' /\ (\A r \in Works : W!Stored(works, r) => W!Stored(works', r))
           /\ works'[t].live = live /\ (\A r \in Works : r # t => works'[r] = works[r])
<1>1. works[t] \in W!TaskRow
  BY WorkTypes DEF WorkRows
<1>2. PICK row : row = [of |-> works[t].of, n |-> works[t].n, text |-> text, live |-> live]
  OBVIOUS
<1>3. row \in W!TaskRow /\ row.of = works[t].of /\ row.n = works[t].n /\ row.live = live
  BY <1>1, <1>2 DEF W!TaskRow
<1>4. works'[t] = row /\ (\A r \in Works : r # t => works'[r] = works[r])
      /\ works' \in [Works -> W!TaskRow \cup {W!NoRow}]
  BY <1>2, <1>3 DEF WorkRows, W!TypeOK
<1>5. row # W!NoRow
  BY <1>3, DeliveryAssumption DEF W!TaskRow, W!NoRow
<1>6. W!TypeOK'
  BY <1>4 DEF WorkRows, W!TypeOK
<1>7. \A r \in Works : /\ W!Stored(works', r) <=> W!Stored(works, r)
                       /\ W!Stored(works, r) => works'[r].of = works[r].of /\ works'[r].n = works[r].n
  BY <1>3, <1>4, <1>5 DEF W!Stored
<1>8. \A r \in Works : ~W!Stored(works, r) => works'[r] = works[r]
  BY <1>4
<1>9. W!TaskSlugsUnique' /\ \A r \in Works : W!Stored(works, r)' => W!Stored(projects', works'[r].of)
  BY <1>7, <1>8 DEF WorkRows, W!TaskSlugsUnique, W!Stored
<1>10. W!SubtaskSlugsUnique' /\ SubtasksNumbered'
  BY DEF WorkRows, W!SubtaskSlugsUnique, SubtasksNumbered, SubtasksOf, W!Stored
<1> QED
  BY <1>3, <1>4, <1>6, <1>7, <1>9, <1>10 DEF WorkRows, W!Stored

LEMMA TaskCreated ==
    ASSUME WorkRows, alone' = alone, UNCHANGED <<subtasks, comments, members>>,
           NEW p \in Projects, W!Stored(projects, p), NEW t \in Works, ~W!Stored(works, t), NEW n,
           n = projects[p].counter + 1, projects' = [projects EXCEPT ![p].counter = n],
           works' = [works EXCEPT ![t] = [of |-> p, n |-> n, text |-> FALSE, live |-> TRUE]]
    PROVE  /\ WorkRows'
           /\ \A r \in Projects : W!Stored(projects, r) =>
                 W!Stored(projects', r) /\ (r # p => projects'[r] = projects[r]) /\ projects'[r].status = projects[r].status
           /\ \A r \in Works : W!Stored(works, r) => works'[r] = works[r]
<1>1. projects[p] \in W!ProjectRow /\ n \in Nat
  BY WorkTypes DEF WorkRows, W!ProjectRow
<1>2. PICK row : row = [of |-> p, n |-> n, text |-> FALSE, live |-> TRUE]
  OBVIOUS
<1>3. row \in W!TaskRow /\ row.of = p /\ row.n = n /\ row # W!NoRow
  BY <1>1, <1>2, DeliveryAssumption DEF W!TaskRow, W!NoRow
<1>4. works'[t] = row /\ (\A r \in Works : r # t => works'[r] = works[r])
      /\ works' \in [Works -> W!TaskRow \cup {W!NoRow}]
  BY <1>2, <1>3 DEF WorkRows, W!TypeOK
<1>5. /\ projects'[p] \in W!ProjectRow /\ projects'[p].counter = n /\ projects'[p].status = projects[p].status
      /\ \A r \in Projects : r # p => projects'[r] = projects[r]
      /\ projects' \in [Projects -> W!ProjectRow \cup {W!NoRow}]
  <2>1. PICK q : q = [projects[p] EXCEPT !.counter = n]
    OBVIOUS
  <2>2. q \in W!ProjectRow /\ q.counter = n /\ q.status = projects[p].status
    BY <1>1, <2>1 DEF W!ProjectRow
  <2>3. projects' = [projects EXCEPT ![p] = q]
    BY <2>1
  <2> QED
    BY <2>2, <2>3 DEF WorkRows, W!TypeOK
<1>6. W!TypeOK'
  BY <1>4, <1>5 DEF WorkRows, W!TypeOK
<1>7. \A r \in Projects : W!Stored(projects, r) => W!Stored(projects', r)
  BY <1>5 DEF W!Stored, W!ProjectRow, W!NoRow
<1>8. \A r \in Works : W!Stored(works, r) => works[r] \in W!TaskRow /\ works[r].of \in Projects
                            /\ works[r].n \in Nat /\ works[r].n <= projects[works[r].of].counter
  <2>1. \A r \in Works : W!Stored(works, r) => works[r] \in W!TaskRow
    BY WorkTypes DEF WorkRows
  <2> QED
    BY <2>1 DEF W!TaskRow, WorkRows, W!TaskSlugsUnique
<1>9. \A r \in Works : /\ W!Stored(works', r) <=> (r = t \/ W!Stored(works, r))
                       /\ W!Stored(works, r) => r # t /\ works'[r] = works[r]
  BY <1>3, <1>4 DEF W!Stored
<1>10. \A r \in Works : r # t => works'[r] = works[r]
  BY <1>4
<1>11. projects[p].counter \in Nat
  BY <1>1 DEF W!ProjectRow
<1>12. ASSUME NEW x \in Works, W!Stored(works', x)
       PROVE  /\ W!Stored(projects', works'[x].of)
              /\ works'[x].n <= projects'[works'[x].of].counter
              /\ \A y \in Works : x # y /\ works'[x].of = works'[y].of => works'[x].n # works'[y].n
  <2>1. CASE x = t
    <3>1. works'[x].of = p /\ works'[x].n = n
      BY <1>3, <1>4, <2>1
    <3>2. ASSUME NEW y \in Works, x # y, works'[y].of = p PROVE works'[y].n # n
      <4>1. works'[y] = works[y] /\ W!Stored(works, y)
        BY <1>4, <2>1, <3>2, DeliveryAssumption DEF W!Stored, W!NoRow
      <4> QED
        BY <1>8, <1>11, <3>2, <4>1
    <3>3. W!Stored(projects', p)
      BY <1>7
    <3>4. n <= projects'[p].counter
      BY <1>1, <1>5
    <3> QED
      BY <3>1, <3>2, <3>3, <3>4
  <2>2. CASE x # t
    <3>1. W!Stored(works, x) /\ works'[x] = works[x] /\ works[x].of \in Projects
      BY <1>8, <1>9, <1>12, <2>2
    <3>2. works[x].n <= projects'[works[x].of].counter
      BY <1>1, <1>5, <1>8, <1>11, <3>1
    <3>3. ASSUME NEW y \in Works, x # y, works'[x].of = works'[y].of PROVE works'[x].n # works'[y].n
      <4>1. CASE y = t
        <5>1. works'[y].of = p /\ works'[y].n = n
          BY <1>3, <1>4, <4>1
        <5> QED
          BY <1>8, <1>11, <3>1, <3>3, <5>1
      <4>2. CASE y # t
        BY <1>10, <3>1, <3>3, <4>2 DEF WorkRows, W!TaskSlugsUnique
      <4> QED
        BY <4>1, <4>2
    <3> QED
      BY <1>7, <3>1, <3>2, <3>3 DEF WorkRows
  <2> QED
    BY <2>1, <2>2
<1>13. W!TaskSlugsUnique'
  BY <1>12 DEF W!TaskSlugsUnique, W!Stored
<1>14. W!SubtaskSlugsUnique' /\ SubtasksNumbered'
  BY DEF WorkRows, W!SubtaskSlugsUnique, SubtasksNumbered, SubtasksOf, W!Stored
<1>15. WorkRows'
  BY <1>6, <1>12, <1>13, <1>14 DEF WorkRows, W!Stored
<1> QED
  BY <1>5, <1>7, <1>9, <1>15

LEMMA SubtaskRowsKept ==
    ASSUME WorkRows, alone' = alone, UNCHANGED <<projects, works, comments, members>>,
           NEW u \in Subtasks, W!Stored(subtasks, u), NEW text \in BOOLEAN, NEW live \in BOOLEAN,
           subtasks' = [subtasks EXCEPT ![u] = [of |-> subtasks[u].of, n |-> subtasks[u].n, text |-> text, live |-> live]]
    PROVE  WorkRows' /\ (\A r \in Subtasks : W!Stored(subtasks, r) => W!Stored(subtasks', r))
           /\ subtasks'[u].live = live /\ (\A r \in Subtasks : r # u => subtasks'[r] = subtasks[r])
<1>1. subtasks[u] \in W!SubtaskRow
  BY WorkTypes DEF WorkRows
<1>2. PICK row : row = [of |-> subtasks[u].of, n |-> subtasks[u].n, text |-> text, live |-> live]
  OBVIOUS
<1>3. row \in W!SubtaskRow /\ row.of = subtasks[u].of /\ row.n = subtasks[u].n /\ row.live = live
  BY <1>1, <1>2 DEF W!SubtaskRow
<1>4. subtasks'[u] = row /\ (\A r \in Subtasks : r # u => subtasks'[r] = subtasks[r])
      /\ subtasks' \in [Subtasks -> W!SubtaskRow \cup {W!NoRow}]
  BY <1>2, <1>3 DEF WorkRows, W!TypeOK
<1>5. row # W!NoRow
  BY <1>3, DeliveryAssumption DEF W!SubtaskRow, W!NoRow
<1>6. W!TypeOK'
  BY <1>4 DEF WorkRows, W!TypeOK
<1>7. \A r \in Subtasks : /\ W!Stored(subtasks', r) <=> W!Stored(subtasks, r)
                          /\ subtasks'[r].of = subtasks[r].of
                          /\ W!Stored(subtasks, r) => subtasks'[r].n = subtasks[r].n
  BY <1>3, <1>4, <1>5 DEF W!Stored
<1>8. \A t : SubtasksOf(t)' = SubtasksOf(t)
  BY <1>7 DEF SubtasksOf
<1>9. \A x \in Subtasks : W!Stored(subtasks, x) => subtasks'[x].n = subtasks[x].n /\ subtasks'[x].of = subtasks[x].of
  BY <1>7
<1>10. \A x, y \in Subtasks : x # y /\ W!Stored(subtasks, x) /\ subtasks[x].of = subtasks[y].of => W!Stored(subtasks, y)
  BY <1>1, WorkTypes, DeliveryAssumption DEF WorkRows, W!Stored, W!NoRow, W!SubtaskRow
<1>11. W!SubtaskSlugsUnique'
  BY <1>7, <1>9, <1>10 DEF WorkRows, W!SubtaskSlugsUnique, W!Stored
<1>12. SubtasksNumbered'
  BY <1>7, <1>8, <1>9 DEF WorkRows, SubtasksNumbered, W!Stored
<1>13. W!TaskSlugsUnique' /\ \A r \in Works : W!Stored(works, r)' => W!Stored(projects', works'[r].of)
  BY DEF WorkRows, W!TaskSlugsUnique, W!Stored
<1> QED
  BY <1>3, <1>4, <1>6, <1>7, <1>11, <1>12, <1>13 DEF WorkRows, W!Stored

LEMMA SubtaskCreated ==
    ASSUME WorkRows, alone' = alone, UNCHANGED <<projects, works, comments, members>>,
           NEW u \in Subtasks, ~W!Stored(subtasks, u), NEW row \in W!SubtaskRow,
           alone => row.n = Cardinality(SubtasksOf(row.of)) + 1,
           subtasks' = [subtasks EXCEPT ![u] = row]
    PROVE  WorkRows' /\ \A r \in Subtasks : W!Stored(subtasks, r) =>
                            W!Stored(subtasks', r) /\ subtasks'[r] = subtasks[r]
<1>1. subtasks'[u] = row /\ (\A r \in Subtasks : r # u => subtasks'[r] = subtasks[r])
      /\ subtasks' \in [Subtasks -> W!SubtaskRow \cup {W!NoRow}]
  BY DEF WorkRows, W!TypeOK
<1>2. W!TypeOK'
  BY <1>1 DEF WorkRows, W!TypeOK
<1>3. row.of \in Works /\ row.n \in Nat /\ row.of # "none" /\ subtasks[u].of = "none"
  BY DeliveryAssumption DEF W!SubtaskRow, W!Stored, W!NoRow
<1>4. \A r \in Subtasks : W!Stored(subtasks, r) =>
         /\ r # u /\ W!Stored(subtasks', r) /\ subtasks'[r] = subtasks[r]
         /\ subtasks[r].of \in Works /\ subtasks[r].n \in Nat
  BY <1>1, WorkTypes DEF WorkRows, W!Stored, W!SubtaskRow
<1>5. \A t \in Works : /\ SubtasksOf(t)' = IF t = row.of THEN SubtasksOf(t) \cup {u} ELSE SubtasksOf(t)
                       /\ u \notin SubtasksOf(t)
  BY <1>1, <1>3, DeliveryAssumption DEF SubtasksOf
<1>6. \A t : IsFiniteSet(SubtasksOf(t))
  BY FS_Subset, DeliveryAssumption DEF SubtasksOf
<1>7. \A t \in Works : /\ Cardinality(SubtasksOf(t)) \in Nat
                       /\ Cardinality(SubtasksOf(t)') = IF t = row.of THEN Cardinality(SubtasksOf(t)) + 1
                                                                    ELSE Cardinality(SubtasksOf(t))
  BY <1>5, <1>6, FS_AddElement, FS_CardinalityType
<1>8. \A r \in Subtasks : W!Stored(subtasks', r) => r = u \/ W!Stored(subtasks, r)
  BY <1>1 DEF W!Stored
<1>9. SubtasksNumbered'
  <2>1. ASSUME alone, NEW r \in Subtasks, W!Stored(subtasks', r)
        PROVE  subtasks'[r].n <= Cardinality({x \in Subtasks : subtasks'[x].of = subtasks'[r].of})
    <3> DEFINE peers(t) == {x \in Subtasks : subtasks'[x].of = t}
    <3>3. \A t : SubtasksOf(t)' = peers(t)
      BY DEF SubtasksOf
    <3> SUFFICES subtasks'[r].n <= Cardinality(peers(subtasks'[r].of))
      OBVIOUS
    <3> HIDE DEF peers
    <3>1. CASE r = u
      BY <1>1, <1>3, <1>7, <2>1, <3>1, <3>3
    <3>2. CASE r # u
      <4>1. W!Stored(subtasks, r) /\ subtasks'[r] = subtasks[r]
        BY <1>4, <1>8, <2>1, <3>2
      <4>2. subtasks[r].n <= Cardinality(SubtasksOf(subtasks[r].of))
        BY <2>1, <4>1 DEF WorkRows, SubtasksNumbered
      <4>3. subtasks[r].of \in Works /\ subtasks[r].n \in Nat
        BY <1>4, <4>1
      <4>4. Cardinality(SubtasksOf(subtasks[r].of)) <= Cardinality(peers(subtasks[r].of))
        BY <1>7, <3>3, <4>3
      <4>5. Cardinality(peers(subtasks[r].of)) \in Int /\ Cardinality(SubtasksOf(subtasks[r].of)) \in Int
        BY <1>7, <3>3, <4>3
      <4> QED
        BY <4>1, <4>2, <4>3, <4>4, <4>5
    <3> QED
      BY <3>1, <3>2
  <2> QED
    BY <2>1 DEF SubtasksNumbered, SubtasksOf, W!Stored
<1>10. W!SubtaskSlugsUnique'
  <2>1. ASSUME alone, NEW x \in Subtasks, NEW y \in Subtasks, x # y, W!Stored(subtasks', x),
               subtasks'[x].of = subtasks'[y].of
        PROVE  subtasks'[x].n # subtasks'[y].n
    <3>1. subtasks'[x].of \in Works
      BY <1>1, <1>3, <1>4, <1>8, <2>1
    <3>2. ASSUME NEW r \in Subtasks, r # u, subtasks'[r].of \in Works
          PROVE  W!Stored(subtasks, r) /\ subtasks'[r] = subtasks[r]
                 /\ (subtasks[r].of = row.of => subtasks[r].n < row.n)
      <4>1. W!Stored(subtasks, r) /\ subtasks'[r] = subtasks[r]
        BY <1>1, <3>2, DeliveryAssumption DEF W!Stored, W!NoRow
      <4>2. subtasks[r].n <= Cardinality(SubtasksOf(subtasks[r].of))
        BY <2>1, <4>1 DEF WorkRows, SubtasksNumbered
      <4> QED
        BY <1>3, <1>4, <1>7, <2>1, <4>1, <4>2
    <3>3. CASE x # u /\ y # u
      BY <2>1, <3>1, <3>2, <3>3 DEF WorkRows, W!SubtaskSlugsUnique
    <3>4. CASE x = u
      <4>1. subtasks[y].of = row.of /\ subtasks'[y] = subtasks[y] /\ subtasks[y].n < row.n /\ subtasks[y].n \in Nat
        BY <1>1, <1>3, <1>4, <2>1, <3>1, <3>2, <3>4
      <4> QED
        BY <1>1, <1>3, <3>4, <4>1
    <3>5. CASE y = u
      <4>1. subtasks[x].of = row.of /\ subtasks'[x] = subtasks[x] /\ subtasks[x].n < row.n /\ subtasks[x].n \in Nat
        BY <1>1, <1>3, <1>4, <2>1, <3>1, <3>2, <3>5
      <4> QED
        BY <1>1, <1>3, <3>5, <4>1
    <3> QED
      BY <3>3, <3>4, <3>5
  <2> QED
    BY <2>1 DEF W!SubtaskSlugsUnique, W!Stored
<1>11. W!TaskSlugsUnique' /\ \A r \in Works : W!Stored(works, r)' => W!Stored(projects', works'[r].of)
  BY DEF WorkRows, W!TaskSlugsUnique, W!Stored
<1> QED
  BY <1>2, <1>4, <1>9, <1>10, <1>11 DEF WorkRows, W!Stored

LEMMA OtherRowsKept ==
    ASSUME WorkRows, alone' = alone, UNCHANGED <<projects, works, subtasks>>, W!TypeOK'
    PROVE  WorkRows'
  BY DEF WorkRows, W!TaskSlugsUnique, W!SubtaskSlugsUnique, SubtasksNumbered, SubtasksOf, W!Stored

LEMMA TaskNumbered ==
    ASSUME WorkGoal, branch = "work", branch' = branch, NEW s \in Sessions, NEW t \in Works, W!CreateTaskCommit(s, t)
    PROVE  WorkDone
<1>1. PICK v : v = sess[s] /\ WorkHeld(v)
  BY DEF WorkGoal, WorkInv
<1>2. v.op = "slug"
  BY <1>1 DEF W!CreateTaskCommit
<1>3. PICK p \in Projects : v = [op |-> "slug", project |-> p, n |-> projects[p].counter + 1] /\ W!Stored(projects, p)
  BY <1>1, <1>2, WorkOps DEF TakesNumber
<1>4. Turns(s, Idle)
  BY <1>1, <1>2 DEF W!CreateTaskCommit, W!Finish, W!Go, W!Idle, Turns, Idle
<1>5. PICK n : n = projects[p].counter + 1
  OBVIOUS
<1>6. v.project = p /\ v.n = n
  BY <1>3, <1>5
<1>7. /\ projects' = [projects EXCEPT ![p].counter = n] /\ ~W!Stored(works, t)
      /\ works' = [works EXCEPT ![t] = [of |-> p, n |-> n, text |-> FALSE, live |-> TRUE]]
      /\ UNCHANGED <<subtasks, comments, members>>
  BY <1>1, <1>6 DEF W!CreateTaskCommit
<1>8. /\ WorkRows'
      /\ \A r \in Projects : W!Stored(projects, r) =>
            W!Stored(projects', r) /\ (r # p => projects'[r] = projects[r]) /\ projects'[r].status = projects[r].status
      /\ \A r \in Works : W!Stored(works, r) => works'[r] = works[r]
  BY <1>3, <1>4, <1>5, <1>7, TaskCreated DEF WorkGoal, WorkInv, Turns
<1>9. WorkKeeps
  BY <1>7, <1>8 DEF WorkKeeps, W!Stored
<1>10. WorkStays(s)
  BY <1>1, <1>2, <1>6, <1>7, <1>8 DEF WorkStays, W!Stored
<1> QED
  BY <1>4, <1>8, <1>9, <1>10, WorkWrites

LEMMA ProjectCommit ==
    ASSUME WorkGoal, branch = "work", branch' = branch, NEW s \in Sessions, Turns(s, Idle),
           UNCHANGED <<works, subtasks, comments, members>>,
           \/ W!Editing(s, "projects") /\ projects' = W!Edited(s, projects)
           \/ \E p \in Projects : W!Inserted(s, "projects", projects, p) /\ projects' = [projects EXCEPT ![p] = sess[s].new]
    PROVE  WorkDone
<1>1. PICK v : v = sess[s] /\ WorkHeld(v)
  BY DEF WorkGoal, WorkInv
<1>2. alone' = alone
  BY DEF Turns
<1>3. CASE W!Editing(s, "projects") /\ projects' = W!Edited(s, projects)
  <2>1. EditsProject(v)
    BY <1>1, <1>3, WorkOps DEF W!Editing
  <2>2. PICK p \in Projects, q \in W!ProjectRow, n \in W!ProjectRow :
          /\ v = [op |-> "edit", table |-> "projects", key |-> p, seen |-> q, new |-> n]
          /\ W!Stored(projects, p) /\ ProjectMove(q, n) /\ (alone => q = projects[p])
    BY <2>1 DEF EditsProject
  <2>3. PICK now \in W!ProjectRow : now = projects[p]
    BY <2>2, WorkTypes DEF WorkGoal, WorkInv, WorkRows
  <2>4. PICK row : row = W!Merge(now, q, n)
    OBVIOUS
  <2>5. projects' = [projects EXCEPT ![p] = row]
    BY <1>1, <1>3, <2>2, <2>3, <2>4 DEF W!Edited
  <2>6. /\ row \in W!ProjectRow /\ row.counter = now.counter
        /\ now = q /\ q.status \in {"COMPLETED", "TERMINATED"} => row.status \in {"COMPLETED", "TERMINATED"}
    BY <2>2, <2>4, ProjectMerge
  <2>7. WorkRows' /\ \A r \in Projects : W!Stored(projects, r) =>
                         W!Stored(projects', r) /\ projects'[r].counter = projects[r].counter
    BY <1>2, <2>3, <2>5, <2>6, ProjectRowsKept DEF WorkGoal, WorkInv
  <2>8. projects'[p] = row /\ \A r \in Projects : r # p => projects'[r] = projects[r]
    BY <2>5 DEF WorkGoal, WorkInv, WorkRows, W!TypeOK
  <2>9. WorkKeeps
    BY <2>2, <2>3, <2>6, <2>8 DEF WorkKeeps
  <2> QED
    BY <2>7, <2>9, WorkWrites DEF WorkStays, W!Stored
<1>4. ASSUME NEW p \in Projects, W!Inserted(s, "projects", projects, p), projects' = [projects EXCEPT ![p] = sess[s].new]
      PROVE  WorkDone
  <2>1. v = [op |-> "add", table |-> "projects", new |-> [status |-> "DRAFT", counter |-> 0]]
    BY <1>1, <1>4, WorkOps DEF W!Inserted, W!Adding, AddsProject
  <2>2. PICK row : row = [status |-> "DRAFT", counter |-> 0]
    OBVIOUS
  <2>3. row \in W!ProjectRow /\ projects' = [projects EXCEPT ![p] = row] /\ ~W!Stored(projects, p)
    BY <1>1, <1>4, <2>1, <2>2 DEF W!Inserted, W!ProjectRow
  <2>4. WorkRows' /\ \A r \in Projects : W!Stored(projects, r) =>
                         W!Stored(projects', r) /\ projects'[r].counter = projects[r].counter
    BY <1>2, <2>3, ProjectRowsKept DEF WorkGoal, WorkInv
  <2>5. \A r \in Projects : r # p => projects'[r] = projects[r]
    BY <2>3 DEF WorkGoal, WorkInv, WorkRows, W!TypeOK
  <2>6. WorkKeeps
    BY <2>3, <2>5 DEF WorkKeeps, W!Stored
  <2> QED
    BY <2>4, <2>6, WorkWrites DEF WorkStays, W!Stored
<1> QED
  BY <1>3, <1>4

LEMMA TaskCommit ==
    ASSUME WorkGoal, branch = "work", branch' = branch, NEW s \in Sessions, Turns(s, Idle),
           UNCHANGED <<projects, subtasks, comments, members>>,
           W!Editing(s, "tasks"), works' = W!Edited(s, works)
    PROVE  WorkDone
<1>1. PICK v : v = sess[s] /\ WorkHeld(v)
  BY DEF WorkGoal, WorkInv
<1>2. EditsTask(v)
  BY <1>1, WorkOps DEF W!Editing
<1>3. PICK t \in Works, q \in W!TaskRow, n \in W!TaskRow :
          /\ v = [op |-> "edit", table |-> "tasks", key |-> t, seen |-> q, new |-> n]
          /\ W!Stored(works, t) /\ TextMove(q, n)
  BY <1>2 DEF EditsTask
<1>4. PICK now \in W!TaskRow : now = works[t]
  BY <1>3, WorkTypes DEF WorkGoal, WorkInv, WorkRows
<1>5. PICK text \in BOOLEAN, live \in BOOLEAN :
         /\ W!Merge(now, q, n) = [of |-> now.of, n |-> now.n, text |-> text, live |-> live]
         /\ live => now.live
  BY <1>3, TextMerge DEF W!TaskRow
<1>6. works' = [works EXCEPT ![t] = [of |-> works[t].of, n |-> works[t].n, text |-> text, live |-> live]]
  <2>1. works' = [works EXCEPT ![t] = W!Merge(works[t], q, n)]
    BY <1>1, <1>3 DEF W!Edited
  <2> QED
    BY <1>4, <1>5, <2>1
<1>7. WorkRows' /\ (\A r \in Works : W!Stored(works, r) => W!Stored(works', r))
      /\ works'[t].live = live /\ (\A r \in Works : r # t => works'[r] = works[r])
  BY <1>3, <1>6, TaskRowsKept DEF WorkGoal, WorkInv, Turns
<1>8. WorkKeeps
  BY <1>4, <1>5, <1>7 DEF WorkKeeps
<1> QED
  BY <1>7, <1>8, WorkWrites DEF WorkStays, W!Stored

LEMMA SubtaskCommit ==
    ASSUME WorkGoal, branch = "work", branch' = branch, NEW s \in Sessions, Turns(s, Idle),
           UNCHANGED <<projects, works, comments, members>>,
           \/ W!Editing(s, "subtasks") /\ subtasks' = W!Edited(s, subtasks)
           \/ \E u \in Subtasks : W!Inserted(s, "subtasks", subtasks, u) /\ subtasks' = [subtasks EXCEPT ![u] = sess[s].new]
    PROVE  WorkDone
<1>1. PICK v : v = sess[s] /\ WorkHeld(v)
  BY DEF WorkGoal, WorkInv
<1>2. alone' = alone
  BY DEF Turns
<1>3. CASE W!Editing(s, "subtasks") /\ subtasks' = W!Edited(s, subtasks)
  <2>1. EditsSubtask(v)
    BY <1>1, <1>3, WorkOps DEF W!Editing
  <2>2. PICK u \in Subtasks, q \in W!SubtaskRow, n \in W!SubtaskRow :
          /\ v = [op |-> "edit", table |-> "subtasks", key |-> u, seen |-> q, new |-> n]
          /\ W!Stored(subtasks, u) /\ TextMove(q, n)
    BY <2>1 DEF EditsSubtask
  <2>3. PICK now \in W!SubtaskRow : now = subtasks[u]
    BY <2>2, WorkTypes DEF WorkGoal, WorkInv, WorkRows
  <2>4. PICK text \in BOOLEAN, live \in BOOLEAN :
           /\ W!Merge(now, q, n) = [of |-> now.of, n |-> now.n, text |-> text, live |-> live]
           /\ live => now.live
    BY <2>2, TextMerge DEF W!SubtaskRow
  <2>5. subtasks' = [subtasks EXCEPT ![u] = [of |-> subtasks[u].of, n |-> subtasks[u].n, text |-> text, live |-> live]]
    <3>1. subtasks' = [subtasks EXCEPT ![u] = W!Merge(subtasks[u], q, n)]
      BY <1>1, <1>3, <2>2 DEF W!Edited
    <3> QED
      BY <2>3, <2>4, <3>1
  <2>6. WorkRows' /\ (\A r \in Subtasks : W!Stored(subtasks, r) => W!Stored(subtasks', r))
        /\ subtasks'[u].live = live /\ (\A r \in Subtasks : r # u => subtasks'[r] = subtasks[r])
    BY <1>2, <2>2, <2>5, SubtaskRowsKept DEF WorkGoal, WorkInv
  <2>7. WorkKeeps
    BY <2>3, <2>4, <2>6 DEF WorkKeeps
  <2> QED
    BY <2>6, <2>7, WorkWrites DEF WorkStays, W!Stored
<1>4. ASSUME NEW u \in Subtasks, W!Inserted(s, "subtasks", subtasks, u), subtasks' = [subtasks EXCEPT ![u] = sess[s].new]
      PROVE  WorkDone
  <2>1. PICK row \in W!SubtaskRow : /\ v = [op |-> "add", table |-> "subtasks", new |-> row]
                                    /\ alone => row.n = Cardinality(SubtasksOf(row.of)) + 1
    BY <1>1, <1>4, WorkOps DEF W!Inserted, W!Adding, AddsSubtask
  <2>2. subtasks' = [subtasks EXCEPT ![u] = row] /\ ~W!Stored(subtasks, u)
    BY <1>1, <1>4, <2>1 DEF W!Inserted
  <2>3. WorkRows' /\ \A r \in Subtasks : W!Stored(subtasks, r) => W!Stored(subtasks', r) /\ subtasks'[r] = subtasks[r]
    BY <1>2, <2>1, <2>2, SubtaskCreated DEF WorkGoal, WorkInv
  <2>4. WorkKeeps
    BY <2>3 DEF WorkKeeps, W!Stored
  <2> QED
    BY <2>3, <2>4, WorkWrites DEF WorkStays, W!Stored
<1> QED
  BY <1>3, <1>4

LEMMA CommentCommit ==
    ASSUME WorkGoal, branch = "work", branch' = branch, NEW s \in Sessions, Turns(s, Idle),
           UNCHANGED <<projects, works, subtasks, members>>,
           \/ W!Editing(s, "comments") /\ comments' = W!Edited(s, comments)
           \/ \E c \in Comments : W!Inserted(s, "comments", comments, c) /\ comments' = [comments EXCEPT ![c] = sess[s].new]
    PROVE  WorkDone
<1>1. PICK v : v = sess[s] /\ WorkHeld(v)
  BY DEF WorkGoal, WorkInv
<1>2. ASSUME NEW c \in Comments, NEW row \in W!CommentRow, comments' = [comments EXCEPT ![c] = row],
             W!Stored(comments, c) /\ row.live => comments[c].live
      PROVE  WorkDone
  <2>1. comments'[c] = row /\ (\A r \in Comments : r # c => comments'[r] = comments[r])
        /\ comments' \in [Comments -> W!CommentRow \cup {W!NoRow}]
    BY <1>2 DEF WorkGoal, WorkInv, WorkRows, W!TypeOK
  <2>2. row # W!NoRow
    BY DeliveryAssumption DEF W!CommentRow, W!NoRow
  <2>3. W!TypeOK'
    BY <2>1 DEF WorkGoal, WorkInv, WorkRows, W!TypeOK
  <2>4. WorkRows'
    BY <2>3, OtherRowsKept DEF WorkGoal, WorkInv, Turns
  <2>5. WorkKeeps
    BY <1>2, <2>1 DEF WorkKeeps
  <2>6. WorkStays(s)
    BY <2>1, <2>2 DEF WorkStays, W!Stored
  <2> QED
    BY <2>4, <2>5, <2>6, WorkWrites
<1>3. CASE W!Editing(s, "comments") /\ comments' = W!Edited(s, comments)
  <2>1. EditsComment(v)
    BY <1>1, <1>3, WorkOps DEF W!Editing
  <2>2. PICK c \in Comments, q \in W!CommentRow, n \in W!CommentRow :
          /\ v = [op |-> "edit", table |-> "comments", key |-> c, seen |-> q, new |-> n]
          /\ W!Stored(comments, c) /\ TextMove(q, n)
    BY <2>1 DEF EditsComment
  <2>3. PICK now \in W!CommentRow : now = comments[c]
    BY <2>2, WorkTypes DEF WorkGoal, WorkInv, WorkRows
  <2>4. PICK row \in W!CommentRow : row = W!Merge(now, q, n) /\ (row.live => now.live)
    <3>1. PICK text \in BOOLEAN, live \in BOOLEAN :
             /\ W!Merge(now, q, n) = [of |-> now.of, author |-> now.author, text |-> text, live |-> live]
             /\ live => now.live
      BY <2>2, CommentMerge
    <3> QED
      BY <3>1 DEF W!CommentRow
  <2>5. comments' = [comments EXCEPT ![c] = row]
    BY <1>1, <1>3, <2>2, <2>3, <2>4 DEF W!Edited
  <2> QED
    BY <1>2, <2>3, <2>4, <2>5
<1>4. ASSUME NEW c \in Comments, W!Inserted(s, "comments", comments, c), comments' = [comments EXCEPT ![c] = sess[s].new]
      PROVE  WorkDone
  <2>1. PICK row \in W!CommentRow : v = [op |-> "add", table |-> "comments", new |-> row]
    BY <1>1, <1>4, WorkOps DEF W!Inserted, W!Adding, AddsComment
  <2>2. comments' = [comments EXCEPT ![c] = row] /\ ~W!Stored(comments, c)
    BY <1>1, <1>4, <2>1 DEF W!Inserted
  <2> QED
    BY <1>2, <2>2
<1> QED
  BY <1>3, <1>4

LEMMA MemberCommit ==
    ASSUME WorkGoal, branch = "work", branch' = branch, NEW s \in Sessions, Turns(s, Idle),
           UNCHANGED <<projects, works, subtasks, comments>>,
           \/ sess[s].op = "join" /\ \E m \in Members :
                   members[m] = "none" /\ members' = [members EXCEPT ![m] = sess[s].project]
           \/ sess[s].op = "leave" /\ members' = [members EXCEPT ![sess[s].member] = "none"]
    PROVE  WorkDone
<1>1. PICK v : v = sess[s] /\ WorkHeld(v)
  BY DEF WorkGoal, WorkInv
<1>2. \E m \in Members, p \in Projects \cup {"none"} : members' = [members EXCEPT ![m] = p]
  <2>1. CASE v.op = "join"
    <3>1. PICK p \in Projects : v = [op |-> "join", project |-> p]
      BY <1>1, <2>1, WorkOps DEF Joins
    <3> QED
      BY <1>1, <3>1
  <2>2. CASE v.op = "leave"
    <3>1. PICK m \in Members : v = [op |-> "leave", member |-> m]
      BY <1>1, <2>2, WorkOps DEF Leaves
    <3> QED
      BY <1>1, <3>1
  <2> QED
    BY <1>1, <2>1, <2>2
<1>3. W!TypeOK'
  BY <1>2 DEF WorkGoal, WorkInv, WorkRows, W!TypeOK
<1>4. WorkRows'
  BY <1>3, OtherRowsKept DEF WorkGoal, WorkInv, Turns
<1>5. WorkKeeps
  BY DEF WorkKeeps, W!Stored
<1> QED
  BY <1>4, <1>5, WorkWrites DEF WorkStays, W!Stored

LEMMA WorkCommit ==
    ASSUME WorkGoal, branch = "work", branch' = branch, NEW s \in Sessions, W!Commit(s)
    PROVE  WorkDone
<1>1. Turns(s, Idle)
  <2>1. sess[s].op \in {"edit", "add", "join", "leave"}
    BY DEF W!Commit, W!Editing, W!Inserted, W!Adding
  <2>2. sess[s] # Idle
    BY <2>1 DEF Idle
  <2> QED
    BY <2>2 DEF W!Commit, W!Finish, W!Go, W!Idle, Turns, Idle
<1> QED
  BY <1>1, ProjectCommit, TaskCommit, SubtaskCommit, CommentCommit, MemberCommit DEF W!Commit

LEMMA TextEdits ==
    ASSUME WorkGoal, NEW n, NEW q
    PROVE  /\ \A t \in Works : q = works[t] /\ q.live /\ (n = W!Changed(q) \/ n = W!Deleted(q)) =>
                 EditsTask([op |-> "edit", table |-> "tasks", key |-> t, seen |-> q, new |-> n])
           /\ \A u \in Subtasks : q = subtasks[u] /\ q.live /\ (n = W!Changed(q) \/ n = W!Deleted(q)) =>
                 EditsSubtask([op |-> "edit", table |-> "subtasks", key |-> u, seen |-> q, new |-> n])
           /\ \A c \in Comments : q = comments[c] /\ q.live /\ (n = W!Changed(q) \/ n = W!Deleted(q)) =>
                 EditsComment([op |-> "edit", table |-> "comments", key |-> c, seen |-> q, new |-> n])
<1>1. q.live => q # W!NoRow
  BY DEF W!NoRow
<1>2. /\ \A t \in Works : q = works[t] /\ q.live => q \in W!TaskRow
      /\ \A u \in Subtasks : q = subtasks[u] /\ q.live => q \in W!SubtaskRow
      /\ \A c \in Comments : q = comments[c] /\ q.live => q \in W!CommentRow
  BY <1>1, WorkTypes DEF WorkGoal, WorkInv, WorkRows, W!Stored
<1>3. q \in W!TaskRow => W!Changed(q) \in W!TaskRow /\ W!Deleted(q) \in W!TaskRow
  BY DEF W!TaskRow, W!Changed, W!Deleted
<1>4. q \in W!SubtaskRow => W!Changed(q) \in W!SubtaskRow /\ W!Deleted(q) \in W!SubtaskRow
  BY DEF W!SubtaskRow, W!Changed, W!Deleted
<1>5. q \in W!CommentRow => W!Changed(q) \in W!CommentRow /\ W!Deleted(q) \in W!CommentRow
  BY DEF W!CommentRow, W!Changed, W!Deleted
<1> QED
  BY <1>1, <1>2, <1>3, <1>4, <1>5 DEF TextMove, EditsTask, EditsSubtask, EditsComment, W!Stored

LEMMA WorkRequest ==
    ASSUME WorkGoal, branch = "work", branch' = branch, NEW s \in Sessions, W!Request(s), UNCHANGED work
    PROVE  WorkDone
<1>1. ASSUME NEW w, W!Begin(s, w), WorkHeld(w),
             w.op = "slug" => \A t \in Sessions : t # s /\ sess[t].op = "slug" => sess[t].project # w.project
      PROVE  WorkDone
  <2>1. Turns(s, w)
    BY <1>1 DEF W!Begin, W!Go, W!Idle, Turns, Idle
  <2> QED
    BY <1>1, <2>1, WorkGoes
<1>2. CASE W!CreateProject(s)
  <2>1. PICK w : w = [op |-> "add", table |-> "projects", new |-> [status |-> "DRAFT", counter |-> 0]]
    OBVIOUS
  <2>2. W!Begin(s, w) /\ WorkHeld(w) /\ w.op = "add"
    BY <1>2, <2>1 DEF W!CreateProject, W!Add, WorkHeld, AddsProject
  <2> QED
    BY <1>1, <2>2
<1>3. ASSUME NEW p \in Projects, W!UpdateProject(s, p) \/ W!Activate(s, p) \/ \E st \in {"COMPLETED", "TERMINATED"} : W!Close(s, p, st)
      PROVE  WorkDone
  <2>1. PICK q : q = projects[p]
    OBVIOUS
  <2>2. PICK n : W!Edit(s, "projects", p, q, n) /\ ProjectMove(q, n) /\ W!Stored(projects, p)
    BY <1>3, <2>1 DEF W!UpdateProject, W!Activate, W!MayActivate, W!ChangeProject, W!Close, W!Stored, ProjectMove
  <2>3. PICK w : w = [op |-> "edit", table |-> "projects", key |-> p, seen |-> q, new |-> n]
    OBVIOUS
  <2>4. q \in W!ProjectRow
    BY <2>1, <2>2, WorkTypes DEF WorkGoal, WorkInv, WorkRows
  <2>5. EditsProject(w)
    <3>1. n \in W!ProjectRow
      BY <2>2, <2>4 DEF ProjectMove, W!ProjectRow
    <3> QED
      BY <2>1, <2>2, <2>3, <2>4, <3>1 DEF EditsProject
  <2>6. W!Begin(s, w) /\ w.op = "edit"
    BY <2>2, <2>3 DEF W!Edit
  <2> QED
    BY <1>1, <2>5, <2>6 DEF WorkHeld
<1>4. ASSUME NEW p \in Projects, W!AddMember(s, p)
      PROVE  WorkDone
  <2>1. PICK w : w = [op |-> "join", project |-> p]
    OBVIOUS
  <2>2. W!Begin(s, w) /\ Joins(w) /\ w.op = "join"
    BY <1>4, <2>1 DEF W!AddMember, Joins
  <2> QED
    BY <1>1, <2>2 DEF WorkHeld
<1>5. ASSUME NEW p \in Projects, W!CreateTask(s, p)
      PROVE  WorkDone
  <2>1. PICK w : w = [op |-> "slug", project |-> p, n |-> projects[p].counter + 1]
    OBVIOUS
  <2>2. W!Begin(s, w) /\ TakesNumber(w) /\ w.project = p
    BY <1>5, <2>1 DEF W!CreateTask, W!NextTaskNumber, TakesNumber
  <2>3. \A t \in Sessions : t # s /\ sess[t].op = "slug" => sess[t].project # w.project
    BY <1>5, <2>2 DEF W!CreateTask, W!Locked
  <2> QED
    BY <1>1, <2>2, <2>3 DEF WorkHeld
<1>6. ASSUME NEW m \in Members, W!RemoveMember(s, m)
      PROVE  WorkDone
  <2>1. PICK w : w = [op |-> "leave", member |-> m]
    OBVIOUS
  <2>2. W!Begin(s, w) /\ Leaves(w) /\ w.op = "leave"
    BY <1>6, <2>1 DEF W!RemoveMember, Leaves
  <2> QED
    BY <1>1, <2>2 DEF WorkHeld
<1>7. ASSUME NEW t \in Works, W!CreateSubtask(s, t)
      PROVE  WorkDone
  <2>1. PICK n : n = Cardinality(SubtasksOf(t)) + 1
    OBVIOUS
  <2>2. PICK row : row = [of |-> t, n |-> n, text |-> FALSE, live |-> TRUE]
    OBVIOUS
  <2>3. PICK w : w = [op |-> "add", table |-> "subtasks", new |-> row]
    OBVIOUS
  <2>4. n \in Nat
    BY <2>1, FS_Subset, FS_CardinalityType, DeliveryAssumption DEF SubtasksOf
  <2>5. row \in W!SubtaskRow /\ row.n = Cardinality(SubtasksOf(row.of)) + 1
    BY <2>1, <2>2, <2>4 DEF W!SubtaskRow
  <2>6. AddsSubtask(w)
    BY <2>3, <2>5 DEF AddsSubtask
  <2>7. W!NextSubtaskNumber(t) = n
    <3>1. W!Cardinality(SubtasksOf(t)) = Cardinality(SubtasksOf(t))
      BY DEF W!Cardinality, Cardinality
    <3> QED
      BY <2>1, <3>1 DEF W!NextSubtaskNumber, SubtasksOf
  <2>8. W!Add(s, "subtasks", row)
    <3> HIDE DEF SubtasksOf
    <3> QED
      BY <1>7, <2>2, <2>7 DEF W!CreateSubtask
  <2>9. W!Begin(s, w) /\ w.op = "add"
    BY <2>3, <2>8 DEF W!Add
  <2> QED
    BY <1>1, <2>6, <2>9 DEF WorkHeld
<1>8. ASSUME NEW t \in Works, W!UpdateTask(s, t) \/ W!DeleteTask(s, t)
      PROVE  WorkDone
  <2>1. PICK q : q = works[t] /\ q.live
    BY <1>8 DEF W!UpdateTask, W!DeleteTask, W!LiveTask
  <2>2. PICK n : W!Edit(s, "tasks", t, q, n) /\ (n = W!Changed(q) \/ n = W!Deleted(q))
    BY <1>8, <2>1 DEF W!UpdateTask, W!DeleteTask
  <2>3. PICK w : w = [op |-> "edit", table |-> "tasks", key |-> t, seen |-> q, new |-> n]
    OBVIOUS
  <2>4. EditsTask(w) /\ W!Begin(s, w) /\ w.op = "edit"
    BY <2>1, <2>2, <2>3, TextEdits DEF W!Edit
  <2> QED
    BY <1>1, <2>4 DEF WorkHeld
<1>9. ASSUME NEW u \in Subtasks, W!UpdateSubtask(s, u) \/ W!DeleteSubtask(s, u)
      PROVE  WorkDone
  <2>1. PICK q : q = subtasks[u] /\ q.live
    BY <1>9 DEF W!UpdateSubtask, W!DeleteSubtask, W!LiveSubtask
  <2>2. PICK n : W!Edit(s, "subtasks", u, q, n) /\ (n = W!Changed(q) \/ n = W!Deleted(q))
    BY <1>9, <2>1 DEF W!UpdateSubtask, W!DeleteSubtask
  <2>3. PICK w : w = [op |-> "edit", table |-> "subtasks", key |-> u, seen |-> q, new |-> n]
    OBVIOUS
  <2>4. EditsSubtask(w) /\ W!Begin(s, w) /\ w.op = "edit"
    BY <2>1, <2>2, <2>3, TextEdits DEF W!Edit
  <2> QED
    BY <1>1, <2>4 DEF WorkHeld
<1>10. ASSUME NEW c \in Comments, NEW user \in Writers,
              \/ W!UpdateComment(s, c, user) \/ W!DeleteComment(s, c, user)
              \/ W!UpdateSubtaskComment(s, c, user) \/ W!DeleteSubtaskComment(s, c, user)
       PROVE  WorkDone
  <2>1. PICK q : q = comments[c] /\ q.live
    BY <1>10 DEF W!UpdateComment, W!DeleteComment, W!UpdateSubtaskComment, W!DeleteSubtaskComment, W!MayChangeComment
  <2>2. PICK n : W!Edit(s, "comments", c, q, n) /\ (n = W!Changed(q) \/ n = W!Deleted(q))
    BY <1>10, <2>1 DEF W!UpdateComment, W!DeleteComment, W!UpdateSubtaskComment, W!DeleteSubtaskComment
  <2>3. PICK w : w = [op |-> "edit", table |-> "comments", key |-> c, seen |-> q, new |-> n]
    OBVIOUS
  <2>4. EditsComment(w) /\ W!Begin(s, w) /\ w.op = "edit"
    BY <2>1, <2>2, <2>3, TextEdits DEF W!Edit
  <2> QED
    BY <1>1, <2>4 DEF WorkHeld
<1>11. ASSUME NEW on \in Works \cup Subtasks, NEW user \in Writers, W!Add(s, "comments", W!NewComment(on, user))
       PROVE  WorkDone
  <2>1. PICK row : row = [of |-> on, author |-> user, text |-> FALSE, live |-> TRUE]
    OBVIOUS
  <2>2. row \in W!CommentRow
    BY <2>1 DEF W!CommentRow
  <2>3. PICK w : w = [op |-> "add", table |-> "comments", new |-> row]
    OBVIOUS
  <2>4. AddsComment(w) /\ W!Begin(s, w) /\ w.op = "add"
    BY <1>11, <2>1, <2>2, <2>3 DEF AddsComment, W!Add, W!NewComment
  <2> QED
    BY <1>1, <2>4 DEF WorkHeld
<1>12. ASSUME NEW user \in Writers, \/ \E t \in Works : W!CreateComment(s, t, user)
                                    \/ \E u \in Subtasks : W!CreateSubtaskComment(s, u, user)
       PROVE  WorkDone
  BY <1>11, <1>12 DEF W!CreateComment, W!CreateSubtaskComment
<1> QED
  BY <1>2, <1>3, <1>4, <1>5, <1>6, <1>7, <1>8, <1>9, <1>10, <1>12 DEF W!Request

LEMMA WorkStep ==
    ASSUME WorkGoal, branch = "work", branch' = branch, W!Next
    PROVE  WorkDone
<1>1. PICK s \in Sessions : W!Step(s)
  BY DEF W!Next
<1>2. CASE W!Request(s) /\ UNCHANGED work
  BY <1>2, WorkRequest
<1>3. CASE W!Abort(s) /\ UNCHANGED work
  <2>1. Turns(s, Idle)
    BY <1>3 DEF W!Abort, W!Finish, W!Go, W!Idle, Turns, Idle
  <2>2. WorkHeld(Idle) /\ Idle.op = "idle"
    BY DEF WorkHeld, Idle
  <2> QED
    BY <1>3, <2>1, <2>2, WorkGoes
<1>4. CASE W!Commit(s)
  BY <1>4, WorkCommit
<1>5. CASE \E t \in Works : W!CreateTaskCommit(s, t)
  BY <1>5, TaskNumbered
<1> QED
  BY <1>1, <1>2, <1>3, <1>4, <1>5 DEF W!Step, W!projectTables, work

LEMMA WorkQuiet ==
    ASSUME WorkInv, UNCHANGED <<branch, alone, work>>, branch = "work" => sess' = sess
    PROVE  WorkInv' /\ WorkKeeps
<1> USE DEF work
<1>1. WorkRows'
  BY DEF WorkInv, WorkRows, W!TypeOK, W!Stored, W!TaskSlugsUnique, W!SubtaskSlugsUnique,
         SubtasksNumbered, SubtasksOf
<1>2. ASSUME branch = "work", NEW t \in Sessions PROVE WorkHeld(sess[t])'
  <2>1. PICK v : v = sess[t] /\ v = sess'[t]
    BY <1>2
  <2>2. WorkHeld(v)
    BY <1>2, <2>1 DEF WorkInv
  <2>3. WorkHeld(v)'
    BY <2>2 DEF WorkHeld, AddsProject, AddsSubtask, AddsComment, EditsProject, EditsTask, EditsSubtask,
       EditsComment, TakesNumber, Joins, Leaves, SubtasksOf, W!Stored
  <2> QED
    BY <2>1, <2>3
<1>3. branch = "work" => LockedOnce'
  BY DEF WorkInv, LockedOnce
<1>4. WorkKeeps
  BY DEF WorkKeeps, W!Stored
<1> QED
  BY <1>1, <1>2, <1>3, <1>4 DEF WorkInv

-----------------------------------------------------------------------------
\* Phases, epics and invoices.
PhaseAgrees(row) == (row.done <=> row.status = "COMPLETED") /\ (row.progress = 100 => row.done)

AddsPhase(w) == w = [op |-> "add", table |-> "phases", new |-> B!NewPhase]
AddsEpic(w) == \E n \in B!EpicRow : w = [op |-> "add", table |-> "epics", new |-> n]
AddsInvoice(w) == \E n \in B!InvoiceRow : w = [op |-> "add", table |-> "invoices", new |-> n]
DeletesPhase(w) ==
    \E f \in Phases, q \in B!PhaseRow, n \in B!PhaseRow :
        /\ w = [op |-> "edit", table |-> "phases", key |-> f, seen |-> q, new |-> n]
        /\ n = [q EXCEPT !.live = FALSE]
        /\ phases[f] # B!NoRow /\ (alone => phases[f] = q)
EditsEpic(w) ==
    \E e \in Epics, q \in B!EpicRow, n \in B!EpicRow :
        /\ w = [op |-> "edit", table |-> "epics", key |-> e, seen |-> q, new |-> n]
        /\ epics[e] # B!NoRow
EditsInvoice(w) ==
    \E i \in Invoices, q \in B!InvoiceRow, n \in B!InvoiceRow :
        /\ w = [op |-> "edit", table |-> "invoices", key |-> i, seen |-> q, new |-> n]
        /\ n.notified = q.notified
        /\ invoices[i] # B!NoRow /\ (alone => invoices[i] = q)
UpdatesPhase(w) ==
    \E f \in Phases, q \in B!PhaseRow, n \in B!PhaseRow, c \in BOOLEAN :
        /\ w = [op |-> "phase", key |-> f, seen |-> q, new |-> n, complete |-> c]
        /\ PhaseAgrees(n) /\ (c => n.done)
        /\ phases[f] # B!NoRow /\ (alone => phases[f] = q)
\* The phase was committed, its invoices are not loaded yet.
HasCompleted(w) ==
    \E f \in Phases : w = [op |-> "completed", key |-> f] /\ (alone => phases[f].done)
Sends(w) ==
    \E d \in SUBSET Invoices, f \in Phases : \E seen \in [d -> B!InvoiceRow] :
        /\ w = [op |-> "send", seen |-> seen, new |-> [i \in d |-> B!Sent(seen[i])]]
        /\ \A i \in d : seen[i].phase = f /\ invoices[i] # B!NoRow
        /\ alone => phases[f].done /\ \A i \in d : invoices[i] = seen[i]
BillHeld(w) ==
    \/ w = Idle \/ AddsPhase(w) \/ AddsEpic(w) \/ AddsInvoice(w)
    \/ DeletesPhase(w) \/ EditsEpic(w) \/ EditsInvoice(w)
    \/ UpdatesPhase(w) \/ HasCompleted(w) \/ Sends(w)
BillRows == B!TypeOK /\ B!SignsAgree
BillInv == BillRows /\ (branch = "bills" => \A s \in Sessions : BillHeld(sess[s]))

\* What a step may never do.
BillKeeps ==
    /\ \A i \in Invoices : alone /\ invoices[i] # B!NoRow /\ ~invoices[i].notified /\ invoices'[i].notified
          => phases[invoices[i].phase].done
    /\ \A s \in Sessions, i \in Invoices : alone /\ sess[s].op = "send" /\ invoices[i] # B!NoRow
             /\ invoices[i].status \notin {"PENDING", "SENT"}
          => invoices'[i].status = invoices[i].status
BillGoal == InTurn /\ BillInv
BillDone == InTurn' /\ BillInv' /\ BillKeeps /\ alone' = alone

LEMMA BillTypes ==
    ASSUME B!TypeOK
    PROVE  /\ \A f \in Phases : phases[f] # B!NoRow <=> phases[f] \in B!PhaseRow
           /\ \A e \in Epics : epics[e] # B!NoRow <=> epics[e] \in B!EpicRow
           /\ \A i \in Invoices : invoices[i] # B!NoRow <=> invoices[i] \in B!InvoiceRow
<1>1. B!NoRow \notin B!PhaseRow
  BY DEF B!NoRow, B!PhaseRow
<1>2. B!NoRow \notin B!EpicRow
  BY DEF B!NoRow, B!EpicRow
<1>3. B!NoRow \notin B!InvoiceRow
  BY DEF B!NoRow, B!InvoiceRow
<1> QED
  BY <1>1, <1>2, <1>3 DEF B!TypeOK

LEMMA BillOps ==
    ASSUME NEW v, BillHeld(v)
    PROVE  /\ v.op = "phase" => UpdatesPhase(v)
           /\ v.op = "completed" => HasCompleted(v)
           /\ v.op = "send" => Sends(v)
           /\ v.op = "add" /\ v.table = "phases" => AddsPhase(v)
           /\ v.op = "add" /\ v.table = "epics" => AddsEpic(v)
           /\ v.op = "add" /\ v.table = "invoices" => AddsInvoice(v)
           /\ v.op = "edit" /\ v.table = "phases" => DeletesPhase(v)
           /\ v.op = "edit" /\ v.table = "epics" => EditsEpic(v)
           /\ v.op = "edit" /\ v.table = "invoices" => EditsInvoice(v)
<1>1. v = Idle => v.op = "idle"
  BY DEF Idle
<1>2. AddsPhase(v) => v.op = "add" /\ v.table = "phases"
  BY DEF AddsPhase
<1>3. AddsEpic(v) => v.op = "add" /\ v.table = "epics"
  BY DEF AddsEpic
<1>4. AddsInvoice(v) => v.op = "add" /\ v.table = "invoices"
  BY DEF AddsInvoice
<1>5. DeletesPhase(v) => v.op = "edit" /\ v.table = "phases"
  BY DEF DeletesPhase
<1>6. EditsEpic(v) => v.op = "edit" /\ v.table = "epics"
  BY DEF EditsEpic
<1>7. EditsInvoice(v) => v.op = "edit" /\ v.table = "invoices"
  BY DEF EditsInvoice
<1>8. (UpdatesPhase(v) => v.op = "phase") /\ (HasCompleted(v) => v.op = "completed") /\ (Sends(v) => v.op = "send")
  BY DEF UpdatesPhase, HasCompleted, Sends
<1> QED
  BY <1>1, <1>2, <1>3, <1>4, <1>5, <1>6, <1>7, <1>8 DEF BillHeld

LEMMA BillStarts ==
    ASSUME B!Init PROVE BillInv
<1>1. BillRows
  BY DEF B!Init, BillRows, B!TypeOK, B!SignsAgree, B!NoRow
<1>2. \A s \in Sessions : BillHeld(sess[s])
  BY DEF B!Init, B!AllIdle, B!Idle, Idle, BillHeld
<1> QED
  BY <1>1, <1>2 DEF BillInv

LEMMA PhaseMerge ==
    ASSUME NEW now \in B!PhaseRow, NEW q \in B!PhaseRow, NEW n \in B!PhaseRow
    PROVE  B!Merge(now, q, n) \in B!PhaseRow /\ (now = q => B!Merge(now, q, n) = n)
<1>1. DOMAIN now = {"status", "progress", "done", "live"}
  BY DEF B!PhaseRow
<1>2. B!Merge(now, q, n) = [status   |-> IF n.status = q.status THEN now.status ELSE n.status,
                            progress |-> IF n.progress = q.progress THEN now.progress ELSE n.progress,
                            done     |-> IF n.done = q.done THEN now.done ELSE n.done,
                            live     |-> IF n.live = q.live THEN now.live ELSE n.live]
  BY <1>1 DEF B!Merge
<1>3. n = [status |-> n.status, progress |-> n.progress, done |-> n.done, live |-> n.live]
  BY DEF B!PhaseRow
<1> QED
  BY <1>2, <1>3 DEF B!PhaseRow

LEMMA EpicMerge ==
    ASSUME NEW now \in B!EpicRow, NEW q \in B!EpicRow, NEW n \in B!EpicRow
    PROVE  B!Merge(now, q, n) \in B!EpicRow
<1>1. DOMAIN now = {"phase", "live"}
  BY DEF B!EpicRow
<1>2. B!Merge(now, q, n) = [phase |-> IF n.phase = q.phase THEN now.phase ELSE n.phase,
                            live  |-> IF n.live = q.live THEN now.live ELSE n.live]
  BY <1>1 DEF B!Merge
<1> QED
  BY <1>2 DEF B!EpicRow

LEMMA InvoiceMerge ==
    ASSUME NEW now \in B!InvoiceRow, NEW q \in B!InvoiceRow, NEW n \in B!InvoiceRow
    PROVE  B!Merge(now, q, n) \in B!InvoiceRow /\ (now = q => B!Merge(now, q, n) = n)
<1>1. DOMAIN now = {"phase", "status", "total", "paid", "notified", "live"}
  BY DEF B!InvoiceRow
<1>2. B!Merge(now, q, n) = [phase    |-> IF n.phase = q.phase THEN now.phase ELSE n.phase,
                            status   |-> IF n.status = q.status THEN now.status ELSE n.status,
                            total    |-> IF n.total = q.total THEN now.total ELSE n.total,
                            paid     |-> IF n.paid = q.paid THEN now.paid ELSE n.paid,
                            notified |-> IF n.notified = q.notified THEN now.notified ELSE n.notified,
                            live     |-> IF n.live = q.live THEN now.live ELSE n.live]
  BY <1>1 DEF B!Merge
<1>3. n = [phase |-> n.phase, status |-> n.status, total |-> n.total, paid |-> n.paid,
           notified |-> n.notified, live |-> n.live]
  BY DEF B!InvoiceRow
<1> QED
  BY <1>2, <1>3 DEF B!InvoiceRow

\* Nothing is stored: handler s goes on with w.
LEMMA BillGoes ==
    ASSUME BillGoal, branch = "bills", branch' = branch, UNCHANGED bills,
           NEW s \in Sessions, NEW w, Turns(s, w), BillHeld(w)
    PROVE  BillDone
<1> USE DEF bills, BillGoal
<1>1. BillRows'
  BY DEF BillInv, BillRows, B!TypeOK, B!SignsAgree, Turns
<1>2. ASSUME NEW t \in Sessions PROVE BillHeld(sess[t])'
  <2>1. PICK v : v = sess'[t]
    OBVIOUS
  <2>2. BillHeld(v)
    BY <2>1, TurnKeeps DEF BillInv
  <2>3. /\ AddsPhase(v) => AddsPhase(v)'
        /\ AddsEpic(v) => AddsEpic(v)'
        /\ AddsInvoice(v) => AddsInvoice(v)'
    BY DEF AddsPhase, AddsEpic, AddsInvoice
  <2>4. /\ DeletesPhase(v) => DeletesPhase(v)'
        /\ EditsEpic(v) => EditsEpic(v)'
        /\ EditsInvoice(v) => EditsInvoice(v)'
    BY DEF DeletesPhase, EditsEpic, EditsInvoice, Turns
  <2>5. UpdatesPhase(v) => UpdatesPhase(v)'
    BY DEF UpdatesPhase, Turns
  <2>6. HasCompleted(v) => HasCompleted(v)'
    BY DEF HasCompleted, Turns
  <2>7. Sends(v) => Sends(v)'
    <3>1. alone' = alone /\ phases' = phases /\ invoices' = invoices
      BY DEF Turns
    <3>2. ASSUME Sends(v) PROVE Sends(v)'
      <4>1. PICK d \in SUBSET Invoices, f \in Phases : \E seen \in [d -> B!InvoiceRow] :
              /\ v = [op |-> "send", seen |-> seen, new |-> [i \in d |-> B!Sent(seen[i])]]
              /\ \A i \in d : seen[i].phase = f /\ invoices[i] # B!NoRow
              /\ alone => phases[f].done /\ \A i \in d : invoices[i] = seen[i]
        BY <3>2 DEF Sends
      <4>2. PICK seen \in [d -> B!InvoiceRow] :
              /\ v = [op |-> "send", seen |-> seen, new |-> [i \in d |-> B!Sent(seen[i])]]
              /\ \A i \in d : seen[i].phase = f /\ invoices[i] # B!NoRow
              /\ alone => phases[f].done /\ \A i \in d : invoices[i] = seen[i]
        BY <4>1
      <4>3. /\ \A i \in d : seen[i].phase = f /\ invoices'[i] # B!NoRow
            /\ alone' => phases'[f].done /\ \A i \in d : invoices'[i] = seen[i]
        BY <3>1, <4>2
      <4> QED
        BY <4>2, <4>3, Zenon DEF Sends
    <3> QED
      BY <3>2
  <2>8. BillHeld(v)'
    BY <2>2, <2>3, <2>4, <2>5, <2>6, <2>7 DEF BillHeld
  <2> QED
    BY <2>1, <2>8
<1>3. BillKeeps
  BY DEF BillKeeps
<1> QED
  BY <1>1, <1>2, <1>3, TurnKeeps DEF BillInv, BillDone, Turns

\* Rows are stored, and handler s goes on with w.
BillStays ==
    /\ \A f \in Phases : phases[f] # B!NoRow => phases'[f] # B!NoRow
    /\ \A e \in Epics : epics[e] # B!NoRow => epics'[e] # B!NoRow
    /\ \A i \in Invoices : invoices[i] # B!NoRow => invoices'[i] # B!NoRow

LEMMA BillWrites ==
    ASSUME BillGoal, branch = "bills", branch' = branch, BillRows', BillKeeps, BillStays,
           NEW s \in Sessions, NEW w, Turns(s, w), BillHeld(w)'
    PROVE  BillDone
<1> USE DEF BillGoal
<1>1. ASSUME NEW t \in Sessions PROVE BillHeld(sess[t])'
  <2>1. PICK v : v = sess'[t]
    OBVIOUS
  <2>2. CASE v = Idle
    BY <2>1, <2>2 DEF BillHeld
  <2>3. CASE t = s
    BY <2>1, <2>3, TurnKeeps
  <2>4. CASE v # Idle /\ t # s
    <3>1. v = sess[t] /\ ~alone /\ BillHeld(v) /\ alone' = alone
      BY <2>1, <2>4, TurnKeeps DEF BillInv, Turns
    <3>2. /\ AddsPhase(v) => AddsPhase(v)'
          /\ AddsEpic(v) => AddsEpic(v)'
          /\ AddsInvoice(v) => AddsInvoice(v)'
      BY DEF AddsPhase, AddsEpic, AddsInvoice
    <3>3. (DeletesPhase(v) => DeletesPhase(v)') /\ (UpdatesPhase(v) => UpdatesPhase(v)')
      BY <3>1 DEF DeletesPhase, UpdatesPhase, BillStays
    <3>4. (EditsEpic(v) => EditsEpic(v)') /\ (EditsInvoice(v) => EditsInvoice(v)')
      BY <3>1 DEF EditsEpic, EditsInvoice, BillStays
    <3>5. HasCompleted(v) => HasCompleted(v)'
      <4>1. ~alone'
        BY <3>1
      <4> QED
        BY <4>1, Zenon DEF HasCompleted
    <3>7. Sends(v) => Sends(v)'
      <4>1. SUFFICES ASSUME Sends(v) PROVE Sends(v)'
        OBVIOUS
      <4>2. PICK d \in SUBSET Invoices, f \in Phases : \E seen \in [d -> B!InvoiceRow] :
               /\ v = [op |-> "send", seen |-> seen, new |-> [i \in d |-> B!Sent(seen[i])]]
               /\ \A i \in d : seen[i].phase = f /\ invoices[i] # B!NoRow
        BY <4>1 DEF Sends
      <4>3. \A i \in d : invoices'[i] # B!NoRow
        BY <4>2 DEF BillStays
      <4>4. ~alone'
        BY <3>1
      <4> QED
        BY <4>2, <4>3, <4>4, Zenon DEF Sends
    <3>6. BillHeld(v)'
      BY <2>4, <3>1, <3>2, <3>3, <3>4, <3>5, <3>7 DEF BillHeld
    <3> QED
      BY <2>1, <3>6
  <2> QED
    BY <2>2, <2>3, <2>4
<1> QED
  BY <1>1, TurnKeeps DEF BillInv, BillDone, Turns

LEMMA PhaseStored ==
    ASSUME BillRows, UNCHANGED <<alone, epics, invoices>>, NEW f \in Phases, NEW row \in B!PhaseRow,
           alone => PhaseAgrees(row), phases' = [phases EXCEPT ![f] = row]
    PROVE  BillRows' /\ BillKeeps /\ BillStays /\ phases'[f] = row
<1>1. phases' \in [Phases -> B!PhaseRow \cup {B!NoRow}] /\ phases'[f] = row
      /\ \A g \in Phases : g # f => phases'[g] = phases[g]
  BY DEF BillRows, B!TypeOK
<1>2. B!TypeOK'
  BY <1>1 DEF BillRows, B!TypeOK
<1>3. row # B!NoRow
  BY DEF B!PhaseRow, B!NoRow
<1>4. B!SignsAgree'
  BY <1>1 DEF BillRows, B!SignsAgree, PhaseAgrees
<1>5. BillStays
  BY <1>1, <1>3 DEF BillStays
<1>6. BillKeeps
  BY DEF BillKeeps
<1> QED
  BY <1>1, <1>2, <1>4, <1>5, <1>6 DEF BillRows

LEMMA EpicStored ==
    ASSUME BillRows, UNCHANGED <<alone, phases, invoices>>, NEW e \in Epics, NEW row \in B!EpicRow,
           epics' = [epics EXCEPT ![e] = row]
    PROVE  BillRows' /\ BillKeeps /\ BillStays
<1>1. B!TypeOK'
  BY DEF BillRows, B!TypeOK
<1>2. row # B!NoRow
  BY DEF B!EpicRow, B!NoRow
<1>3. BillStays
  BY <1>2 DEF BillStays, BillRows, B!TypeOK
<1>4. B!SignsAgree' /\ BillKeeps
  BY DEF BillKeeps, BillRows, B!SignsAgree
<1> QED
  BY <1>1, <1>3, <1>4 DEF BillRows

LEMMA InvoicesStored ==
    ASSUME BillRows, UNCHANGED <<alone, phases, epics>>,
           invoices' = [i \in Invoices |-> invoices'[i]],
           \A i \in Invoices : invoices'[i] = invoices[i] \/ invoices'[i] \in B!InvoiceRow
    PROVE  BillRows' /\ BillStays
<1>1. invoices' \in [Invoices -> B!InvoiceRow \cup {B!NoRow}]
  BY DEF BillRows, B!TypeOK
<1>2. B!TypeOK'
  BY <1>1 DEF BillRows, B!TypeOK
<1>3. B!NoRow \notin B!InvoiceRow
  BY DEF B!InvoiceRow, B!NoRow
<1> QED
  BY <1>2, <1>3 DEF BillRows, B!SignsAgree, BillStays

LEMMA PhaseCommit ==
    ASSUME BillGoal, branch = "bills", branch' = branch, NEW s \in Sessions, Turns(s, Idle),
           UNCHANGED <<epics, invoices>>,
           \/ B!Editing(s, "phases") /\ phases' = B!Edited(s, phases)
           \/ \E f \in Phases : B!Adding(s, "phases") /\ phases[f] = B!NoRow /\ phases' = [phases EXCEPT ![f] = sess[s].new]
    PROVE  BillDone
<1>1. PICK v : v = sess[s] /\ BillHeld(v)
  BY DEF BillGoal, BillInv
<1>2. BillHeld(Idle)'
  BY DEF BillHeld
<1>3. ASSUME NEW f \in Phases, NEW row \in B!PhaseRow, alone => PhaseAgrees(row), phases' = [phases EXCEPT ![f] = row]
      PROVE  BillDone
  BY <1>2, <1>3, PhaseStored, BillWrites DEF BillGoal, BillInv, Turns
<1>4. CASE B!Editing(s, "phases") /\ phases' = B!Edited(s, phases)
  <2>1. PICK f \in Phases, q \in B!PhaseRow, n \in B!PhaseRow :
           /\ v = [op |-> "edit", table |-> "phases", key |-> f, seen |-> q, new |-> n]
           /\ n = [q EXCEPT !.live = FALSE]
           /\ phases[f] # B!NoRow /\ (alone => phases[f] = q)
    <3>1. DeletesPhase(v)
      BY <1>1, <1>4, BillOps DEF B!Editing
    <3> QED
      BY <3>1 DEF DeletesPhase
  <2>2. PICK row : row = B!Merge(phases[f], q, n)
    OBVIOUS
  <2>3. phases[f] \in B!PhaseRow
    BY <2>1, BillTypes DEF BillGoal, BillInv, BillRows
  <2>4. row \in B!PhaseRow /\ (alone => row = n)
    BY <2>1, <2>2, <2>3, PhaseMerge
  <2>5. n.done = q.done /\ n.status = q.status /\ n.progress = q.progress
    BY <2>1 DEF B!PhaseRow
  <2>6. alone => PhaseAgrees(q)
    BY <2>1 DEF BillGoal, BillInv, BillRows, B!SignsAgree, PhaseAgrees
  <2>7. alone => PhaseAgrees(row)
    BY <2>4, <2>5, <2>6 DEF PhaseAgrees
  <2>8. phases' = [phases EXCEPT ![f] = row]
    BY <1>1, <1>4, <2>1, <2>2 DEF B!Edited
  <2> QED
    BY <1>3, <2>4, <2>7, <2>8
<1>5. ASSUME NEW f \in Phases, B!Adding(s, "phases"), phases' = [phases EXCEPT ![f] = sess[s].new]
      PROVE  BillDone
  <2>1. v = [op |-> "add", table |-> "phases", new |-> B!NewPhase]
    BY <1>1, <1>5, BillOps DEF B!Adding, AddsPhase
  <2>2. PICK row : row = B!NewPhase
    OBVIOUS
  <2>3. row \in B!PhaseRow /\ PhaseAgrees(row)
    BY <2>2 DEF B!NewPhase, B!PhaseRow, B!PhaseStatuses, B!Progress, PhaseAgrees
  <2>4. phases' = [phases EXCEPT ![f] = row]
    BY <1>1, <1>5, <2>1, <2>2
  <2> QED
    BY <1>3, <2>3, <2>4
<1> QED
  BY <1>4, <1>5

LEMMA EpicCommit ==
    ASSUME BillGoal, branch = "bills", branch' = branch, NEW s \in Sessions, Turns(s, Idle),
           UNCHANGED <<phases, invoices>>,
           \/ B!Editing(s, "epics") /\ epics' = B!Edited(s, epics)
           \/ \E e \in Epics : B!Adding(s, "epics") /\ epics[e] = B!NoRow /\ epics' = [epics EXCEPT ![e] = sess[s].new]
    PROVE  BillDone
<1>1. PICK v : v = sess[s] /\ BillHeld(v)
  BY DEF BillGoal, BillInv
<1>2. BillHeld(Idle)'
  BY DEF BillHeld
<1>3. ASSUME NEW e \in Epics, NEW row \in B!EpicRow, epics' = [epics EXCEPT ![e] = row]
      PROVE  BillDone
  BY <1>2, <1>3, EpicStored, BillWrites DEF BillGoal, BillInv, Turns
<1>4. CASE B!Editing(s, "epics") /\ epics' = B!Edited(s, epics)
  <2>1. PICK e \in Epics, q \in B!EpicRow, n \in B!EpicRow :
           /\ v = [op |-> "edit", table |-> "epics", key |-> e, seen |-> q, new |-> n]
           /\ epics[e] # B!NoRow
    <3>1. EditsEpic(v)
      BY <1>1, <1>4, BillOps DEF B!Editing
    <3> QED
      BY <3>1 DEF EditsEpic
  <2>2. PICK row : row = B!Merge(epics[e], q, n)
    OBVIOUS
  <2>3. epics[e] \in B!EpicRow
    BY <2>1, BillTypes DEF BillGoal, BillInv, BillRows
  <2>4. row \in B!EpicRow
    BY <2>1, <2>2, <2>3, EpicMerge
  <2>5. epics' = [epics EXCEPT ![e] = row]
    BY <1>1, <1>4, <2>1, <2>2 DEF B!Edited
  <2> QED
    BY <1>3, <2>4, <2>5
<1>5. ASSUME NEW e \in Epics, B!Adding(s, "epics"), epics' = [epics EXCEPT ![e] = sess[s].new]
      PROVE  BillDone
  <2>1. PICK n \in B!EpicRow : v = [op |-> "add", table |-> "epics", new |-> n]
    BY <1>1, <1>5, BillOps DEF B!Adding, AddsEpic
  <2>2. epics' = [epics EXCEPT ![e] = n]
    BY <1>1, <1>5, <2>1
  <2> QED
    BY <1>3, <2>2
<1> QED
  BY <1>4, <1>5

LEMMA InvoiceCommit ==
    ASSUME BillGoal, branch = "bills", branch' = branch, NEW s \in Sessions, Turns(s, Idle),
           UNCHANGED <<phases, epics>>,
           \/ B!Editing(s, "invoices") /\ invoices' = B!Edited(s, invoices)
           \/ \E i \in Invoices : B!Adding(s, "invoices") /\ invoices[i] = B!NoRow /\ invoices' = [invoices EXCEPT ![i] = sess[s].new]
    PROVE  BillDone
<1>1. PICK v : v = sess[s] /\ BillHeld(v)
  BY DEF BillGoal, BillInv
<1>2. BillHeld(Idle)'
  BY DEF BillHeld
<1>3. ASSUME NEW i \in Invoices, NEW row \in B!InvoiceRow, invoices' = [invoices EXCEPT ![i] = row],
             alone /\ invoices[i] # B!NoRow => row.notified = invoices[i].notified,
             v.op # "send"
      PROVE  BillDone
  <2>1. invoices' = [k \in Invoices |-> invoices'[k]] /\ invoices'[i] = row /\ \A k \in Invoices : k # i => invoices'[k] = invoices[k]
    BY <1>3 DEF BillGoal, BillInv, BillRows, B!TypeOK
  <2>2. BillRows' /\ BillStays
    BY <2>1, InvoicesStored DEF BillGoal, BillInv, Turns
  <2>3. \A t \in Sessions : alone => sess[t].op # "send"
    <3>1. \A t \in Sessions : alone => t = s \/ sess[t] = Idle
      BY TurnKeeps DEF BillGoal
    <3>2. Idle.op # "send"
      BY DEF Idle
    <3> QED
      BY <1>1, <1>3, <3>1, <3>2
  <2>4. BillKeeps
    BY <1>3, <2>1, <2>3 DEF BillKeeps
  <2> QED
    BY <1>2, <2>2, <2>4, BillWrites
<1>4. CASE B!Editing(s, "invoices") /\ invoices' = B!Edited(s, invoices)
  <2>1. PICK i \in Invoices, q \in B!InvoiceRow, n \in B!InvoiceRow :
           /\ v = [op |-> "edit", table |-> "invoices", key |-> i, seen |-> q, new |-> n]
           /\ n.notified = q.notified
           /\ invoices[i] # B!NoRow /\ (alone => invoices[i] = q)
    <3>1. EditsInvoice(v)
      BY <1>1, <1>4, BillOps DEF B!Editing
    <3> QED
      BY <3>1 DEF EditsInvoice
  <2>2. PICK row : row = B!Merge(invoices[i], q, n)
    OBVIOUS
  <2>3. invoices[i] \in B!InvoiceRow
    BY <2>1, BillTypes DEF BillGoal, BillInv, BillRows
  <2>4. row \in B!InvoiceRow /\ (alone => row = n)
    BY <2>1, <2>2, <2>3, InvoiceMerge
  <2>5. invoices' = [invoices EXCEPT ![i] = row] /\ v.op # "send"
    BY <1>1, <1>4, <2>1, <2>2 DEF B!Edited
  <2> QED
    BY <1>3, <2>1, <2>4, <2>5
<1>5. ASSUME NEW i \in Invoices, B!Adding(s, "invoices"), invoices[i] = B!NoRow, invoices' = [invoices EXCEPT ![i] = sess[s].new]
      PROVE  BillDone
  <2>1. PICK n \in B!InvoiceRow : v = [op |-> "add", table |-> "invoices", new |-> n]
    BY <1>1, <1>5, BillOps DEF B!Adding, AddsInvoice
  <2>2. invoices' = [invoices EXCEPT ![i] = n] /\ v.op # "send"
    BY <1>1, <1>5, <2>1
  <2> QED
    BY <1>3, <1>5, <2>2
<1> QED
  BY <1>4, <1>5

LEMMA PhaseUpdated ==
    ASSUME BillGoal, branch = "bills", branch' = branch, NEW s \in Sessions, B!UpdatePhaseCommit(s)
    PROVE  BillDone
<1>1. PICK v : v = sess[s] /\ UpdatesPhase(v)
  BY BillOps DEF BillGoal, BillInv, B!UpdatePhaseCommit
<1>2. PICK f \in Phases, q \in B!PhaseRow, n \in B!PhaseRow, c \in BOOLEAN :
        /\ v = [op |-> "phase", key |-> f, seen |-> q, new |-> n, complete |-> c]
        /\ PhaseAgrees(n) /\ (c => n.done)
        /\ phases[f] # B!NoRow /\ (alone => phases[f] = q)
  BY <1>1 DEF UpdatesPhase
<1>3. PICK row : row = B!Merge(phases[f], q, n)
  OBVIOUS
<1>4. phases[f] \in B!PhaseRow
  BY <1>2, BillTypes DEF BillGoal, BillInv, BillRows
<1>5. row \in B!PhaseRow /\ (alone => row = n)
  BY <1>2, <1>3, <1>4, PhaseMerge
<1>6. phases' = [phases EXCEPT ![f] = row] /\ UNCHANGED <<epics, invoices>>
  BY <1>1, <1>2, <1>3 DEF B!UpdatePhaseCommit, B!Edited
<1>7. PICK w : w = IF c THEN [op |-> "completed", key |-> f] ELSE Idle
  OBVIOUS
<1>8. Turns(s, w)
  <2>1. sess[s] # Idle /\ v.complete = c /\ v.key = f
    BY <1>1, <1>2 DEF Idle
  <2>2. CASE c
    BY <1>1, <1>7, <2>1, <2>2 DEF B!UpdatePhaseCommit, B!Go, Turns
  <2>3. CASE ~c
    BY <1>1, <1>7, <2>1, <2>3 DEF B!UpdatePhaseCommit, B!Go, B!Finish, B!Idle, Idle, Turns
  <2> QED
    BY <2>2, <2>3
<1>9. BillRows' /\ BillKeeps /\ BillStays /\ phases'[f] = row
  BY <1>2, <1>5, <1>6, <1>8, PhaseStored DEF BillGoal, BillInv, Turns
<1>10. BillHeld(w)'
  <2>1. c /\ alone' => phases'[f].done
    BY <1>2, <1>5, <1>9, <1>8 DEF Turns
  <2> QED
    BY <1>7, <2>1 DEF BillHeld, HasCompleted
<1> QED
  BY <1>9, <1>10, <1>8, BillWrites

LEMMA SentRow ==
    ASSUME NEW i \in B!InvoiceRow
    PROVE  /\ B!Sent(i) \in B!InvoiceRow /\ B!Sent(i).phase = i.phase
           /\ i.status \notin {"PENDING", "SENT"} => B!Sent(i).status = i.status
  BY DEF B!Sent, B!InvoiceRow, B!InvoiceStatuses

LEMMA InvoicesLoaded ==
    ASSUME BillGoal, branch = "bills", branch' = branch, NEW s \in Sessions, B!Trigger(s)
    PROVE  BillDone
<1>1. PICK v : v = sess[s] /\ HasCompleted(v)
  BY BillOps DEF BillGoal, BillInv, B!Trigger
<1>2. PICK f \in Phases : v = [op |-> "completed", key |-> f] /\ (alone => phases[f].done)
  BY <1>1 DEF HasCompleted
<1>3. PICK d : d = B!Waiting(f)
  OBVIOUS
<1>4. PICK seen : seen = [i \in d |-> invoices[i]]
  OBVIOUS
<1>5. d \in SUBSET Invoices /\ \A i \in d : invoices[i] \in B!InvoiceRow /\ invoices[i] # B!NoRow /\ invoices[i].phase = f
  <2>1. ~B!NoRow.live
    BY DEF B!NoRow
  <2>2. \A i \in d : i \in Invoices /\ invoices[i].live /\ invoices[i].phase = f
    BY <1>3 DEF B!Waiting
  <2> QED
    BY <2>1, <2>2, BillTypes DEF BillGoal, BillInv, BillRows
<1>6. seen \in [d -> B!InvoiceRow] /\ \A i \in d : seen[i] = invoices[i]
  BY <1>4, <1>5
<1>7. PICK new : new = [i \in d |-> B!Sent(seen[i])]
  OBVIOUS
<1>8. new = [i \in d |-> B!Sent(invoices[i])]
  BY <1>6, <1>7
<1>9. PICK send : send = [op |-> "send", seen |-> seen, new |-> new]
  OBVIOUS
<1>10. Sends(send)
  <2>1. send = [op |-> "send", seen |-> seen, new |-> [i \in d |-> B!Sent(seen[i])]]
    BY <1>7, <1>9
  <2>2. \A i \in d : seen[i].phase = f /\ invoices[i] # B!NoRow
    BY <1>5, <1>6
  <2>3. d \in SUBSET Invoices /\ seen \in [d -> B!InvoiceRow] /\ \A i \in d : invoices[i] = seen[i]
    BY <1>5, <1>6
  <2> QED
    BY <1>2, <1>6, <2>1, <2>2, <2>3, Zenon DEF Sends
<1>11. Turns(s, Idle) \/ Turns(s, send)
  <2>1. sess[s] # Idle /\ sess[s].key = f
    BY <1>1, <1>2 DEF Idle
  <2> QED
    BY <1>3, <1>4, <1>8, <1>9, <2>1 DEF B!Trigger, B!Go, B!Finish, B!Idle, Idle, Turns
<1>12. UNCHANGED bills
  BY DEF B!Trigger, B!billingTables, bills
<1>13. BillHeld(Idle)
  BY DEF BillHeld
<1> QED
  BY <1>10, <1>11, <1>12, <1>13, BillGoes DEF BillHeld

LEMMA InvoicesSent ==
    ASSUME BillGoal, branch = "bills", branch' = branch, NEW s \in Sessions, B!TriggerCommit(s)
    PROVE  BillDone
<1>1. PICK v : v = sess[s] /\ Sends(v)
  BY BillOps DEF BillGoal, BillInv, B!TriggerCommit
<1>2. PICK d \in SUBSET Invoices, f \in Phases : \E x \in [d -> B!InvoiceRow] :
        /\ v = [op |-> "send", seen |-> x, new |-> [i \in d |-> B!Sent(x[i])]]
        /\ \A i \in d : x[i].phase = f /\ invoices[i] # B!NoRow
        /\ alone => phases[f].done /\ \A i \in d : invoices[i] = x[i]
  BY <1>1 DEF Sends
<1>3. PICK seen \in [d -> B!InvoiceRow] :
        /\ v = [op |-> "send", seen |-> seen, new |-> [i \in d |-> B!Sent(seen[i])]]
        /\ \A i \in d : seen[i].phase = f /\ invoices[i] # B!NoRow
        /\ alone => phases[f].done /\ \A i \in d : invoices[i] = seen[i]
  BY <1>2
<1>4. Turns(s, Idle)
  BY <1>1, <1>3 DEF B!TriggerCommit, B!Go, B!Finish, B!Idle, Idle, Turns
<1>5. UNCHANGED <<phases, epics>>
  BY DEF B!TriggerCommit
<1>6. invoices' = [i \in Invoices |-> IF i \in d THEN B!Merge(invoices[i], seen[i], B!Sent(seen[i])) ELSE invoices[i]]
  <2>1. DOMAIN seen = d /\ v.seen = seen /\ v.new = [i \in d |-> B!Sent(seen[i])]
    BY <1>3
  <2>2. invoices' = [i \in Invoices |-> IF i \in DOMAIN v.seen THEN B!Merge(invoices[i], v.seen[i], v.new[i]) ELSE invoices[i]]
    BY <1>1 DEF B!TriggerCommit
  <2>3. \A i \in d : v.new[i] = B!Sent(seen[i])
    BY <2>1
  <2> QED
    BY <2>1, <2>2, <2>3
<1>7. \A i \in d : /\ invoices[i] \in B!InvoiceRow /\ seen[i] \in B!InvoiceRow /\ B!Sent(seen[i]) \in B!InvoiceRow
                   /\ invoices'[i] \in B!InvoiceRow
                   /\ alone => invoices'[i] = B!Sent(invoices[i])
  <2>1. \A i \in d : i \in Invoices /\ invoices[i] \in B!InvoiceRow /\ seen[i] \in B!InvoiceRow
    BY <1>3, BillTypes DEF BillGoal, BillInv, BillRows
  <2>2. \A i \in d : B!Sent(seen[i]) \in B!InvoiceRow
    BY <2>1, SentRow
  <2>3. \A i \in d : invoices'[i] = B!Merge(invoices[i], seen[i], B!Sent(seen[i]))
    BY <1>6
  <2> QED
    BY <1>3, <2>1, <2>2, <2>3, InvoiceMerge
<1>8. \A i \in Invoices : i \notin d => invoices'[i] = invoices[i]
  BY <1>6
<1>9. BillRows' /\ BillStays
  BY <1>4, <1>5, <1>6, <1>7, <1>8, InvoicesStored DEF BillGoal, BillInv, Turns
<1>10. \A i \in d : alone => invoices[i].phase = f /\ phases[f].done
  BY <1>3
<1>11. BillKeeps
  BY <1>7, <1>8, <1>10, SentRow DEF BillKeeps
<1>12. BillHeld(Idle)'
  BY DEF BillHeld
<1> QED
  BY <1>4, <1>9, <1>11, <1>12, BillWrites

\* What a payload makes of a phase, and of an invoice.
LEMMA PhaseSet ==
    ASSUME NEW q \in B!PhaseRow, NEW payload \in B!PhasePayloads, NEW set,
           set = [c \in DOMAIN q |-> IF c \in DOMAIN payload THEN payload[c] ELSE q[c]]
    PROVE  /\ B!Complete(set) \in BOOLEAN
           /\ B!Updated(set) \in B!PhaseRow /\ PhaseAgrees(B!Updated(set))
           /\ B!Complete(set) => B!Updated(set).done
<1>1. set \in B!PhaseRow
  <2>1. DOMAIN q = {"status", "progress", "done", "live"}
    BY DEF B!PhaseRow
  <2>2. PICK a \in B!PhaseStatuses, b \in B!Progress, d \in BOOLEAN :
          a = set["status"] /\ b = set["progress"] /\ d = set["done"]
    <3>1. CASE payload \in [status: PhaseInputs]
      BY <2>1, <3>1, DeliveryAssumption DEF B!PhaseRow
    <3>2. CASE payload \in [progress: B!Progress]
      BY <2>1, <3>2 DEF B!PhaseRow
    <3>3. CASE payload \in [done: BOOLEAN]
      BY <2>1, <3>3 DEF B!PhaseRow
    <3>4. CASE payload \in [status: PhaseInputs, progress: B!Progress, done: BOOLEAN]
      BY <2>1, <3>4, DeliveryAssumption DEF B!PhaseRow
    <3> QED
      BY <3>1, <3>2, <3>3, <3>4 DEF B!PhasePayloads
  <2>3. PICK l \in BOOLEAN : l = set["live"]
    <3>1. "live" \notin DOMAIN payload
      BY DEF B!PhasePayloads
    <3> QED
      BY <2>1, <3>1 DEF B!PhaseRow
  <2>4. set = [status |-> a, progress |-> b, done |-> d, live |-> l]
    <3>1. DOMAIN set = {"status", "progress", "done", "live"}
      BY <2>1
    <3>2. set = [c \in {"status", "progress", "done", "live"} |-> set[c]]
      BY <3>1
    <3> QED
      BY <2>2, <2>3, <3>2
  <2> QED
    BY <2>4 DEF B!PhaseRow
<1> QED
  BY <1>1 DEF B!Complete, B!Updated, B!PhaseRow, B!PhaseStatuses, B!Progress, PhaseAgrees

LEMMA InvoiceSet ==
    ASSUME NEW q \in B!InvoiceRow, NEW payload \in B!InvoicePayloads
    PROVE  B!Repaid(q, payload) \in B!InvoiceRow /\ B!Repaid(q, payload).notified = q.notified
<1>1. ASSUME NEW paid \in Amounts
      PROVE  B!Paid(q, paid) \in B!InvoiceRow /\ B!Paid(q, paid).notified = q.notified
  BY <1>1, DeliveryAssumption DEF B!Paid, B!InvoiceRow, B!InvoiceStatuses
<1>2. ASSUME NEW p \in B!InvoiceRow, NEW status \in InvoiceInputs
      PROVE  [p EXCEPT !.status = status] \in B!InvoiceRow /\ [p EXCEPT !.status = status].notified = p.notified
  BY <1>2, DeliveryAssumption DEF B!InvoiceRow
<1>3. CASE payload \in [paid: Amounts]
  <2>1. DOMAIN payload = {"paid"} /\ payload.paid \in Amounts
    BY <1>3
  <2>2. B!Repaid(q, payload) = B!Paid(q, payload.paid)
    BY <2>1 DEF B!Repaid
  <2> QED
    BY <1>1, <2>1, <2>2
<1>4. CASE payload \in [status: InvoiceInputs]
  <2>1. DOMAIN payload = {"status"} /\ payload.status \in InvoiceInputs
    BY <1>4
  <2>2. B!Repaid(q, payload) = [q EXCEPT !.status = payload.status]
    BY <2>1 DEF B!Repaid
  <2> QED
    BY <1>2, <2>1, <2>2
<1>5. CASE payload \in [paid: Amounts, status: InvoiceInputs]
  <2>1. DOMAIN payload = {"paid", "status"} /\ payload.paid \in Amounts /\ payload.status \in InvoiceInputs
    BY <1>5
  <2>2. PICK p : p = B!Paid(q, payload.paid)
    OBVIOUS
  <2>3. B!Repaid(q, payload) = [p EXCEPT !.status = payload.status]
    BY <2>1, <2>2 DEF B!Repaid
  <2> QED
    BY <1>1, <1>2, <2>1, <2>2, <2>3
<1> QED
  BY <1>3, <1>4, <1>5 DEF B!InvoicePayloads

LEMMA BillRequest ==
    ASSUME BillGoal, branch = "bills", branch' = branch, NEW s \in Sessions, B!Request(s), UNCHANGED bills
    PROVE  BillDone
<1>1. ASSUME NEW w, B!Begin(s, w), BillHeld(w)
      PROVE  BillDone
  <2>1. Turns(s, w)
    BY <1>1 DEF B!Begin, B!Go, B!Idle, Turns, Idle
  <2> QED
    BY <1>1, <2>1, BillGoes
<1>2. CASE B!CreatePhase(s)
  <2>1. PICK w : w = [op |-> "add", table |-> "phases", new |-> B!NewPhase]
    OBVIOUS
  <2>2. B!Begin(s, w) /\ BillHeld(w)
    BY <1>2, <2>1 DEF B!CreatePhase, B!Add, BillHeld, AddsPhase
  <2> QED
    BY <1>1, <2>2
<1>3. ASSUME NEW f \in Phases, phases[f].live
      PROVE  phases[f] # B!NoRow /\ phases[f] \in B!PhaseRow
  BY <1>3, BillTypes DEF BillGoal, BillInv, BillRows, B!NoRow
<1>4. ASSUME NEW f \in Phases, B!DeletePhase(s, f)
      PROVE  BillDone
  <2>1. PICK q \in B!PhaseRow : q = phases[f] /\ phases[f] # B!NoRow
    BY <1>3, <1>4 DEF B!DeletePhase
  <2>2. PICK n \in B!PhaseRow : n = [q EXCEPT !.live = FALSE]
    BY DEF B!PhaseRow
  <2>3. PICK w : w = [op |-> "edit", table |-> "phases", key |-> f, seen |-> q, new |-> n]
    OBVIOUS
  <2>4. B!Begin(s, w)
    BY <1>4, <2>1, <2>2, <2>3 DEF B!DeletePhase, B!Edit
  <2>5. DeletesPhase(w)
    BY <2>1, <2>2, <2>3, Zenon DEF DeletesPhase
  <2> QED
    BY <1>1, <2>4, <2>5 DEF BillHeld
<1>5. ASSUME NEW f \in Phases, B!CreateEpic(s, f)
      PROVE  BillDone
  <2>1. PICK n \in B!EpicRow : n = [phase |-> f, live |-> TRUE]
    BY DEF B!EpicRow
  <2>2. PICK w : w = [op |-> "add", table |-> "epics", new |-> n]
    OBVIOUS
  <2>3. B!Begin(s, w) /\ AddsEpic(w)
    BY <1>5, <2>1, <2>2 DEF B!CreateEpic, B!Add, AddsEpic
  <2> QED
    BY <1>1, <2>3 DEF BillHeld
<1>6. ASSUME NEW f \in Phases, NEW payload \in B!PhasePayloads, B!UpdatePhase(s, f, payload)
      PROVE  BillDone
  <2>1. PICK q \in B!PhaseRow : q = phases[f] /\ phases[f] # B!NoRow
    BY <1>3, <1>6 DEF B!UpdatePhase
  <2>2. PICK set : set = [c \in DOMAIN q |-> IF c \in DOMAIN payload THEN payload[c] ELSE q[c]]
    OBVIOUS
  <2>3. PICK n \in B!PhaseRow, c \in BOOLEAN : n = B!Updated(set) /\ c = B!Complete(set) /\ PhaseAgrees(n) /\ (c => n.done)
    BY <2>2, PhaseSet
  <2>4. PICK w : w = [op |-> "phase", key |-> f, seen |-> q, new |-> n, complete |-> c]
    OBVIOUS
  <2>5. B!Begin(s, w)
    BY <1>6, <2>1, <2>2, <2>3, <2>4 DEF B!UpdatePhase
  <2>6. UpdatesPhase(w)
    BY <2>1, <2>3, <2>4, Zenon DEF UpdatesPhase
  <2> QED
    BY <1>1, <2>5, <2>6 DEF BillHeld
<1>7. ASSUME NEW f \in Phases, NEW total \in Totals, B!CreateInvoice(s, f, total)
      PROVE  BillDone
  <2>1. PICK n \in B!InvoiceRow : n = B!NewInvoice(f, total)
    <3>1. PICK n : n = [phase |-> f, status |-> "PENDING", total |-> total, paid |-> 0, notified |-> FALSE, live |-> TRUE]
      OBVIOUS
    <3>2. n \in B!InvoiceRow
      BY <3>1 DEF B!InvoiceRow, B!InvoiceStatuses
    <3> QED
      BY <3>1, <3>2 DEF B!NewInvoice
  <2>2. PICK w : w = [op |-> "add", table |-> "invoices", new |-> n]
    OBVIOUS
  <2>3. B!Begin(s, w) /\ AddsInvoice(w)
    BY <1>7, <2>1, <2>2 DEF B!CreateInvoice, B!Add, AddsInvoice
  <2> QED
    BY <1>1, <2>3 DEF BillHeld
<1>8. ASSUME NEW e \in Epics, B!UpdateEpic(s, e) \/ B!DeleteEpic(s, e)
      PROVE  BillDone
  <2>1. PICK q \in B!EpicRow : q = epics[e] /\ epics[e] # B!NoRow
    BY <1>8, BillTypes DEF B!UpdateEpic, B!DeleteEpic, BillGoal, BillInv, BillRows, B!NoRow
  <2>2. PICK n \in B!EpicRow : B!Edit(s, "epics", e, q, n)
    BY <1>8, <2>1 DEF B!UpdateEpic, B!DeleteEpic, B!EpicRow
  <2>3. PICK w : w = [op |-> "edit", table |-> "epics", key |-> e, seen |-> q, new |-> n]
    OBVIOUS
  <2>4. B!Begin(s, w) /\ EditsEpic(w)
    BY <2>1, <2>2, <2>3 DEF B!Edit, EditsEpic
  <2> QED
    BY <1>1, <2>4 DEF BillHeld
<1>9. ASSUME NEW i \in Invoices, (\E payload \in B!InvoicePayloads : B!UpdateInvoice(s, i, payload)) \/ B!DeleteInvoice(s, i)
      PROVE  BillDone
  <2>1. PICK q \in B!InvoiceRow : q = invoices[i] /\ invoices[i] # B!NoRow
    BY <1>9, BillTypes DEF B!UpdateInvoice, B!DeleteInvoice, BillGoal, BillInv, BillRows, B!NoRow
  <2>2. PICK n \in B!InvoiceRow : B!Edit(s, "invoices", i, q, n) /\ n.notified = q.notified
    <3>1. CASE B!DeleteInvoice(s, i)
      <4>1. PICK n : n = [q EXCEPT !.live = FALSE]
        OBVIOUS
      <4>2. n \in B!InvoiceRow /\ n.notified = q.notified
        BY <4>1 DEF B!InvoiceRow
      <4>3. B!Edit(s, "invoices", i, q, n)
        BY <2>1, <3>1, <4>1 DEF B!DeleteInvoice
      <4> QED
        BY <4>2, <4>3
    <3>2. ASSUME NEW payload \in B!InvoicePayloads, B!UpdateInvoice(s, i, payload)
          PROVE  B!Edit(s, "invoices", i, q, B!Repaid(q, payload))
      BY <2>1, <3>2 DEF B!UpdateInvoice
    <3> QED
      BY <1>9, <3>1, <3>2, InvoiceSet
  <2>3. PICK w : w = [op |-> "edit", table |-> "invoices", key |-> i, seen |-> q, new |-> n]
    OBVIOUS
  <2>4. B!Begin(s, w)
    BY <2>2, <2>3 DEF B!Edit
  <2>5. EditsInvoice(w)
    BY <2>1, <2>2, <2>3, Zenon DEF EditsInvoice
  <2> QED
    BY <1>1, <2>4, <2>5 DEF BillHeld
<1> QED
  BY <1>2, <1>4, <1>5, <1>6, <1>7, <1>8, <1>9 DEF B!Request

LEMMA BillStep ==
    ASSUME BillGoal, branch = "bills", branch' = branch, B!Next
    PROVE  BillDone
<1>1. PICK s \in Sessions : B!Step(s)
  BY DEF B!Next
<1>2. CASE B!Request(s) /\ UNCHANGED bills
  BY <1>2, BillRequest
<1>3. CASE B!Abort(s) /\ UNCHANGED bills
  <2>1. Turns(s, Idle) /\ BillHeld(Idle)
    BY <1>3 DEF B!Abort, B!Finish, B!Go, B!Idle, Turns, Idle, BillHeld
  <2> QED
    BY <1>3, <2>1, BillGoes
<1>4. CASE B!Commit(s)
  <2>1. Turns(s, Idle)
    <3>1. sess[s].op \in {"edit", "add"}
      BY <1>4 DEF B!Commit, B!Editing, B!Adding
    <3>2. sess[s] # Idle
      BY <3>1 DEF Idle
    <3> QED
      BY <1>4, <3>2 DEF B!Commit, B!Finish, B!Go, B!Idle, Turns, Idle
  <2> QED
    BY <1>4, <2>1, PhaseCommit, EpicCommit, InvoiceCommit DEF B!Commit
<1>5. CASE B!UpdatePhaseCommit(s) \/ B!Trigger(s) \/ B!TriggerCommit(s)
  BY <1>5, PhaseUpdated, InvoicesLoaded, InvoicesSent
<1> QED
  BY <1>1, <1>2, <1>3, <1>4, <1>5 DEF B!Step, B!billingTables, bills

LEMMA BillQuiet ==
    ASSUME BillInv, UNCHANGED <<branch, alone, bills>>, branch = "bills" => sess' = sess
    PROVE  BillInv' /\ BillKeeps
<1> USE DEF bills
<1>1. BillRows'
  BY DEF BillInv, BillRows, B!TypeOK, B!SignsAgree
<1>2. ASSUME branch = "bills", NEW t \in Sessions PROVE BillHeld(sess[t])'
  <2>1. PICK v : v = sess[t] /\ v = sess'[t]
    BY <1>2
  <2>2. BillHeld(v)
    BY <1>2, <2>1 DEF BillInv
  <2>3. BillHeld(v)'
    <3>1. /\ AddsPhase(v) => AddsPhase(v)'
          /\ AddsEpic(v) => AddsEpic(v)'
          /\ AddsInvoice(v) => AddsInvoice(v)'
      BY DEF AddsPhase, AddsEpic, AddsInvoice
    <3>2. (DeletesPhase(v) => DeletesPhase(v)') /\ (UpdatesPhase(v) => UpdatesPhase(v)')
      BY DEF DeletesPhase, UpdatesPhase
    <3>3. (EditsEpic(v) => EditsEpic(v)') /\ (EditsInvoice(v) => EditsInvoice(v)')
      BY DEF EditsEpic, EditsInvoice
    <3>4. (HasCompleted(v) => HasCompleted(v)') /\ (Sends(v) => Sends(v)')
      BY DEF HasCompleted, Sends
    <3> QED
      BY <2>2, <3>1, <3>2, <3>3, <3>4 DEF BillHeld
  <2> QED
    BY <2>1, <2>3
<1>3. BillKeeps
  BY DEF BillKeeps
<1> QED
  BY <1>1, <1>2, <1>3 DEF BillInv

-----------------------------------------------------------------------------
\* Placements, their amendments, letters and ratings.
MakesClient(w) == \E c \in ClientCodes : w = [op |-> "client", code |-> c]
Complains(w) == w = [op |-> "complain"]
Resolves(w) == \E c \in Complaints : w = [op |-> "resolve", key |-> c]
AddsPlacement(w) == \E n \in L!PlacementRow : w = [op |-> "add", table |-> "placements", new |-> n]
AddsKpi(w) ==
    \E n \in L!KpiRow : w = [op |-> "add", table |-> "kpis", new |-> n]
AddsLetter(w) ==
    \E n \in L!LetterRow : /\ w = [op |-> "add", table |-> "spos", new |-> n]
                           /\ alone => n.level \in L!NextLevels(n.placement)
EditsPlacement(w) ==
    \E p \in Placements, q \in L!PlacementRow, n \in L!PlacementRow :
        /\ w = [op |-> "edit", table |-> "placements", key |-> p, seen |-> q, new |-> n]
        /\ placements[p] # L!NoRow
EditsKpi(w) ==
    \E k \in Kpis, q \in L!KpiRow, n \in L!KpiRow :
        /\ w = [op |-> "edit", table |-> "kpis", key |-> k, seen |-> q, new |-> n]
        /\ kpis[k] # L!NoRow /\ ~q.expired /\ (alone => kpis[k].score = "none")
Renews(w) ==
    \E p \in Placements, q \in L!PlacementRow, n \in L!PlacementRow, a \in L!AmendmentRow :
        /\ w = [op |-> "renew", key |-> p, seen |-> q, new |-> n, amendment |-> a]
        /\ a.placement = p /\ placements[p] # L!NoRow
        /\ a.n >= 1 /\ a.n <= Cardinality(L!AmendmentsOf(p)) + 1
        /\ alone => a.oldEnd = placements[p].end /\ a.oldRate = L!Recorded(placements[p].rate)
PlaceHeld(w) ==
    \/ w = Idle \/ MakesClient(w) \/ Complains(w) \/ Resolves(w)
    \/ AddsPlacement(w) \/ AddsKpi(w) \/ AddsLetter(w)
    \/ EditsPlacement(w) \/ EditsKpi(w) \/ Renews(w)

\* No number of an amendment is left out.
NumbersGiven ==
    \A p \in Placements : \A k \in 1 .. Cardinality(L!AmendmentsOf(p)) :
        \E i \in L!AmendmentsOf(p) : amendments[i].n = k
PlaceRows ==
    /\ placements \in [Placements -> L!PlacementRow \cup {L!NoRow}]
    /\ kpis \in [Kpis -> L!KpiRow \cup {L!NoRow}]
    /\ complaints \in [Complaints -> {"none", "open", "resolved"}]
    /\ clients \subseteq ClientCodes
    /\ amendments \in Seq(L!AmendmentRow) /\ spos \in Seq(L!LetterRow)
    /\ L!AmendmentsNumbered /\ NumbersGiven
    /\ L!LevelsInOrder
PlaceInv == PlaceRows /\ (branch = "places" => \A s \in Sessions : PlaceHeld(sess[s]))

\* What a step may never do.
PlaceKeeps ==
    /\ \A k \in Kpis : kpis[k] # L!NoRow /\ kpis'[k].score # kpis[k].score =>
          /\ alone => kpis[k].score = "none"
          /\ \E s \in Sessions : L!Editing(s, "kpis") /\ sess[s].key = k /\ ~sess[s].seen.expired
    /\ alone /\ amendments' # amendments
       => LET a   == amendments'[Len(amendments')]
              old == placements[a.placement]
          IN a.oldEnd = old.end /\ (old.rate = 0 \/ a.oldRate = {old.rate})
PlaceGoal == InTurn /\ PlaceInv
PlaceDone == InTurn' /\ PlaceInv' /\ PlaceKeeps /\ alone' = alone

LEMMA PlaceCount == \A some : L!Cardinality(some) = Cardinality(some)
  BY DEF L!Cardinality, Cardinality

LEMMA PlaceTyped ==
    ASSUME PlaceRows
    PROVE  /\ L!TypeOK
           /\ \A p \in Placements : placements[p] # L!NoRow <=> placements[p] \in L!PlacementRow
           /\ \A k \in Kpis : kpis[k] # L!NoRow <=> kpis[k] \in L!KpiRow
<1>1. L!NoRow \notin L!PlacementRow
  BY DEF L!NoRow, L!PlacementRow
<1>2. L!NoRow \notin L!KpiRow
  BY DEF L!NoRow, L!KpiRow
<1>3. (\A i \in DOMAIN amendments : amendments[i] \in L!AmendmentRow) /\ \A i \in DOMAIN spos : spos[i] \in L!LetterRow
  BY DEF PlaceRows
<1> QED
  BY <1>1, <1>2, <1>3 DEF PlaceRows, L!TypeOK

LEMMA PlaceOps ==
    ASSUME NEW v, PlaceHeld(v)
    PROVE  /\ v.op = "client" => MakesClient(v)
           /\ v.op = "resolve" => Resolves(v)
           /\ v.op = "renew" => Renews(v)
           /\ v.op = "add" /\ v.table = "placements" => AddsPlacement(v)
           /\ v.op = "add" /\ v.table = "kpis" => AddsKpi(v)
           /\ v.op = "add" /\ v.table = "spos" => AddsLetter(v)
           /\ v.op = "edit" /\ v.table = "placements" => EditsPlacement(v)
           /\ v.op = "edit" /\ v.table = "kpis" => EditsKpi(v)
<1>1. v = Idle => v.op = "idle"
  BY DEF Idle
<1>2. (MakesClient(v) => v.op = "client") /\ (Complains(v) => v.op = "complain") /\ (Resolves(v) => v.op = "resolve")
  BY DEF MakesClient, Complains, Resolves
<1>3. AddsPlacement(v) => v.op = "add" /\ v.table = "placements"
  BY DEF AddsPlacement
<1>4. AddsKpi(v) => v.op = "add" /\ v.table = "kpis"
  BY DEF AddsKpi
<1>5. AddsLetter(v) => v.op = "add" /\ v.table = "spos"
  BY DEF AddsLetter
<1>6. EditsPlacement(v) => v.op = "edit" /\ v.table = "placements"
  BY DEF EditsPlacement
<1>7. EditsKpi(v) => v.op = "edit" /\ v.table = "kpis"
  BY DEF EditsKpi
<1>8. Renews(v) => v.op = "renew"
  BY DEF Renews
<1> QED
  BY <1>1, <1>2, <1>3, <1>4, <1>5, <1>6, <1>7, <1>8 DEF PlaceHeld

LEMMA PlaceStarts ==
    ASSUME L!Init PROVE PlaceInv
<1>1. amendments = << >> /\ spos = << >> /\ amendments \in Seq(L!AmendmentRow) /\ spos \in Seq(L!LetterRow)
      /\ DOMAIN amendments = {} /\ DOMAIN spos = {}
  BY DEF L!Init
<1>2. \A p : L!AmendmentsOf(p) = {} /\ L!LettersOf(p) = {}
  BY <1>1 DEF L!AmendmentsOf, L!LettersOf
<1>3. Cardinality({}) = 0
  BY FS_EmptySet
<1>4. NumbersGiven /\ L!AmendmentsNumbered /\ L!LevelsInOrder
  <2>1. NumbersGiven /\ L!AmendmentsNumbered
    BY <1>1, <1>2, <1>3 DEF NumbersGiven, L!AmendmentsNumbered
  <2>2. L!Cardinality({}) <= 3
    BY <1>3, PlaceCount
  <2>3. L!LevelsInOrder
    BY <1>2, <2>2 DEF L!LevelsInOrder
  <2> QED
    BY <2>1, <2>3
<1>5. PlaceRows
  BY <1>1, <1>4 DEF L!Init, PlaceRows
<1>6. \A s \in Sessions : PlaceHeld(sess[s])
  BY DEF L!Init, L!AllIdle, L!Idle, Idle, PlaceHeld
<1> QED
  BY <1>5, <1>6 DEF PlaceInv

LEMMA PlacementMerge ==
    ASSUME NEW now \in L!PlacementRow, NEW q \in L!PlacementRow, NEW n \in L!PlacementRow
    PROVE  L!Merge(now, q, n) \in L!PlacementRow
<1>1. DOMAIN now = {"end", "rate", "active", "live"}
  BY DEF L!PlacementRow
<1>2. L!Merge(now, q, n) = [end    |-> IF n.end = q.end THEN now.end ELSE n.end,
                            rate   |-> IF n.rate = q.rate THEN now.rate ELSE n.rate,
                            active |-> IF n.active = q.active THEN now.active ELSE n.active,
                            live   |-> IF n.live = q.live THEN now.live ELSE n.live]
  BY <1>1 DEF L!Merge
<1> QED
  BY <1>2 DEF L!PlacementRow

LEMMA KpiMerge ==
    ASSUME NEW now \in L!KpiRow, NEW q \in L!KpiRow, NEW n \in L!KpiRow
    PROVE  L!Merge(now, q, n) \in L!KpiRow
<1>1. DOMAIN now = {"placement", "score", "expired"}
  BY DEF L!KpiRow
<1>2. L!Merge(now, q, n) = [placement |-> IF n.placement = q.placement THEN now.placement ELSE n.placement,
                            score     |-> IF n.score = q.score THEN now.score ELSE n.score,
                            expired   |-> IF n.expired = q.expired THEN now.expired ELSE n.expired]
  BY <1>1 DEF L!Merge
<1> QED
  BY <1>2 DEF L!KpiRow

LEMMA PlaceRowsSame ==
    ASSUME PlaceRows, UNCHANGED <<alone, places>>
    PROVE  PlaceRows'
<1> USE DEF places
<1>1. /\ \A p : L!AmendmentsOf(p)' = L!AmendmentsOf(p)
      /\ \A p : L!LettersOf(p)' = L!LettersOf(p)
  BY DEF L!AmendmentsOf, L!LettersOf
<1>2. NumbersGiven' /\ L!AmendmentsNumbered'
  BY <1>1 DEF PlaceRows, NumbersGiven, L!AmendmentsNumbered
<1>3. L!LevelsInOrder'
  BY <1>1 DEF PlaceRows, L!LevelsInOrder
<1> QED
  BY <1>2, <1>3 DEF PlaceRows

\* Nothing is stored: handler s goes on with w.
LEMMA PlaceGoes ==
    ASSUME PlaceGoal, branch = "places", branch' = branch, UNCHANGED places,
           NEW s \in Sessions, NEW w, Turns(s, w), PlaceHeld(w)
    PROVE  PlaceDone
<1> USE DEF places, PlaceGoal
<1>1. PlaceRows'
  BY PlaceRowsSame DEF PlaceInv, Turns
<1>2. ASSUME NEW t \in Sessions PROVE PlaceHeld(sess[t])'
  <2>1. PICK v : v = sess'[t]
    OBVIOUS
  <2>2. PlaceHeld(v)
    BY <2>1, TurnKeeps DEF PlaceInv
  <2>3. alone' = alone
    BY DEF Turns
  <2>4. (MakesClient(v) => MakesClient(v)') /\ (Complains(v) => Complains(v)') /\ (Resolves(v) => Resolves(v)')
        /\ (AddsPlacement(v) => AddsPlacement(v)') /\ (AddsKpi(v) => AddsKpi(v)')
    BY DEF MakesClient, Complains, Resolves, AddsPlacement, AddsKpi
  <2>5. (EditsPlacement(v) => EditsPlacement(v)') /\ (EditsKpi(v) => EditsKpi(v)')
    BY <2>3 DEF EditsPlacement, EditsKpi
  <2>6. AddsLetter(v) => AddsLetter(v)'
    BY <2>3 DEF AddsLetter, L!NextLevels, L!LatestOf
  <2>7. Renews(v) => Renews(v)'
    BY <2>3 DEF Renews, L!AmendmentsOf
  <2>8. PlaceHeld(v)'
    BY <2>2, <2>4, <2>5, <2>6, <2>7 DEF PlaceHeld
  <2> QED
    BY <2>1, <2>8
<1>3. PlaceKeeps
  BY DEF PlaceKeeps
<1> QED
  BY <1>1, <1>2, <1>3, TurnKeeps DEF PlaceInv, PlaceDone, Turns

\* Rows are stored, and handler s is done.
PlaceStays ==
    /\ \A p \in Placements : placements[p] # L!NoRow => placements'[p] # L!NoRow
    /\ \A k \in Kpis : kpis[k] # L!NoRow => kpis'[k] # L!NoRow
    /\ \A p \in Placements : /\ Cardinality(L!AmendmentsOf(p)) \in Nat /\ Cardinality(L!AmendmentsOf(p)') \in Nat
                             /\ Cardinality(L!AmendmentsOf(p)) <= Cardinality(L!AmendmentsOf(p)')

LEMMA PlaceWrites ==
    ASSUME PlaceGoal, branch = "places", branch' = branch, PlaceRows', PlaceKeeps, PlaceStays,
           NEW s \in Sessions, Turns(s, Idle)
    PROVE  PlaceDone
<1> USE DEF PlaceGoal
<1>1. ASSUME NEW t \in Sessions PROVE PlaceHeld(sess[t])'
  <2>1. PICK v : v = sess'[t]
    OBVIOUS
  <2>2. CASE v = Idle
    BY <2>1, <2>2 DEF PlaceHeld
  <2>3. CASE v # Idle
    <3>1. v = sess[t] /\ ~alone /\ PlaceHeld(v) /\ alone' = alone
      BY <2>1, <2>3, TurnKeeps DEF PlaceInv, Turns
    <3>2. ~alone'
      BY <3>1
    <3>3. (MakesClient(v) => MakesClient(v)') /\ (Complains(v) => Complains(v)') /\ (Resolves(v) => Resolves(v)')
          /\ (AddsPlacement(v) => AddsPlacement(v)') /\ (AddsKpi(v) => AddsKpi(v)')
      BY DEF MakesClient, Complains, Resolves, AddsPlacement, AddsKpi
    <3>4. AddsLetter(v) => AddsLetter(v)'
      BY <3>2, Zenon DEF AddsLetter
    <3>5. (EditsPlacement(v) => EditsPlacement(v)') /\ (EditsKpi(v) => EditsKpi(v)')
      BY <3>2 DEF EditsPlacement, EditsKpi, PlaceStays
    <3>6. Renews(v) => Renews(v)'
      <4> SUFFICES ASSUME Renews(v) PROVE Renews(v)'
        OBVIOUS
      <4>1. PICK p \in Placements, q \in L!PlacementRow, n \in L!PlacementRow, a \in L!AmendmentRow :
               /\ v = [op |-> "renew", key |-> p, seen |-> q, new |-> n, amendment |-> a]
               /\ a.placement = p /\ placements[p] # L!NoRow
               /\ a.n >= 1 /\ a.n <= Cardinality(L!AmendmentsOf(p)) + 1
        BY DEF Renews
      <4>2. a.n \in Nat
        BY DEF L!AmendmentRow
      <4>3. placements'[p] # L!NoRow /\ a.n <= Cardinality(L!AmendmentsOf(p)') + 1
        BY <4>1, <4>2 DEF PlaceStays
      <4> QED
        BY <3>2, <4>1, <4>3, Zenon DEF Renews
    <3>7. PlaceHeld(v)'
      BY <3>1, <3>3, <3>4, <3>5, <3>6 DEF PlaceHeld
    <3> QED
      BY <2>1, <3>7
  <2> QED
    BY <2>2, <2>3
<1> QED
  BY <1>1, TurnKeeps DEF PlaceInv, PlaceDone, Turns

LEMMA PlaceCounts ==
    ASSUME NEW p
    PROVE  /\ amendments \in Seq(L!AmendmentRow) =>
                 /\ IsFiniteSet(L!AmendmentsOf(p)) /\ Cardinality(L!AmendmentsOf(p)) \in Nat
                 /\ L!AmendmentsOf(p) \subseteq 1 .. Len(amendments) /\ Len(amendments) \in Nat
           /\ spos \in Seq(L!LetterRow) =>
                 /\ IsFiniteSet(L!LettersOf(p)) /\ Cardinality(L!LettersOf(p)) \in Nat
                 /\ L!LettersOf(p) \subseteq 1 .. Len(spos) /\ Len(spos) \in Nat
<1>1. ASSUME NEW n \in Nat, NEW of, of \subseteq 1 .. n
      PROVE  IsFiniteSet(of) /\ Cardinality(of) \in Nat
  <2>1. IsFiniteSet(1 .. n)
    BY FS_Interval
  <2> QED
    BY <1>1, <2>1, FS_Subset, FS_CardinalityType
<1>2. ASSUME amendments \in Seq(L!AmendmentRow)
      PROVE  L!AmendmentsOf(p) \subseteq 1 .. Len(amendments) /\ Len(amendments) \in Nat
  BY <1>2 DEF L!AmendmentsOf
<1>3. ASSUME spos \in Seq(L!LetterRow)
      PROVE  L!LettersOf(p) \subseteq 1 .. Len(spos) /\ Len(spos) \in Nat
  BY <1>3 DEF L!LettersOf
<1> QED
  BY <1>1, <1>2, <1>3

\* What a step does that leaves amendments and letters alone.
LEMMA PlaceOthers ==
    ASSUME PlaceRows, UNCHANGED <<alone, amendments, spos>>,
           placements' \in [Placements -> L!PlacementRow \cup {L!NoRow}],
           kpis' \in [Kpis -> L!KpiRow \cup {L!NoRow}],
           complaints' \in [Complaints -> {"none", "open", "resolved"}],
           clients' \subseteq ClientCodes,
           \A p \in Placements : placements[p] # L!NoRow => placements'[p] # L!NoRow,
           \A k \in Kpis : kpis[k] # L!NoRow => kpis'[k] # L!NoRow
    PROVE  PlaceRows' /\ PlaceStays
<1>1. /\ \A p : L!AmendmentsOf(p)' = L!AmendmentsOf(p)
      /\ \A p : L!LettersOf(p)' = L!LettersOf(p)
  BY DEF L!AmendmentsOf, L!LettersOf
<1>2. NumbersGiven' /\ L!AmendmentsNumbered'
  BY <1>1 DEF PlaceRows, NumbersGiven, L!AmendmentsNumbered
<1>3. L!LevelsInOrder'
  BY <1>1 DEF PlaceRows, L!LevelsInOrder
<1>4. \A p : Cardinality(L!AmendmentsOf(p)) \in Nat
  BY PlaceCounts DEF PlaceRows
<1>5. PlaceStays
  BY <1>1, <1>4 DEF PlaceStays
<1> QED
  BY <1>2, <1>3, <1>5 DEF PlaceRows

LEMMA PlacementStored ==
    ASSUME PlaceGoal, branch = "places", branch' = branch, NEW s \in Sessions, Turns(s, Idle),
           UNCHANGED <<amendments, complaints, spos, kpis, clients>>,
           \/ L!Editing(s, "placements") /\ placements' = L!Edited(s, placements)
           \/ /\ L!Adding(s, "placements")
              /\ \E p \in Placements : placements[p] = L!NoRow /\ placements' = [placements EXCEPT ![p] = sess[s].new]
    PROVE  PlaceDone
<1>1. PICK v : v = sess[s] /\ PlaceHeld(v)
  BY DEF PlaceGoal, PlaceInv
<1>2. PICK p \in Placements, row \in L!PlacementRow : placements' = [placements EXCEPT ![p] = row]
  <2>1. CASE L!Editing(s, "placements") /\ placements' = L!Edited(s, placements)
    <3>1. PICK p \in Placements, q \in L!PlacementRow, n \in L!PlacementRow :
             /\ v = [op |-> "edit", table |-> "placements", key |-> p, seen |-> q, new |-> n]
             /\ placements[p] # L!NoRow
      <4>1. EditsPlacement(v)
        BY <1>1, <2>1, PlaceOps DEF L!Editing
      <4> QED
        BY <4>1 DEF EditsPlacement
    <3>2. PICK row : row = L!Merge(placements[p], q, n)
      OBVIOUS
    <3>3. row \in L!PlacementRow
      BY <3>1, <3>2, PlaceTyped, PlacementMerge DEF PlaceGoal, PlaceInv
    <3>4. placements' = [placements EXCEPT ![p] = row]
      BY <1>1, <2>1, <3>1, <3>2 DEF L!Edited
    <3> QED
      BY <3>3, <3>4
  <2>2. ASSUME L!Adding(s, "placements"), NEW p \in Placements, placements' = [placements EXCEPT ![p] = sess[s].new]
        PROVE  \E row \in L!PlacementRow : placements' = [placements EXCEPT ![p] = row]
    <3>1. PICK n \in L!PlacementRow : v = [op |-> "add", table |-> "placements", new |-> n]
      BY <1>1, <2>2, PlaceOps DEF L!Adding, AddsPlacement
    <3>2. placements' = [placements EXCEPT ![p] = n]
      BY <1>1, <2>2, <3>1
    <3> QED
      BY <3>2
  <2> QED
    BY <2>1, <2>2
<1>3. placements' \in [Placements -> L!PlacementRow \cup {L!NoRow}] /\ row # L!NoRow
      /\ \A r \in Placements : placements[r] # L!NoRow => placements'[r] # L!NoRow
  <2>1. placements \in [Placements -> L!PlacementRow \cup {L!NoRow}]
    BY DEF PlaceGoal, PlaceInv, PlaceRows
  <2>2. L!NoRow \notin L!PlacementRow
    BY DEF L!PlacementRow, L!NoRow
  <2> QED
    BY <1>2, <2>1, <2>2, RowStored
<1>4. PlaceRows' /\ PlaceStays
  BY <1>3, PlaceOthers DEF PlaceGoal, PlaceInv, PlaceRows, Turns
<1>5. PlaceKeeps
  BY DEF PlaceKeeps
<1> QED
  BY <1>4, <1>5, PlaceWrites

LEMMA KpiStored ==
    ASSUME PlaceGoal, branch = "places", branch' = branch, NEW s \in Sessions, Turns(s, Idle),
           UNCHANGED <<placements, amendments, complaints, spos, clients>>,
           \/ L!Editing(s, "kpis") /\ kpis' = L!Edited(s, kpis)
           \/ L!Adding(s, "kpis") /\ \E k \in Kpis : kpis[k] = L!NoRow /\ kpis' = [kpis EXCEPT ![k] = sess[s].new]
    PROVE  PlaceDone
<1>1. PICK v : v = sess[s] /\ PlaceHeld(v)
  BY DEF PlaceGoal, PlaceInv
<1>2. PICK k \in Kpis, row \in L!KpiRow : /\ kpis' = [kpis EXCEPT ![k] = row]
                                          /\ kpis[k] = L!NoRow \/
                                               /\ alone => kpis[k].score = "none"
                                               /\ L!Editing(s, "kpis") /\ sess[s].key = k /\ ~sess[s].seen.expired
  <2>1. CASE L!Editing(s, "kpis") /\ kpis' = L!Edited(s, kpis)
    <3>1. PICK k \in Kpis, q \in L!KpiRow, n \in L!KpiRow :
             /\ v = [op |-> "edit", table |-> "kpis", key |-> k, seen |-> q, new |-> n]
             /\ kpis[k] # L!NoRow /\ ~q.expired /\ (alone => kpis[k].score = "none")
      <4>1. EditsKpi(v)
        BY <1>1, <2>1, PlaceOps DEF L!Editing
      <4> QED
        BY <4>1 DEF EditsKpi
    <3>2. PICK row : row = L!Merge(kpis[k], q, n)
      OBVIOUS
    <3>3. row \in L!KpiRow
      BY <3>1, <3>2, PlaceTyped, KpiMerge DEF PlaceGoal, PlaceInv
    <3>4. kpis' = [kpis EXCEPT ![k] = row]
      BY <1>1, <2>1, <3>1, <3>2 DEF L!Edited
    <3>5. sess[s].key = k /\ ~sess[s].seen.expired
      BY <1>1, <3>1
    <3> QED
      BY <2>1, <3>1, <3>3, <3>4, <3>5
  <2>2. ASSUME L!Adding(s, "kpis"), NEW k \in Kpis, kpis[k] = L!NoRow, kpis' = [kpis EXCEPT ![k] = sess[s].new]
        PROVE  \E row \in L!KpiRow : kpis' = [kpis EXCEPT ![k] = row]
    <3>1. PICK n \in L!KpiRow : v = [op |-> "add", table |-> "kpis", new |-> n]
      BY <1>1, <2>2, PlaceOps DEF L!Adding, AddsKpi
    <3>2. kpis' = [kpis EXCEPT ![k] = n]
      BY <1>1, <2>2, <3>1
    <3> QED
      BY <3>2
  <2> QED
    BY <2>1, <2>2
<1>3. kpis' \in [Kpis -> L!KpiRow \cup {L!NoRow}] /\ row # L!NoRow
      /\ \A r \in Kpis : /\ kpis[r] # L!NoRow => kpis'[r] # L!NoRow
                         /\ r # k => kpis'[r] = kpis[r]
  <2>1. kpis \in [Kpis -> L!KpiRow \cup {L!NoRow}]
    BY DEF PlaceGoal, PlaceInv, PlaceRows
  <2>2. L!NoRow \notin L!KpiRow
    BY DEF L!KpiRow, L!NoRow
  <2> QED
    BY <1>2, <2>1, <2>2, RowStored
<1>4. PlaceRows' /\ PlaceStays
  BY <1>3, PlaceOthers DEF PlaceGoal, PlaceInv, PlaceRows, Turns
<1>5. PlaceKeeps
  BY <1>2, <1>3 DEF PlaceKeeps
<1> QED
  BY <1>4, <1>5, PlaceWrites

LEMMA ComplaintStored ==
    ASSUME PlaceGoal, branch = "places", branch' = branch, NEW s \in Sessions, Turns(s, Idle),
           UNCHANGED <<placements, amendments, spos, kpis, clients>>,
           \/ sess[s].op = "complain" /\ \E c \in Complaints : complaints[c] = "none" /\ complaints' = [complaints EXCEPT ![c] = "open"]
           \/ sess[s].op = "resolve" /\ complaints' = [complaints EXCEPT ![sess[s].key] = "resolved"]
    PROVE  PlaceDone
<1>1. complaints' \in [Complaints -> {"none", "open", "resolved"}]
  <2>1. complaints \in [Complaints -> {"none", "open", "resolved"}]
    BY DEF PlaceGoal, PlaceInv, PlaceRows
  <2>2. CASE complaints' = [complaints EXCEPT ![sess[s].key] = "resolved"]
    BY <2>1, <2>2
  <2>3. CASE \E c \in Complaints : complaints' = [complaints EXCEPT ![c] = "open"]
    BY <2>1, <2>3
  <2> QED
    BY <2>2, <2>3
<1>2. PlaceRows' /\ PlaceStays
  BY <1>1, PlaceOthers DEF PlaceGoal, PlaceInv, PlaceRows, Turns
<1>3. PlaceKeeps
  BY DEF PlaceKeeps
<1> QED
  BY <1>2, <1>3, PlaceWrites

LEMMA ClientStored ==
    ASSUME PlaceGoal, branch = "places", branch' = branch, NEW s \in Sessions, L!ClientCommit(s)
    PROVE  PlaceDone
<1>1. PICK v : v = sess[s] /\ MakesClient(v)
  BY PlaceOps DEF PlaceGoal, PlaceInv, L!ClientCommit
<1>2. PICK c \in ClientCodes : v = [op |-> "client", code |-> c]
  BY <1>1 DEF MakesClient
<1>3. Turns(s, Idle)
  BY <1>1, <1>2 DEF L!ClientCommit, L!Finish, L!Go, L!Idle, Idle, Turns
<1>4. PlaceRows' /\ PlaceStays
  BY <1>1, <1>2, <1>3, PlaceOthers DEF PlaceGoal, PlaceInv, PlaceRows, Turns, L!ClientCommit
<1>5. PlaceKeeps
  BY DEF PlaceKeeps, L!ClientCommit
<1> QED
  BY <1>3, <1>4, <1>5, PlaceWrites

\* The next amendment of a placement takes the next number.
LEMMA AmendmentNumbered ==
    ASSUME PlaceRows, NEW p \in Placements, NEW a \in L!AmendmentRow, a.placement = p,
           a.n >= 1, a.n <= Cardinality(L!AmendmentsOf(p)) + 1, ~L!NumberTaken(a),
           amendments' = Append(amendments, a)
    PROVE  /\ amendments' \in Seq(L!AmendmentRow) /\ amendments'[Len(amendments')] = a
           /\ NumbersGiven' /\ L!AmendmentsNumbered'
           /\ \A r \in Placements :
                 /\ Cardinality(L!AmendmentsOf(r)) \in Nat /\ Cardinality(L!AmendmentsOf(r)') \in Nat
                 /\ Cardinality(L!AmendmentsOf(r)) <= Cardinality(L!AmendmentsOf(r)')
<1> DEFINE l == Len(amendments)
           c == Cardinality(L!AmendmentsOf(p))
<1>1. /\ amendments \in Seq(L!AmendmentRow) /\ l \in Nat
      /\ amendments' \in Seq(L!AmendmentRow) /\ Len(amendments') = l + 1
      /\ DOMAIN amendments = 1 .. l /\ DOMAIN amendments' = 1 .. l + 1 /\ amendments'[l + 1] = a
      /\ \A i \in 1 .. l : amendments'[i] = amendments[i]
  BY DEF PlaceRows
<1>2. \A r : /\ IsFiniteSet(L!AmendmentsOf(r)) /\ Cardinality(L!AmendmentsOf(r)) \in Nat
             /\ L!AmendmentsOf(r) \subseteq 1 .. l
  BY <1>1, PlaceCounts
<1>3. \A r : L!AmendmentsOf(r)' = IF r = p THEN L!AmendmentsOf(r) \cup {l + 1} ELSE L!AmendmentsOf(r)
  BY <1>1 DEF L!AmendmentsOf
<1>4. l + 1 \notin L!AmendmentsOf(p)
  BY <1>1, <1>2
<1>5. Cardinality(L!AmendmentsOf(p) \cup {l + 1}) = c + 1
  BY <1>2, <1>4, FS_AddElement
<1>6. a.n = c + 1
  <2>1. a.n \in Nat /\ c \in Nat
    BY <1>2 DEF L!AmendmentRow
  <2>2. ~(a.n \in 1 .. c)
    BY DEF PlaceRows, NumbersGiven, L!NumberTaken, L!AmendmentsOf
  <2> QED
    BY <2>1, <2>2
<1>7. \A r : /\ r # p => Cardinality(L!AmendmentsOf(r)') = Cardinality(L!AmendmentsOf(r))
             /\ r = p => Cardinality(L!AmendmentsOf(r)') = c + 1
  BY <1>3, <1>5
<1>8. NumbersGiven'
  <2>1. ASSUME NEW r \in Placements, NEW k \in 1 .. Cardinality(L!AmendmentsOf(r)')
        PROVE  \E i \in L!AmendmentsOf(r)' : amendments'[i].n = k
    <3>1. CASE r = p /\ k = c + 1
      BY <1>1, <1>3, <1>6, <3>1
    <3>2. CASE ~(r = p /\ k = c + 1)
      <4>1. k \in 1 .. Cardinality(L!AmendmentsOf(r))
        BY <1>2, <1>7, <2>1, <3>2
      <4>2. PICK i \in L!AmendmentsOf(r) : amendments[i].n = k
        BY <4>1 DEF PlaceRows, NumbersGiven
      <4>3. i \in 1 .. l /\ i \in L!AmendmentsOf(r)'
        BY <1>2, <1>3
      <4> QED
        BY <1>1, <4>2, <4>3
    <3> QED
      BY <3>1, <3>2
  <2> QED
    BY <2>1 DEF NumbersGiven
<1>9. L!AmendmentsNumbered'
  <2> DEFINE of(r) == {j \in DOMAIN amendments' : amendments'[j].placement = r}
  <2>1. \A r : of(r) = L!AmendmentsOf(r)'
    BY DEF L!AmendmentsOf
  <2>2. ASSUME NEW i \in 1 .. l + 1, NEW r, r = amendments'[i].placement
        PROVE  amendments'[i].n = Cardinality(of(r) \cap 1 .. i)
    <3> HIDE DEF of
    <3>1. CASE i = l + 1
      <4>1. amendments'[i] = a /\ r = p
        BY <1>1, <2>2, <3>1
      <4>2. of(p) \cap 1 .. i = L!AmendmentsOf(p) \cup {l + 1}
        BY <1>1, <1>2, <1>3, <2>1, <3>1
      <4> QED
        BY <1>5, <1>6, <4>1, <4>2
    <3>2. CASE i # l + 1
      <4>1. i \in 1 .. l /\ amendments'[i] = amendments[i]
        BY <1>1, <3>2
      <4>2. of(r) \cap 1 .. i = L!AmendmentsOf(r) \cap 1 .. i
        BY <1>1, <1>3, <2>1, <4>1
      <4>3. amendments[i].n = L!Cardinality(L!AmendmentsOf(r) \cap 1 .. i)
        BY <1>1, <2>2, <4>1 DEF PlaceRows, L!AmendmentsNumbered
      <4> QED
        BY <4>1, <4>2, <4>3, PlaceCount
    <3> QED
      BY <3>1, <3>2
  <2>3. \A i \in DOMAIN amendments' : amendments'[i].n = L!Cardinality(of(amendments'[i].placement) \cap 1 .. i)
    <3> HIDE DEF of
    <3> QED
      BY <1>1, <2>2, PlaceCount
  <2> QED
    BY <2>3 DEF L!AmendmentsNumbered, L!AmendmentsOf
<1> QED
  BY <1>1, <1>2, <1>7, <1>8, <1>9

LEMMA RenewalStored ==
    ASSUME PlaceGoal, branch = "places", branch' = branch, NEW s \in Sessions, L!RenewCommit(s)
    PROVE  PlaceDone
<1>1. PICK v : v = sess[s] /\ Renews(v)
  BY PlaceOps DEF PlaceGoal, PlaceInv, L!RenewCommit
<1>2. PICK p \in Placements, q \in L!PlacementRow, n \in L!PlacementRow, a \in L!AmendmentRow :
        /\ v = [op |-> "renew", key |-> p, seen |-> q, new |-> n, amendment |-> a]
        /\ a.placement = p /\ placements[p] # L!NoRow
        /\ a.n >= 1 /\ a.n <= Cardinality(L!AmendmentsOf(p)) + 1
        /\ alone => a.oldEnd = placements[p].end /\ a.oldRate = L!Recorded(placements[p].rate)
  BY <1>1 DEF Renews
<1>3. Turns(s, Idle) /\ sess[s].amendment = a
  BY <1>1, <1>2 DEF L!RenewCommit, L!Finish, L!Go, L!Idle, Idle, Turns
<1>4. CASE L!NumberTaken(a)
  <2>1. UNCHANGED places
    BY <1>3, <1>4 DEF L!RenewCommit, places
  <2> QED
    BY <1>3, <2>1, PlaceGoes DEF PlaceHeld
<1>5. CASE ~L!NumberTaken(a)
  <2>1. PICK row : row = L!Merge(placements[p], q, n)
    OBVIOUS
  <2>2. row \in L!PlacementRow
    BY <1>2, <2>1, PlaceTyped, PlacementMerge DEF PlaceGoal, PlaceInv
  <2>3. /\ placements' = [placements EXCEPT ![p] = row] /\ amendments' = Append(amendments, a)
        /\ UNCHANGED <<complaints, spos, kpis, clients>>
    BY <1>1, <1>2, <1>3, <1>5, <2>1 DEF L!RenewCommit, L!Edited
  <2>4. placements' \in [Placements -> L!PlacementRow \cup {L!NoRow}]
        /\ \A r \in Placements : placements[r] # L!NoRow => placements'[r] # L!NoRow
    <3>1. placements \in [Placements -> L!PlacementRow \cup {L!NoRow}]
      BY DEF PlaceGoal, PlaceInv, PlaceRows
    <3>2. L!NoRow \notin L!PlacementRow
      BY DEF L!PlacementRow, L!NoRow
    <3> QED
      BY <2>2, <2>3, <3>1, <3>2, RowStored
  <2>5. /\ amendments' \in Seq(L!AmendmentRow) /\ amendments'[Len(amendments')] = a
        /\ NumbersGiven' /\ L!AmendmentsNumbered'
        /\ \A r \in Placements :
              /\ Cardinality(L!AmendmentsOf(r)) \in Nat /\ Cardinality(L!AmendmentsOf(r)') \in Nat
              /\ Cardinality(L!AmendmentsOf(r)) <= Cardinality(L!AmendmentsOf(r)')
    BY <1>2, <1>5, <2>3, AmendmentNumbered DEF PlaceGoal, PlaceInv
  <2>6. L!LevelsInOrder'
    <3>1. alone' = alone /\ \A r : L!LettersOf(r)' = L!LettersOf(r)
      BY <1>3, <2>3 DEF L!LettersOf, Turns
    <3> QED
      BY <2>3, <3>1 DEF PlaceGoal, PlaceInv, PlaceRows, L!LevelsInOrder
  <2>7. PlaceRows'
    BY <2>3, <2>4, <2>5, <2>6 DEF PlaceGoal, PlaceInv, PlaceRows
  <2>8. PlaceStays
    BY <2>3, <2>4, <2>5 DEF PlaceStays
  <2>9. PlaceKeeps
    <3>1. \A rate : rate = 0 \/ L!Recorded(rate) = {rate}
      BY DEF L!Recorded
    <3>2. PICK old : old = placements[p]
      OBVIOUS
    <3>3. alone => a.oldEnd = old.end /\ (old.rate = 0 \/ a.oldRate = {old.rate})
      BY <1>2, <3>1, <3>2
    <3> QED
      BY <1>2, <2>3, <2>5, <3>2, <3>3 DEF PlaceKeeps
  <2> QED
    BY <1>3, <2>7, <2>8, <2>9, PlaceWrites
<1> QED
  BY <1>4, <1>5

\* The letter after the latest has the level after the latest.
LEMMA NextLetter ==
    ASSUME PlaceRows, alone, NEW n \in L!LetterRow, n.level \in L!NextLevels(n.placement),
           \A i, j \in L!LettersOf(n.placement) : i < j => spos[i].date < spos[j].date
    PROVE  LET c == Cardinality(L!LettersOf(n.placement))
           IN c \in 0 .. 2 /\ n.level = L!Levels[c + 1]
<1> DEFINE p == n.placement
           of == L!LettersOf(p)
           c == Cardinality(of)
<1>1. /\ IsFiniteSet(of) /\ c \in Nat /\ of \subseteq 1 .. Len(spos) /\ Len(spos) \in Nat
      /\ \A i \in of : i \in DOMAIN spos /\ spos[i].placement = p /\ spos[i].date \in Int
  <2>1. spos \in Seq(L!LetterRow)
    BY DEF PlaceRows
  <2>2. \A i \in of : i \in DOMAIN spos /\ spos[i].placement = p
    BY DEF L!LettersOf
  <2>3. \A i \in DOMAIN spos : spos[i].date \in Int
    <3>1. \A i \in DOMAIN spos : spos[i] \in L!LetterRow
      BY <2>1
    <3>2. \A x \in L!LetterRow : x.date \in Int
      BY DeliveryAssumption DEF L!LetterRow
    <3> QED
      BY <3>1, <3>2
  <2> QED
    BY <2>1, <2>2, <2>3, PlaceCounts
<1>2. L!LatestOf(p) = {i \in of : \A j \in of : spos[j].date <= spos[i].date}
  BY DEF L!LatestOf, L!LettersOf
<1>3. p \in Placements
  BY DEF L!LetterRow
<1>4. c <= 3 /\ \A i \in of : spos[i].level = L!Levels[Cardinality(of \cap 1 .. i)]
  BY <1>3, PlaceCount DEF PlaceRows, L!LevelsInOrder
<1>5. L!Levels[1] = "SP-O1" /\ L!Levels[2] = "SP-O2" /\ L!Levels[3] = "SP-O3"
  BY DEF L!Levels
<1>6. CASE of = {}
  <2>1. c = 0
    BY <1>6, FS_EmptySet
  <2>2. L!LatestOf(p) = {}
    BY <1>2, <1>6
  <2>3. n.level = L!Levels[1]
    BY <2>2 DEF L!NextLevels
  <2> QED
    BY <2>1, <2>3
<1>7. CASE of # {}
  <2> DEFINE f == [i \in of |-> i]
  <2>1. PICK m \in of : \A j \in of : f[j] <= f[m]
    <3>1. \A j \in of : f[j] \in Int
      BY <1>1
    <3> HIDE DEF of, f
    <3> QED
      BY <1>1, <1>7, <3>1, Highest
  <2>2. \A j \in of : j <= m /\ j \in Int /\ j >= 1
    BY <1>1, <2>1
  <2>3. \A j \in of : j # m => spos[j].date < spos[m].date
    BY <2>1, <2>2
  <2>4. L!LatestOf(p) = {m}
    <3>1. \A j \in of : spos[j].date <= spos[m].date
      BY <1>1, <2>1, <2>3
    <3>2. \A j \in of : j # m => ~(spos[m].date <= spos[j].date)
      BY <1>1, <2>1, <2>3
    <3> HIDE DEF of
    <3> QED
      BY <1>2, <2>1, <3>1, <3>2
  <2>5. of \cap 1 .. m = of
    BY <2>2
  <2>6. spos[m].level = L!Levels[c]
    BY <1>4, <2>1, <2>5
  <2>7. c # 0
    <3> HIDE DEF of
    <3> QED
      BY <1>1, <1>7, FS_EmptySet
  <2>8. c \in 1 .. 3
    BY <1>1, <1>4, <2>7
  <2>9. PICK i \in {j \in 1 .. 2 : \E l \in L!LatestOf(p) : spos[l].level = L!Levels[j]} : n.level = L!Levels[i + 1]
    <3>1. L!LatestOf(p) # {}
      BY <2>4
    <3>2. n.level \in {L!Levels[i + 1] : i \in {j \in 1 .. 2 : \E l \in L!LatestOf(p) : spos[l].level = L!Levels[j]}}
      BY <3>1 DEF L!NextLevels
    <3> QED
      BY <3>2
  <2>10. i \in 1 .. 2 /\ L!Levels[c] = L!Levels[i]
    BY <2>4, <2>6, <2>9
  <2>11. i = c
    <3>1. CASE c = 1
      BY <1>5, <2>10, <3>1
    <3>2. CASE c = 2
      BY <1>5, <2>10, <3>2
    <3>3. CASE c = 3
      BY <1>5, <2>10, <3>3
    <3> QED
      BY <2>8, <3>1, <3>2, <3>3
  <2> QED
    BY <2>9, <2>10, <2>11
<1> QED
  BY <1>6, <1>7

LEMMA LevelsKept ==
    ASSUME PlaceRows, alone' = alone, NEW n \in L!LetterRow, alone => n.level \in L!NextLevels(n.placement),
           spos' = Append(spos, n)
    PROVE  spos' \in Seq(L!LetterRow) /\ L!LevelsInOrder'
<1> DEFINE l == Len(spos)
           of(r) == {i \in DOMAIN spos' : spos'[i].placement = r}
<1>1. /\ spos \in Seq(L!LetterRow) /\ l \in Nat
      /\ spos' \in Seq(L!LetterRow) /\ Len(spos') = l + 1
      /\ DOMAIN spos = 1 .. l /\ DOMAIN spos' = 1 .. l + 1 /\ spos'[l + 1] = n
      /\ \A i \in 1 .. l : spos'[i] = spos[i]
  BY DEF PlaceRows
<1>2. \A r : /\ IsFiniteSet(L!LettersOf(r)) /\ Cardinality(L!LettersOf(r)) \in Nat
             /\ L!LettersOf(r) \subseteq 1 .. l
  BY <1>1, PlaceCounts
<1>3. \A r : of(r) = IF r = n.placement THEN L!LettersOf(r) \cup {l + 1} ELSE L!LettersOf(r)
  BY <1>1 DEF L!LettersOf
<1>4. \A r : of(r) = L!LettersOf(r)'
  BY DEF L!LettersOf
<1> HIDE DEF of
<1>5. ASSUME alone, NEW p \in Placements, \A i, j \in of(p) : i < j => spos'[i].date < spos'[j].date
      PROVE  /\ L!Cardinality(of(p)) <= 3
             /\ \A i \in of(p) : spos'[i].level = L!Levels[L!Cardinality(of(p) \cap 1 .. i)]
  <2> DEFINE c == Cardinality(L!LettersOf(p))
  <2>1. \A i \in L!LettersOf(p) : i \in of(p) /\ i \in 1 .. l /\ spos'[i] = spos[i]
    BY <1>1, <1>2, <1>3
  <2>2. \A i, j \in L!LettersOf(p) : i < j => spos[i].date < spos[j].date
    BY <1>5, <2>1
  <2>3. c <= 3 /\ \A i \in L!LettersOf(p) : spos[i].level = L!Levels[Cardinality(L!LettersOf(p) \cap 1 .. i)]
    BY <1>5, <2>2, PlaceCount DEF PlaceRows, L!LevelsInOrder
  <2>4. CASE p # n.placement
    <3>1. of(p) = L!LettersOf(p)
      BY <1>3, <2>4
    <3> QED
      BY <2>1, <2>3, <3>1, PlaceCount
  <2>5. CASE p = n.placement
    <3>1. of(p) = L!LettersOf(p) \cup {l + 1} /\ l + 1 \notin L!LettersOf(p)
      BY <1>1, <1>2, <1>3, <2>5
    <3>2. c \in 0 .. 2 /\ n.level = L!Levels[c + 1]
      BY <1>5, <2>2, <2>5, NextLetter
    <3>3. Cardinality(of(p)) = c + 1
      BY <1>2, <3>1, FS_AddElement
    <3>4. ASSUME NEW i \in of(p) PROVE spos'[i].level = L!Levels[Cardinality(of(p) \cap 1 .. i)]
      <4>1. CASE i = l + 1
        <5>1. of(p) \cap 1 .. i = of(p)
          BY <1>1, <1>2, <3>1, <4>1
        <5> QED
          BY <1>1, <3>2, <3>3, <4>1, <5>1
      <4>2. CASE i # l + 1
        <5>1. i \in L!LettersOf(p) /\ i \in 1 .. l
          BY <1>2, <3>1, <3>4, <4>2
        <5>2. of(p) \cap 1 .. i = L!LettersOf(p) \cap 1 .. i
          BY <1>1, <3>1, <5>1
        <5> QED
          BY <2>1, <2>3, <5>1, <5>2
      <4> QED
        BY <4>1, <4>2
    <3>5. L!Cardinality(of(p)) <= 3
      BY <3>2, <3>3, PlaceCount
    <3> HIDE DEF c
    <3> QED
      BY <3>4, <3>5, PlaceCount
  <2> QED
    BY <2>4, <2>5
<1>6. alone' => \A p \in Placements :
        (\A i, j \in of(p) : i < j => spos'[i].date < spos'[j].date)
        => /\ L!Cardinality(of(p)) <= 3
           /\ \A i \in of(p) : spos'[i].level = L!Levels[L!Cardinality(of(p) \cap 1 .. i)]
  BY <1>5
<1>7. L!LevelsInOrder'
  BY <1>6, Zenon DEF L!LevelsInOrder, L!LettersOf, of
<1> QED
  BY <1>1, <1>7

LEMMA LetterStored ==
    ASSUME PlaceGoal, branch = "places", branch' = branch, NEW s \in Sessions, Turns(s, Idle),
           UNCHANGED <<placements, amendments, complaints, kpis, clients>>,
           L!Adding(s, "spos"), spos' = Append(spos, sess[s].new)
    PROVE  PlaceDone
<1>1. PICK v : v = sess[s] /\ AddsLetter(v)
  BY PlaceOps DEF PlaceGoal, PlaceInv, L!Adding
<1>2. PICK n \in L!LetterRow : /\ v = [op |-> "add", table |-> "spos", new |-> n]
                               /\ alone => n.level \in L!NextLevels(n.placement)
  BY <1>1 DEF AddsLetter
<1>3. spos' = Append(spos, n)
  BY <1>1, <1>2
<1>4. spos' \in Seq(L!LetterRow) /\ L!LevelsInOrder'
  BY <1>2, <1>3, LevelsKept DEF PlaceGoal, PlaceInv, Turns
<1>5. \A p : L!AmendmentsOf(p)' = L!AmendmentsOf(p)
  BY DEF L!AmendmentsOf
<1>6. NumbersGiven' /\ L!AmendmentsNumbered'
  BY <1>5 DEF PlaceGoal, PlaceInv, PlaceRows, NumbersGiven, L!AmendmentsNumbered
<1>7. PlaceRows'
  BY <1>4, <1>6 DEF PlaceGoal, PlaceInv, PlaceRows
<1>8. PlaceStays
  BY <1>5, PlaceCounts DEF PlaceStays, PlaceGoal, PlaceInv, PlaceRows
<1>9. PlaceKeeps
  BY DEF PlaceKeeps
<1> QED
  BY <1>7, <1>8, <1>9, PlaceWrites

\* The day passes on which a link expires.
LEMMA LinkExpires ==
    ASSUME PlaceGoal, branch = "places", branch' = branch, NEW k \in Kpis, L!Expire(k)
    PROVE  PlaceDone
<1>1. UNCHANGED <<placements, amendments, complaints, spos, clients, alone, sess>> /\ kpis[k] # L!NoRow
  BY DEF L!Expire, L!handlers
<1>2. PICK q \in L!KpiRow : q = kpis[k]
  BY <1>1, PlaceTyped DEF PlaceGoal, PlaceInv
<1>3. PICK row : row = [q EXCEPT !.expired = TRUE]
  OBVIOUS
<1>4. row \in L!KpiRow /\ row.score = q.score
  BY <1>2, <1>3 DEF L!KpiRow
<1>5. kpis' = [kpis EXCEPT ![k] = row]
  BY <1>2, <1>3 DEF L!Expire
<1>6. kpis' \in [Kpis -> L!KpiRow \cup {L!NoRow}] /\ row # L!NoRow
      /\ \A r \in Kpis : /\ kpis[r] # L!NoRow => kpis'[r] # L!NoRow
                         /\ kpis[r] # L!NoRow => kpis'[r].score = kpis[r].score
  <2>1. kpis \in [Kpis -> L!KpiRow \cup {L!NoRow}]
    BY DEF PlaceGoal, PlaceInv, PlaceRows
  <2>2. L!NoRow \notin L!KpiRow
    BY DEF L!KpiRow, L!NoRow
  <2> QED
    BY <1>2, <1>4, <1>5, <2>1, <2>2, RowStored
<1>7. PlaceRows'
  BY <1>1, <1>6, PlaceOthers DEF PlaceGoal, PlaceInv, PlaceRows
<1>8. PlaceKeeps
  BY <1>1, <1>6 DEF PlaceKeeps
<1>9. ASSUME NEW t \in Sessions PROVE PlaceHeld(sess[t])'
  <2>1. PICK v : v = sess'[t] /\ v = sess[t]
    BY <1>1
  <2>2. PlaceHeld(v) /\ alone' = alone
    BY <1>1, <2>1 DEF PlaceGoal, PlaceInv
  <2>4. (MakesClient(v) => MakesClient(v)') /\ (Complains(v) => Complains(v)') /\ (Resolves(v) => Resolves(v)')
        /\ (AddsPlacement(v) => AddsPlacement(v)') /\ (AddsKpi(v) => AddsKpi(v)')
    BY DEF MakesClient, Complains, Resolves, AddsPlacement, AddsKpi
  <2>5. (EditsPlacement(v) => EditsPlacement(v)') /\ (EditsKpi(v) => EditsKpi(v)')
    BY <1>1, <1>6, <2>2 DEF EditsPlacement, EditsKpi
  <2>6. AddsLetter(v) => AddsLetter(v)'
    BY <1>1 DEF AddsLetter, L!NextLevels, L!LatestOf
  <2>7. Renews(v) => Renews(v)'
    BY <1>1 DEF Renews, L!AmendmentsOf
  <2>8. PlaceHeld(v)'
    BY <2>2, <2>4, <2>5, <2>6, <2>7 DEF PlaceHeld
  <2> QED
    BY <2>1, <2>8
<1> QED
  BY <1>1, <1>7, <1>8, <1>9 DEF PlaceDone, PlaceInv, PlaceGoal, InTurn

LEMMA PlaceRequest ==
    ASSUME PlaceGoal, branch = "places", branch' = branch, NEW s \in Sessions, L!Request(s), UNCHANGED places
    PROVE  PlaceDone
<1>1. ASSUME NEW w, L!Begin(s, w), PlaceHeld(w)
      PROVE  PlaceDone
  <2>1. Turns(s, w)
    BY <1>1 DEF L!Begin, L!Go, L!Idle, Turns, Idle
  <2> QED
    BY <1>1, <2>1, PlaceGoes
<1>2. ASSUME NEW p \in Placements, placements[p].live
      PROVE  placements[p] # L!NoRow /\ placements[p] \in L!PlacementRow
  BY <1>2, PlaceTyped DEF PlaceGoal, PlaceInv, L!NoRow
<1>3. ASSUME NEW end \in Ends, NEW rate \in Rates, L!CreatePlacement(s, end, rate)
      PROVE  PlaceDone
  <2>1. PICK n \in L!PlacementRow : n = [end |-> end, rate |-> rate, active |-> TRUE, live |-> TRUE]
    BY DEF L!PlacementRow
  <2>2. PICK w : w = [op |-> "add", table |-> "placements", new |-> n]
    OBVIOUS
  <2>3. L!Begin(s, w) /\ AddsPlacement(w)
    BY <1>3, <2>1, <2>2 DEF L!CreatePlacement, L!Add, AddsPlacement
  <2> QED
    BY <1>1, <2>3 DEF PlaceHeld
<1>4. ASSUME NEW p \in Placements,
             (\E end \in Ends, rate \in Rates, active \in BOOLEAN : L!UpdatePlacement(s, p, end, rate, active)) \/ L!DeletePlacement(s, p)
      PROVE  PlaceDone
  <2>1. PICK q \in L!PlacementRow : q = placements[p] /\ placements[p] # L!NoRow
    BY <1>2, <1>4 DEF L!UpdatePlacement, L!DeletePlacement
  <2>2. PICK n \in L!PlacementRow : L!Edit(s, "placements", p, q, n)
    <3>1. CASE L!DeletePlacement(s, p)
      <4>1. [q EXCEPT !.live = FALSE] \in L!PlacementRow
        BY DEF L!PlacementRow
      <4> QED
        BY <2>1, <3>1, <4>1 DEF L!DeletePlacement
    <3>2. ASSUME NEW end \in Ends, NEW rate \in Rates, NEW active \in BOOLEAN, L!UpdatePlacement(s, p, end, rate, active)
          PROVE  \E n \in L!PlacementRow : L!Edit(s, "placements", p, q, n)
      <4>1. [q EXCEPT !.end = end, !.rate = rate, !.active = active] \in L!PlacementRow
        BY DEF L!PlacementRow
      <4> QED
        BY <2>1, <3>2, <4>1 DEF L!UpdatePlacement
    <3> QED
      BY <1>4, <3>1, <3>2
  <2>3. PICK w : w = [op |-> "edit", table |-> "placements", key |-> p, seen |-> q, new |-> n]
    OBVIOUS
  <2>4. L!Begin(s, w) /\ EditsPlacement(w)
    BY <2>1, <2>2, <2>3 DEF L!Edit, EditsPlacement
  <2> QED
    BY <1>1, <2>4 DEF PlaceHeld
<1>5. ASSUME NEW p \in Placements, L!CreateKpi(s, p)
      PROVE  PlaceDone
  <2>1. PICK n \in L!KpiRow : n = [placement |-> p, score |-> "none", expired |-> FALSE]
    BY DEF L!KpiRow
  <2>2. PICK w : w = [op |-> "add", table |-> "kpis", new |-> n]
    OBVIOUS
  <2>3. L!Begin(s, w) /\ AddsKpi(w)
    BY <1>5, <2>1, <2>2 DEF L!CreateKpi, L!Add, AddsKpi
  <2> QED
    BY <1>1, <2>3 DEF PlaceHeld
<1>6. ASSUME NEW p \in Placements, NEW end \in Ends, NEW rate \in Rates, L!Renew(s, p, end, rate)
      PROVE  PlaceDone
  <2>1. PICK q \in L!PlacementRow : q = placements[p] /\ placements[p] # L!NoRow
    BY <1>2, <1>6 DEF L!Renew
  <2>2. PICK n : n = L!Renewed(q, end, rate)
    OBVIOUS
  <2>3. n \in L!PlacementRow
    BY <2>2 DEF L!Renewed, L!PlacementRow
  <2>4. PICK a : a = [placement |-> p, n |-> Cardinality(L!AmendmentsOf(p)) + 1, oldEnd |-> q.end, oldRate |-> L!Recorded(q.rate)]
    OBVIOUS
  <2>5. Cardinality(L!AmendmentsOf(p)) \in Nat
    BY PlaceCounts DEF PlaceGoal, PlaceInv, PlaceRows
  <2>6. a \in L!AmendmentRow /\ a.placement = p /\ a.n = Cardinality(L!AmendmentsOf(p)) + 1 /\ a.oldEnd = q.end /\ a.oldRate = L!Recorded(q.rate)
    <3>1. q.end \in Ends /\ L!Recorded(q.rate) \in L!Nullable
      BY DEF L!PlacementRow, L!Nullable, L!Recorded
    <3> QED
      BY <2>4, <2>5, <3>1 DEF L!AmendmentRow
  <2>7. PICK w : w = [op |-> "renew", key |-> p, seen |-> q, new |-> n, amendment |-> a]
    OBVIOUS
  <2>8. a = L!Snapshot(p, q, n)
    BY <2>4, PlaceCount DEF L!Snapshot
  <2>9. L!Begin(s, w)
    BY <1>6, <2>1, <2>2, <2>7, <2>8 DEF L!Renew
  <2>10. a.n >= 1 /\ a.n <= Cardinality(L!AmendmentsOf(p)) + 1
    BY <2>5, <2>6
  <2>11. Renews(w)
    BY <2>1, <2>3, <2>6, <2>7, <2>10, Zenon DEF Renews
  <2> QED
    BY <1>1, <2>9, <2>11 DEF PlaceHeld
<1>7. ASSUME NEW p \in Placements, NEW date \in LetterDates, L!CreateSpo(s, p, date)
      PROVE  PlaceDone
  <2>1. PICK level \in L!NextLevels(p) : L!Add(s, "spos", [placement |-> p, level |-> level, date |-> date])
    BY <1>7 DEF L!CreateSpo
  <2>2. PICK n : n = [placement |-> p, level |-> level, date |-> date]
    OBVIOUS
  <2>3. level \in {L!Levels[i] : i \in 1 .. 3}
    BY DEF L!NextLevels
  <2>4. n \in L!LetterRow /\ n.placement = p /\ n.level = level
    BY <2>2, <2>3 DEF L!LetterRow
  <2>5. PICK w : w = [op |-> "add", table |-> "spos", new |-> n]
    OBVIOUS
  <2>6. L!Begin(s, w)
    BY <2>1, <2>2, <2>5 DEF L!Add
  <2>7. n.level \in L!NextLevels(n.placement)
    BY <2>1, <2>4
  <2>8. AddsLetter(w)
    BY <2>4, <2>5, <2>7, Zenon DEF AddsLetter
  <2> QED
    BY <1>1, <2>6, <2>8 DEF PlaceHeld
<1>8. CASE L!CreateComplaint(s) \/ (\E code \in ClientCodes : L!CreateClient(s, code)) \/ \E c \in Complaints : L!ResolveComplaint(s, c)
  BY <1>1, <1>8 DEF L!CreateComplaint, L!CreateClient, L!ResolveComplaint, PlaceHeld, MakesClient, Complains, Resolves
<1>9. ASSUME NEW k \in Kpis, NEW score \in Ratings, L!SubmitKpi(s, k, score)
      PROVE  PlaceDone
  <2>1. PICK q \in L!KpiRow : q = kpis[k] /\ kpis[k] # L!NoRow /\ q.score = "none" /\ ~q.expired
    BY <1>9, PlaceTyped DEF L!SubmitKpi, L!MaySubmit, PlaceGoal, PlaceInv
  <2>2. PICK n \in L!KpiRow : n = L!Submitted(q, score)
    BY DEF L!Submitted, L!KpiRow
  <2>3. PICK w : w = [op |-> "edit", table |-> "kpis", key |-> k, seen |-> q, new |-> n]
    OBVIOUS
  <2>4. L!Begin(s, w)
    BY <1>9, <2>1, <2>2, <2>3 DEF L!SubmitKpi, L!Edit
  <2>5. EditsKpi(w)
    BY <2>1, <2>3, Zenon DEF EditsKpi
  <2> QED
    BY <1>1, <2>4, <2>5 DEF PlaceHeld
<1> QED
  BY <1>3, <1>4, <1>5, <1>6, <1>7, <1>8, <1>9 DEF L!Request

LEMMA PlaceStep ==
    ASSUME PlaceGoal, branch = "places", branch' = branch, L!Next
    PROVE  PlaceDone
<1>1. ASSUME NEW s \in Sessions, L!Step(s) PROVE PlaceDone
  <2>1. CASE L!Request(s) /\ UNCHANGED places
    BY <2>1, PlaceRequest
  <2>2. CASE L!Abort(s) /\ UNCHANGED places
    <3>1. Turns(s, Idle) /\ PlaceHeld(Idle)
      BY <2>2 DEF L!Abort, L!Finish, L!Go, L!Idle, Turns, Idle, PlaceHeld
    <3> QED
      BY <2>2, <3>1, PlaceGoes
  <2>3. CASE L!Commit(s)
    <3>1. Turns(s, Idle)
      <4>1. sess[s].op \in {"edit", "add", "complain", "resolve"}
        BY <2>3 DEF L!Commit, L!Editing, L!Adding
      <4>2. sess[s] # Idle
        BY <4>1 DEF Idle
      <4> QED
        BY <2>3, <4>2 DEF L!Commit, L!Finish, L!Go, L!Idle, Turns, Idle
    <3> QED
      BY <2>3, <3>1, PlacementStored, KpiStored, ComplaintStored, LetterStored DEF L!Commit
  <2>4. CASE L!RenewCommit(s) \/ L!ClientCommit(s)
    BY <2>4, RenewalStored, ClientStored
  <2> QED
    BY <1>1, <2>1, <2>2, <2>3, <2>4 DEF L!Step, L!placementTables, places
<1> QED
  BY <1>1, LinkExpires DEF L!Next

LEMMA PlaceQuiet ==
    ASSUME PlaceInv, UNCHANGED <<branch, alone, places>>, branch = "places" => sess' = sess
    PROVE  PlaceInv' /\ PlaceKeeps
<1>1. PlaceRows'
  BY PlaceRowsSame DEF PlaceInv
<1> USE DEF places
<1>2. ASSUME branch = "places", NEW t \in Sessions PROVE PlaceHeld(sess[t])'
  <2>1. PICK v : v = sess[t] /\ v = sess'[t]
    BY <1>2
  <2>2. PlaceHeld(v)
    BY <1>2, <2>1 DEF PlaceInv
  <2>4. (MakesClient(v) => MakesClient(v)') /\ (Complains(v) => Complains(v)') /\ (Resolves(v) => Resolves(v)')
        /\ (AddsPlacement(v) => AddsPlacement(v)') /\ (AddsKpi(v) => AddsKpi(v)')
    BY DEF MakesClient, Complains, Resolves, AddsPlacement, AddsKpi
  <2>5. (EditsPlacement(v) => EditsPlacement(v)') /\ (EditsKpi(v) => EditsKpi(v)')
    BY DEF EditsPlacement, EditsKpi
  <2>6. AddsLetter(v) => AddsLetter(v)'
    BY DEF AddsLetter, L!NextLevels, L!LatestOf
  <2>7. Renews(v) => Renews(v)'
    BY DEF Renews, L!AmendmentsOf
  <2>8. PlaceHeld(v)'
    BY <2>2, <2>4, <2>5, <2>6, <2>7 DEF PlaceHeld
  <2> QED
    BY <2>1, <2>8
<1>3. PlaceKeeps
  BY DEF PlaceKeeps
<1> QED
  BY <1>1, <1>2, <1>3 DEF PlaceInv

-----------------------------------------------------------------------------
\* Timesheets, their items and reports.
Open(row) == row.status \in {"DRAFT", "REJECTED"}

AddsSheet(w) ==
    \E n \in T!SheetRow :
        /\ w = [op |-> "add", table |-> "sheets", new |-> n]
        /\ n.count = 0 /\ n.status = "DRAFT"
        /\ alone => T!NoSheetYet(n.placement, n.period)
EditsSheet(w) ==
    \E t \in Sheets, q \in T!SheetRow, n \in T!SheetRow :
        /\ w = [op |-> "edit", table |-> "sheets", key |-> t, seen |-> q, new |-> n]
        /\ n.count = q.count /\ n.placement = q.placement /\ n.period = q.period /\ q.status # "APPROVED"
        /\ sheets[t] # T!NoRow /\ (alone => sheets[t] = q)
AddsReport(w) ==
    \E n \in T!ReportRow :
        /\ w = [op |-> "add", table |-> "reports", new |-> n]
        /\ alone => sheets[n.of].status = "APPROVED" /\ T!ReportsOf(n.of) = {}
EditsReport(w) ==
    \E r \in Reports, q \in T!ReportRow :
        /\ w = [op |-> "edit", table |-> "reports", key |-> r, seen |-> q, new |-> q]
        /\ reports[r] # T!NoRow
\* An item of sheet t is not flushed yet; without a row it is deleted.
Found(t, q, found, row) ==
    /\ sheets[t] = q /\ Open(q)
    /\ row = T!NoRow => found # {} /\ \A i \in found : items[i].of = t
    /\ row # T!NoRow => found = T!ItemsOn(t, row.day)
ChangesItem(w) ==
    \E t \in Sheets, q \in T!SheetRow, found \in SUBSET Items, row \in T!ItemRow \cup {T!NoRow} :
        /\ w = [op |-> "item", sheet |-> t, seen |-> q, found |-> found, row |-> row]
        /\ row = T!NoRow \/ row.of = t
        /\ sheets[t] # T!NoRow
        /\ alone => Found(t, q, found, row)
\* It is, and counted with the others.
Counted(t, q, i, row, c) ==
    /\ sheets[t] = q /\ Open(q)
    /\ items[i].of \in {t, "none"}
    /\ c = T!PresentIn(t, [items EXCEPT ![i] = row])
    /\ row # T!NoRow => \A j \in Items : j # i => ~(items[j].of = t /\ items[j].day = row.day)
HasFlushed(w) ==
    \E t \in Sheets, q \in T!SheetRow, i \in Items, row \in T!ItemRow \cup {T!NoRow}, c \in Nat :
        /\ w = [op |-> "flushed", sheet |-> t, seen |-> q, item |-> i, row |-> row, count |-> c]
        /\ row = T!NoRow \/ row.of = t
        /\ sheets[t] # T!NoRow
        /\ alone => Counted(t, q, i, row, c)
TimeHeld(w) ==
    \/ w = Idle \/ AddsSheet(w) \/ EditsSheet(w) \/ AddsReport(w) \/ EditsReport(w)
    \/ ChangesItem(w) \/ HasFlushed(w)
TimeRows ==
    /\ T!TypeOK
    /\ \A i \in Items : items[i] # T!NoRow => sheets[items[i].of] # T!NoRow
    /\ T!NoDuplicates /\ T!CountIsPresent /\ T!ReportOfApproved
TimeInv == TimeRows /\ (branch = "times" => \A s \in Sessions : TimeHeld(sess[s]))

\* What a step may never do.
TimeKeeps ==
    \A t \in Sheets : alone /\ sheets[t].status = "APPROVED"
        => /\ sheets'[t] = sheets[t]
           /\ \A i \in Items : items[i].of = t \/ items'[i].of = t => items'[i] = items[i]
TimeGoal == InTurn /\ TimeInv
TimeDone == InTurn' /\ TimeInv' /\ TimeKeeps /\ alone' = alone

LEMMA TimeTypes ==
    ASSUME T!TypeOK
    PROVE  /\ \A t \in Sheets : sheets[t] # T!NoRow <=> sheets[t] \in T!SheetRow
           /\ \A i \in Items : items[i] # T!NoRow <=> items[i] \in T!ItemRow
           /\ \A r \in Reports : reports[r] # T!NoRow <=> reports[r] \in T!ReportRow
           /\ T!NoRow \notin T!SheetRow /\ T!NoRow \notin T!ItemRow /\ T!NoRow \notin T!ReportRow
           /\ T!NoRow.of = "none" /\ T!NoRow.of \notin Sheets
           /\ T!NoRow.status = "NONE"
<1>1. T!NoRow \notin T!SheetRow
  BY DEF T!NoRow, T!SheetRow
<1>2. T!NoRow.of = "none" /\ T!NoRow.of \notin Sheets /\ T!NoRow.status = "NONE"
  BY DeliveryAssumption DEF T!NoRow
<1>3. T!NoRow \notin T!ItemRow
  BY <1>2 DEF T!ItemRow
<1>4. T!NoRow \notin T!ReportRow
  BY <1>2 DEF T!ReportRow
<1> QED
  BY <1>1, <1>2, <1>3, <1>4 DEF T!TypeOK

LEMMA TimeOps ==
    ASSUME NEW v, TimeHeld(v)
    PROVE  /\ v.op = "item" => ChangesItem(v)
           /\ v.op = "flushed" => HasFlushed(v)
           /\ v.op = "add" /\ v.table = "sheets" => AddsSheet(v)
           /\ v.op = "add" /\ v.table = "reports" => AddsReport(v)
           /\ v.op = "edit" /\ v.table = "sheets" => EditsSheet(v)
           /\ v.op = "edit" /\ v.table = "reports" => EditsReport(v)
<1>1. v = Idle => v.op = "idle"
  BY DEF Idle
<1>2. AddsSheet(v) => v.op = "add" /\ v.table = "sheets"
  BY DEF AddsSheet
<1>3. EditsSheet(v) => v.op = "edit" /\ v.table = "sheets"
  BY DEF EditsSheet
<1>4. AddsReport(v) => v.op = "add" /\ v.table = "reports"
  BY DEF AddsReport
<1>5. EditsReport(v) => v.op = "edit" /\ v.table = "reports"
  BY DEF EditsReport
<1>6. ChangesItem(v) => v.op = "item"
  BY DEF ChangesItem
<1>7. HasFlushed(v) => v.op = "flushed"
  BY DEF HasFlushed
<1> QED
  BY <1>1, <1>2, <1>3, <1>4, <1>5, <1>6, <1>7 DEF TimeHeld

LEMMA TimeCount == \A some : T!Cardinality(some) = Cardinality(some)
  BY DEF T!Cardinality, Cardinality

LEMMA TimeCounts ==
    /\ \A t, rows : T!PresentIn(t, rows) \in Nat
    /\ T!NextReportNo \in Nat
<1>1. \A some \in SUBSET Items : Cardinality(some) \in Nat
  BY DeliveryAssumption, FS_Subset, FS_CardinalityType
<1>2. \A some \in SUBSET Reports : Cardinality(some) \in Nat
  BY DeliveryAssumption, FS_Subset, FS_CardinalityType
<1>3. ASSUME NEW t, NEW rows PROVE T!PresentIn(t, rows) \in Nat
  <2>1. PICK some : some = {i \in Items : rows[i].of = t /\ rows[i].present}
    OBVIOUS
  <2>2. some \in SUBSET Items
    BY <2>1
  <2> QED
    BY <1>1, <2>1, <2>2, TimeCount DEF T!PresentIn
<1>4. T!NextReportNo \in Nat
  <2>1. PICK some : some = {r \in Reports : reports[r] # T!NoRow}
    OBVIOUS
  <2>2. some \in SUBSET Reports
    BY <2>1
  <2> QED
    BY <1>2, <2>1, <2>2, TimeCount DEF T!NextReportNo
<1> QED
  BY <1>3, <1>4

LEMMA TimeStarts ==
    ASSUME T!Init PROVE TimeInv
<1>1. TimeRows
  BY DEF T!Init, TimeRows, T!TypeOK, T!NoDuplicates, T!CountIsPresent, T!ReportOfApproved
<1>2. \A s \in Sessions : TimeHeld(sess[s])
  BY DEF T!Init, T!AllIdle, T!Idle, Idle, TimeHeld
<1> QED
  BY <1>1, <1>2 DEF TimeInv

LEMMA SheetMerge ==
    ASSUME NEW now \in T!SheetRow, NEW q \in T!SheetRow, NEW n \in T!SheetRow
    PROVE  T!Merge(now, q, n) \in T!SheetRow /\ (now = q => T!Merge(now, q, n) = n)
<1>1. DOMAIN now = {"placement", "period", "count", "status"}
  BY DEF T!SheetRow
<1>2. T!Merge(now, q, n) = [placement |-> IF n.placement = q.placement THEN now.placement ELSE n.placement,
                            period    |-> IF n.period = q.period THEN now.period ELSE n.period,
                            count     |-> IF n.count = q.count THEN now.count ELSE n.count,
                            status    |-> IF n.status = q.status THEN now.status ELSE n.status]
  BY <1>1 DEF T!Merge
<1>3. n = [placement |-> n.placement, period |-> n.period, count |-> n.count, status |-> n.status]
  BY DEF T!SheetRow
<1> QED
  BY <1>2, <1>3 DEF T!SheetRow

LEMMA TimeRowsSame ==
    ASSUME TimeRows, UNCHANGED <<alone, times>>
    PROVE  TimeRows'
<1> USE DEF times
<1>1. T!NoDuplicates' /\ T!ReportOfApproved'
  BY DEF TimeRows, T!NoDuplicates, T!ReportOfApproved, T!ReportsOf
<1>2. T!CountIsPresent'
  BY DEF TimeRows, T!CountIsPresent
<1> QED
  BY <1>1, <1>2 DEF TimeRows, T!TypeOK

LEMMA TimeHeldSame ==
    ASSUME NEW v, TimeHeld(v), UNCHANGED <<alone, times>>
    PROVE  TimeHeld(v)'
<1> USE DEF times
<1>1. (AddsSheet(v) => AddsSheet(v)') /\ (AddsReport(v) => AddsReport(v)')
  BY DEF AddsSheet, AddsReport, T!NoSheetYet, T!ReportsOf
<1>2. (EditsSheet(v) => EditsSheet(v)') /\ (EditsReport(v) => EditsReport(v)')
  BY DEF EditsSheet, EditsReport
<1>3. ChangesItem(v) => ChangesItem(v)'
  <2>1. ASSUME NEW t, NEW q, NEW found, NEW row, Found(t, q, found, row)
        PROVE  Found(t, q, found, row)'
    BY <2>1 DEF Found, T!ItemsOn
  <2> QED
    BY <2>1 DEF ChangesItem
<1>4. HasFlushed(v) => HasFlushed(v)'
  <2>1. ASSUME NEW t, NEW q, NEW i, NEW row, NEW c, Counted(t, q, i, row, c)
        PROVE  Counted(t, q, i, row, c)'
    BY <2>1 DEF Counted, T!PresentIn
  <2> QED
    BY <2>1 DEF HasFlushed
<1> QED
  BY <1>1, <1>2, <1>3, <1>4 DEF TimeHeld

\* Nothing is stored: handler s goes on with w.
LEMMA TimeGoes ==
    ASSUME TimeGoal, branch = "times", branch' = branch, UNCHANGED times,
           NEW s \in Sessions, NEW w, Turns(s, w), TimeHeld(w)
    PROVE  TimeDone
<1>1. TimeRows'
  BY TimeRowsSame DEF TimeGoal, TimeInv, Turns
<1>2. ASSUME NEW t \in Sessions PROVE TimeHeld(sess[t])'
  <2>1. PICK v : v = sess'[t]
    OBVIOUS
  <2>2. TimeHeld(v)
    BY <2>1, TurnKeeps DEF TimeGoal, TimeInv
  <2>3. TimeHeld(v)'
    BY <2>2, TimeHeldSame DEF Turns
  <2> QED
    BY <2>1, <2>3
<1>3. TimeKeeps
  BY DEF TimeKeeps, times
<1> QED
  BY <1>1, <1>2, <1>3, TurnKeeps DEF TimeInv, TimeDone, TimeGoal, Turns

\* Rows are stored, and handler s is done.
TimeStays ==
    /\ \A t \in Sheets : sheets[t] # T!NoRow => sheets'[t] # T!NoRow
    /\ \A r \in Reports : reports[r] # T!NoRow => reports'[r] # T!NoRow

LEMMA TimeWrites ==
    ASSUME TimeGoal, branch = "times", branch' = branch, TimeRows', TimeKeeps, TimeStays,
           NEW s \in Sessions, Turns(s, Idle)
    PROVE  TimeDone
<1>1. ASSUME NEW t \in Sessions PROVE TimeHeld(sess[t])'
  <2>1. PICK v : v = sess'[t]
    OBVIOUS
  <2>2. CASE v = Idle
    BY <2>1, <2>2 DEF TimeHeld
  <2>3. CASE v # Idle
    <3>1. v = sess[t] /\ ~alone /\ TimeHeld(v) /\ alone' = alone
      BY <2>1, <2>3, TurnKeeps DEF TimeGoal, TimeInv, Turns
    <3>2. ~alone'
      BY <3>1
    <3>3. AddsSheet(v) => AddsSheet(v)'
      BY <3>2, Zenon DEF AddsSheet
    <3>4. AddsReport(v) => AddsReport(v)'
      BY <3>2, Zenon DEF AddsReport
    <3>5. (EditsSheet(v) => EditsSheet(v)') /\ (EditsReport(v) => EditsReport(v)')
      BY <3>2 DEF EditsSheet, EditsReport, TimeStays
    <3>6. ChangesItem(v) => ChangesItem(v)'
      BY <3>2, Zenon DEF ChangesItem, TimeStays
    <3>7. HasFlushed(v) => HasFlushed(v)'
      BY <3>2, Zenon DEF HasFlushed, TimeStays
    <3>8. TimeHeld(v)'
      BY <3>1, <3>3, <3>4, <3>5, <3>6, <3>7 DEF TimeHeld
    <3> QED
      BY <2>1, <3>8
  <2> QED
    BY <2>2, <2>3
<1> QED
  BY <1>1, TurnKeeps DEF TimeInv, TimeDone, TimeGoal, Turns

LEMMA SheetChanged ==
    ASSUME TimeRows, alone' = alone, UNCHANGED <<items, reports>>,
           NEW t \in Sheets, NEW row \in T!SheetRow, sheets' = [sheets EXCEPT ![t] = row],
           alone => \/ /\ sheets[t] \in T!SheetRow /\ sheets[t].status # "APPROVED"
                       /\ row.count = sheets[t].count /\ row.placement = sheets[t].placement /\ row.period = sheets[t].period
                    \/ sheets[t] = T!NoRow /\ row.count = 0 /\ T!NoSheetYet(row.placement, row.period)
    PROVE  TimeRows' /\ TimeKeeps /\ TimeStays
<1>1. T!TypeOK
  BY DEF TimeRows
<1>2. /\ sheets' \in [Sheets -> T!SheetRow \cup {T!NoRow}] /\ sheets'[t] = row /\ row # T!NoRow
      /\ \A u \in Sheets : /\ u # t => sheets'[u] = sheets[u]
                           /\ sheets[u] # T!NoRow => sheets'[u] # T!NoRow
  BY <1>1, TimeTypes, RowStored DEF T!TypeOK
<1>3. T!TypeOK'
  BY <1>1, <1>2 DEF T!TypeOK
<1>4. \A i \in Items : items[i] # T!NoRow => items[i].of \in Sheets
  BY <1>1, TimeTypes DEF T!ItemRow
<1>5. \A r \in Reports : reports[r] # T!NoRow => reports[r].of \in Sheets
  BY <1>1, TimeTypes DEF T!ReportRow
<1>6. alone => sheets[t].status # "APPROVED"
  BY <1>1, TimeTypes
<1>7. \A i \in Items : items[i] # T!NoRow => sheets'[items[i].of] # T!NoRow
  BY <1>2, <1>4 DEF TimeRows
<1>8. T!NoDuplicates'
  <2>1. ASSUME alone, NEW u \in Sheets, u # t, sheets[u] # T!NoRow
        PROVE  <<sheets[u].placement, sheets[u].period>> # <<row.placement, row.period>>
    <3>1. CASE sheets[t] \in T!SheetRow /\ row.placement = sheets[t].placement /\ row.period = sheets[t].period
      BY <1>1, <2>1, <3>1, TimeTypes DEF TimeRows, T!NoDuplicates
    <3>2. CASE T!NoSheetYet(row.placement, row.period)
      BY <2>1, <3>2 DEF T!NoSheetYet
    <3> QED
      BY <2>1, <3>1, <3>2
  <2>2. ASSUME alone, NEW x \in Sheets, NEW y \in Sheets, x # y, sheets'[x] # T!NoRow, sheets'[y] # T!NoRow
        PROVE  <<sheets'[x].placement, sheets'[x].period>> # <<sheets'[y].placement, sheets'[y].period>>
    <3>1. CASE x = t
      BY <1>2, <2>1, <2>2, <3>1
    <3>2. CASE y = t
      BY <1>2, <2>1, <2>2, <3>2
    <3>3. CASE x # t /\ y # t
      BY <1>2, <2>2, <3>3 DEF TimeRows, T!NoDuplicates
    <3> QED
      BY <3>1, <3>2, <3>3
  <2>3. alone => \A i, j \in Items : i # j /\ items[i] # T!NoRow /\ items[j] # T!NoRow
                 => <<items[i].of, items[i].day>> # <<items[j].of, items[j].day>>
    BY DEF TimeRows, T!NoDuplicates
  <2> QED
    BY <2>2, <2>3 DEF T!NoDuplicates
<1>9. T!CountIsPresent'
  <2>1. ASSUME alone PROVE row.count = T!PresentIn(t, items)
    <3>1. CASE sheets[t] \in T!SheetRow /\ row.count = sheets[t].count
      BY <1>1, <2>1, <3>1, TimeTypes DEF TimeRows, T!CountIsPresent
    <3>2. CASE sheets[t] = T!NoRow /\ row.count = 0
      <4>1. \A i \in Items : items[i].of # t
        BY <1>1, <3>2, TimeTypes DEF TimeRows
      <4>2. {i \in Items : items[i].of = t /\ items[i].present} = {}
        BY <4>1
      <4>3. T!PresentIn(t, items) = 0
        BY <4>2, FS_EmptySet, TimeCount DEF T!PresentIn
      <4> QED
        BY <3>2, <4>3
    <3> QED
      BY <2>1, <3>1, <3>2
  <2>2. alone => \A u \in Sheets : sheets'[u] # T!NoRow => sheets'[u].count = T!PresentIn(u, items)
    BY <1>2, <2>1 DEF TimeRows, T!CountIsPresent
  <2> QED
    BY <2>2 DEF T!CountIsPresent
<1>10. T!ReportOfApproved'
  BY <1>2, <1>5, <1>6 DEF TimeRows, T!ReportOfApproved, T!ReportsOf
<1>11. TimeStays
  BY <1>2 DEF TimeStays
<1>12. TimeKeeps
  BY <1>2, <1>6 DEF TimeKeeps
<1> QED
  BY <1>3, <1>7, <1>8, <1>9, <1>10, <1>11, <1>12 DEF TimeRows

LEMMA ItemChanged ==
    ASSUME TimeRows, alone' = alone, reports' = reports,
           NEW t \in Sheets, NEW i \in Items, NEW row \in T!ItemRow \cup {T!NoRow}, NEW sheet \in T!SheetRow, NEW c,
           row = T!NoRow \/ row.of = t, sheets[t] # T!NoRow,
           items' = [items EXCEPT ![i] = row], sheets' = [sheets EXCEPT ![t] = sheet],
           alone => Counted(t, sheets[t], i, row, c) /\ sheet = [sheets[t] EXCEPT !.count = c]
    PROVE  TimeRows' /\ TimeKeeps /\ TimeStays
<1>1. T!TypeOK
  BY DEF TimeRows
<1>2. /\ sheets' \in [Sheets -> T!SheetRow \cup {T!NoRow}] /\ sheets'[t] = sheet /\ sheet # T!NoRow
      /\ \A u \in Sheets : /\ u # t => sheets'[u] = sheets[u]
                           /\ sheets[u] # T!NoRow => sheets'[u] # T!NoRow
  BY <1>1, TimeTypes, RowStored DEF T!TypeOK
<1>3. /\ items' \in [Items -> T!ItemRow \cup {T!NoRow}] /\ items'[i] = row
      /\ \A j \in Items : j # i => items'[j] = items[j]
  BY <1>1 DEF T!TypeOK
<1>4. T!TypeOK'
  BY <1>1, <1>2, <1>3 DEF T!TypeOK
<1>5. \A j \in Items : items[j] # T!NoRow => items[j].of \in Sheets
  BY <1>1, TimeTypes DEF T!ItemRow
<1>6. \A r \in Reports : reports[r] # T!NoRow => reports[r].of \in Sheets
  BY <1>1, TimeTypes DEF T!ReportRow
<1>7. \A j \in Items : items'[j] # T!NoRow => sheets'[items'[j].of] # T!NoRow
  BY <1>2, <1>3, <1>5 DEF TimeRows
<1>8. PICK q : q = sheets[t] /\ q \in T!SheetRow
  BY <1>1, TimeTypes
<1>9. ASSUME alone
      PROVE  /\ sheet = [q EXCEPT !.count = c] /\ Open(q) /\ items[i].of \in {t, "none"}
             /\ c = T!PresentIn(t, items')
             /\ row # T!NoRow => \A j \in Items : j # i => ~(items[j].of = t /\ items[j].day = row.day)
  BY <1>8, <1>9 DEF Counted
<1>10. alone => /\ sheet.placement = q.placement /\ sheet.period = q.period /\ sheet.status = q.status /\ sheet.count = c
                /\ q.status # "APPROVED"
  BY <1>8, <1>9 DEF T!SheetRow, Open
<1>11. T!NoDuplicates'
  <2>1. alone => \A x, y \in Sheets : x # y /\ sheets'[x] # T!NoRow /\ sheets'[y] # T!NoRow
              => <<sheets'[x].placement, sheets'[x].period>> # <<sheets'[y].placement, sheets'[y].period>>
    BY <1>2, <1>8, <1>10 DEF TimeRows, T!NoDuplicates
  <2>2. alone => \A j, k \in Items : j # k /\ items'[j] # T!NoRow /\ items'[k] # T!NoRow
              => <<items'[j].of, items'[j].day>> # <<items'[k].of, items'[k].day>>
    BY <1>3, <1>9 DEF TimeRows, T!NoDuplicates
  <2> QED
    BY <2>1, <2>2 DEF T!NoDuplicates
<1>12. T!CountIsPresent'
  <2>1. ASSUME alone, NEW u \in Sheets, u # t PROVE T!PresentIn(u, items') = T!PresentIn(u, items)
    <3>1. row.of # u /\ items[i].of # u
      BY <1>1, <1>9, <2>1, TimeTypes
    <3>2. {j \in Items : items'[j].of = u /\ items'[j].present} = {j \in Items : items[j].of = u /\ items[j].present}
      BY <1>3, <3>1
    <3> QED
      BY <3>2 DEF T!PresentIn
  <2>2. alone => \A u \in Sheets : sheets'[u] # T!NoRow => sheets'[u].count = T!PresentIn(u, items')
    BY <1>2, <1>9, <1>10, <2>1 DEF TimeRows, T!CountIsPresent
  <2> QED
    BY <2>2 DEF T!CountIsPresent
<1>13. T!ReportOfApproved'
  BY <1>2, <1>6, <1>8, <1>10 DEF TimeRows, T!ReportOfApproved, T!ReportsOf
<1>14. TimeStays
  BY <1>2 DEF TimeStays
<1>15. TimeKeeps
  <2>1. ASSUME alone, NEW u \in Sheets, sheets[u].status = "APPROVED", NEW j \in Items, items[j].of = u \/ items'[j].of = u
        PROVE  items'[j] = items[j]
    <3>1. u # t
      BY <1>8, <1>10, <2>1
    <3>2. row.of # u /\ items[i].of # u
      BY <1>1, <1>9, <2>1, <3>1, TimeTypes
    <3> QED
      BY <1>3, <2>1, <3>2
  <2>2. \A u \in Sheets : alone /\ sheets[u].status = "APPROVED" => sheets'[u] = sheets[u]
    BY <1>2, <1>8, <1>10
  <2> QED
    BY <2>1, <2>2 DEF TimeKeeps
<1> QED
  BY <1>4, <1>7, <1>11, <1>12, <1>13, <1>14, <1>15 DEF TimeRows

LEMMA ReportChanged ==
    ASSUME TimeRows, alone' = alone, UNCHANGED <<sheets, items>>,
           NEW r \in Reports, NEW row \in T!ReportRow, reports' = [reports EXCEPT ![r] = row],
           \/ row = reports[r]
           \/ reports[r] = T!NoRow /\ (alone => sheets[row.of].status = "APPROVED" /\ T!ReportsOf(row.of) = {})
    PROVE  TimeRows' /\ TimeKeeps /\ TimeStays
<1>1. T!TypeOK
  BY DEF TimeRows
<1>2. /\ reports' \in [Reports -> T!ReportRow \cup {T!NoRow}] /\ reports'[r] = row /\ row # T!NoRow
      /\ \A x \in Reports : /\ x # r => reports'[x] = reports[x]
                            /\ reports[x] # T!NoRow => reports'[x] # T!NoRow
  BY <1>1, TimeTypes, RowStored DEF T!TypeOK
<1>3. T!TypeOK'
  BY <1>1, <1>2 DEF T!TypeOK
<1>4. row.of \in Sheets /\ T!NoRow.of \notin Sheets
  BY <1>1, TimeTypes DEF T!ReportRow
<1>5. \A x \in Reports : reports[x] # T!NoRow => reports[x].of \in Sheets
  BY <1>1, TimeTypes DEF T!ReportRow
<1>6. T!ReportOfApproved'
  <2>1. CASE row = reports[r]
    <3>1. reports' = reports
      BY <1>1, <2>1 DEF T!TypeOK
    <3> QED
      BY <3>1 DEF TimeRows, T!ReportOfApproved, T!ReportsOf
  <2>2. CASE reports[r] = T!NoRow /\ (alone => sheets[row.of].status = "APPROVED" /\ T!ReportsOf(row.of) = {})
    <3>1. ASSUME alone, NEW x \in Reports, reports'[x] # T!NoRow
          PROVE  sheets[reports'[x].of].status = "APPROVED" /\ {y \in Reports : reports'[y].of = reports'[x].of} = {x}
      <4>1. CASE x = r
        <5>1. \A y \in Reports : y # r => reports'[y].of # row.of
          BY <1>2, <2>2, <3>1 DEF T!ReportsOf
        <5> QED
          BY <1>2, <2>2, <3>1, <4>1, <5>1
      <4>2. CASE x # r
        <5>1. reports'[x] = reports[x] /\ reports[x] # T!NoRow
          BY <1>2, <3>1, <4>2
        <5>2. sheets[reports[x].of].status = "APPROVED" /\ T!ReportsOf(reports[x].of) = {x}
          BY <3>1, <5>1 DEF TimeRows, T!ReportOfApproved
        <5>3. \A y \in Reports : reports[y].of = reports[x].of <=> y = x
          BY <5>2 DEF T!ReportsOf
        <5>4. reports[x].of # row.of
          BY <2>2, <3>1, <5>1 DEF T!ReportsOf
        <5>5. \A y \in Reports : reports'[y].of = reports[x].of <=> y = x
          BY <1>2, <4>2, <5>1, <5>3, <5>4
        <5> QED
          BY <5>1, <5>2, <5>5
      <4> QED
        BY <4>1, <4>2
    <3> QED
      BY <3>1 DEF T!ReportOfApproved, T!ReportsOf
  <2> QED
    BY <2>1, <2>2
<1>7. T!NoDuplicates'
  BY DEF TimeRows, T!NoDuplicates
<1>8. T!CountIsPresent'
  BY DEF TimeRows, T!CountIsPresent
<1>9. TimeStays /\ TimeKeeps
  BY <1>2 DEF TimeStays, TimeKeeps
<1> QED
  BY <1>3, <1>6, <1>7, <1>8, <1>9 DEF TimeRows

LEMMA TimeCommit ==
    ASSUME TimeGoal, branch = "times", branch' = branch, NEW s \in Sessions, T!Commit(s)
    PROVE  TimeDone
<1>1. PICK v : v = sess[s] /\ TimeHeld(v)
  BY DEF TimeGoal, TimeInv
<1>2. Turns(s, Idle)
  <2>1. sess[s].op \in {"edit", "add"}
    BY DEF T!Commit, T!Editing, T!Adding
  <2>2. sess[s] # Idle
    BY <2>1 DEF Idle
  <2> QED
    BY <2>2 DEF T!Commit, T!Finish, T!Go, T!Idle, Turns, Idle
<1>3. T!TypeOK
  BY DEF TimeGoal, TimeInv, TimeRows
<1>4. CASE T!Editing(s, "sheets") /\ sheets' = T!Edited(s, sheets) /\ UNCHANGED <<items, reports>>
  <2>1. PICK t \in Sheets, q \in T!SheetRow, n \in T!SheetRow :
        /\ v = [op |-> "edit", table |-> "sheets", key |-> t, seen |-> q, new |-> n]
        /\ n.count = q.count /\ n.placement = q.placement /\ n.period = q.period /\ q.status # "APPROVED"
        /\ sheets[t] # T!NoRow /\ (alone => sheets[t] = q)
    <3>1. EditsSheet(v)
      BY <1>1, <1>4, TimeOps DEF T!Editing
    <3> QED
      BY <3>1 DEF EditsSheet
  <2>2. PICK row : row = T!Merge(sheets[t], q, n)
    OBVIOUS
  <2>3. sheets[t] \in T!SheetRow
    BY <1>3, <2>1, TimeTypes
  <2>4. row \in T!SheetRow /\ (alone => row = n)
    BY <2>1, <2>2, <2>3, SheetMerge
  <2>5. sheets' = [sheets EXCEPT ![t] = row]
    BY <1>1, <1>4, <2>1, <2>2 DEF T!Edited
  <2>6. TimeRows' /\ TimeKeeps /\ TimeStays
    BY <1>2, <1>4, <2>1, <2>3, <2>4, <2>5, SheetChanged DEF TimeGoal, TimeInv, Turns
  <2> QED
    BY <1>2, <2>6, TimeWrites
<1>5. ASSUME NEW t \in Sheets, T!Adding(s, "sheets"), sheets[t] = T!NoRow, sheets' = [sheets EXCEPT ![t] = sess[s].new],
             UNCHANGED <<items, reports>>
      PROVE  TimeDone
  <2>1. PICK n \in T!SheetRow :
        /\ v = [op |-> "add", table |-> "sheets", new |-> n]
        /\ n.count = 0 /\ n.status = "DRAFT"
        /\ alone => T!NoSheetYet(n.placement, n.period)
    BY <1>1, <1>5, TimeOps DEF T!Adding, AddsSheet
  <2>2. sheets' = [sheets EXCEPT ![t] = n]
    BY <1>1, <1>5, <2>1
  <2>3. TimeRows' /\ TimeKeeps /\ TimeStays
    BY <1>2, <1>5, <2>1, <2>2, SheetChanged DEF TimeGoal, TimeInv, Turns
  <2> QED
    BY <1>2, <2>3, TimeWrites
<1>6. CASE T!Editing(s, "reports") /\ reports' = T!Edited(s, reports) /\ UNCHANGED <<sheets, items>>
  <2>1. PICK r \in Reports, q \in T!ReportRow :
        /\ v = [op |-> "edit", table |-> "reports", key |-> r, seen |-> q, new |-> q]
        /\ reports[r] # T!NoRow
    <3>1. EditsReport(v)
      BY <1>1, <1>6, TimeOps DEF T!Editing
    <3> QED
      BY <3>1 DEF EditsReport
  <2>2. PICK now \in T!ReportRow : now = reports[r]
    BY <1>3, <2>1, TimeTypes
  <2>3. T!Merge(now, q, q) = now
    BY DEF T!Merge, T!ReportRow
  <2>4. reports' = [reports EXCEPT ![r] = now]
    <3>1. PICK row : row = T!Merge(reports[r], q, q)
      OBVIOUS
    <3>2. reports' = [reports EXCEPT ![r] = row]
      BY <1>1, <1>6, <2>1, <3>1 DEF T!Edited
    <3> QED
      BY <2>2, <2>3, <3>1, <3>2
  <2>5. TimeRows' /\ TimeKeeps /\ TimeStays
    BY <1>2, <1>6, <2>2, <2>4, ReportChanged DEF TimeGoal, TimeInv, Turns
  <2> QED
    BY <1>2, <2>5, TimeWrites
<1>7. CASE UNCHANGED times
  BY <1>2, <1>7, TimeGoes DEF TimeHeld
<1>8. ASSUME NEW r \in Reports, T!Adding(s, "reports"), reports[r] = T!NoRow, reports' = [reports EXCEPT ![r] = sess[s].new],
             UNCHANGED <<sheets, items>>
      PROVE  TimeDone
  <2>1. PICK n \in T!ReportRow :
        /\ v = [op |-> "add", table |-> "reports", new |-> n]
        /\ alone => sheets[n.of].status = "APPROVED" /\ T!ReportsOf(n.of) = {}
    BY <1>1, <1>8, TimeOps DEF T!Adding, AddsReport
  <2>2. reports' = [reports EXCEPT ![r] = n]
    BY <1>1, <1>8, <2>1
  <2>3. TimeRows' /\ TimeKeeps /\ TimeStays
    BY <1>2, <1>8, <2>1, <2>2, ReportChanged DEF TimeGoal, TimeInv, Turns
  <2> QED
    BY <1>2, <2>3, TimeWrites
<1> QED
  BY <1>4, <1>5, <1>6, <1>7, <1>8 DEF T!Commit, times

LEMMA ItemStored ==
    ASSUME TimeGoal, branch = "times", branch' = branch, NEW s \in Sessions, T!ItemCommit(s)
    PROVE  TimeDone
<1>1. PICK v : v = sess[s] /\ HasFlushed(v)
  BY TimeOps DEF TimeGoal, TimeInv, T!ItemCommit
<1>2. PICK t \in Sheets, q \in T!SheetRow, i \in Items, row \in T!ItemRow \cup {T!NoRow}, c \in Nat :
        /\ v = [op |-> "flushed", sheet |-> t, seen |-> q, item |-> i, row |-> row, count |-> c]
        /\ row = T!NoRow \/ row.of = t
        /\ sheets[t] # T!NoRow
        /\ alone => Counted(t, q, i, row, c)
  BY <1>1 DEF HasFlushed
<1>3. Turns(s, Idle)
  BY <1>1, <1>2 DEF T!ItemCommit, T!Finish, T!Go, T!Idle, Idle, Turns
<1>4. PICK n \in T!SheetRow : n = [q EXCEPT !.count = c]
  BY DEF T!SheetRow
<1>5. PICK sheet : sheet = T!Merge(sheets[t], q, n)
  OBVIOUS
<1>6. sheets[t] \in T!SheetRow
  BY <1>2, TimeTypes DEF TimeGoal, TimeInv, TimeRows
<1>7. sheet \in T!SheetRow /\ (sheets[t] = q => sheet = n)
  BY <1>5, <1>6, SheetMerge
<1>8. /\ items' = [items EXCEPT ![i] = row] /\ sheets' = [sheets EXCEPT ![t] = sheet]
      /\ reports' = reports
  BY <1>1, <1>2, <1>4, <1>5 DEF T!ItemCommit, T!FlushedItems
<1>9. alone => Counted(t, sheets[t], i, row, c) /\ sheet = [sheets[t] EXCEPT !.count = c]
  BY <1>2, <1>4, <1>7 DEF Counted
<1>10. TimeRows' /\ TimeKeeps /\ TimeStays
  BY <1>2, <1>3, <1>7, <1>8, <1>9, ItemChanged DEF TimeGoal, TimeInv, Turns
<1> QED
  BY <1>3, <1>10, TimeWrites

LEMMA ItemFlushed ==
    ASSUME TimeGoal, branch = "times", branch' = branch, NEW s \in Sessions, NEW i \in Items, T!FlushItem(s, i)
    PROVE  TimeDone
<1>1. PICK v : v = sess[s] /\ ChangesItem(v)
  BY TimeOps DEF TimeGoal, TimeInv, T!FlushItem
<1>2. PICK t \in Sheets, q \in T!SheetRow, found \in SUBSET Items, row \in T!ItemRow \cup {T!NoRow} :
        /\ v = [op |-> "item", sheet |-> t, seen |-> q, found |-> found, row |-> row]
        /\ row = T!NoRow \/ row.of = t
        /\ sheets[t] # T!NoRow
        /\ alone => Found(t, q, found, row)
  BY <1>1 DEF ChangesItem
<1>3. PICK c \in Nat : c = T!PresentIn(t, [items EXCEPT ![i] = row])
  BY TimeCounts
<1>4. PICK w : w = [op |-> "flushed", sheet |-> t, seen |-> q, item |-> i, row |-> row, count |-> c]
  OBVIOUS
<1>5. Turns(s, w) /\ UNCHANGED times
  <2>1. sess[s] # Idle
    BY <1>1, <1>2 DEF Idle
  <2>2. T!PresentIn(t, T!CountedItems(i, row)) = c
    BY <1>3 DEF T!CountedItems, T!FlushedItems
  <2>3. v.sheet = t /\ v.seen = q /\ v.row = row
    BY <1>2
  <2>4. w = [op |-> "flushed", sheet |-> v.sheet, seen |-> v.seen, item |-> i, row |-> v.row,
             count |-> T!PresentIn(v.sheet, T!CountedItems(i, v.row))]
    BY <1>4, <2>2, <2>3
  <2>5. UNCHANGED times /\ T!Go(s, w)
    BY <1>1, <2>4 DEF T!FlushItem, T!sheetTables, times
  <2> QED
    BY <1>1, <2>1, <2>5 DEF T!Go, Turns
<1>6. IF found # {} THEN i \in found ELSE items[i] = T!NoRow
  BY <1>1, <1>2 DEF T!FlushItem
<1>7. ASSUME alone PROVE Counted(t, q, i, row, c)
  <2>1. Found(t, q, found, row) /\ T!TypeOK
    BY <1>2, <1>7 DEF TimeGoal, TimeInv, TimeRows
  <2>2. items[i].of \in {t, "none"}
    <3>1. CASE found = {}
      BY <1>6, <2>1, <3>1, TimeTypes
    <3>2. CASE found # {} /\ row = T!NoRow
      BY <1>6, <2>1, <3>2 DEF Found
    <3>3. CASE found # {} /\ row # T!NoRow
      BY <1>6, <2>1, <3>3 DEF Found, T!ItemsOn
    <3> QED
      BY <3>1, <3>2, <3>3
  <2>3. ASSUME row # T!NoRow, NEW j \in Items, j # i, items[j].of = t, items[j].day = row.day
        PROVE  FALSE
    <3>1. found = T!ItemsOn(t, row.day)
      BY <2>1, <2>3 DEF Found
    <3>2. j \in found
      BY <2>3, <3>1 DEF T!ItemsOn
    <3>3. i \in found /\ items[i].of = t /\ items[i].day = row.day
      BY <1>6, <3>1, <3>2 DEF T!ItemsOn
    <3>4. items[i] # T!NoRow /\ items[j] # T!NoRow
      BY <2>1, <2>3, <3>3, TimeTypes
    <3> QED
      BY <1>7, <2>3, <3>3, <3>4 DEF TimeGoal, TimeInv, TimeRows, T!NoDuplicates
  <2> QED
    BY <1>3, <2>1, <2>2, <2>3 DEF Counted, Found
<1>8. HasFlushed(w)
  BY <1>2, <1>4, <1>7, Zenon DEF HasFlushed
<1> QED
  BY <1>5, <1>8, TimeGoes DEF TimeHeld

LEMMA TimeRequest ==
    ASSUME TimeGoal, branch = "times", branch' = branch, NEW s \in Sessions, T!Request(s), UNCHANGED times
    PROVE  TimeDone
<1>1. ASSUME NEW w, T!Begin(s, w), TimeHeld(w)
      PROVE  TimeDone
  <2>1. Turns(s, w)
    BY <1>1 DEF T!Begin, T!Go, T!Idle, Turns, Idle
  <2> QED
    BY <1>1, <2>1, TimeGoes
<1>2. T!TypeOK
  BY DEF TimeGoal, TimeInv, TimeRows
<1>3. ASSUME NEW p \in Placements, NEW m \in SheetMonths, T!CreateSheet(s, p, m)
      PROVE  TimeDone
  <2>1. PICK n : n = [placement |-> p, period |-> m, count |-> 0, status |-> "DRAFT"]
    OBVIOUS
  <2>2. n \in T!SheetRow /\ n.count = 0 /\ n.status = "DRAFT" /\ n.placement = p /\ n.period = m
    BY <2>1 DEF T!SheetRow
  <2>3. PICK w : w = [op |-> "add", table |-> "sheets", new |-> n]
    OBVIOUS
  <2>4. T!Begin(s, w) /\ T!NoSheetYet(p, m)
    BY <1>3, <2>1, <2>3 DEF T!CreateSheet, T!Add
  <2>5. AddsSheet(w)
    BY <2>2, <2>3, <2>4, Zenon DEF AddsSheet
  <2> QED
    BY <1>1, <2>4, <2>5 DEF TimeHeld
<1>4. ASSUME NEW t \in Sheets, NEW day \in SheetDays, NEW present \in BOOLEAN, T!UpsertItem(s, t, day, present)
      PROVE  TimeDone
  <2>1. PICK q \in T!SheetRow : q = sheets[t] /\ sheets[t] # T!NoRow /\ Open(q)
    BY <1>2, <1>4, TimeTypes DEF T!UpsertItem, T!MayEdit, Open
  <2>2. PICK row : row = [of |-> t, day |-> day, present |-> present]
    OBVIOUS
  <2>3. row \in T!ItemRow /\ row.of = t /\ row.day = day
    BY <2>2 DEF T!ItemRow
  <2>4. PICK found \in SUBSET Items : found = T!ItemsOn(t, day)
    BY DEF T!ItemsOn
  <2>5. PICK w : w = [op |-> "item", sheet |-> t, seen |-> q, found |-> found, row |-> row]
    OBVIOUS
  <2>6. T!Begin(s, w)
    BY <1>4, <2>1, <2>2, <2>4, <2>5 DEF T!UpsertItem
  <2>7. Found(t, q, found, row)
    BY <1>2, <2>1, <2>3, <2>4, TimeTypes DEF Found
  <2>8. ChangesItem(w)
    BY <2>1, <2>3, <2>5, <2>7, Zenon DEF ChangesItem
  <2> QED
    BY <1>1, <2>6, <2>8 DEF TimeHeld
<1>5. ASSUME NEW i \in Items, T!DeleteItem(s, i)
      PROVE  TimeDone
  <2>1. PICK t \in Sheets : t = items[i].of /\ items[i] # T!NoRow
    <3>1. items[i] \in T!ItemRow /\ items[i] # T!NoRow
      BY <1>2, <1>5, TimeTypes DEF T!DeleteItem
    <3> QED
      BY <3>1 DEF T!ItemRow
  <2>2. PICK q \in T!SheetRow : q = sheets[t] /\ sheets[t] # T!NoRow /\ Open(q)
    BY <1>2, <1>5, <2>1, TimeTypes DEF T!DeleteItem, T!MayEdit, Open
  <2>3. PICK w : w = [op |-> "item", sheet |-> t, seen |-> q, found |-> {i}, row |-> T!NoRow]
    OBVIOUS
  <2>4. T!Begin(s, w)
    BY <1>5, <2>1, <2>2, <2>3 DEF T!DeleteItem
  <2>5. Found(t, q, {i}, T!NoRow)
    BY <2>1, <2>2 DEF Found
  <2>6. ChangesItem(w)
    <3>1. {i} \in SUBSET Items /\ T!NoRow \in T!ItemRow \cup {T!NoRow}
      OBVIOUS
    <3> QED
      BY <2>2, <2>3, <2>5, <3>1, Zenon DEF ChangesItem
  <2> QED
    BY <1>1, <2>4, <2>6 DEF TimeHeld
<1>6. ASSUME NEW t \in Sheets, T!Submit(s, t) \/ T!Approve(s, t) \/ T!Reject(s, t)
      PROVE  TimeDone
  <2>1. PICK q : q = sheets[t] /\ q.status \in {"DRAFT", "REJECTED", "SUBMITTED"}
    BY <1>6 DEF T!Submit, T!Approve, T!Reject, T!MaySubmit, T!MayApprove, T!MayReject
  <2>2. PICK n : T!Edit(s, "sheets", t, q, n) /\ \E status \in {"SUBMITTED", "APPROVED", "REJECTED"} : n = [q EXCEPT !.status = status]
    BY <1>6, <2>1 DEF T!Submit, T!Approve, T!Reject, T!ChangeSheet
  <2>3. q \in T!SheetRow /\ sheets[t] # T!NoRow
    BY <1>2, <2>1, TimeTypes
  <2>4. n \in T!SheetRow /\ n.count = q.count /\ n.placement = q.placement /\ n.period = q.period /\ q.status # "APPROVED"
    BY <2>1, <2>2, <2>3 DEF T!SheetRow
  <2>5. PICK w : w = [op |-> "edit", table |-> "sheets", key |-> t, seen |-> q, new |-> n]
    OBVIOUS
  <2>6. T!Begin(s, w)
    BY <2>2, <2>5 DEF T!Edit
  <2>7. EditsSheet(w)
    BY <2>1, <2>3, <2>4, <2>5, Zenon DEF EditsSheet
  <2> QED
    BY <1>1, <2>6, <2>7 DEF TimeHeld
<1>7. ASSUME NEW t \in Sheets, T!GenerateReport(s, t)
      PROVE  TimeDone
  <2>1. PICK no \in Nat : no = T!NextReportNo
    BY TimeCounts
  <2>2. PICK n : n = [of |-> t, no |-> no]
    OBVIOUS
  <2>3. n \in T!ReportRow /\ n.of = t
    BY <2>2 DEF T!ReportRow
  <2>4. PICK w : w = [op |-> "add", table |-> "reports", new |-> n]
    OBVIOUS
  <2>5. T!Begin(s, w) /\ sheets[t].status = "APPROVED" /\ T!ReportsOf(t) = {}
    BY <1>7, <2>1, <2>2, <2>4 DEF T!GenerateReport, T!MayReport, T!Add
  <2>6. AddsReport(w)
    BY <2>3, <2>4, <2>5, Zenon DEF AddsReport
  <2> QED
    BY <1>1, <2>5, <2>6 DEF TimeHeld
<1>8. ASSUME NEW r \in Reports, T!RegenerateReport(s, r)
      PROVE  TimeDone
  <2>1. PICK q \in T!ReportRow : q = reports[r] /\ reports[r] # T!NoRow
    BY <1>2, <1>8, TimeTypes DEF T!RegenerateReport
  <2>2. PICK w : w = [op |-> "edit", table |-> "reports", key |-> r, seen |-> q, new |-> q]
    OBVIOUS
  <2>3. T!Begin(s, w) /\ EditsReport(w)
    BY <1>8, <2>1, <2>2 DEF T!RegenerateReport, T!Edit, EditsReport
  <2> QED
    BY <1>1, <2>3 DEF TimeHeld
<1> QED
  BY <1>3, <1>4, <1>5, <1>6, <1>7, <1>8 DEF T!Request

LEMMA TimeStep ==
    ASSUME TimeGoal, branch = "times", branch' = branch, T!Next
    PROVE  TimeDone
<1>1. PICK s \in Sessions : T!Step(s)
  BY DEF T!Next
<1>2. CASE T!Request(s) /\ UNCHANGED times
  BY <1>2, TimeRequest
<1>3. CASE T!Abort(s) /\ UNCHANGED times
  <2>1. Turns(s, Idle) /\ TimeHeld(Idle)
    BY <1>3 DEF T!Abort, T!Finish, T!Go, T!Idle, Turns, Idle, TimeHeld
  <2> QED
    BY <1>3, <2>1, TimeGoes
<1> QED
  BY <1>1, <1>2, <1>3, TimeCommit, ItemStored, ItemFlushed DEF T!Step, T!sheetTables, times

LEMMA TimeQuiet ==
    ASSUME TimeInv, UNCHANGED <<branch, alone, times>>, branch = "times" => sess' = sess
    PROVE  TimeInv' /\ TimeKeeps
<1>1. TimeRows'
  BY TimeRowsSame DEF TimeInv
<1>2. ASSUME branch = "times", NEW t \in Sessions PROVE TimeHeld(sess[t])'
  <2>1. PICK v : v = sess[t] /\ v = sess'[t]
    BY <1>2
  <2>2. TimeHeld(v)
    BY <1>2, <2>1 DEF TimeInv
  <2>3. TimeHeld(v)'
    BY <2>2, TimeHeldSame
  <2> QED
    BY <2>1, <2>3
<1>3. TimeKeeps
  BY DEF TimeKeeps, times
<1> QED
  BY <1>1, <1>2, <1>3 DEF TimeInv

-----------------------------------------------------------------------------
\* What leads are offered.
\* The total and the items of what was asked for.
Priced(total, lines) ==
    \E asked \in Q!Asked :
        /\ total = Q!Total(asked)
        /\ lines = [i \in DOMAIN asked |-> [spec |-> asked[i], subtotal |-> Q!Subtotal(asked[i])]]
AddsOffer(w) ==
    \E row \in Q!Proposal, lines \in Seq([spec: Specs, subtotal: Nat]) :
        /\ w = [op |-> "add", table |-> "proposals", new |-> [row |-> row, lines |-> lines]]
        /\ Priced(row.total, lines)
EditsOffer(w) ==
    \E p \in ProposalIds, q \in Q!Proposal, n \in Q!Proposal :
        /\ w = [op |-> "edit", table |-> "proposals", key |-> p, seen |-> q, new |-> n]
        /\ n.total = q.total /\ proposals[p] # Q!NoRow
OfferHeld(w) == w = Idle \/ AddsOffer(w) \/ EditsOffer(w)
OfferRows ==
    /\ Q!TypeOK
    /\ offered = [p \in ProposalIds |-> offered[p]]
    /\ \A p \in ProposalIds : proposals[p] # Q!NoRow => Priced(proposals[p].total, offered[p])
OfferInv == OfferRows /\ (branch = "offers" => \A s \in Sessions : OfferHeld(sess[s]))
OfferGoal == InTurn /\ OfferInv
OfferDone == InTurn' /\ OfferInv' /\ alone' = alone

LEMMA OfferCount == \A some : Q!Cardinality(some) = Cardinality(some)
  BY DEF Q!Cardinality, Cardinality

LEMMA OfferProducts ==
    ASSUME NEW asked
    PROVE  SumOn([i \in DOMAIN asked |-> Q!Product(asked[i])], DOMAIN asked)
           = Q!MapThenSumSet(LAMBDA i : Q!Product(asked[i]), DOMAIN asked)
<1> DEFINE f == [i \in DOMAIN asked |-> Q!Product(asked[i])]
<1>1. \A r \in SUBSET DOMAIN asked : r # {} => f[CHOOSE x \in r : TRUE] = Q!Product(asked[CHOOSE x \in r : TRUE])
  OBVIOUS
<1> HIDE DEF f
<1>2. \A iter : iter = [r \in SUBSET DOMAIN asked |-> IF r = {} THEN 0
                           ELSE f[CHOOSE x \in r : TRUE] + iter[r \ {CHOOSE x \in r : TRUE}]]
             <=> iter = [r \in SUBSET DOMAIN asked |-> IF r = {} THEN 0
                           ELSE Q!Product(asked[CHOOSE x \in r : TRUE]) + iter[r \ {CHOOSE x \in r : TRUE}]]
  BY <1>1
<1>3. (CHOOSE iter : iter = [r \in SUBSET DOMAIN asked |-> IF r = {} THEN 0
                           ELSE f[CHOOSE x \in r : TRUE] + iter[r \ {CHOOSE x \in r : TRUE}]])
      = CHOOSE iter : iter = [r \in SUBSET DOMAIN asked |-> IF r = {} THEN 0
                           ELSE Q!Product(asked[CHOOSE x \in r : TRUE]) + iter[r \ {CHOOSE x \in r : TRUE}]]
  BY <1>2
<1>4. SumOn(f, DOMAIN asked) = Q!MapThenSumSet(LAMBDA i : Q!Product(asked[i]), DOMAIN asked)
  BY <1>3 DEF SumOn, MapThenSumSet, MapThenFoldSet, Q!MapThenSumSet, Q!MapThenFoldSet
<1> QED
  BY <1>4 DEF f
Subtotals(lines) == Q!MapThenSumSet(LAMBDA i : lines[i].subtotal, DOMAIN lines)
LEMMA OfferSubtotals ==
    ASSUME NEW lines, NEW f, f = [i \in DOMAIN lines |-> lines[i].subtotal]
    PROVE  SumOn(f, DOMAIN lines)
           = Subtotals(lines)
<1>1. \A r \in SUBSET DOMAIN lines : r # {} => f[CHOOSE x \in r : TRUE] = lines[CHOOSE x \in r : TRUE].subtotal
  OBVIOUS
<1>2. \A iter : iter = [r \in SUBSET DOMAIN lines |-> IF r = {} THEN 0
                           ELSE f[CHOOSE x \in r : TRUE] + iter[r \ {CHOOSE x \in r : TRUE}]]
             <=> iter = [r \in SUBSET DOMAIN lines |-> IF r = {} THEN 0
                           ELSE lines[CHOOSE x \in r : TRUE].subtotal + iter[r \ {CHOOSE x \in r : TRUE}]]
  BY <1>1
<1>3. (CHOOSE iter : iter = [r \in SUBSET DOMAIN lines |-> IF r = {} THEN 0
                           ELSE f[CHOOSE x \in r : TRUE] + iter[r \ {CHOOSE x \in r : TRUE}]])
      = CHOOSE iter : iter = [r \in SUBSET DOMAIN lines |-> IF r = {} THEN 0
                           ELSE lines[CHOOSE x \in r : TRUE].subtotal + iter[r \ {CHOOSE x \in r : TRUE}]]
  BY <1>2
<1>4. SumOn(f, DOMAIN lines) = Subtotals(lines)
  BY <1>3 DEF SumOn, MapThenSumSet, MapThenFoldSet, Q!MapThenSumSet, Q!MapThenFoldSet, Subtotals
<1> QED
  BY <1>4

\* The total is rounded once.
LEMMA RoundedOnce ==
    ASSUME NEW p \in Int, NEW s \in Int, NEW k \in Nat, p - 100 * s <= 49 * k, 100 * s - p <= 50 * k
    PROVE  Q!Stored(p) - s <= k \div 2 /\ -(Q!Stored(p) - s) <= k \div 2
<1>1. PICK m : m = k \div 2
  OBVIOUS
<1>2. m \in Nat /\ (k = 2 * m \/ k = 2 * m + 1)
  BY <1>1
<1> QED
  BY <1>1, <1>2 DEF Q!Stored
LEMMA AskedFor ==
    ASSUME NEW asked \in Q!Asked
    PROVE  /\ IsFiniteSet(DOMAIN asked) /\ \A i \in DOMAIN asked : asked[i] \in Specs /\ Q!Product(asked[i]) \in Nat
           /\ asked \in Seq(Specs)
<1>1. PICK n \in 0 .. MaxItems : asked \in [1 .. n -> Specs]
  BY DEF Q!Asked
<1>2. n \in Nat
  BY <1>1, DeliveryAssumption
<1>3. IsFiniteSet(1 .. n)
  BY <1>2, FS_Interval
<1>4. \A spec \in Specs : Q!Product(spec) \in Nat
  <2>1. ASSUME NEW spec \in Specs PROVE Q!Product(spec) \in Nat
    <3>1. spec \in [quantity: Nat, price: Nat]
      BY DeliveryAssumption
    <3>2. spec.quantity \in Nat /\ spec.price \in Nat
      BY <3>1
    <3> QED
      BY <3>2 DEF Q!Product
  <2> QED
    BY <2>1
<1>5. asked \in Seq(Specs)
  BY <1>1, <1>2
<1> QED
  BY <1>1, <1>3, <1>4, <1>5

\* What is asked for is stored as numbers, near to one another.
LEMMA PricedNear ==
    ASSUME NEW asked \in Q!Asked, NEW lines,
           lines = [i \in DOMAIN asked |-> [spec |-> asked[i], subtotal |-> Q!Subtotal(asked[i])]]
    PROVE  LET total  == Q!Total(asked)
               sum    == Subtotals(lines)
               broken == {i \in DOMAIN lines : Q!Product(lines[i].spec) % 100 # 0}
           IN  /\ total \in Nat /\ lines \in Seq([spec: Specs, subtotal: Nat])
               /\ total - sum <= Q!Cardinality(broken) \div 2 /\ -(total - sum) <= Q!Cardinality(broken) \div 2
<1>1. PICK ids : ids = DOMAIN asked /\ ids = DOMAIN lines
  OBVIOUS
<1>2. PICK prices : prices = [i \in ids |-> Q!Product(asked[i])]
  OBVIOUS
<1>3. PICK stored : stored = [i \in ids |-> lines[i].subtotal]
  OBVIOUS
<1>4. PICK broken \in SUBSET ids : broken = {i \in DOMAIN lines : Q!Product(lines[i].spec) % 100 # 0}
  BY <1>1
<1>5. IsFiniteSet(ids) /\ \A i \in ids : asked[i] \in Specs /\ Q!Product(asked[i]) \in Nat
  BY <1>1, AskedFor
<1>6. \A i \in ids : lines[i].spec = asked[i] /\ lines[i].subtotal = Q!Stored(Q!Product(asked[i]))
  BY <1>1 DEF Q!Subtotal
<1>7. \A i \in ids : prices[i] \in Nat /\ stored[i] = Q!Stored(prices[i]) /\ (i \notin broken => prices[i] % 100 = 0)
  BY <1>1, <1>2, <1>3, <1>4, <1>5, <1>6
<1>8. /\ SumOn(prices, ids) \in Int /\ SumOn(stored, ids) \in Int /\ Cardinality(broken) \in Nat
      /\ SumOn(prices, ids) - 100 * SumOn(stored, ids) <= 49 * Cardinality(broken)
      /\ 100 * SumOn(stored, ids) - SumOn(prices, ids) <= 50 * Cardinality(broken)
  <2>1. \A i \in ids : /\ stored[i] \in Int /\ prices[i] \in Int
                       /\ prices[i] - 100 * stored[i] <= 49 /\ 100 * stored[i] - prices[i] <= 50
                       /\ i \notin broken => prices[i] = 100 * stored[i]
    <3>1. \A x \in Nat : /\ Q!Stored(x) \in Int /\ x - 100 * Q!Stored(x) <= 49 /\ 100 * Q!Stored(x) - x <= 50
                         /\ x % 100 = 0 => x = 100 * Q!Stored(x)
      BY DEF Q!Stored
    <3>2. ASSUME NEW i \in ids
          PROVE  /\ stored[i] \in Int /\ prices[i] \in Int /\ prices[i] - 100 * stored[i] <= 49
                 /\ 100 * stored[i] - prices[i] <= 50 /\ (i \notin broken => prices[i] = 100 * stored[i])
      <4>1. PICK x \in Nat : x = prices[i] /\ stored[i] = Q!Stored(x) /\ (i \notin broken => x % 100 = 0)
        BY <1>7
      <4> QED
        BY <3>1, <4>1
    <3> QED
      BY <3>2
  <2> QED
    BY <1>5, <2>1, RoundingSome
<1>9. SumOn(prices, ids) = Q!MapThenSumSet(LAMBDA i : Q!Product(asked[i]), DOMAIN asked)
  BY <1>1, <1>2, OfferProducts
<1>10. SumOn(stored, ids) = Subtotals(lines)
  <2>1. stored = [i \in DOMAIN lines |-> lines[i].subtotal]
    BY <1>1, <1>3
  <2>2. SumOn(stored, DOMAIN lines) = Subtotals(lines)
    BY <2>1, OfferSubtotals
  <2> QED
    BY <1>1, <2>2
<1>11. Q!Total(asked) = Q!Stored(SumOn(prices, ids))
  BY <1>9 DEF Q!Total
<1>12. SumOn(prices, ids) \in Nat
  BY <1>5, <1>7, SumOnType
<1>13. \A x \in Nat : Q!Stored(x) \in Nat
  BY DEF Q!Stored
<1>14. lines \in Seq([spec: Specs, subtotal: Nat])
  <2>1. PICK n \in 0 .. MaxItems : asked \in [1 .. n -> Specs]
    BY DEF Q!Asked
  <2>2. n \in Nat /\ ids = 1 .. n
    BY <1>1, <2>1, DeliveryAssumption
  <2>3. \A i \in ids : [spec |-> asked[i], subtotal |-> Q!Subtotal(asked[i])] \in [spec: Specs, subtotal: Nat]
    BY <1>5, <1>13 DEF Q!Subtotal
  <2>4. lines \in [1 .. n -> [spec: Specs, subtotal: Nat]]
    BY <1>1, <2>2, <2>3
  <2> QED
    BY <2>2, <2>4
<1>15. PICK k \in Nat : k = Cardinality(broken)
  BY <1>8
<1>16. PICK s \in Int : s = SumOn(stored, ids)
  BY <1>8
<1>17. Q!Total(asked) - s <= k \div 2 /\ -(Q!Total(asked) - s) <= k \div 2
  BY <1>8, <1>11, <1>15, <1>16, RoundedOnce
<1>18. Q!Cardinality(broken) = k
  BY <1>15, OfferCount
<1> QED
  BY <1>4, <1>10, <1>11, <1>12, <1>13, <1>14, <1>16, <1>17, <1>18

LEMMA OfferTotals ==
    ASSUME OfferRows PROVE Q!TotalsNear
<1>1. ASSUME NEW p \in ProposalIds, proposals[p] # Q!NoRow
      PROVE  /\ proposals[p].total - Q!SumOfSubtotals(p) <= Q!Cardinality(Q!Broken(p)) \div 2
             /\ -(proposals[p].total - Q!SumOfSubtotals(p)) <= Q!Cardinality(Q!Broken(p)) \div 2
  <2>1. PICK asked \in Q!Asked :
           /\ proposals[p].total = Q!Total(asked)
           /\ offered[p] = [i \in DOMAIN asked |-> [spec |-> asked[i], subtotal |-> Q!Subtotal(asked[i])]]
    BY <1>1 DEF OfferRows, Priced
  <2> QED
    BY <2>1, PricedNear DEF Q!SumOfSubtotals, Q!Broken, Subtotals
<1> QED
  BY <1>1 DEF Q!TotalsNear

LEMMA OfferOps ==
    ASSUME NEW v, OfferHeld(v)
    PROVE  (v.op = "add" => AddsOffer(v)) /\ (v.op = "edit" => EditsOffer(v))
<1>1. v = Idle => v.op = "idle"
  BY DEF Idle
<1>2. AddsOffer(v) => v.op = "add"
  BY DEF AddsOffer
<1>3. EditsOffer(v) => v.op = "edit"
  BY DEF EditsOffer
<1> QED
  BY <1>1, <1>2, <1>3 DEF OfferHeld

LEMMA OfferMerge ==
    ASSUME NEW now \in Q!Proposal, NEW q \in Q!Proposal, NEW n \in Q!Proposal, n.total = q.total
    PROVE  Q!Merge(now, q, n) \in Q!Proposal /\ Q!Merge(now, q, n).total = now.total
<1>1. DOMAIN now = {"lead", "number", "total", "status"}
  BY DEF Q!Proposal
<1>2. Q!Merge(now, q, n) = [lead   |-> IF n.lead = q.lead THEN now.lead ELSE n.lead,
                            number |-> IF n.number = q.number THEN now.number ELSE n.number,
                            total  |-> IF n.total = q.total THEN now.total ELSE n.total,
                            status |-> IF n.status = q.status THEN now.status ELSE n.status]
  BY <1>1 DEF Q!Merge
<1> QED
  BY <1>2 DEF Q!Proposal

LEMMA OfferStarts ==
    ASSUME Q!Init PROVE OfferInv
<1>1. OfferRows
  <2>1. 0 \in 0 .. MaxActivities
    BY DeliveryAssumption
  <2> QED
    BY <2>1 DEF Q!Init, OfferRows, Q!TypeOK
<1>2. \A s \in Sessions : OfferHeld(sess[s])
  BY DEF Q!Init, Q!AllIdle, Q!Idle, Idle, OfferHeld
<1> QED
  BY <1>1, <1>2 DEF OfferInv

LEMMA OfferRowsSame ==
    ASSUME OfferRows, UNCHANGED <<proposals, offered>>,
           activities' \in [Leads -> 0 .. MaxActivities], targets' \subseteq Targets
    PROVE  OfferRows'
<1>1. Q!TypeOK'
  BY DEF OfferRows, Q!TypeOK
<1>2. \A p \in ProposalIds : proposals'[p] # Q!NoRow => Priced(proposals'[p].total, offered'[p])
  BY DEF OfferRows
<1>3. (\A p \in ProposalIds : proposals[p] # Q!NoRow => Priced(proposals[p].total, offered[p]))'
  BY <1>2 DEF Priced
<1> QED
  BY <1>1, <1>3 DEF OfferRows

LEMMA OfferHeldSame ==
    ASSUME NEW v, OfferHeld(v), \A p \in ProposalIds : proposals[p] # Q!NoRow => proposals'[p] # Q!NoRow
    PROVE  OfferHeld(v)'
<1>1. AddsOffer(v) => AddsOffer(v)'
  BY DEF AddsOffer, Priced
<1>2. EditsOffer(v) => EditsOffer(v)'
  BY DEF EditsOffer
<1> QED
  BY <1>1, <1>2 DEF OfferHeld

LEMMA OfferTurns ==
    ASSUME OfferGoal, branch = "offers", branch' = branch, OfferRows',
           \A p \in ProposalIds : proposals[p] # Q!NoRow => proposals'[p] # Q!NoRow,
           NEW s \in Sessions, NEW w, Turns(s, w), OfferHeld(w)
    PROVE  OfferDone
<1>1. ASSUME NEW t \in Sessions PROVE OfferHeld(sess[t])'
  <2>1. PICK v : v = sess'[t]
    OBVIOUS
  <2>2. OfferHeld(v)
    BY <2>1, TurnKeeps DEF OfferGoal, OfferInv
  <2>3. OfferHeld(v)'
    BY <2>2, OfferHeldSame
  <2> QED
    BY <2>1, <2>3
<1> QED
  BY <1>1, TurnKeeps DEF OfferInv, OfferDone, OfferGoal, Turns

LEMMA OfferStored ==
    ASSUME OfferRows, NEW p \in ProposalIds, NEW row \in Q!Proposal, NEW lines \in Seq([spec: Specs, subtotal: Nat]),
           Priced(row.total, lines), UNCHANGED <<activities, targets>>,
           proposals' = [proposals EXCEPT ![p] = row], offered' = [offered EXCEPT ![p] = lines]
    PROVE  OfferRows' /\ \A r \in ProposalIds : proposals[r] # Q!NoRow => proposals'[r] # Q!NoRow
<1>1. Q!TypeOK
  BY DEF OfferRows
<1>2. Q!NoRow \notin Q!Proposal
  BY DEF Q!NoRow, Q!Proposal
<1>3. /\ proposals' \in [ProposalIds -> Q!Proposal \cup {Q!NoRow}] /\ proposals'[p] = row
      /\ \A r \in ProposalIds : /\ r # p => proposals'[r] = proposals[r]
                                /\ proposals[r] # Q!NoRow => proposals'[r] # Q!NoRow
  BY <1>1, <1>2, RowStored DEF Q!TypeOK
<1>4. /\ offered' = [r \in ProposalIds |-> offered'[r]] /\ offered'[p] = lines
      /\ \A r \in ProposalIds : r # p => offered'[r] = offered[r]
  BY DEF OfferRows
<1>5. \A r \in ProposalIds : \A i \in DOMAIN offered'[r] : offered'[r][i] \in [spec: Specs, subtotal: Nat]
  <2>1. \A i \in DOMAIN lines : lines[i] \in [spec: Specs, subtotal: Nat]
    <3>1. PICK Lines : Lines = [spec: Specs, subtotal: Nat]
      OBVIOUS
    <3>2. lines \in Seq(Lines)
      BY <3>1
    <3>3. DOMAIN lines = 1 .. Len(lines)
      BY <3>2
    <3>4. \A i \in 1 .. Len(lines) : lines[i] \in Lines
      BY <3>2
    <3> QED
      BY <3>1, <3>3, <3>4
  <2> QED
    BY <1>1, <1>4, <2>1 DEF Q!TypeOK
<1>6. Q!TypeOK'
  BY <1>1, <1>3, <1>5 DEF Q!TypeOK
<1>7. \A r \in ProposalIds : proposals'[r] # Q!NoRow => Priced(proposals'[r].total, offered'[r])
  BY <1>3, <1>4 DEF OfferRows
<1>8. (\A r \in ProposalIds : proposals[r] # Q!NoRow => Priced(proposals[r].total, offered[r]))'
  BY <1>7 DEF Priced
<1> QED
  BY <1>3, <1>4, <1>6, <1>8 DEF OfferRows

LEMMA OfferStep ==
    ASSUME OfferGoal, branch = "offers", branch' = branch, Q!Next
    PROVE  OfferDone
<1>1. Q!TypeOK /\ OfferRows
  BY DEF OfferGoal, OfferInv, OfferRows
<1>2. Q!NoRow \notin Q!Proposal /\ Q!NoRow.status = "NONE"
  BY DEF Q!NoRow, Q!Proposal
<1>3. ASSUME UNCHANGED offers, NEW s \in Sessions, NEW w, Turns(s, w), OfferHeld(w)
      PROVE  OfferDone
  <2>1. OfferRows'
    BY <1>1, <1>3, OfferRowsSame DEF offers, Q!TypeOK
  <2> QED
    BY <1>3, <2>1, OfferTurns DEF offers
<1>4. ASSUME NEW s \in Sessions, NEW l \in Leads, NEW number \in Numbers, NEW asked \in Q!Asked,
             Q!CreateProposal(s, l, number, asked)
      PROVE  OfferDone
  <2>1. PICK lines : lines = [i \in DOMAIN asked |-> [spec |-> asked[i], subtotal |-> Q!Subtotal(asked[i])]]
    OBVIOUS
  <2>2. Q!Total(asked) \in Nat /\ lines \in Seq([spec: Specs, subtotal: Nat])
    BY <2>1, PricedNear
  <2>3. PICK row : row = [lead |-> l, number |-> number, total |-> Q!Total(asked), status |-> "DRAFT"]
    OBVIOUS
  <2>4. row \in Q!Proposal /\ Priced(row.total, lines)
    BY <2>1, <2>2, <2>3 DEF Q!Proposal, Priced
  <2>5. PICK w : w = [op |-> "add", table |-> "proposals", new |-> [row |-> row, lines |-> lines]]
    OBVIOUS
  <2>6. AddsOffer(w)
    BY <2>2, <2>4, <2>5 DEF AddsOffer
  <2>7. Turns(s, w) /\ UNCHANGED offers
    BY <1>4, <2>1, <2>3, <2>5 DEF Q!CreateProposal, Q!Add, Q!Begin, Q!Go, Q!Idle, Turns, Idle, Q!offerTables, offers
  <2> QED
    BY <1>3, <2>6, <2>7 DEF OfferHeld
<1>5. ASSUME NEW s \in Sessions, NEW p \in ProposalIds, Q!CreateCommit(s, p)
      PROVE  OfferDone
  <2>1. PICK v : v = sess[s] /\ OfferHeld(v)
    BY DEF OfferGoal, OfferInv
  <2>2. AddsOffer(v)
    BY <1>5, <2>1, OfferOps DEF Q!CreateCommit, Q!Adding
  <2>3. PICK row \in Q!Proposal, lines \in Seq([spec: Specs, subtotal: Nat]) :
          v = [op |-> "add", table |-> "proposals", new |-> [row |-> row, lines |-> lines]] /\ Priced(row.total, lines)
    BY <2>2 DEF AddsOffer
  <2>4. Turns(s, Idle) /\ OfferHeld(Idle) /\ UNCHANGED <<activities, targets>>
    <3>1. sess[s] # Idle
      BY <2>1, <2>3 DEF Idle
    <3> QED
      BY <1>5, <3>1 DEF Q!CreateCommit, Q!Finish, Q!Go, Q!Idle, Turns, Idle, OfferHeld
  <2>5. CASE UNCHANGED <<proposals, offered>>
    BY <1>3, <2>4, <2>5 DEF offers
  <2>6. CASE proposals' = [proposals EXCEPT ![p] = row] /\ offered' = [offered EXCEPT ![p] = lines]
    <3>1. OfferRows' /\ \A r \in ProposalIds : proposals[r] # Q!NoRow => proposals'[r] # Q!NoRow
      BY <1>1, <2>3, <2>4, <2>6, OfferStored
    <3> QED
      BY <2>4, <3>1, OfferTurns
  <2>7. v.new.row = row /\ v.new.lines = lines
    BY <2>3
  <2> QED
    BY <1>5, <2>1, <2>5, <2>6, <2>7 DEF Q!CreateCommit
<1>6. ASSUME NEW s \in Sessions, NEW p \in ProposalIds, Q!Send(s, p)
      PROVE  OfferDone
  <2>1. PICK q \in Q!Proposal : q = proposals[p] /\ proposals[p] # Q!NoRow
    BY <1>1, <1>2, <1>6 DEF Q!Send, Q!MaySend, Q!TypeOK
  <2>2. PICK n \in Q!Proposal : n = [q EXCEPT !.status = "SENT"] /\ n.total = q.total
    <3>1. PICK n : n = [q EXCEPT !.status = "SENT"]
      OBVIOUS
    <3>2. n \in Q!Proposal /\ n.total = q.total
      BY <2>1, <3>1 DEF Q!Proposal
    <3> QED
      BY <3>1, <3>2
  <2>3. PICK w : w = [op |-> "edit", table |-> "proposals", key |-> p, seen |-> q, new |-> n]
    OBVIOUS
  <2>4. EditsOffer(w)
    BY <2>1, <2>2, <2>3 DEF EditsOffer
  <2>5. Turns(s, w) /\ UNCHANGED offers
    BY <1>6, <2>1, <2>2, <2>3 DEF Q!Send, Q!Edit, Q!Begin, Q!Go, Q!Idle, Turns, Idle, Q!offerTables, offers
  <2> QED
    BY <1>3, <2>4, <2>5 DEF OfferHeld
<1>7. ASSUME NEW s \in Sessions, Q!SendCommit(s)
      PROVE  OfferDone
  <2>1. PICK v : v = sess[s] /\ OfferHeld(v)
    BY DEF OfferGoal, OfferInv
  <2>2. EditsOffer(v)
    BY <1>7, <2>1, OfferOps DEF Q!SendCommit, Q!Editing
  <2>3. PICK p \in ProposalIds, q \in Q!Proposal, n \in Q!Proposal :
        /\ v = [op |-> "edit", table |-> "proposals", key |-> p, seen |-> q, new |-> n]
        /\ n.total = q.total /\ proposals[p] # Q!NoRow
    BY <2>2 DEF EditsOffer
  <2>4. Turns(s, Idle) /\ OfferHeld(Idle) /\ UNCHANGED <<offered, activities, targets>>
    <3>1. sess[s] # Idle
      BY <2>1, <2>3 DEF Idle
    <3> QED
      BY <1>7, <3>1 DEF Q!SendCommit, Q!Finish, Q!Go, Q!Idle, Turns, Idle, OfferHeld
  <2>5. PICK row : row = Q!Merge(proposals[p], q, n)
    OBVIOUS
  <2>6. row \in Q!Proposal /\ row.total = proposals[p].total
    BY <1>1, <2>3, <2>5, OfferMerge DEF Q!TypeOK
  <2>7. proposals' = [proposals EXCEPT ![p] = row]
    BY <1>7, <2>1, <2>3, <2>5 DEF Q!SendCommit, Q!Edited
  <2>8. /\ Priced(row.total, offered[p]) /\ offered' = [offered EXCEPT ![p] = offered[p]]
        /\ offered[p] \in Seq([spec: Specs, subtotal: Nat])
    <3>1. Priced(row.total, offered[p])
      BY <1>1, <2>3, <2>6 DEF OfferRows
    <3>2. offered[p] \in Seq([spec: Specs, subtotal: Nat])
      BY <3>1, PricedNear DEF Priced
    <3> QED
      BY <1>1, <2>4, <3>1, <3>2 DEF OfferRows
  <2>9. OfferRows' /\ \A r \in ProposalIds : proposals[r] # Q!NoRow => proposals'[r] # Q!NoRow
    BY <1>1, <2>4, <2>6, <2>7, <2>8, OfferStored
  <2> QED
    BY <2>4, <2>9, OfferTurns
<1>8. ASSUME NEW s \in Sessions, Q!Abort(s), UNCHANGED offers
      PROVE  OfferDone
  <2>1. Turns(s, Idle) /\ OfferHeld(Idle)
    BY <1>8 DEF Q!Abort, Q!Finish, Q!Go, Q!Idle, Turns, Idle, OfferHeld
  <2> QED
    BY <1>3, <1>8, <2>1
<1>9. ASSUME UNCHANGED <<proposals, offered, alone, sess>>,
             activities' \in [Leads -> 0 .. MaxActivities], targets' \subseteq Targets
      PROVE  OfferDone
  <2>1. OfferRows'
    BY <1>1, <1>9, OfferRowsSame
  <2>2. ASSUME NEW s \in Sessions PROVE OfferHeld(sess[s])'
    <3>1. PICK v : v = sess[s] /\ v = sess'[s]
      BY <1>9
    <3>2. OfferHeld(v)'
      BY <1>9, <3>1, OfferHeldSame DEF OfferGoal, OfferInv
    <3> QED
      BY <3>1, <3>2
  <2>3. InTurn'
    BY <1>9 DEF OfferGoal, InTurn
  <2> QED
    BY <1>9, <2>1, <2>2, <2>3 DEF OfferDone, OfferInv
<1>10. ASSUME NEW l \in Leads, Q!LogActivity(l)
       PROVE  OfferDone
  <2>1. activities' \in [Leads -> 0 .. MaxActivities]
    BY <1>1, <1>10, DeliveryAssumption DEF Q!TypeOK, Q!LogActivity
  <2> QED
    BY <1>1, <1>9, <1>10, <2>1 DEF Q!TypeOK, Q!LogActivity, Q!handlers
<1>11. ASSUME NEW t \in Targets, Q!CreateTarget(t)
       PROVE  OfferDone
  BY <1>1, <1>9, <1>11 DEF Q!TypeOK, Q!CreateTarget, Q!handlers
<1> QED
  BY <1>4, <1>5, <1>6, <1>7, <1>8, <1>10, <1>11 DEF Q!Next, Q!Step, Q!offerTables, offers

LEMMA OfferQuiet ==
    ASSUME OfferInv, UNCHANGED <<branch, offers>>, branch = "offers" => sess' = sess
    PROVE  OfferInv'
<1>1. OfferRows'
  BY OfferRowsSame DEF OfferInv, OfferRows, Q!TypeOK, offers
<1>2. ASSUME branch = "offers", NEW t \in Sessions PROVE OfferHeld(sess[t])'
  <2>1. PICK v : v = sess[t] /\ v = sess'[t]
    BY <1>2
  <2>2. OfferHeld(v)'
    BY <1>2, <2>1, OfferHeldSame DEF OfferInv, offers
  <2> QED
    BY <2>1, <2>2
<1> QED
  BY <1>1, <1>2 DEF OfferInv

-----------------------------------------------------------------------------
\* What is delivered, together.
DeliveryInv == InTurn /\ WorkInv /\ BillInv /\ DocumentInv /\ PlaceInv /\ TimeInv /\ OfferInv
DeliveryKeeps == WorkKeeps /\ BillKeeps /\ PlaceKeeps /\ TimeKeeps

LEMMA DeliveryStarts == DeliveryInit => DeliveryInv
<1> SUFFICES ASSUME DeliveryInit PROVE DeliveryInv
  OBVIOUS
<1>1. InTurn
  BY DEF DeliveryInit, W!Init, W!AllIdle, W!Idle, Idle, InTurn
<1> QED
  BY <1>1, WorkStarts, BillStarts, DocumentStarts, PlaceStarts, TimeStarts, OfferStarts DEF DeliveryInit, DeliveryInv

LEMMA DeliverySteps == DeliveryInv /\ [DeliveryNext]_deliveryVars => DeliveryInv' /\ DeliveryKeeps
<1> SUFFICES ASSUME DeliveryInv, [DeliveryNext]_deliveryVars PROVE DeliveryInv' /\ DeliveryKeeps
  OBVIOUS
<1>1. InTurn /\ WorkInv /\ BillInv /\ DocumentInv /\ PlaceInv /\ TimeInv /\ OfferInv
  BY DEF DeliveryInv
<1>2. SUFFICES InTurn' /\ WorkInv' /\ BillInv' /\ DocumentInv' /\ PlaceInv' /\ TimeInv' /\ OfferInv'
               /\ WorkKeeps /\ BillKeeps /\ PlaceKeeps /\ TimeKeeps
  BY DEF DeliveryInv, DeliveryKeeps
<1>3. CASE UNCHANGED deliveryVars
  <2>1. /\ UNCHANGED <<branch, alone, sess>>
        /\ UNCHANGED work /\ UNCHANGED bills /\ UNCHANGED documents /\ UNCHANGED places /\ UNCHANGED times /\ UNCHANGED offers
    BY <1>3 DEF deliveryVars, docs
  <2>2. InTurn'
    BY <1>1, <2>1 DEF InTurn
  <2> QED
    BY <1>1, <2>1, <2>2, WorkQuiet, BillQuiet, DocumentQuiet, PlaceQuiet, TimeQuiet, OfferQuiet
<1>4. CASE branch' = branch /\ branch = "work" /\ W!Next /\ UNCHANGED <<bills, docs, places, times, offers>>
  <2>1. InTurn' /\ WorkInv' /\ WorkKeeps /\ alone' = alone
    BY <1>1, <1>4, WorkStep DEF WorkGoal, WorkDone
  <2> QED
    BY <1>1, <1>4, <2>1, BillQuiet, DocumentQuiet, PlaceQuiet, TimeQuiet, OfferQuiet DEF docs
<1>5. CASE branch' = branch /\ branch = "bills" /\ B!Next /\ UNCHANGED <<work, docs, places, times, offers>>
  <2>1. InTurn' /\ BillInv' /\ BillKeeps /\ alone' = alone
    BY <1>1, <1>5, BillStep DEF BillGoal, BillDone
  <2> QED
    BY <1>1, <1>5, <2>1, WorkQuiet, DocumentQuiet, PlaceQuiet, TimeQuiet, OfferQuiet DEF docs
<1>6. CASE branch' = branch /\ branch = "documents" /\ D!Next /\ UNCHANGED <<work, bills, places, times, offers>>
  <2>1. InTurn' /\ DocumentInv' /\ alone' = alone
    BY <1>1, <1>6, DocumentStep DEF D!Next, DocumentDone
  <2> QED
    BY <1>1, <1>6, <2>1, WorkQuiet, BillQuiet, PlaceQuiet, TimeQuiet, OfferQuiet
<1>7. CASE branch' = branch /\ branch = "places" /\ L!Next /\ UNCHANGED <<work, bills, docs, times, offers>>
  <2>1. InTurn' /\ PlaceInv' /\ PlaceKeeps /\ alone' = alone
    BY <1>1, <1>7, PlaceStep DEF PlaceGoal, PlaceDone
  <2> QED
    BY <1>1, <1>7, <2>1, WorkQuiet, BillQuiet, DocumentQuiet, TimeQuiet, OfferQuiet DEF docs
<1>8. CASE branch' = branch /\ branch = "times" /\ T!Next /\ UNCHANGED <<work, bills, docs, places, offers>>
  <2>1. InTurn' /\ TimeInv' /\ TimeKeeps /\ alone' = alone
    BY <1>1, <1>8, TimeStep DEF TimeGoal, TimeDone
  <2> QED
    BY <1>1, <1>8, <2>1, WorkQuiet, BillQuiet, DocumentQuiet, PlaceQuiet, OfferQuiet DEF docs
<1>9. CASE branch' = branch /\ branch = "offers" /\ Q!Next /\ UNCHANGED <<work, bills, docs, places, times>>
  <2>1. InTurn' /\ OfferInv' /\ alone' = alone
    BY <1>1, <1>9, OfferStep DEF OfferGoal, OfferDone
  <2> QED
    BY <1>1, <1>9, <2>1, WorkQuiet, BillQuiet, DocumentQuiet, PlaceQuiet, TimeQuiet DEF docs
<1> QED
  BY <1>3, <1>4, <1>5, <1>6, <1>7, <1>8, <1>9 DEF DeliveryNext

LEMMA DeliveryInvHolds == DeliverySpec => []DeliveryInv
  BY DeliveryStarts, DeliverySteps, PTL DEF DeliverySpec

\* Every table of what is delivered is of its type, for any rows, any number of
\* handlers and any dates and amounts.
THEOREM DeliveryTyped == DeliverySpec => []DeliveryTypeOK
<1>1. DeliveryInv => DeliveryTypeOK
  BY DocumentTyped, PlaceTyped
     DEF DeliveryInv, WorkInv, WorkRows, BillInv, BillRows, DocumentInv, PlaceInv, TimeInv, TimeRows, OfferInv, OfferRows,
         DeliveryTypeOK
<1> QED
  BY <1>1, DeliveryInvHolds, PTL

\* Tasks and amendments are numbered once whatever interleaves, subtasks,
\* versions of a document and warning letters when handlers do not overlap.
THEOREM NumberedOnceHolds == DeliverySpec => []NumberedOnce
<1>1. DeliveryInv => NumberedOnce
  BY DEF DeliveryInv, WorkInv, WorkRows, DocumentInv, DocumentRows, PlaceInv, PlaceRows, NumberedOnce
<1> QED
  BY <1>1, DeliveryInvHolds, PTL

\* The count of a timesheet is the number of its days present and its report is
\* of what was approved; and a total of proposals is near the sum of its items,
\* whatever the quantities and prices.
THEOREM SheetsAddUpHolds == DeliverySpec => []SheetsAddUp
<1>1. DeliveryInv => SheetsAddUp
  BY OfferTotals DEF DeliveryInv, TimeInv, TimeRows, OfferInv, SheetsAddUp
<1> QED
  BY <1>1, DeliveryInvHolds, PTL

\* The signs of a completed phase agree, finance hears of the invoices of a phase
\* when it is complete, and sending leaves alone what is settled.
THEOREM SentWhenDueHolds == DeliverySpec => SentWhenDue
<1>1. DeliveryInv => B!SignsAgree
  BY DEF DeliveryInv, BillInv, BillRows
<1>2. DeliveryInv /\ [DeliveryNext]_deliveryVars =>
        [\A i \in Invoices : alone /\ invoices[i] # B!NoRow /\ ~invoices[i].notified /\ invoices'[i].notified
           => phases[invoices[i].phase].done]_B!billingVars
  BY DeliverySteps DEF DeliveryKeeps, BillKeeps
<1>3. DeliveryInv /\ [DeliveryNext]_deliveryVars =>
        [\A s \in Sessions, i \in Invoices : alone /\ sess[s].op = "send" /\ invoices[i] # B!NoRow
              /\ invoices[i].status \notin {"PENDING", "SENT"}
           => invoices'[i].status = invoices[i].status]_B!billingVars
  BY DeliverySteps DEF DeliveryKeeps, BillKeeps
<1> QED
  BY <1>1, <1>2, <1>3, DeliveryInvHolds, PTL DEF DeliverySpec, SentWhenDue, B!SentWhenDone, B!SendingKeepsSettled

\* What is deleted stays deleted whatever interleaves; what is closed, approved
\* or handed in stays so, and an amendment keeps what it replaced.
THEOREM SettledStaysHolds == DeliverySpec => SettledStays
<1>1. DeliveryInv /\ [DeliveryNext]_deliveryVars =>
        [/\ \A t \in Works : W!Stored(works, t) /\ ~works[t].live => ~works'[t].live
         /\ \A u \in Subtasks : W!Stored(subtasks, u) /\ ~subtasks[u].live => ~subtasks'[u].live
         /\ \A c \in Comments : W!Stored(comments, c) /\ ~comments[c].live => ~comments'[c].live]_W!projectVars
  BY DeliverySteps DEF DeliveryKeeps, WorkKeeps
<1>2. DeliveryInv /\ [DeliveryNext]_deliveryVars =>
        [\A p \in Projects : alone /\ projects[p] # W!NoRow /\ projects[p].status \in {"COMPLETED", "TERMINATED"}
           => projects'[p].status \in {"COMPLETED", "TERMINATED"}]_W!projectVars
  BY DeliverySteps DEF DeliveryKeeps, WorkKeeps
<1>3. DeliveryInv /\ [DeliveryNext]_deliveryVars =>
        [\A t \in Sheets : alone /\ sheets[t].status = "APPROVED"
           => /\ sheets'[t] = sheets[t]
              /\ \A i \in Items : items[i].of = t \/ items'[i].of = t => items'[i] = items[i]]_T!sheetVars
  BY DeliverySteps DEF DeliveryKeeps, TimeKeeps
<1>4. DeliveryInv /\ [DeliveryNext]_deliveryVars =>
        [\A k \in Kpis : kpis[k] # L!NoRow /\ kpis'[k].score # kpis[k].score =>
            /\ alone => kpis[k].score = "none"
            /\ \E s \in Sessions : L!Editing(s, "kpis") /\ sess[s].key = k /\ ~sess[s].seen.expired]_L!placementVars
  BY DeliverySteps DEF DeliveryKeeps, PlaceKeeps
<1>5. DeliveryInv /\ [DeliveryNext]_deliveryVars =>
        [alone /\ amendments' # amendments
           => LET a   == amendments'[Len(amendments')]
                  old == placements[a.placement]
              IN a.oldEnd = old.end /\ (old.rate = 0 \/ a.oldRate = {old.rate})]_L!placementVars
  BY DeliverySteps DEF DeliveryKeeps, PlaceKeeps
<1> QED
  BY <1>1, <1>2, <1>3, <1>4, <1>5, DeliveryInvHolds, PTL
     DEF DeliverySpec, SettledStays, W!DeletedStays, W!ClosedStaysClosed, T!ApprovedFrozen, L!RatingFinal, L!AmendmentRecordsOld

-----------------------------------------------------------------------------
\* People.  One handler is at work at a time: when it stores what it holds, the
\* rows are those it loaded.
LEMMA SoleTurn ==
    ASSUME InTurn, alone, NEW s \in Sessions, NEW w, Turns(s, w)
    PROVE  /\ InTurn' /\ alone' = alone /\ alone'
           /\ sess'[s] = w
           /\ \A t \in Sessions \ {s} : sess'[t] = sess[t] /\ sess'[t] = Idle
  BY TurnKeeps DEF Turns

-----------------------------------------------------------------------------
\* The rows of hiring.
HireTables == UNCHANGED <<openings, applications>>
OpeningFits(row) ==
    /\ row \in H!OpeningRow
    /\ row.status = "FILLED" <=> row.filled >= row.needed
    /\ row.status \in {"DRAFT", "PENDING_APPROVAL"} => row.filled = 0
Decided(row) == row.status \notin {"DRAFT", "PENDING_APPROVAL"}
OfferFits(row) ==
    /\ row \in H!ApplicationRow
    /\ row.offer \in {"PENDING_APPROVAL", "APPROVED", "SENT", "ACCEPTED", "NEGOTIATING", "REJECTED"} => row.submitter # NoUser
    /\ row.offer \in {"APPROVED", "SENT", "ACCEPTED", "NEGOTIATING", "REJECTED"} =>
          row.approver # NoUser /\ row.submitter # row.approver
OpeningsFit ==
    /\ openings \in [Openings -> H!OpeningRow \cup {H!NoRow}]
    /\ \A o \in Openings : openings[o] # H!NoRow => OpeningFits(openings[o])
ApplicationsFit ==
    /\ applications \in [Applications -> H!ApplicationRow \cup {H!NoRow}]
    /\ \A a \in Applications : applications[a] # H!NoRow => OfferFits(applications[a])
Advertised(o) == o \in Openings /\ openings[o] # H!NoRow /\ Decided(openings[o])
HireRows ==
    /\ OpeningsFit /\ ApplicationsFit
    /\ \A a \in Applications : applications[a] # H!NoRow => Advertised(applications[a].of)

\* What a handler holds.
AddsOpening(w) == \E n : OpeningFits(n) /\ w = [op |-> "add", table |-> "openings", new |-> n]
EditsOpening(w) ==
    \E o, n : /\ o \in Openings /\ openings[o] # H!NoRow
              /\ OpeningFits(n) /\ (Decided(openings[o]) => Decided(n))
              /\ w = [op |-> "edit", table |-> "openings", key |-> o, seen |-> openings[o], new |-> n]
AddsApplication(w) ==
    \E n : OfferFits(n) /\ Advertised(n.of) /\ w = [op |-> "add", table |-> "applications", new |-> n]
EditsApplication(w) ==
    \E a, n : /\ a \in Applications /\ applications[a] # H!NoRow
              /\ OfferFits(n) /\ n.of = applications[a].of
              /\ w = [op |-> "edit", table |-> "applications", key |-> a, seen |-> applications[a], new |-> n]
MovesApplication(w) ==
    \E a, n, m : /\ a \in Applications /\ applications[a] # H!NoRow
                 /\ OfferFits(n) /\ n.of = applications[a].of
                 /\ OpeningFits(m) /\ Decided(m)
                 /\ w = [op |-> "move", key |-> a, seen |-> applications[a], new |-> n, opening |-> n.of,
                         seenOpening |-> openings[n.of], newOpening |-> m]
HireHeld(w) ==
    w = Idle \/ AddsOpening(w) \/ EditsOpening(w) \/ AddsApplication(w) \/ EditsApplication(w) \/ MovesApplication(w)
HireInv == HireRows /\ (part = "hiring" => \A s \in Sessions : HireHeld(sess[s]))
HireGoal == InTurn /\ alone /\ HireInv /\ part = "hiring" /\ part' = part
HireDone == InTurn' /\ HireInv' /\ alone' = alone

LEMMA HireStarts ==
    ASSUME H!Init PROVE HireInv
<1>1. HireRows
  BY DEF H!Init, HireRows, OpeningsFit, ApplicationsFit
<1>2. \A s \in Sessions : HireHeld(sess[s])
  BY DEF H!Init, H!AllIdle, H!Idle, HireHeld, Idle
<1> QED
  BY <1>1, <1>2 DEF HireInv

LEMMA HireTyped ==
    ASSUME HireRows PROVE H!TypeOK
  BY DEF HireRows, OpeningsFit, ApplicationsFit, H!TypeOK

LEMMA HireProper ==
    ASSUME HireRows
    PROVE  /\ \A a \in Applications : applications[a].offer \in {"APPROVED", "SENT", "ACCEPTED", "NEGOTIATING", "REJECTED"} =>
                /\ NoUser \notin {applications[a].submitter, applications[a].approver}
                /\ applications[a].submitter # applications[a].approver
           /\ \A o \in Openings : openings[o] # H!NoRow =>
                (openings[o].status = "FILLED" <=> openings[o].filled >= openings[o].needed)
<1>1. ASSUME NEW a \in Applications, applications[a].offer \in {"APPROVED", "SENT", "ACCEPTED", "NEGOTIATING", "REJECTED"}
      PROVE  /\ NoUser \notin {applications[a].submitter, applications[a].approver}
             /\ applications[a].submitter # applications[a].approver
  <2>1. applications[a] # H!NoRow
    BY <1>1 DEF H!NoRow
  <2> QED
    BY <1>1, <2>1 DEF HireRows, ApplicationsFit, OfferFits
<1>2. ASSUME NEW o \in Openings, openings[o] # H!NoRow
      PROVE  openings[o].status = "FILLED" <=> openings[o].filled >= openings[o].needed
  BY <1>2 DEF HireRows, OpeningsFit, OpeningFits
<1> QED
  BY <1>1, <1>2

LEMMA HireOps ==
    ASSUME NEW v, HireHeld(v)
    PROVE  /\ v.op = "add" /\ v.table = "openings" => AddsOpening(v)
           /\ v.op = "edit" /\ v.table = "openings" => EditsOpening(v)
           /\ v.op = "add" /\ v.table = "applications" => AddsApplication(v)
           /\ v.op = "edit" /\ v.table = "applications" => EditsApplication(v)
           /\ v.op = "move" => MovesApplication(v)
<1>1. CASE v = Idle
  BY <1>1 DEF Idle
<1>2. CASE AddsOpening(v)
  BY <1>2 DEF AddsOpening
<1>3. CASE EditsOpening(v)
  BY <1>3 DEF EditsOpening
<1>4. CASE AddsApplication(v)
  BY <1>4 DEF AddsApplication
<1>5. CASE EditsApplication(v)
  <2>1. PICK a, n : v = [op |-> "edit", table |-> "applications", key |-> a, seen |-> applications[a], new |-> n]
    BY <1>5 DEF EditsApplication
  <2> QED
    BY <1>5, <2>1
<1>6. CASE MovesApplication(v)
  <2>1. PICK a, n, m : v = [op |-> "move", key |-> a, seen |-> applications[a], new |-> n, opening |-> n.of,
                            seenOpening |-> openings[n.of], newOpening |-> m]
    BY <1>6 DEF MovesApplication
  <2> QED
    BY <1>6, <2>1
<1> QED
  BY <1>1, <1>2, <1>3, <1>4, <1>5, <1>6 DEF HireHeld

\* Nothing is stored: handler s goes on with w.
LEMMA HireGoes ==
    ASSUME HireGoal, HireTables, NEW s \in Sessions, NEW w, Turns(s, w), HireHeld(w)
    PROVE  HireDone
<1>1. HireRows'
  BY DEF HireGoal, HireInv, HireRows, HireTables, OpeningsFit, ApplicationsFit, Advertised
<1>2. ASSUME NEW t \in Sessions PROVE HireHeld(sess[t])'
  <2>1. PICK v : v = sess'[t]
    OBVIOUS
  <2>2. HireHeld(v)
    BY <2>1, SoleTurn DEF HireGoal, HireInv
  <2>3. HireHeld(v)'
    BY <2>2 DEF HireHeld, HireTables, AddsOpening, EditsOpening, AddsApplication, EditsApplication, MovesApplication, Advertised
  <2> QED
    BY <2>1, <2>3
<1> QED
  BY <1>1, <1>2, SoleTurn DEF HireGoal, HireInv, HireDone

\* Handler s has stored what it held.
LEMMA HireWrites ==
    ASSUME HireGoal, NEW s \in Sessions, Turns(s, Idle), HireRows'
    PROVE  HireDone
<1>1. ASSUME NEW t \in Sessions PROVE HireHeld(sess[t])'
  <2>1. sess'[t] = Idle
    BY SoleTurn DEF HireGoal
  <2> QED
    BY <2>1 DEF HireHeld
<1> QED
  BY <1>1, SoleTurn DEF HireGoal, HireInv, HireDone

LEMMA HireQuiet ==
    ASSUME HireInv, UNCHANGED <<part, openings, applications>>, part = "hiring" => sess' = sess
    PROVE  HireInv'
<1>1. HireRows'
  BY DEF HireInv, HireRows, OpeningsFit, ApplicationsFit, Advertised
<1>2. ASSUME part = "hiring", NEW t \in Sessions PROVE HireHeld(sess[t])'
  <2>1. PICK v : v = sess[t] /\ v = sess'[t]
    BY <1>2
  <2>2. HireHeld(v)
    BY <1>2, <2>1 DEF HireInv
  <2>3. HireHeld(v)'
    BY <2>2 DEF HireHeld, AddsOpening, EditsOpening, AddsApplication, EditsApplication, MovesApplication, Advertised
  <2> QED
    BY <2>1, <2>3
<1> QED
  BY <1>1, <1>2 DEF HireInv

LEMMA OpeningMerge ==
    ASSUME NEW now \in H!OpeningRow, NEW n \in H!OpeningRow PROVE H!Merge(now, now, n) = n
<1>1. n = [column \in DOMAIN now |-> n[column]]
  BY DEF H!OpeningRow
<1> QED
  BY <1>1, Unseen DEF H!Merge

LEMMA ApplicationMerge ==
    ASSUME NEW now \in H!ApplicationRow, NEW n \in H!ApplicationRow PROVE H!Merge(now, now, n) = n
<1>1. n = [column \in DOMAIN now |-> n[column]]
  BY DEF H!ApplicationRow
<1> QED
  BY <1>1, Unseen DEF H!Merge

\* An opening is stored, and is not a draft any more if it was none.
LEMMA OpeningStored ==
    ASSUME OpeningsFit, NEW o \in Openings, NEW n, OpeningFits(n),
           openings[o] # H!NoRow /\ Decided(openings[o]) => Decided(n), openings' = [openings EXCEPT ![o] = n]
    PROVE  OpeningsFit' /\ \A p : Advertised(p) => Advertised(p)'
<1>1. n \in H!OpeningRow /\ n # H!NoRow
  BY DEF OpeningFits, H!OpeningRow, H!NoRow, H!OpeningStatuses
<1>2. openings' \in [Openings -> H!OpeningRow \cup {H!NoRow}]
  BY <1>1 DEF OpeningsFit
<1>3. ASSUME NEW p \in Openings
      PROVE  openings'[p] = IF p = o THEN n ELSE openings[p]
  BY <1>3 DEF OpeningsFit
<1>4. \A p \in Openings : openings'[p] # H!NoRow => OpeningFits(openings'[p])
  BY <1>3 DEF OpeningsFit
<1>5. \A p : Advertised(p) => Advertised(p)'
  BY <1>1, <1>3 DEF Advertised
<1>6. OpeningsFit'
  BY <1>2, <1>4 DEF OpeningsFit, OpeningFits
<1> QED
  BY <1>5, <1>6

LEMMA ApplicationStored ==
    ASSUME HireRows, NEW a \in Applications, NEW n, OfferFits(n), Advertised(n.of)', \A p : Advertised(p) => Advertised(p)', OpeningsFit',
           applications' = [applications EXCEPT ![a] = n]
    PROVE  HireRows'
<1>1. n \in H!ApplicationRow /\ applications \in [Applications -> H!ApplicationRow \cup {H!NoRow}]
  BY DEF OfferFits, HireRows, ApplicationsFit
<1>2. applications' \in [Applications -> H!ApplicationRow \cup {H!NoRow}]
  BY <1>1
<1>3. ASSUME NEW b \in Applications
      PROVE  applications'[b] = IF b = a THEN n ELSE applications[b]
  BY <1>1, <1>3
<1>4. \A b \in Applications : applications'[b] # H!NoRow => OfferFits(applications'[b])
  BY <1>3 DEF HireRows, ApplicationsFit
<1>5. ASSUME NEW b \in Applications, applications'[b] # H!NoRow PROVE Advertised(applications[b].of)'
  <2>1. CASE b = a
    BY <1>3, <2>1
  <2>2. CASE b # a
    <3>1. Advertised(applications[b].of)
      BY <1>3, <1>5, <2>2 DEF HireRows
    <3>2. PICK o : o = applications[b].of /\ o = applications'[b].of
      BY <1>3, <2>2
    <3>3. Advertised(o)'
      BY <3>1, <3>2
    <3> QED
      BY <3>2, <3>3
  <2> QED
    BY <2>1, <2>2
<1>6. ApplicationsFit'
  BY <1>2, <1>4 DEF ApplicationsFit, OfferFits
<1> QED
  BY <1>5, <1>6 DEF HireRows

LEMMA HireUnchanged ==
    ASSUME HireRows, OpeningsFit', \A p : Advertised(p) => Advertised(p)', applications' = applications
    PROVE  HireRows'
<1>1. ASSUME NEW b \in Applications, applications'[b] # H!NoRow PROVE Advertised(applications[b].of)'
  <2>1. PICK o : o = applications[b].of /\ o = applications'[b].of
    OBVIOUS
  <2>2. Advertised(o)'
    BY <1>1, <2>1 DEF HireRows
  <2> QED
    BY <2>1, <2>2
<1> QED
  BY <1>1 DEF HireRows, ApplicationsFit

LEMMA HireCommit ==
    ASSUME HireGoal, NEW s \in Sessions, H!Commit(s) PROVE HireDone
<1>1. PICK v : v = sess[s] /\ HireHeld(v) /\ HireRows /\ OpeningsFit /\ ApplicationsFit
  BY DEF HireGoal, HireInv, HireRows
<1>2. Turns(s, Idle)
  <2>1. sess[s].op = "edit" \/ sess[s].op = "add"
    BY DEF H!Commit, H!Editing, H!Adding
  <2> QED
    BY <2>1 DEF H!Commit, H!Finish, H!Go, H!Idle, Idle, Turns
<1>3. CASE H!Editing(s, "openings") /\ openings' = H!Edited(s, openings) /\ UNCHANGED applications
  <2>1. EditsOpening(v)
    BY <1>1, <1>3, HireOps DEF H!Editing
  <2>2. PICK o, n : /\ o \in Openings /\ openings[o] # H!NoRow
                    /\ OpeningFits(n) /\ (Decided(openings[o]) => Decided(n))
                    /\ v = [op |-> "edit", table |-> "openings", key |-> o, seen |-> openings[o], new |-> n]
    BY <2>1 DEF EditsOpening
  <2>3. H!Merge(openings[o], openings[o], n) = n
    BY <1>1, <2>2, OpeningMerge DEF OpeningsFit, OpeningFits
  <2>4. openings' = [openings EXCEPT ![o] = n]
    <3>1. openings' = [openings EXCEPT ![o] = H!Merge(@, openings[o], n)]
      BY <1>1, <1>3, <2>2 DEF H!Edited
    <3> QED
      BY <2>3, <3>1
  <2>5. OpeningsFit' /\ \A p : Advertised(p) => Advertised(p)'
    BY <1>1, <2>2, <2>4, OpeningStored
  <2> QED
    BY <1>1, <1>2, <1>3, <2>5, HireUnchanged, HireWrites
<1>4. ASSUME NEW o \in Openings, H!Adding(s, "openings"), openings[o] = H!NoRow,
             openings' = [openings EXCEPT ![o] = sess[s].new], UNCHANGED applications
      PROVE  HireDone
  <2>1. AddsOpening(v)
    BY <1>1, <1>4, HireOps DEF H!Adding
  <2>2. PICK n : OpeningFits(n) /\ v = [op |-> "add", table |-> "openings", new |-> n]
    BY <2>1 DEF AddsOpening
  <2>3. openings' = [openings EXCEPT ![o] = n]
    BY <1>1, <1>4, <2>2
  <2>4. OpeningsFit' /\ \A p : Advertised(p) => Advertised(p)'
    BY <1>1, <1>4, <2>2, <2>3, OpeningStored
  <2> QED
    BY <1>1, <1>2, <1>4, <2>4, HireUnchanged, HireWrites
<1>5. CASE H!Editing(s, "applications") /\ applications' = H!Edited(s, applications) /\ UNCHANGED openings
  <2>1. EditsApplication(v)
    BY <1>1, <1>5, HireOps DEF H!Editing
  <2>2. PICK a, n : /\ a \in Applications /\ applications[a] # H!NoRow
                    /\ OfferFits(n) /\ n.of = applications[a].of
                    /\ v = [op |-> "edit", table |-> "applications", key |-> a, seen |-> applications[a], new |-> n]
    BY <2>1 DEF EditsApplication
  <2>3. H!Merge(applications[a], applications[a], n) = n
    BY <1>1, <2>2, ApplicationMerge DEF ApplicationsFit, OfferFits
  <2>4. applications' = [applications EXCEPT ![a] = n]
    <3>1. applications' = [applications EXCEPT ![a] = H!Merge(@, applications[a], n)]
      BY <1>1, <1>5, <2>2 DEF H!Edited
    <3> QED
      BY <2>3, <3>1
  <2>5. Advertised(n.of)
    BY <1>1, <2>2 DEF HireRows
  <2>6. OpeningsFit' /\ (\A p : Advertised(p) => Advertised(p)') /\ Advertised(n.of)'
    BY <1>1, <1>5, <2>5 DEF OpeningsFit, Advertised
  <2> QED
    BY <1>1, <1>2, <2>2, <2>4, <2>6, ApplicationStored, HireWrites
<1>6. ASSUME NEW a \in Applications, H!Adding(s, "applications"), applications[a] = H!NoRow,
             applications' = [applications EXCEPT ![a] = sess[s].new], UNCHANGED openings
      PROVE  HireDone
  <2>1. AddsApplication(v)
    BY <1>1, <1>6, HireOps DEF H!Adding
  <2>2. PICK n : OfferFits(n) /\ Advertised(n.of) /\ v = [op |-> "add", table |-> "applications", new |-> n]
    BY <2>1 DEF AddsApplication
  <2>3. OpeningsFit' /\ (\A p : Advertised(p) => Advertised(p)') /\ Advertised(n.of)'
    BY <1>1, <1>6, <2>2 DEF OpeningsFit, Advertised
  <2>4. applications' = [applications EXCEPT ![a] = n]
    BY <1>1, <1>6, <2>2
  <2> QED
    BY <1>1, <1>2, <2>2, <2>3, <2>4, ApplicationStored, HireWrites
<1> QED
  BY <1>3, <1>4, <1>5, <1>6 DEF H!Commit

LEMMA HireMove ==
    ASSUME HireGoal, NEW s \in Sessions, H!TransitionCommit(s) PROVE HireDone
<1>1. PICK v : v = sess[s] /\ HireHeld(v) /\ HireRows /\ OpeningsFit /\ ApplicationsFit
  BY DEF HireGoal, HireInv, HireRows
<1>2. Turns(s, Idle)
  BY DEF H!TransitionCommit, H!Finish, H!Go, H!Idle, Idle, Turns
<1>3. MovesApplication(v)
  BY <1>1, HireOps DEF H!TransitionCommit
<1>4. PICK a, n, m : /\ a \in Applications /\ applications[a] # H!NoRow
                     /\ OfferFits(n) /\ n.of = applications[a].of
                     /\ OpeningFits(m) /\ Decided(m)
                     /\ v = [op |-> "move", key |-> a, seen |-> applications[a], new |-> n, opening |-> n.of,
                             seenOpening |-> openings[n.of], newOpening |-> m]
  BY <1>3 DEF MovesApplication
<1>5. PICK o : o = n.of
  OBVIOUS
<1>6. Advertised(o)
  BY <1>1, <1>4, <1>5 DEF HireRows
<1>7. H!Merge(applications[a], applications[a], n) = n
  BY <1>1, <1>4, ApplicationMerge DEF ApplicationsFit, OfferFits
<1>8. H!Merge(openings[o], openings[o], m) = m
  BY <1>1, <1>4, <1>6, OpeningMerge DEF Advertised, OpeningsFit, OpeningFits
<1>9. applications' = [applications EXCEPT ![a] = n]
  <2>1. applications' = [applications EXCEPT ![a] = H!Merge(@, applications[a], n)]
    BY <1>1, <1>4 DEF H!TransitionCommit, H!Edited
  <2> QED
    BY <1>7, <2>1
<1>10. openings' = [openings EXCEPT ![o] = m]
  <2>1. openings' = [openings EXCEPT ![o] = H!Merge(@, openings[o], m)]
    BY <1>1, <1>4, <1>5 DEF H!TransitionCommit
  <2> QED
    BY <1>8, <2>1
<1>11. OpeningsFit' /\ \A p : Advertised(p) => Advertised(p)'
  BY <1>1, <1>4, <1>6, <1>10, OpeningStored DEF Advertised
<1>12. Advertised(n.of)'
  <2>1. Advertised(o)'
    BY <1>6, <1>11
  <2> QED
    BY <1>5, <2>1
<1> QED
  BY <1>1, <1>2, <1>4, <1>9, <1>11, <1>12, ApplicationStored, HireWrites

LEMMA HireBegins ==
    ASSUME HireGoal, HireTables, NEW s \in Sessions, NEW w, H!Begin(s, w), HireHeld(w) PROVE HireDone
<1>1. Turns(s, w)
  BY DEF H!Begin, H!Go, H!Idle, Idle, Turns
<1> QED
  BY <1>1, HireGoes

LEMMA HireEditsOpening ==
    ASSUME HireGoal, HireTables, NEW s \in Sessions, NEW o \in Openings, openings[o] # H!NoRow,
           NEW n, OpeningFits(n), Decided(openings[o]) => Decided(n), H!ChangeOpening(s, o, n)
    PROVE  HireDone
<1>1. PICK w : w = [op |-> "edit", table |-> "openings", key |-> o, seen |-> openings[o], new |-> n]
  OBVIOUS
<1>2. H!Begin(s, w)
  BY <1>1 DEF H!ChangeOpening, H!Edit
<1>3. EditsOpening(w)
  BY <1>1 DEF EditsOpening
<1> QED
  BY <1>2, <1>3, HireBegins DEF HireHeld

LEMMA HireEditsApplication ==
    ASSUME HireGoal, HireTables, NEW s \in Sessions, NEW a \in Applications, applications[a] # H!NoRow,
           NEW n, OfferFits(n), n.of = applications[a].of, H!ChangeApplication(s, a, n)
    PROVE  HireDone
<1>1. PICK w : w = [op |-> "edit", table |-> "applications", key |-> a, seen |-> applications[a], new |-> n]
  OBVIOUS
<1>2. H!Begin(s, w)
  BY <1>1 DEF H!ChangeApplication, H!Edit
<1>3. EditsApplication(w)
  BY <1>1 DEF EditsApplication
<1> QED
  BY <1>2, <1>3, HireBegins DEF HireHeld

LEMMA HireOpening ==
    ASSUME HireGoal, HireTables, NEW s \in Sessions, NEW o \in Openings,
           \/ \E k \in Slots : H!UpdateOpening(s, o, k)
           \/ H!SubmitOpening(s, o) \/ H!CloseOpening(s, o) \/ H!CreateApplication(s, o)
           \/ \E user \in Users, outcome \in {"OPEN", "CANCELLED"} : H!DecideOpening(s, o, user, outcome)
    PROVE  HireDone
<1>1. openings[o].status # "none"
  BY DEF H!UpdateOpening, H!SubmitOpening, H!CloseOpening, H!CreateApplication, H!DecideOpening,
         H!MayUpdate, H!MaySubmit, H!MayClose, H!MayDecide
<1>2. openings[o] # H!NoRow
  BY <1>1 DEF H!NoRow
<1>3. PICK q : q = openings[o] /\ OpeningFits(q)
  BY <1>2 DEF HireGoal, HireInv, HireRows, OpeningsFit
<1>4. q \in H!OpeningRow /\ q.status \in H!OpeningStatuses /\ q.needed \in Nat /\ q.needed > 0 /\ q.filled \in Nat
  <2>1. q \in H!OpeningRow
    BY <1>3 DEF OpeningFits
  <2>2. q.status \in H!OpeningStatuses /\ q.needed \in Slots /\ q.filled \in Nat
    BY <2>1 DEF H!OpeningRow
  <2>3. Slots \subseteq Nat \ {0}
    BY PeopleAssumption, Zenon
  <2>4. q.needed \in Nat \ {0}
    BY <2>2, <2>3, Zenon
  <2>5. \A n \in Nat \ {0} : n \in Nat /\ n > 0
    OBVIOUS
  <2> QED
    BY <2>1, <2>2, <2>4, <2>5, Zenon
<1>5. ASSUME NEW k \in Slots, H!UpdateOpening(s, o, k) PROVE HireDone
  <2>1. PICK n : n = [q EXCEPT !.needed = k]
    OBVIOUS
  <2>2. n \in H!OpeningRow /\ n.status = q.status /\ n.filled = q.filled /\ n.needed \in Nat /\ n.needed > 0
    BY <1>4, <2>1, PeopleAssumption DEF H!OpeningRow
  <2>3. q.status \in {"DRAFT", "PENDING_APPROVAL"} /\ H!ChangeOpening(s, o, n)
    BY <1>3, <1>5, <2>1 DEF H!UpdateOpening, H!MayUpdate
  <2>4. OpeningFits(n)
    BY <1>3, <2>2, <2>3 DEF OpeningFits
  <2> QED
    BY <1>2, <1>3, <2>2, <2>3, <2>4, HireEditsOpening DEF Decided
<1>6. CASE H!SubmitOpening(s, o)
  <2>1. PICK n : n = [q EXCEPT !.status = "PENDING_APPROVAL"]
    OBVIOUS
  <2>2. n \in H!OpeningRow /\ n.status = "PENDING_APPROVAL" /\ n.filled = q.filled /\ n.needed = q.needed
    BY <1>4, <2>1 DEF H!OpeningRow, H!OpeningStatuses
  <2>3. q.status = "DRAFT" /\ H!ChangeOpening(s, o, n)
    BY <1>3, <1>6, <2>1 DEF H!SubmitOpening, H!MaySubmit
  <2>4. OpeningFits(n)
    BY <1>3, <1>4, <2>2, <2>3 DEF OpeningFits
  <2> QED
    BY <1>2, <1>3, <2>2, <2>3, <2>4, HireEditsOpening DEF Decided
<1>7. CASE H!CloseOpening(s, o)
  <2>1. PICK n : n = H!Closed(q)
    OBVIOUS
  <2>2. /\ n \in H!OpeningRow /\ n.status = (IF q.filled >= q.needed THEN "FILLED" ELSE "CLOSED")
        /\ n.filled = q.filled /\ n.needed = q.needed
    BY <1>4, <2>1 DEF H!OpeningRow, H!OpeningStatuses, H!Closed
  <2>3. H!ChangeOpening(s, o, n)
    BY <1>3, <1>7, <2>1 DEF H!CloseOpening
  <2>4. OpeningFits(n)
    BY <1>4, <2>2 DEF OpeningFits
  <2> QED
    BY <1>2, <1>3, <2>2, <2>3, <2>4, HireEditsOpening DEF Decided
<1>8. CASE H!CreateApplication(s, o)
  <2>1. PICK n : n = H!NewApplication(o)
    OBVIOUS
  <2>2. n \in H!ApplicationRow /\ n.of = o /\ n.offer = "DRAFT"
    BY <2>1 DEF H!NewApplication, H!ApplicationRow, H!Stages, H!OfferStatuses
  <2>3. OfferFits(n)
    BY <2>2 DEF OfferFits
  <2>4. Advertised(o)
    BY <1>2, <1>8 DEF Advertised, Decided, H!CreateApplication
  <2>5. PICK w : w = [op |-> "add", table |-> "applications", new |-> n]
    OBVIOUS
  <2>6. H!Begin(s, w)
    BY <1>8, <2>1, <2>5 DEF H!CreateApplication, H!Add
  <2>7. AddsApplication(w)
    BY <2>2, <2>3, <2>4, <2>5 DEF AddsApplication
  <2> QED
    BY <2>6, <2>7, HireBegins DEF HireHeld
<1>9. ASSUME NEW user \in Users, NEW outcome \in {"OPEN", "CANCELLED"}, H!DecideOpening(s, o, user, outcome)
      PROVE  HireDone
  <2>1. PICK n : n = [q EXCEPT !.status = outcome]
    OBVIOUS
  <2>2. n \in H!OpeningRow /\ n.status = outcome /\ n.filled = q.filled /\ n.needed = q.needed
    BY <1>4, <2>1 DEF H!OpeningRow, H!OpeningStatuses
  <2>3. q.status = "PENDING_APPROVAL" /\ H!ChangeOpening(s, o, n)
    BY <1>3, <1>9, <2>1 DEF H!DecideOpening, H!MayDecide
  <2>4. OpeningFits(n)
    BY <1>3, <1>4, <2>2, <2>3 DEF OpeningFits
  <2> QED
    BY <1>2, <1>3, <2>2, <2>3, <2>4, HireEditsOpening DEF Decided
<1> QED
  BY <1>5, <1>6, <1>7, <1>8, <1>9

LEMMA HireFilled ==
    ASSUME NEW q, OpeningFits(q), Decided(q) PROVE OpeningFits(H!Filled(q)) /\ Decided(H!Filled(q))
<1>1. q \in H!OpeningRow /\ q.status \in H!OpeningStatuses /\ q.needed \in Nat /\ q.needed > 0 /\ q.filled \in Nat
  <2>1. q \in H!OpeningRow
    BY DEF OpeningFits
  <2>2. q.status \in H!OpeningStatuses /\ q.needed \in Slots /\ q.filled \in Nat
    BY <2>1 DEF H!OpeningRow
  <2>3. \A k \in Slots : k \in Nat /\ k > 0
    BY PeopleAssumption
  <2> QED
    BY <2>1, <2>2, <2>3
<1>2. PICK n : n = H!Filled(q)
  OBVIOUS
<1>3. /\ n \in H!OpeningRow /\ n.filled = q.filled + 1 /\ n.needed = q.needed
      /\ n.status = (IF q.filled + 1 >= q.needed THEN "FILLED" ELSE q.status)
  <2>1. PICK filled, status : filled = q.filled + 1 /\ status = IF q.filled + 1 >= q.needed THEN "FILLED" ELSE q.status
    OBVIOUS
  <2>2. filled \in Nat /\ status \in H!OpeningStatuses
    BY <1>1, <2>1 DEF H!OpeningStatuses
  <2>3. n = [q EXCEPT !.filled = filled, !.status = status]
    BY <1>2, <2>1 DEF H!Filled
  <2>4. n \in H!OpeningRow /\ n.filled = filled /\ n.needed = q.needed /\ n.status = status
    BY <1>1, <2>2, <2>3 DEF H!OpeningRow
  <2> QED
    BY <2>1, <2>4
<1>4. OpeningFits(n) /\ Decided(n)
  BY <1>1, <1>3 DEF OpeningFits, Decided
<1> QED
  BY <1>2, <1>4

LEMMA HireTransition ==
    ASSUME HireGoal, HireTables, NEW s \in Sessions, NEW a \in Applications, NEW stage \in H!Stages,
           H!Transition(s, a, stage)
    PROVE  HireDone
<1>1. PICK q : q = applications[a] /\ applications[a] # H!NoRow /\ OfferFits(q) /\ Advertised(q.of)
  BY DEF H!Transition, HireGoal, HireInv, HireRows, ApplicationsFit
<1>2. PICK n : n = [q EXCEPT !.stage = stage]
  OBVIOUS
<1>3. /\ n \in H!ApplicationRow /\ n.offer = q.offer /\ n.submitter = q.submitter /\ n.approver = q.approver /\ n.of = q.of
  BY <1>1, <1>2 DEF OfferFits, H!ApplicationRow
<1>4. OfferFits(n)
  BY <1>1, <1>3 DEF OfferFits
<1>5. PICK m : m = IF stage = "HIRED" THEN H!Filled(openings[q.of]) ELSE openings[q.of]
  OBVIOUS
<1>6. OpeningFits(m) /\ Decided(m)
  <2>1. OpeningFits(openings[q.of]) /\ Decided(openings[q.of])
    BY <1>1 DEF Advertised, HireGoal, HireInv, HireRows, OpeningsFit
  <2> QED
    BY <1>5, <2>1, HireFilled
<1>7. PICK w : w = [op |-> "move", key |-> a, seen |-> applications[a], new |-> n, opening |-> n.of,
                    seenOpening |-> openings[n.of], newOpening |-> m]
  OBVIOUS
<1>8. H!Begin(s, w)
  BY <1>1, <1>2, <1>3, <1>5, <1>7 DEF H!Transition
<1>9. MovesApplication(w)
  BY <1>1, <1>3, <1>4, <1>6, <1>7 DEF MovesApplication
<1> QED
  BY <1>8, <1>9, HireBegins DEF HireHeld

LEMMA HireOffer ==
    ASSUME HireGoal, HireTables, NEW s \in Sessions, NEW a \in Applications,
           \/ \E salary \in {"none", "within", "over"}, start \in BOOLEAN : H!UpdateApplication(s, a, salary, start)
           \/ H!GenerateLetter(s, a) \/ H!RejectOffer(s, a) \/ H!SendOffer(s, a)
           \/ \E user \in Users : H!SubmitOffer(s, a, user)
           \/ \E user \in Users, consent \in BOOLEAN : H!ApproveOffer(s, a, user, consent)
           \/ \E response \in {"ACCEPTED", "NEGOTIATING", "REJECTED"} : H!Respond(s, a, response)
    PROVE  HireDone
<1>1. applications[a] # H!NoRow
  <2>1. applications[a] # H!NoRow \/ applications[a].offer # "none"
    BY DEF H!UpdateApplication, H!GenerateLetter, H!RejectOffer, H!SendOffer, H!SubmitOffer, H!ApproveOffer, H!Respond
  <2> QED
    BY <2>1 DEF H!NoRow
<1>2. PICK q : q = applications[a] /\ OfferFits(q)
  BY <1>1 DEF HireGoal, HireInv, HireRows, ApplicationsFit
<1>3. q \in H!ApplicationRow
  BY <1>2 DEF OfferFits
<1>4. ASSUME NEW salary \in {"none", "within", "over"}, NEW start \in BOOLEAN, H!UpdateApplication(s, a, salary, start)
      PROVE  HireDone
  <2>1. PICK n : n = [q EXCEPT !.salary = salary, !.start = start]
    OBVIOUS
  <2>2. n \in H!ApplicationRow /\ n.offer = q.offer /\ n.submitter = q.submitter /\ n.approver = q.approver /\ n.of = q.of
    BY <1>3, <2>1 DEF H!ApplicationRow
  <2>3. OfferFits(n)
    BY <1>2, <2>2 DEF OfferFits
  <2>4. H!ChangeApplication(s, a, n)
    BY <1>2, <1>4, <2>1 DEF H!UpdateApplication
  <2> QED
    BY <1>1, <1>2, <2>2, <2>3, <2>4, HireEditsApplication
<1>5. CASE H!GenerateLetter(s, a)
  <2>1. H!ChangeApplication(s, a, q)
    BY <1>2, <1>5 DEF H!GenerateLetter
  <2> QED
    BY <1>1, <1>2, <2>1, HireEditsApplication
<1>6. CASE H!RejectOffer(s, a)
  <2>1. PICK n : n = [q EXCEPT !.offer = "DRAFT", !.submitter = NoUser]
    OBVIOUS
  <2>2. n \in H!ApplicationRow /\ n.offer = "DRAFT" /\ n.of = q.of
    BY <1>3, <2>1 DEF H!ApplicationRow, H!OfferStatuses
  <2>3. OfferFits(n)
    BY <2>2 DEF OfferFits
  <2>4. H!ChangeApplication(s, a, n)
    BY <1>2, <1>6, <2>1 DEF H!RejectOffer
  <2> QED
    BY <1>1, <1>2, <2>2, <2>3, <2>4, HireEditsApplication
<1>7. CASE H!SendOffer(s, a)
  <2>1. PICK n : n = [q EXCEPT !.offer = "SENT", !.stage = "OFFERING"]
    OBVIOUS
  <2>2. n \in H!ApplicationRow /\ n.submitter = q.submitter /\ n.approver = q.approver /\ n.of = q.of
    BY <1>3, <2>1 DEF H!ApplicationRow, H!OfferStatuses, H!Stages
  <2>3. q.offer = "APPROVED" /\ H!ChangeApplication(s, a, n)
    BY <1>2, <1>7, <2>1 DEF H!SendOffer
  <2>4. OfferFits(n)
    BY <1>2, <2>2, <2>3 DEF OfferFits
  <2> QED
    BY <1>1, <1>2, <2>2, <2>3, <2>4, HireEditsApplication
<1>8. ASSUME NEW user \in Users, H!SubmitOffer(s, a, user) PROVE HireDone
  <2>1. PICK n : n = [q EXCEPT !.offer = "PENDING_APPROVAL", !.submitter = user, !.approver = NoUser]
    OBVIOUS
  <2>2. n \in H!ApplicationRow /\ n.submitter = user /\ n.offer = "PENDING_APPROVAL" /\ n.of = q.of
    BY <1>3, <2>1 DEF H!ApplicationRow, H!OfferStatuses
  <2>3. H!ChangeApplication(s, a, n)
    BY <1>2, <1>8, <2>1 DEF H!SubmitOffer, H!SubmittedOffer
  <2>4. OfferFits(n)
    BY <2>2, PeopleAssumption DEF OfferFits
  <2> QED
    BY <1>1, <1>2, <2>2, <2>3, <2>4, HireEditsApplication
<1>9. ASSUME NEW user \in Users, NEW consent \in BOOLEAN, H!ApproveOffer(s, a, user, consent) PROVE HireDone
  <2>1. PICK n : n = H!ApprovedOffer(q, user)
    OBVIOUS
  <2>2. n \in H!ApplicationRow /\ n.submitter = q.submitter /\ n.approver = user /\ n.of = q.of
    BY <1>3, <2>1 DEF H!ApplicationRow, H!OfferStatuses, H!ApprovedOffer
  <2>3. q.offer = "PENDING_APPROVAL" /\ q.submitter # user /\ H!ChangeApplication(s, a, n)
    BY <1>2, <1>9, <2>1 DEF H!ApproveOffer, H!MayApproveOffer
  <2>4. OfferFits(n)
    BY <1>2, <2>2, <2>3, PeopleAssumption DEF OfferFits
  <2> QED
    BY <1>1, <1>2, <2>2, <2>3, <2>4, HireEditsApplication
<1>10. ASSUME NEW response \in {"ACCEPTED", "NEGOTIATING", "REJECTED"}, H!Respond(s, a, response) PROVE HireDone
  <2>1. PICK n : n = [q EXCEPT !.offer = response, !.stage = IF response = "ACCEPTED" THEN "HIRED" ELSE @]
    OBVIOUS
  <2>2. n \in H!ApplicationRow /\ n.submitter = q.submitter /\ n.approver = q.approver /\ n.of = q.of
    BY <1>3, <2>1 DEF H!ApplicationRow, H!OfferStatuses, H!Stages
  <2>3. q.offer = "SENT" /\ H!ChangeApplication(s, a, n)
    BY <1>2, <1>10, <2>1 DEF H!Respond, H!MayRespond
  <2>4. OfferFits(n)
    BY <1>2, <2>2, <2>3 DEF OfferFits
  <2> QED
    BY <1>1, <1>2, <2>2, <2>3, <2>4, HireEditsApplication
<1> QED
  BY <1>4, <1>5, <1>6, <1>7, <1>8, <1>9, <1>10

LEMMA HireStep ==
    ASSUME HireGoal, NEW s \in Sessions, H!Step(s) PROVE HireDone
<1>1. CASE H!Abort(s) /\ HireTables
  <2>1. Turns(s, Idle)
    BY <1>1 DEF H!Abort, H!Finish, H!Go, H!Idle, Idle, Turns
  <2> QED
    BY <1>1, <2>1, HireGoes DEF HireHeld
<1>2. ASSUME NEW user \in Users, NEW k \in Slots, H!CreateOpening(s, user, k), HireTables PROVE HireDone
  <2>1. PICK n : n = H!NewOpening(user, k)
    OBVIOUS
  <2>2. OpeningFits(n)
    BY <2>1, PeopleAssumption DEF OpeningFits, H!NewOpening, H!OpeningRow, H!OpeningStatuses
  <2>3. PICK w : w = [op |-> "add", table |-> "openings", new |-> n]
    OBVIOUS
  <2>4. H!Begin(s, w)
    BY <1>2, <2>1, <2>3 DEF H!CreateOpening, H!Add
  <2>5. AddsOpening(w)
    BY <2>2, <2>3 DEF AddsOpening
  <2> QED
    BY <1>2, <2>4, <2>5, HireBegins DEF HireHeld
<1>3. CASE H!Request(s) /\ HireTables
  BY <1>2, <1>3, HireOpening, HireTransition, HireOffer DEF H!Request
<1> QED
  BY <1>1, <1>3, HireCommit, HireMove DEF H!Step, H!hiringTables, HireTables

-----------------------------------------------------------------------------
\* The chart: within as many levels as there are employees, everybody is drawn
\* whose supervisor is.
ChartFcn(nodes, c) ==
    CHOOSE f : f = [n \in 0 .. c |-> IF n = 0 THEN S!Roots(nodes) ELSE S!Below(nodes, f[n - 1])]
IsChart(f, nodes, c) == f = [n \in 0 .. c |-> IF n = 0 THEN S!Roots(nodes) ELSE S!Below(nodes, f[n - 1])]

LEMMA DrawnIsChart ==
    ASSUME NEW nodes PROVE S!Drawn(nodes) = ChartFcn(nodes, Cardinality(Employees))[Cardinality(Employees)]
<1>1. \A set : S!Cardinality(set) = Cardinality(set)
  BY DEF S!Cardinality, Cardinality
<1> QED
  BY <1>1 DEF S!Drawn, ChartFcn

LEMMA ChartExists ==
    ASSUME NEW nodes, NEW c \in Nat PROVE \E f : IsChart(f, nodes, c)
<1> DEFINE good == {n \in 0 .. c : \E f : IsChart(f, nodes, n)}
<1>1. 0 \in good
  <2>1. IsChart([n \in 0 .. 0 |-> S!Roots(nodes)], nodes, 0)
    BY DEF IsChart
  <2> QED
    BY <2>1
<1>2. ASSUME NEW n \in 0 .. c - 1, n \in good PROVE n + 1 \in good
  <2>1. PICK f : f = [m \in 0 .. n |-> IF m = 0 THEN S!Roots(nodes) ELSE S!Below(nodes, f[m - 1])]
    BY <1>2 DEF IsChart
  <2>2. PICK g : g = [m \in 0 .. n + 1 |-> IF m <= n THEN f[m] ELSE S!Below(nodes, f[n])]
    OBVIOUS
  <2>3. ASSUME NEW m \in 0 .. n + 1
        PROVE  g[m] = IF m = 0 THEN S!Roots(nodes) ELSE S!Below(nodes, g[m - 1])
    <3>1. CASE m = 0
      BY <2>1, <2>2, <3>1
    <3>2. CASE m \in 1 .. n
      <4>1. m - 1 \in 0 .. n /\ m - 1 <= n /\ m - 1 \in 0 .. n + 1
        BY <3>2
      <4>2. g[m] = f[m] /\ g[m - 1] = f[m - 1]
        BY <2>2, <3>2, <4>1
      <4>3. f[m] = S!Below(nodes, f[m - 1])
        BY <2>1, <3>2
      <4> QED
        BY <3>2, <4>2, <4>3
    <3>3. CASE m = n + 1
      <4>1. g[n] = f[n] /\ g[m] = S!Below(nodes, f[n]) /\ m - 1 = n /\ m # 0
        BY <2>2, <3>3
      <4> QED
        BY <4>1
    <3> QED
      BY <3>1, <3>2, <3>3
  <2>4. IsChart(g, nodes, n + 1)
    BY <2>2, <2>3 DEF IsChart
  <2>5. n + 1 \in 0 .. c
    OBVIOUS
  <2> QED
    BY <2>4, <2>5
<1>3. c \in good
  <2> HIDE DEF good
  <2>1. good \in SUBSET (0 .. c)
    BY DEF good
  <2> QED
    BY <1>1, <1>2, <2>1, UpTo
<1> QED
  BY <1>3

LEMMA ChartGrows ==
    ASSUME NEW nodes \in SUBSET Employees
    PROVE  S!Roots(nodes) \subseteq S!Drawn(nodes) /\ S!Below(nodes, S!Drawn(nodes)) = S!Drawn(nodes)
<1> DEFINE c == Cardinality(Employees)
<1>1. c \in Nat /\ IsFiniteSet(Employees)
  BY FS_CardinalityType, PeopleAssumption
<1>2. PICK f : f = ChartFcn(nodes, c) /\ S!Drawn(nodes) = f[c]
  BY DrawnIsChart
<1> HIDE DEF c
<1>3. IsChart(f, nodes, c)
  BY <1>1, <1>2, ChartExists DEF ChartFcn, IsChart
<1> DEFINE Closed(some) == S!Below(nodes, some) = some
           good == {n \in 0 .. c : f[n] \subseteq nodes /\ S!Roots(nodes) \subseteq f[n] /\ (Closed(f[n]) \/ n <= Cardinality(f[n]))}
<1>4. f[0] = S!Roots(nodes) /\ \A n \in 0 .. c - 1 : f[n + 1] = S!Below(nodes, f[n])
  <2>1. 0 \in 0 .. c
    BY <1>1
  <2>2. ASSUME NEW n \in 0 .. c - 1 PROVE f[n + 1] = S!Below(nodes, f[n])
    <3>1. n + 1 \in 0 .. c /\ n + 1 # 0 /\ (n + 1) - 1 = n
      BY <1>1
    <3>2. \A m \in 0 .. c : m # 0 => f[m] = S!Below(nodes, f[m - 1])
      BY <1>3 DEF IsChart
    <3>3. f[n + 1] = S!Below(nodes, f[(n + 1) - 1])
      BY <3>1, <3>2
    <3> QED
      BY <3>1, <3>3
  <2> QED
    BY <1>3, <2>1, <2>2 DEF IsChart
<1>5. \A some \in SUBSET nodes : IsFiniteSet(some) /\ Cardinality(some) \in Nat
  BY <1>1, FS_Subset, FS_CardinalityType
<1>6. \A some \in SUBSET nodes : some \subseteq S!Below(nodes, some) /\ S!Below(nodes, some) \in SUBSET nodes
  BY DEF S!Below, S!Children
<1>7. 0 \in good
  <2>1. f[0] \in SUBSET nodes /\ 0 \in 0 .. c
    BY <1>1, <1>4 DEF S!Roots
  <2>2. 0 <= Cardinality(f[0])
    BY <1>5, <2>1
  <2> QED
    BY <1>4, <2>1, <2>2
<1>8. ASSUME NEW n \in 0 .. c - 1, n \in good PROVE n + 1 \in good
  <2>1. PICK some \in SUBSET nodes : some = f[n]
    BY <1>8
  <2>2. PICK more \in SUBSET nodes : more = f[n + 1] /\ more = S!Below(nodes, some) /\ some \subseteq more
    BY <1>4, <1>6, <2>1
  <2>3. n + 1 \in 0 .. c /\ n \in Nat
    BY <1>1
  <2>4. Closed(more) \/ n + 1 <= Cardinality(more)
    <3>1. CASE some = more
      BY <2>2, <3>1
    <3>2. CASE some # more
      <4>1. n <= Cardinality(some)
        BY <1>8, <2>1, <2>2, <3>2
      <4>2. Cardinality(some) <= Cardinality(more) /\ Cardinality(some) # Cardinality(more)
        BY <1>5, <2>2, <3>2, FS_Subset
      <4> QED
        BY <1>5, <2>3, <4>1, <4>2
    <3> QED
      BY <3>1, <3>2
  <2> QED
    BY <1>8, <2>1, <2>2, <2>3, <2>4
<1>9. c \in good
  <2> HIDE DEF good
  <2>1. good \in SUBSET (0 .. c)
    BY DEF good
  <2> QED
    BY <1>1, <1>7, <1>8, <2>1, UpTo
<1>10. PICK drawn \in SUBSET nodes : drawn = f[c]
  BY <1>9
<1>11. Closed(drawn)
  <2>1. CASE c <= Cardinality(drawn)
    <3>1. drawn \in SUBSET Employees
      OBVIOUS
    <3>2. Cardinality(drawn) <= c
      BY <1>1, <3>1, FS_Subset DEF c
    <3>3. Cardinality(drawn) = Cardinality(Employees)
      BY <1>1, <1>5, <2>1, <3>2 DEF c
    <3>4. drawn = Employees
      BY <1>1, <3>1, <3>3, FS_Subset
    <3> QED
      BY <1>6, <3>4
  <2> QED
    BY <1>9, <1>10, <2>1
<1> QED
  BY <1>2, <1>9, <1>10, <1>11

\* Nobody supervises themselves, which is enough.
LEMMA ChartShows ==
    ASSUME \A e \in Employees : employees[e].live => employees[e].supervisor # e
    PROVE  S!ChartComplete
<1>1. ASSUME NEW d, NEW e \in S!Nodes(d) \ S!Drawn(S!Nodes(d))
      PROVE  employees[e].supervisor \in (S!Nodes(d) \ S!Drawn(S!Nodes(d))) \ {e}
  <2>1. PICK nodes \in SUBSET Employees : nodes = S!Nodes(d)
    <3>1. S!Nodes(d) \in SUBSET Employees
      BY DEF S!Nodes
    <3> QED
      BY <3>1
  <2>2. PICK drawn : drawn = S!Drawn(nodes)
    OBVIOUS
  <2>3. S!Roots(nodes) \subseteq drawn /\ S!Below(nodes, drawn) = drawn
    BY <2>2, ChartGrows
  <2>4. e \in nodes /\ e \notin drawn
    BY <1>1, <2>1, <2>2
  <2>5. employees[e].supervisor \in nodes
    BY <2>3, <2>4 DEF S!Roots
  <2>6. employees[e].supervisor \notin drawn
    BY <2>3, <2>4 DEF S!Below, S!Children
  <2>7. employees[e].supervisor # e
    BY <2>1, <2>4 DEF S!Nodes
  <2> QED
    BY <2>1, <2>2, <2>5, <2>6, <2>7
<1> QED
  BY <1>1 DEF S!ChartComplete

\* Departments, positions, employees and their moves.
StaffTables == UNCHANGED <<departments, positions, employees, changes>>
MoveOfSome(c) == c.of \in Employees /\ c.kind \in {"PROMOTION", "MUTATION"}
StaffRows ==
    /\ departments \in [Departments -> [code: Codes] \cup {S!NoRow}]
    /\ positions \in [Positions -> S!PositionRow \cup {S!NoRow}]
    /\ employees \in [Employees -> S!EmployeeRow \cup {S!NoRow}]
    /\ \A e \in Employees : employees[e] # S!NoRow => employees[e].supervisor # e
    /\ \E moves : changes \in Seq(moves) /\ \A c \in moves : MoveOfSome(c)

AddsDepartment(w) == \E n \in [code: Codes] : w = [op |-> "add", table |-> "departments", new |-> n]
EditsDepartment(w) ==
    \E d \in Departments, n \in [code: Codes] :
        /\ departments[d] = n
        /\ w = [op |-> "edit", table |-> "departments", key |-> d, seen |-> departments[d], new |-> n]
AddsPosition(w) == \E n \in S!PositionRow : w = [op |-> "add", table |-> "positions", new |-> n]
EditsPosition(w) ==
    \E p \in Positions, n \in S!PositionRow :
        /\ positions[p] # S!NoRow
        /\ w = [op |-> "edit", table |-> "positions", key |-> p, seen |-> positions[p], new |-> n]
AddsEmployee(w) ==
    \E n \in S!EmployeeRow :
        /\ n.supervisor \in Employees => employees[n.supervisor].live
        /\ w = [op |-> "add", table |-> "employees", new |-> n]
EditsEmployee(w) ==
    \E e \in Employees, n \in S!EmployeeRow :
        /\ employees[e] # S!NoRow /\ n.supervisor # e
        /\ w = [op |-> "edit", table |-> "employees", key |-> e, seen |-> employees[e], new |-> n]
IsTrue(c, e, n) ==
    /\ c.of = e /\ c.kind \in {"PROMOTION", "MUTATION"}
    /\ c.kind = "MUTATION" => c.before = S!Place(employees[e]) /\ c.after = S!Place(n)
    /\ c.kind = "PROMOTION" => /\ c.before = S!Rank(employees[e]) /\ c.after[1] = n.position
                               /\ c.before[1] # NoKey => c.after[2] < c.before[2]
MovesEmployee(w) ==
    \E e, n, c : /\ e \in Employees /\ n \in S!EmployeeRow
                 /\ employees[e] # S!NoRow /\ n.supervisor # e /\ IsTrue(c, e, n)
                 /\ w = [op |-> "move", key |-> e, seen |-> employees[e], new |-> n, change |-> c]
StaffHeld(w) ==
    \/ w = Idle
    \/ AddsDepartment(w) \/ EditsDepartment(w) \/ AddsPosition(w) \/ EditsPosition(w)
    \/ AddsEmployee(w) \/ EditsEmployee(w) \/ MovesEmployee(w)
StaffInv == StaffRows /\ (part = "staff" => \A s \in Sessions : StaffHeld(sess[s]))
StaffKeeps ==
    alone /\ changes' # changes =>
        LET c == changes'[Len(changes')] IN
        IF c.kind = "MUTATION"
        THEN c.before = S!Place(employees[c.of]) /\ c.after = S!Place(employees'[c.of])
        ELSE /\ c.before = S!Rank(employees[c.of]) /\ c.after[1] = employees'[c.of].position
             /\ c.before[1] # NoKey => c.after[2] < c.before[2]
StaffGoal == InTurn /\ alone /\ StaffInv /\ part = "staff" /\ part' = part
StaffDone == InTurn' /\ StaffInv' /\ StaffKeeps /\ alone' = alone

LEMMA StaffStarts ==
    ASSUME S!Init PROVE StaffInv
<1>1. StaffRows
  <2>1. changes \in Seq({}) /\ \A c \in {} : MoveOfSome(c)
    BY DEF S!Init
  <2> QED
    BY <2>1 DEF S!Init, StaffRows
<1>2. \A s \in Sessions : StaffHeld(sess[s])
  BY DEF S!Init, S!AllIdle, S!Idle, StaffHeld, Idle
<1> QED
  BY <1>1, <1>2 DEF StaffInv

LEMMA StaffTyped ==
    ASSUME StaffRows PROVE S!TypeOK /\ S!ChartComplete
<1>1. \A i \in DOMAIN changes : MoveOfSome(changes[i])
  <2>1. PICK moves : changes \in Seq(moves) /\ \A c \in moves : MoveOfSome(c)
    BY DEF StaffRows
  <2>2. \A i \in DOMAIN changes : changes[i] \in moves
    BY <2>1
  <2> QED
    BY <2>1, <2>2
<1>2. S!TypeOK
  BY <1>1 DEF StaffRows, S!TypeOK, MoveOfSome
<1>3. \A e \in Employees : employees[e].live => employees[e].supervisor # e
  BY DEF StaffRows, S!NoRow
<1> QED
  BY <1>2, <1>3, ChartShows

LEMMA StaffOps ==
    ASSUME NEW v, StaffHeld(v)
    PROVE  /\ v.op = "add" /\ v.table = "departments" => AddsDepartment(v)
           /\ v.op = "edit" /\ v.table = "departments" => EditsDepartment(v)
           /\ v.op = "add" /\ v.table = "positions" => AddsPosition(v)
           /\ v.op = "edit" /\ v.table = "positions" => EditsPosition(v)
           /\ v.op = "add" /\ v.table = "employees" => AddsEmployee(v)
           /\ v.op = "edit" /\ v.table = "employees" => EditsEmployee(v)
           /\ v.op = "move" => MovesEmployee(v)
<1>1. CASE v = Idle
  BY <1>1 DEF Idle
<1>2. CASE AddsDepartment(v)
  BY <1>2 DEF AddsDepartment
<1>3. CASE EditsDepartment(v)
  <2>1. PICK d, n : v = [op |-> "edit", table |-> "departments", key |-> d, seen |-> departments[d], new |-> n]
    BY <1>3 DEF EditsDepartment
  <2> QED
    BY <1>3, <2>1
<1>4. CASE AddsPosition(v)
  BY <1>4 DEF AddsPosition
<1>5. CASE EditsPosition(v)
  <2>1. PICK p, n : v = [op |-> "edit", table |-> "positions", key |-> p, seen |-> positions[p], new |-> n]
    BY <1>5 DEF EditsPosition
  <2> QED
    BY <1>5, <2>1
<1>6. CASE AddsEmployee(v)
  <2>1. PICK n : v = [op |-> "add", table |-> "employees", new |-> n]
    BY <1>6 DEF AddsEmployee
  <2> QED
    BY <1>6, <2>1
<1>7. CASE EditsEmployee(v)
  <2>1. PICK e, n : v = [op |-> "edit", table |-> "employees", key |-> e, seen |-> employees[e], new |-> n]
    BY <1>7 DEF EditsEmployee
  <2> QED
    BY <1>7, <2>1
<1>8. CASE MovesEmployee(v)
  <2>1. PICK e, n, c : v = [op |-> "move", key |-> e, seen |-> employees[e], new |-> n, change |-> c]
    BY <1>8 DEF MovesEmployee
  <2> QED
    BY <1>8, <2>1
<1> QED
  BY <1>1, <1>2, <1>3, <1>4, <1>5, <1>6, <1>7, <1>8 DEF StaffHeld

LEMMA StaffSame ==
    ASSUME NEW v, StaffHeld(v), StaffTables PROVE StaffHeld(v)'
<1>1. CASE MovesEmployee(v)
  <2>1. PICK e, n, c : /\ e \in Employees /\ n \in S!EmployeeRow
                       /\ employees[e] # S!NoRow /\ n.supervisor # e /\ IsTrue(c, e, n)
                       /\ v = [op |-> "move", key |-> e, seen |-> employees[e], new |-> n, change |-> c]
    BY <1>1 DEF MovesEmployee
  <2>2. IsTrue(c, e, n)'
    BY <2>1 DEF IsTrue, StaffTables, S!Place, S!Rank, S!LevelOf
  <2>3. MovesEmployee(v)'
    BY <2>1, <2>2, Zenon DEF MovesEmployee, StaffTables
  <2> QED
    BY <2>3 DEF StaffHeld
<1>2. CASE ~MovesEmployee(v)
  BY <1>2 DEF StaffHeld, StaffTables, AddsDepartment, EditsDepartment, AddsPosition, EditsPosition, AddsEmployee, EditsEmployee
<1> QED
  BY <1>1, <1>2

LEMMA StaffRowsSame ==
    ASSUME StaffRows, StaffTables PROVE StaffRows'
  BY DEF StaffRows, StaffTables, MoveOfSome

LEMMA StaffGoes ==
    ASSUME StaffGoal, StaffTables, NEW s \in Sessions, NEW w, Turns(s, w), StaffHeld(w)
    PROVE  StaffDone
<1>1. StaffRows'
  BY StaffRowsSame DEF StaffGoal, StaffInv
<1>2. ASSUME NEW t \in Sessions PROVE StaffHeld(sess[t])'
  <2>1. PICK v : v = sess'[t]
    OBVIOUS
  <2>2. StaffHeld(v)
    BY <2>1, SoleTurn DEF StaffGoal, StaffInv
  <2>3. StaffHeld(v)'
    BY <2>2, StaffSame
  <2> QED
    BY <2>1, <2>3
<1>3. StaffKeeps
  BY DEF StaffTables, StaffKeeps
<1> QED
  BY <1>1, <1>2, <1>3, SoleTurn DEF StaffGoal, StaffInv, StaffDone

LEMMA StaffQuiet ==
    ASSUME StaffInv, StaffTables, UNCHANGED part, part = "staff" => sess' = sess
    PROVE  StaffInv'
<1>1. StaffRows'
  BY StaffRowsSame DEF StaffInv
<1>2. ASSUME part = "staff", NEW t \in Sessions PROVE StaffHeld(sess[t])'
  <2>1. PICK v : v = sess[t] /\ v = sess'[t]
    BY <1>2
  <2>2. StaffHeld(v)
    BY <1>2, <2>1 DEF StaffInv
  <2>3. StaffHeld(v)'
    BY <2>2, StaffSame
  <2> QED
    BY <2>1, <2>3
<1> QED
  BY <1>1, <1>2 DEF StaffInv

LEMMA StaffWrites ==
    ASSUME StaffGoal, NEW s \in Sessions, Turns(s, Idle), StaffRows', StaffKeeps
    PROVE  StaffDone
<1>1. ASSUME NEW t \in Sessions PROVE StaffHeld(sess[t])'
  <2>1. sess'[t] = Idle
    BY SoleTurn DEF StaffGoal
  <2> QED
    BY <2>1 DEF StaffHeld
<1> QED
  BY <1>1, SoleTurn DEF StaffGoal, StaffInv, StaffDone

LEMMA DepartmentMerge ==
    ASSUME NEW now \in [code: Codes], NEW n \in [code: Codes] PROVE S!Merge(now, now, n) = n
<1>1. n = [column \in DOMAIN now |-> n[column]]
  OBVIOUS
<1> QED
  BY <1>1, Unseen DEF S!Merge

LEMMA PositionMerge ==
    ASSUME NEW now \in S!PositionRow, NEW n \in S!PositionRow PROVE S!Merge(now, now, n) = n
<1>1. n = [column \in DOMAIN now |-> n[column]]
  BY DEF S!PositionRow
<1> QED
  BY <1>1, Unseen DEF S!Merge

LEMMA EmployeeMerge ==
    ASSUME NEW now \in S!EmployeeRow, NEW n \in S!EmployeeRow PROVE S!Merge(now, now, n) = n
<1>1. n = [column \in DOMAIN now |-> n[column]]
  BY DEF S!EmployeeRow
<1> QED
  BY <1>1, Unseen DEF S!Merge

LEMMA StaffTypes ==
    ASSUME StaffGoal
    PROVE  /\ departments \in [Departments -> [code: Codes] \cup {S!NoRow}]
           /\ positions \in [Positions -> S!PositionRow \cup {S!NoRow}]
           /\ employees \in [Employees -> S!EmployeeRow \cup {S!NoRow}]
           /\ \A e \in Employees : employees[e] # S!NoRow => employees[e].supervisor # e
           /\ S!NoRow \notin [code: Codes] /\ S!NoRow \notin S!PositionRow /\ S!NoRow \notin S!EmployeeRow
<1>1. DOMAIN S!NoRow = {"code", "live", "nik"}
  BY DEF S!NoRow
<1>2. /\ \A n \in [code: Codes] : DOMAIN n = {"code"}
      /\ \A n \in S!PositionRow : DOMAIN n = {"code", "dept", "level"}
      /\ \A n \in S!EmployeeRow : DOMAIN n = {"nik", "dept", "position", "supervisor", "status", "live", "login", "seen"}
  BY DEF S!PositionRow, S!EmployeeRow
<1>3. S!NoRow \notin [code: Codes] /\ S!NoRow \notin S!PositionRow /\ S!NoRow \notin S!EmployeeRow
  BY <1>1, <1>2
<1> QED
  BY <1>3 DEF StaffGoal, StaffInv, StaffRows

LEMMA StaffCommitDepartment ==
    ASSUME StaffGoal, NEW s \in Sessions, S!Finish(s), UNCHANGED <<positions, employees, changes>>,
           \/ S!Editing(s, "departments") /\ departments' = S!Edited(s, departments)
           \/ S!Insert(s, "departments", departments)
    PROVE  StaffDone
<1>1. PICK v : v = sess[s] /\ StaffHeld(v)
  BY DEF StaffGoal, StaffInv
<1>2. Turns(s, Idle)
  <2>1. sess[s].op \in {"edit", "add"}
    BY DEF S!Editing, S!Insert, S!Adding
  <2> QED
    BY <2>1 DEF S!Finish, S!Go, S!Idle, Idle, Turns
<1>3. ASSUME departments' \in [Departments -> [code: Codes] \cup {S!NoRow}] PROVE StaffDone
  <2>1. StaffRows'
    BY <1>3 DEF StaffGoal, StaffInv, StaffRows, MoveOfSome
  <2>2. StaffKeeps
    BY DEF StaffKeeps
  <2> QED
    BY <1>2, <2>1, <2>2, StaffWrites
<1>4. CASE S!Editing(s, "departments") /\ departments' = S!Edited(s, departments)
  <2>1. EditsDepartment(v)
    BY <1>1, <1>4, StaffOps DEF S!Editing
  <2>2. PICK d \in Departments, n \in [code: Codes] :
           /\ departments[d] \in [code: Codes]
           /\ v = [op |-> "edit", table |-> "departments", key |-> d, seen |-> departments[d], new |-> n]
    BY <2>1 DEF EditsDepartment
  <2>3. S!Merge(departments[d], departments[d], n) = n
    BY <2>2, DepartmentMerge
  <2>4. departments' = [departments EXCEPT ![d] = S!Merge(@, departments[d], n)]
    BY <1>1, <1>4, <2>2 DEF S!Edited
  <2>5. departments' = [departments EXCEPT ![d] = n]
    BY <2>2, <2>3, <2>4
  <2> QED
    BY <1>3, <2>5, StaffTypes
<1>5. CASE S!Insert(s, "departments", departments)
  <2>1. PICK d \in DOMAIN departments : S!Adding(s, "departments") /\ departments' = [departments EXCEPT ![d] = sess[s].new]
    BY <1>5 DEF S!Insert
  <2>2. AddsDepartment(v)
    BY <1>1, <2>1, StaffOps DEF S!Adding
  <2>3. PICK n \in [code: Codes] : v = [op |-> "add", table |-> "departments", new |-> n]
    BY <2>2 DEF AddsDepartment
  <2>4. departments' = [departments EXCEPT ![d] = n]
    BY <1>1, <2>1, <2>3
  <2> QED
    BY <1>3, <2>4, StaffTypes
<1> QED
  BY <1>4, <1>5

LEMMA StaffCommitPosition ==
    ASSUME StaffGoal, NEW s \in Sessions, S!Finish(s), UNCHANGED <<departments, employees, changes>>,
           \/ S!Editing(s, "positions") /\ positions' = S!Edited(s, positions)
           \/ S!Insert(s, "positions", positions)
    PROVE  StaffDone
<1>1. PICK v : v = sess[s] /\ StaffHeld(v)
  BY DEF StaffGoal, StaffInv
<1>2. Turns(s, Idle)
  <2>1. sess[s].op \in {"edit", "add"}
    BY DEF S!Editing, S!Insert, S!Adding
  <2> QED
    BY <2>1 DEF S!Finish, S!Go, S!Idle, Idle, Turns
<1>3. ASSUME positions' \in [Positions -> S!PositionRow \cup {S!NoRow}] PROVE StaffDone
  <2>1. StaffRows'
    BY <1>3 DEF StaffGoal, StaffInv, StaffRows, MoveOfSome
  <2>2. StaffKeeps
    BY DEF StaffKeeps
  <2> QED
    BY <1>2, <2>1, <2>2, StaffWrites
<1>4. CASE S!Editing(s, "positions") /\ positions' = S!Edited(s, positions)
  <2>1. EditsPosition(v)
    BY <1>1, <1>4, StaffOps DEF S!Editing
  <2>2. PICK p \in Positions, n \in S!PositionRow :
           /\ positions[p] # S!NoRow
           /\ v = [op |-> "edit", table |-> "positions", key |-> p, seen |-> positions[p], new |-> n]
    BY <2>1 DEF EditsPosition
  <2>3. S!Merge(positions[p], positions[p], n) = n
    BY <2>2, StaffTypes, PositionMerge
  <2>4. positions' = [positions EXCEPT ![p] = S!Merge(@, positions[p], n)]
    BY <1>1, <1>4, <2>2 DEF S!Edited
  <2>5. positions' = [positions EXCEPT ![p] = n]
    BY <2>3, <2>4
  <2> QED
    BY <1>3, <2>5, StaffTypes
<1>5. CASE S!Insert(s, "positions", positions)
  <2>1. PICK p \in DOMAIN positions : S!Adding(s, "positions") /\ positions' = [positions EXCEPT ![p] = sess[s].new]
    BY <1>5 DEF S!Insert
  <2>2. AddsPosition(v)
    BY <1>1, <2>1, StaffOps DEF S!Adding
  <2>3. PICK n \in S!PositionRow : v = [op |-> "add", table |-> "positions", new |-> n]
    BY <2>2 DEF AddsPosition
  <2>4. positions' = [positions EXCEPT ![p] = n]
    BY <1>1, <2>1, <2>3
  <2> QED
    BY <1>3, <2>4, StaffTypes
<1> QED
  BY <1>4, <1>5

LEMMA EmployeeStored ==
    ASSUME StaffGoal, NEW e \in Employees, NEW n \in S!EmployeeRow, n.supervisor # e, employees' = [employees EXCEPT ![e] = n]
    PROVE  /\ employees' \in [Employees -> S!EmployeeRow \cup {S!NoRow}]
           /\ \A x \in Employees : employees'[x] # S!NoRow => employees'[x].supervisor # x
           /\ employees'[e] = n
<1>1. employees' \in [Employees -> S!EmployeeRow \cup {S!NoRow}]
  BY StaffTypes
<1>2. \A x \in Employees : employees'[x] = IF x = e THEN n ELSE employees[x]
  BY StaffTypes
<1> QED
  BY <1>1, <1>2, StaffTypes

LEMMA StaffCommitEmployee ==
    ASSUME StaffGoal, NEW s \in Sessions, S!Finish(s), UNCHANGED <<departments, positions, changes>>,
           \/ S!Editing(s, "employees") /\ employees' = S!Edited(s, employees)
           \/ S!Insert(s, "employees", employees)
    PROVE  StaffDone
<1>1. PICK v : v = sess[s] /\ StaffHeld(v)
  BY DEF StaffGoal, StaffInv
<1>2. Turns(s, Idle)
  <2>1. sess[s].op \in {"edit", "add"}
    BY DEF S!Editing, S!Insert, S!Adding
  <2> QED
    BY <2>1 DEF S!Finish, S!Go, S!Idle, Idle, Turns
<1>3. ASSUME NEW e \in Employees, NEW n \in S!EmployeeRow, n.supervisor # e, employees' = [employees EXCEPT ![e] = n]
      PROVE  StaffDone
  <2>1. StaffRows'
    BY <1>3, EmployeeStored DEF StaffGoal, StaffInv, StaffRows, MoveOfSome
  <2>2. StaffKeeps
    BY DEF StaffKeeps
  <2> QED
    BY <1>2, <2>1, <2>2, StaffWrites
<1>4. CASE S!Editing(s, "employees") /\ employees' = S!Edited(s, employees)
  <2>1. EditsEmployee(v)
    BY <1>1, <1>4, StaffOps DEF S!Editing
  <2>2. PICK e \in Employees, n \in S!EmployeeRow :
           /\ employees[e] # S!NoRow /\ n.supervisor # e
           /\ v = [op |-> "edit", table |-> "employees", key |-> e, seen |-> employees[e], new |-> n]
    BY <2>1 DEF EditsEmployee
  <2>3. S!Merge(employees[e], employees[e], n) = n
    BY <2>2, StaffTypes, EmployeeMerge
  <2>4. employees' = [employees EXCEPT ![e] = S!Merge(@, employees[e], n)]
    BY <1>1, <1>4, <2>2 DEF S!Edited
  <2>5. employees' = [employees EXCEPT ![e] = n]
    BY <2>3, <2>4
  <2> QED
    BY <1>3, <2>2, <2>5
<1>5. CASE S!Insert(s, "employees", employees)
  <2>1. PICK e \in DOMAIN employees : /\ S!Adding(s, "employees") /\ employees[e] = S!NoRow
                                      /\ employees' = [employees EXCEPT ![e] = sess[s].new]
    BY <1>5 DEF S!Insert
  <2>2. AddsEmployee(v)
    BY <1>1, <2>1, StaffOps DEF S!Adding
  <2>3. PICK n \in S!EmployeeRow :
           /\ n.supervisor \in Employees => employees[n.supervisor].live
           /\ v = [op |-> "add", table |-> "employees", new |-> n]
    BY <2>2 DEF AddsEmployee
  <2>4. employees' = [employees EXCEPT ![e] = n] /\ e \in Employees
    BY <1>1, <2>1, <2>3, StaffTypes
  <2>5. n.supervisor # e
    BY <2>1, <2>3, <2>4 DEF S!NoRow
  <2> QED
    BY <1>3, <2>4, <2>5
<1> QED
  BY <1>4, <1>5

LEMMA StaffMove ==
    ASSUME StaffGoal, NEW s \in Sessions, S!MoveCommit(s) PROVE StaffDone
<1>1. PICK v : v = sess[s] /\ StaffHeld(v)
  BY DEF StaffGoal, StaffInv
<1>2. Turns(s, Idle) /\ UNCHANGED <<departments, positions>>
  BY DEF S!MoveCommit, S!Finish, S!Go, S!Idle, Idle, Turns
<1>3. MovesEmployee(v)
  BY <1>1, StaffOps DEF S!MoveCommit
<1>4. PICK e, n, c : /\ e \in Employees /\ n \in S!EmployeeRow
                     /\ employees[e] # S!NoRow /\ n.supervisor # e /\ IsTrue(c, e, n)
                     /\ v = [op |-> "move", key |-> e, seen |-> employees[e], new |-> n, change |-> c]
  BY <1>3 DEF MovesEmployee
<1>5. employees' = [employees EXCEPT ![e] = n]
  <2>1. S!Merge(employees[e], employees[e], n) = n
    BY <1>4, StaffTypes, EmployeeMerge
  <2>2. employees' = [employees EXCEPT ![e] = S!Merge(@, employees[e], n)]
    BY <1>1, <1>4 DEF S!MoveCommit, S!Edited
  <2> QED
    BY <2>1, <2>2
<1>6. changes' = Append(changes, c)
  BY <1>1, <1>4 DEF S!MoveCommit
<1>7. PICK moves : changes \in Seq(moves) /\ \A x \in moves : MoveOfSome(x)
  BY DEF StaffGoal, StaffInv, StaffRows
<1>8. PICK more : more = moves \cup {c}
  OBVIOUS
<1>9. changes' \in Seq(more) /\ changes'[Len(changes')] = c
  BY <1>6, <1>7, <1>8
<1>10. \A x \in more : MoveOfSome(x)
  BY <1>4, <1>7, <1>8 DEF IsTrue, MoveOfSome
<1>11. StaffRows'
  <2>1. \A x \in more : MoveOfSome(x)'
    BY <1>10 DEF MoveOfSome
  <2>2. \E some : changes' \in Seq(some) /\ \A x \in some : MoveOfSome(x)'
    BY <1>9, <2>1, Zenon
  <2>3. /\ employees' \in [Employees -> S!EmployeeRow \cup {S!NoRow}]
        /\ \A x \in Employees : employees'[x] # S!NoRow => employees'[x].supervisor # x
    BY <1>4, <1>5, EmployeeStored
  <2> QED
    BY <1>2, <2>2, <2>3 DEF StaffGoal, StaffInv, StaffRows
<1>12. StaffKeeps
  <2>1. employees'[e] = n /\ c.of = e /\ c.kind \in {"PROMOTION", "MUTATION"}
    BY <1>4, <1>5, EmployeeStored DEF IsTrue
  <2>2. c.kind = "MUTATION" => c.before = S!Place(employees[c.of]) /\ c.after = S!Place(employees'[c.of])
    BY <1>4, <2>1, Zenon DEF IsTrue
  <2>3. c.kind # "MUTATION" =>
           /\ c.before = S!Rank(employees[c.of]) /\ c.after[1] = employees'[c.of].position
           /\ c.before[1] # NoKey => c.after[2] < c.before[2]
    <3>1. c.kind # "MUTATION" => c.kind = "PROMOTION"
      BY <2>1
    <3>2. c.kind = "PROMOTION" => /\ c.before = S!Rank(employees[e]) /\ c.after[1] = n.position
                                  /\ c.before[1] # NoKey => c.after[2] < c.before[2]
      BY <1>4, Zenon DEF IsTrue
    <3>3. S!Rank(employees[c.of]) = S!Rank(employees[e]) /\ employees'[c.of].position = n.position
      BY <2>1
    <3> QED
      BY <3>1, <3>2, <3>3
  <2> QED
    BY <1>9, <2>2, <2>3, Zenon DEF StaffKeeps
<1> QED
  BY <1>2, <1>11, <1>12, StaffWrites

LEMMA StaffBegins ==
    ASSUME StaffGoal, StaffTables, NEW s \in Sessions, NEW w, S!Begin(s, w), StaffHeld(w) PROVE StaffDone
<1>1. Turns(s, w)
  BY DEF S!Begin, S!Go, S!Idle, Idle, Turns
<1> QED
  BY <1>1, StaffGoes

LEMMA StaffNew ==
    ASSUME StaffGoal, StaffTables, NEW s \in Sessions,
           \/ \E code \in Codes : S!CreateDepartment(s, code)
           \/ \E d \in Departments : S!UpdateDepartment(s, d)
           \/ \E code \in Codes, d \in Departments, level \in Levels : S!CreatePosition(s, code, d, level)
           \/ \E p \in Positions, level \in Levels : S!UpdatePosition(s, p, level)
    PROVE  StaffDone
<1>1. CASE \E code \in Codes : S!CreateDepartment(s, code)
  <2>1. PICK code \in Codes : S!CreateDepartment(s, code)
    BY <1>1
  <2>2. PICK w : w = [op |-> "add", table |-> "departments", new |-> [code |-> code]]
    OBVIOUS
  <2>3. S!Begin(s, w)
    BY <2>1, <2>2 DEF S!CreateDepartment, S!Add
  <2>4. StaffHeld(w)
    BY <2>2 DEF StaffHeld, AddsDepartment
  <2> QED
    BY <2>3, <2>4, StaffBegins
<1>2. CASE \E d \in Departments : S!UpdateDepartment(s, d)
  <2>1. PICK d \in Departments : S!UpdateDepartment(s, d)
    BY <1>2
  <2>2. PICK n : n = departments[d] /\ n \in [code: Codes]
    BY <2>1, StaffTypes DEF S!UpdateDepartment
  <2>3. PICK w : w = [op |-> "edit", table |-> "departments", key |-> d, seen |-> departments[d], new |-> n]
    OBVIOUS
  <2>4. S!Begin(s, w)
    BY <2>1, <2>2, <2>3 DEF S!UpdateDepartment, S!Edit
  <2>5. StaffHeld(w)
    BY <2>2, <2>3 DEF StaffHeld, EditsDepartment
  <2> QED
    BY <2>4, <2>5, StaffBegins
<1>3. CASE \E code \in Codes, d \in Departments, level \in Levels : S!CreatePosition(s, code, d, level)
  <2>1. PICK code \in Codes, d \in Departments, level \in Levels : S!CreatePosition(s, code, d, level)
    BY <1>3
  <2>2. PICK w : w = [op |-> "add", table |-> "positions", new |-> [code |-> code, dept |-> d, level |-> level]]
    OBVIOUS
  <2>3. S!Begin(s, w)
    BY <2>1, <2>2 DEF S!CreatePosition, S!Add
  <2>4. StaffHeld(w)
    BY <2>2 DEF StaffHeld, AddsPosition, S!PositionRow
  <2> QED
    BY <2>3, <2>4, StaffBegins
<1>4. CASE \E p \in Positions, level \in Levels : S!UpdatePosition(s, p, level)
  <2>1. PICK p \in Positions, level \in Levels : S!UpdatePosition(s, p, level)
    BY <1>4
  <2>2. positions[p] # S!NoRow /\ positions[p] \in S!PositionRow
    BY <2>1, StaffTypes DEF S!UpdatePosition
  <2>3. PICK n \in S!PositionRow : n = [positions[p] EXCEPT !.level = level]
    <3>1. [positions[p] EXCEPT !.level = level] \in S!PositionRow
      BY <2>2 DEF S!PositionRow
    <3> QED
      BY <3>1
  <2>4. PICK w : w = [op |-> "edit", table |-> "positions", key |-> p, seen |-> positions[p], new |-> n]
    OBVIOUS
  <2>5. S!Begin(s, w)
    BY <2>1, <2>3, <2>4 DEF S!UpdatePosition, S!Edit
  <2>6. StaffHeld(w)
    BY <2>2, <2>4 DEF StaffHeld, EditsPosition
  <2> QED
    BY <2>5, <2>6, StaffBegins
<1> QED
  BY <1>1, <1>2, <1>3, <1>4

LEMMA StaffJoins ==
    ASSUME StaffGoal, StaffTables, NEW s \in Sessions, NEW nik \in Niks, NEW d \in Departments \cup {NoKey},
           NEW p \in Positions \cup {NoKey}, NEW boss \in Employees \cup {NoKey}, S!CreateEmployee(s, nik, d, p, boss)
    PROVE  StaffDone
<1>1. PICK n : n = [nik |-> nik, dept |-> d, position |-> p, supervisor |-> boss,
                    status |-> "ACTIVE", live |-> TRUE, login |-> TRUE, seen |-> FALSE]
  OBVIOUS
<1>2. n \in S!EmployeeRow /\ n.supervisor = boss
  BY <1>1 DEF S!EmployeeRow
<1>3. PICK w : w = [op |-> "add", table |-> "employees", new |-> n]
  OBVIOUS
<1>4. S!Begin(s, w)
  BY <1>1, <1>3 DEF S!CreateEmployee, S!Add
<1>5. boss \in Employees => employees[boss].live
  BY PeopleAssumption DEF S!CreateEmployee, S!KnownSupervisor, S!LiveEmployee
<1>6. StaffHeld(w)
  BY <1>2, <1>3, <1>5 DEF StaffHeld, AddsEmployee
<1> QED
  BY <1>4, <1>6, StaffBegins

\* A change to an employee, of whom nobody else is made the supervisor than who may.
LEMMA StaffEdits ==
    ASSUME StaffGoal, StaffTables, NEW s \in Sessions, NEW e \in Employees, NEW n \in S!EmployeeRow,
           employees[e] # S!NoRow, n.supervisor # e, S!ChangeEmployee(s, e, n)
    PROVE  StaffDone
<1>1. PICK w : w = [op |-> "edit", table |-> "employees", key |-> e, seen |-> employees[e], new |-> n]
  OBVIOUS
<1>2. S!Begin(s, w)
  BY <1>1 DEF S!ChangeEmployee, S!Edit
<1>3. StaffHeld(w)
  BY <1>1 DEF StaffHeld, EditsEmployee
<1> QED
  BY <1>2, <1>3, StaffBegins

LEMMA StaffRow ==
    ASSUME StaffGoal, NEW e \in Employees, employees[e].live \/ employees[e] # S!NoRow
    PROVE  employees[e] # S!NoRow /\ employees[e] \in S!EmployeeRow /\ employees[e].supervisor # e
<1>1. employees[e] # S!NoRow
  BY DEF S!NoRow
<1> QED
  BY <1>1, StaffTypes

LEMMA StaffUpdates ==
    ASSUME StaffGoal, StaffTables, NEW s \in Sessions, NEW e \in Employees, NEW d \in Departments \cup {NoKey},
           NEW p \in Positions \cup {NoKey}, NEW boss \in Employees \cup {NoKey}, NEW status \in {"ACTIVE", "ALUMNI"},
           S!UpdateEmployee(s, e, d, p, boss, status)
    PROVE  StaffDone
<1>1. /\ employees[e] # S!NoRow /\ employees[e] \in S!EmployeeRow /\ employees[e].supervisor # e
  BY StaffRow DEF S!UpdateEmployee, S!LiveEmployee
<1>2. PICK n : n = [employees[e] EXCEPT !.dept = d, !.position = p, !.supervisor = boss, !.status = status]
  OBVIOUS
<1>3. n \in S!EmployeeRow /\ n.supervisor = boss
  BY <1>1, <1>2 DEF S!EmployeeRow
<1>4. boss # e
  BY <1>1, PeopleAssumption DEF S!UpdateEmployee, S!Accepted, S!MaySupervise
<1>5. S!ChangeEmployee(s, e, n)
  BY <1>2 DEF S!UpdateEmployee
<1> QED
  BY <1>1, <1>3, <1>4, <1>5, StaffEdits

LEMMA StaffLeaves ==
    ASSUME StaffGoal, StaffTables, NEW s \in Sessions, NEW e \in Employees,
           S!DeleteEmployee(s, e) \/ S!MarkWelcomeSeen(s, e)
    PROVE  StaffDone
<1>1. /\ employees[e] # S!NoRow /\ employees[e] \in S!EmployeeRow /\ employees[e].supervisor # e
  BY StaffRow DEF S!DeleteEmployee, S!MarkWelcomeSeen, S!LiveEmployee
<1>2. PICK n : /\ n = S!Left(employees[e]) \/ n = [employees[e] EXCEPT !.seen = TRUE]
               /\ S!ChangeEmployee(s, e, n)
  BY DEF S!DeleteEmployee, S!MarkWelcomeSeen
<1>3. n \in S!EmployeeRow /\ n.supervisor = employees[e].supervisor
  BY <1>1, <1>2 DEF S!EmployeeRow, S!Left
<1> QED
  BY <1>1, <1>2, <1>3, StaffEdits

\* What is written of a move is what the employee has, and is given.
LEMMA StaffMoves ==
    ASSUME StaffGoal, StaffTables, NEW s \in Sessions, NEW e \in Employees, NEW n \in S!EmployeeRow, NEW kind,
           NEW before, NEW after, employees[e] # S!NoRow, n.supervisor # e, S!Move(s, e, kind, n, before, after),
           IsTrue([of |-> e, kind |-> kind, before |-> before, after |-> after], e, n)
    PROVE  StaffDone
<1>1. PICK c : c = [of |-> e, kind |-> kind, before |-> before, after |-> after]
  OBVIOUS
<1>2. PICK w : w = [op |-> "move", key |-> e, seen |-> employees[e], new |-> n, change |-> c]
  OBVIOUS
<1>3. S!Begin(s, w)
  BY <1>1, <1>2 DEF S!Move
<1>4. IsTrue(c, e, n)
  BY <1>1
<1>5. MovesEmployee(w)
  BY <1>2, <1>4, Zenon DEF MovesEmployee
<1>6. StaffHeld(w)
  BY <1>5 DEF StaffHeld
<1> QED
  BY <1>3, <1>6, StaffBegins

LEMMA StaffPromotes ==
    ASSUME StaffGoal, StaffTables, NEW s \in Sessions, NEW e \in Employees, NEW p \in Positions, S!Promote(s, e, p)
    PROVE  StaffDone
<1>1. /\ employees[e] # S!NoRow /\ employees[e] \in S!EmployeeRow /\ employees[e].supervisor # e
  BY StaffRow DEF S!Promote, S!LiveEmployee
<1>2. PICK n : n = [employees[e] EXCEPT !.position = p]
  OBVIOUS
<1>3. n \in S!EmployeeRow /\ n.supervisor # e /\ n.position = p
  BY <1>1, <1>2 DEF S!EmployeeRow
<1>4. S!Move(s, e, "PROMOTION", n, S!Rank(employees[e]), S!Rank(n))
  BY <1>2 DEF S!Promote
<1>5. PICK before, after : before = S!Rank(employees[e]) /\ after = S!Rank(n)
  OBVIOUS
<1>6. /\ before[1] = employees[e].position /\ before[2] = S!LevelOf(employees[e].position)
      /\ after[1] = p /\ after[2] = positions[p].level
  BY <1>3, <1>5 DEF S!Rank, S!LevelOf
<1>7. before[1] # NoKey => after[2] < before[2]
  BY <1>6 DEF S!Promote, S!MayPromote
<1>8. PICK c : c = [of |-> e, kind |-> "PROMOTION", before |-> before, after |-> after]
  OBVIOUS
<1>9. c.of = e /\ c.kind = "PROMOTION" /\ c.before = before /\ c.after = after
  BY <1>8
<1>10. IsTrue(c, e, n)
  BY <1>3, <1>5, <1>6, <1>7, <1>9 DEF IsTrue
<1> QED
  BY <1>1, <1>3, <1>4, <1>5, <1>8, <1>10, StaffMoves

LEMMA StaffMutates ==
    ASSUME StaffGoal, StaffTables, NEW s \in Sessions, NEW e \in Employees, NEW d \in Departments \cup {NoKey},
           NEW p \in Positions \cup {NoKey}, NEW boss \in Employees \cup {NoKey}, S!Mutate(s, e, d, p, boss)
    PROVE  StaffDone
<1>1. PICK old : old = employees[e]
  OBVIOUS
<1>2. old # S!NoRow /\ old \in S!EmployeeRow /\ old.supervisor # e /\ boss # e
  BY <1>1, StaffRow DEF S!Mutate, S!LiveEmployee, S!MaySupervise
<1>3. PICK n : n = [old EXCEPT !.dept = S!Given(d, @), !.position = S!Given(p, @), !.supervisor = S!Given(boss, @)]
  OBVIOUS
<1>4. n \in S!EmployeeRow /\ n.supervisor # e
  BY <1>2, <1>3 DEF S!EmployeeRow, S!Given
<1>5. PICK before, after : before = S!Place(old) /\ after = S!Place(n)
  OBVIOUS
<1>6. S!Move(s, e, "MUTATION", n, before, after)
  <2>1. S!Snapshots(old, n)[1] = before /\ S!Snapshots(old, n)[2] = after
    BY <1>5 DEF S!Snapshots
  <2>2. S!Move(s, e, "MUTATION", n, S!Snapshots(old, n)[1], S!Snapshots(old, n)[2])
    BY <1>1, <1>3 DEF S!Mutate
  <2> QED
    BY <2>1, <2>2
<1>7. PICK c : c = [of |-> e, kind |-> "MUTATION", before |-> before, after |-> after]
  OBVIOUS
<1>8. c.of = e /\ c.kind = "MUTATION" /\ c.before = before /\ c.after = after
  BY <1>7
<1>9. IsTrue(c, e, n)
  BY <1>1, <1>5, <1>8 DEF IsTrue
<1> QED
  BY <1>1, <1>2, <1>4, <1>6, <1>7, <1>9, StaffMoves

LEMMA StaffRequest ==
    ASSUME StaffGoal, StaffTables, NEW s \in Sessions, S!Request(s) PROVE StaffDone
<1>1. CASE \/ \E code \in Codes : S!CreateDepartment(s, code)
           \/ \E d \in Departments : S!UpdateDepartment(s, d)
           \/ \E code \in Codes, d \in Departments, level \in Levels : S!CreatePosition(s, code, d, level)
           \/ \E p \in Positions, level \in Levels : S!UpdatePosition(s, p, level)
  BY <1>1, StaffNew
<1>2. CASE \E d \in Departments \cup {NoKey}, p \in Positions \cup {NoKey}, boss \in Employees \cup {NoKey} :
              \/ \E nik \in Niks : S!CreateEmployee(s, nik, d, p, boss)
              \/ \E e \in Employees, status \in {"ACTIVE", "ALUMNI"} : S!UpdateEmployee(s, e, d, p, boss, status)
              \/ \E e \in Employees : S!Mutate(s, e, d, p, boss)
  BY <1>2, StaffJoins, StaffUpdates, StaffMutates
<1>3. CASE \E e \in Employees : \/ S!DeleteEmployee(s, e) \/ S!MarkWelcomeSeen(s, e)
                                \/ \E p \in Positions : S!Promote(s, e, p)
  BY <1>3, StaffLeaves, StaffPromotes
<1> QED
  BY <1>1, <1>2, <1>3 DEF S!Request

LEMMA StaffStep ==
    ASSUME InTurn, alone, StaffInv, part = "staff", part' = part, S!Next PROVE StaffDone
<1>1. StaffGoal
  BY DEF StaffGoal
<1>2. PICK s \in Sessions : S!Step(s)
  BY DEF S!Next
<1>3. CASE S!Request(s) /\ UNCHANGED S!staffTables
  BY <1>1, <1>3, StaffRequest DEF S!staffTables, StaffTables
<1>4. CASE S!Abort(s) /\ UNCHANGED S!staffTables
  <2>1. Turns(s, Idle) /\ StaffHeld(Idle) /\ StaffTables
    BY <1>4 DEF S!staffTables, StaffTables, S!Abort, S!Finish, S!Go, S!Idle, Idle, Turns, StaffHeld
  <2> QED
    BY <1>1, <2>1, StaffGoes
<1>5. CASE S!Commit(s)
  BY <1>1, <1>5, StaffCommitDepartment, StaffCommitPosition, StaffCommitEmployee DEF S!Commit
<1>6. CASE S!MoveCommit(s)
  BY <1>1, <1>6, StaffMove
<1> QED
  BY <1>2, <1>3, <1>4, <1>5, <1>6 DEF S!Step

-----------------------------------------------------------------------------
\* The contracts.
TermTables == UNCHANGED <<contracts, employed>>
TermFits(n) ==
    n \in C!ContractRow /\ n.active /\ (n.kind = "PKWT" => n.end # C!Open) /\ (n.end # C!Open => n.start < n.end)
AddsTerm(w) ==
    \E n : /\ TermFits(n) /\ \A c \in C!ActiveOf(n.of) : C!Apart(n.start, n.end, contracts[c])
           /\ w = [op |-> "add", table |-> "contracts", new |-> n]
EditsTerm(w) ==
    \E c \in Contracts, n \in C!ContractRow :
        /\ contracts[c] # C!NoRow
        /\ w = [op |-> "edit", table |-> "contracts", key |-> c, seen |-> contracts[c], new |-> n]
RenewsTerm(w) ==
    \E c, n, next : /\ c \in Contracts /\ contracts[c] # C!NoRow /\ contracts[c].active /\ n \in C!ContractRow
                    /\ ~n.active /\ TermFits(next) /\ n.end < next.start
                    /\ w = [op |-> "renew", key |-> c, seen |-> contracts[c], new |-> n, next |-> next]
TermHeld(w) == w = Idle \/ AddsTerm(w) \/ EditsTerm(w) \/ RenewsTerm(w)
TermRows == C!TypeOK
TermInv == TermRows /\ (part = "contracts" => \A s \in Sessions : TermHeld(sess[s]))
TermKeeps ==
    alone => \A c \in Contracts : contracts[c] = C!NoRow /\ contracts'[c] # C!NoRow =>
        LET new  == contracts'[c]
            left == {d \in Contracts : contracts[d].active /\ ~contracts'[d].active}
        IN /\ new.kind = "PKWT" => new.start < new.end /\ new.end # C!Open
           /\ \A d \in left : contracts'[d].end < new.start
           /\ left = {} => \A d \in C!ActiveOf(new.of) : ~C!Meet(contracts[d], new)
TermGoal == InTurn /\ alone /\ TermInv /\ part = "contracts" /\ part' = part
TermDone == InTurn' /\ TermInv' /\ TermKeeps /\ alone' = alone

LEMMA TermStarts ==
    ASSUME C!Init PROVE TermInv
<1>1. TermRows
  BY DEF C!Init, TermRows, C!TypeOK
<1>2. \A s \in Sessions : TermHeld(sess[s])
  BY DEF C!Init, C!AllIdle, C!Idle, TermHeld, Idle
<1> QED
  BY <1>1, <1>2 DEF TermInv

LEMMA TermOps ==
    ASSUME NEW v, TermHeld(v)
    PROVE  /\ v.op = "add" => AddsTerm(v)
           /\ v.op = "edit" => EditsTerm(v)
           /\ v.op = "renew" => RenewsTerm(v)
<1>1. CASE v = Idle
  BY <1>1 DEF Idle
<1>2. CASE AddsTerm(v)
  BY <1>2 DEF AddsTerm
<1>3. CASE EditsTerm(v)
  <2>1. PICK c, n : v = [op |-> "edit", table |-> "contracts", key |-> c, seen |-> contracts[c], new |-> n]
    BY <1>3 DEF EditsTerm
  <2> QED
    BY <1>3, <2>1
<1>4. CASE RenewsTerm(v)
  <2>1. PICK c, n, next : v = [op |-> "renew", key |-> c, seen |-> contracts[c], new |-> n, next |-> next]
    BY <1>4 DEF RenewsTerm
  <2> QED
    BY <1>4, <2>1
<1> QED
  BY <1>1, <1>2, <1>3, <1>4 DEF TermHeld

LEMMA TermSame ==
    ASSUME NEW v, TermHeld(v), contracts' = contracts PROVE TermHeld(v)'
  BY DEF TermHeld, AddsTerm, EditsTerm, RenewsTerm, C!ActiveOf

\* No contract is stored: handler s goes on with w.
LEMMA TermGoes ==
    ASSUME TermGoal, contracts' = contracts, employed' \in [Workers -> BOOLEAN],
           NEW s \in Sessions, NEW w, Turns(s, w), TermHeld(w)
    PROVE  TermDone
<1>1. TermRows'
  BY DEF TermGoal, TermInv, TermRows, C!TypeOK
<1>2. ASSUME NEW t \in Sessions PROVE TermHeld(sess[t])'
  <2>1. PICK v : v = sess'[t]
    OBVIOUS
  <2>2. TermHeld(v)
    BY <2>1, SoleTurn DEF TermGoal, TermInv
  <2>3. TermHeld(v)'
    BY <2>2, TermSame
  <2> QED
    BY <2>1, <2>3
<1>3. TermKeeps
  BY DEF TermKeeps
<1> QED
  BY <1>1, <1>2, <1>3, SoleTurn DEF TermGoal, TermInv, TermDone

LEMMA TermQuiet ==
    ASSUME TermInv, UNCHANGED part, contracts' = contracts, employed' \in [Workers -> BOOLEAN],
           part = "contracts" => sess' = sess
    PROVE  TermInv'
<1>1. TermRows'
  BY DEF TermInv, TermRows, C!TypeOK
<1>2. ASSUME part = "contracts", NEW t \in Sessions PROVE TermHeld(sess[t])'
  <2>1. PICK v : v = sess[t] /\ v = sess'[t]
    BY <1>2
  <2>2. TermHeld(v)
    BY <1>2, <2>1 DEF TermInv
  <2>3. TermHeld(v)'
    BY <2>2, TermSame
  <2> QED
    BY <2>1, <2>3
<1> QED
  BY <1>1, <1>2 DEF TermInv

LEMMA TermWrites ==
    ASSUME TermGoal, NEW s \in Sessions, Turns(s, Idle), TermRows', TermKeeps
    PROVE  TermDone
<1>1. ASSUME NEW t \in Sessions PROVE TermHeld(sess[t])'
  <2>1. sess'[t] = Idle
    BY SoleTurn DEF TermGoal
  <2> QED
    BY <2>1 DEF TermHeld
<1> QED
  BY <1>1, SoleTurn DEF TermGoal, TermInv, TermDone

LEMMA TermTypes ==
    ASSUME NEW n \in C!ContractRow
    PROVE  n.start \in Int /\ n.end \in Int /\ n.active \in BOOLEAN /\ n # C!NoRow
<1>1. n.start \in C!Days /\ n.end \in 0 .. C!Open /\ n.active \in BOOLEAN
  BY DEF C!ContractRow
<1>2. n # C!NoRow
  <2>1. DOMAIN n = {"of", "kind", "start", "end", "active"} /\ DOMAIN C!NoRow = {"active"}
    BY DEF C!ContractRow, C!NoRow
  <2> QED
    BY <2>1
<1> QED
  BY <1>1, <1>2, PeopleAssumption DEF C!Days, C!Open

LEMMA TermMerge ==
    ASSUME NEW now \in C!ContractRow, NEW n \in C!ContractRow PROVE C!Merge(now, now, n) = n
<1>1. n = [column \in DOMAIN now |-> n[column]]
  BY DEF C!ContractRow
<1> QED
  BY <1>1, Unseen DEF C!Merge

LEMMA TermAdds ==
    ASSUME TermGoal, NEW s \in Sessions, Turns(s, Idle), NEW c \in Contracts, contracts[c] = C!NoRow, NEW n, TermFits(n),
           \A d \in C!ActiveOf(n.of) : C!Apart(n.start, n.end, contracts[d]), contracts' = [contracts EXCEPT ![c] = n],
           employed' = employed
    PROVE  TermDone
<1>1. n \in C!ContractRow /\ contracts \in [Contracts -> C!ContractRow \cup {C!NoRow}] /\ employed \in [Workers -> BOOLEAN]
  BY DEF TermFits, TermGoal, TermInv, TermRows, C!TypeOK
<1>2. contracts' \in [Contracts -> C!ContractRow \cup {C!NoRow}]
  BY <1>1
<1>3. \A d \in Contracts : contracts'[d] = IF d = c THEN n ELSE contracts[d]
  BY <1>1
<1>4. TermRows'
  BY <1>1, <1>2 DEF TermRows, C!TypeOK
<1>5. ASSUME NEW d \in C!ActiveOf(n.of) PROVE ~C!Meet(contracts[d], n)
  <2>1. d \in Contracts /\ contracts[d] \in C!ContractRow
    BY <1>1 DEF C!ActiveOf
  <2>2. contracts[d].start \in Int /\ contracts[d].end \in Int /\ n.start \in Int /\ n.end \in Int
    BY <1>1, <2>1, TermTypes
  <2> QED
    BY <2>2 DEF C!Apart, C!Meet
<1>6. ~\E d \in Contracts : contracts[d].active /\ ~contracts'[d].active
  BY <1>3 DEF C!NoRow
<1>7. n.kind = "PKWT" => n.start < n.end /\ n.end # C!Open
  BY DEF TermFits
<1>8. TermKeeps
  <2>1. \A d \in Contracts : contracts[d] = C!NoRow /\ contracts'[d] # C!NoRow => d = c /\ contracts'[d] = n
    BY <1>3
  <2> QED
    BY <1>5, <1>6, <1>7, <2>1 DEF TermKeeps
<1> QED
  BY <1>4, <1>8, TermWrites

LEMMA TermEdits ==
    ASSUME TermGoal, NEW s \in Sessions, Turns(s, Idle), NEW c \in Contracts, contracts[c] # C!NoRow, NEW n \in C!ContractRow,
           contracts' = [contracts EXCEPT ![c] = n], employed' = employed
    PROVE  TermDone
<1>1. contracts \in [Contracts -> C!ContractRow \cup {C!NoRow}] /\ employed \in [Workers -> BOOLEAN]
  BY DEF TermGoal, TermInv, TermRows, C!TypeOK
<1>2. contracts' \in [Contracts -> C!ContractRow \cup {C!NoRow}]
  BY <1>1
<1>3. \A d \in Contracts : contracts'[d] = IF d = c THEN n ELSE contracts[d]
  BY <1>1
<1>4. TermRows'
  BY <1>1, <1>2 DEF TermRows, C!TypeOK
<1>5. ~\E d \in Contracts : contracts[d] = C!NoRow /\ contracts'[d] # C!NoRow
  BY <1>3
<1>6. TermKeeps
  BY <1>5 DEF TermKeeps
<1> QED
  BY <1>4, <1>6, TermWrites

LEMMA TermRenews ==
    ASSUME TermGoal, NEW s \in Sessions, Turns(s, Idle), NEW c \in Contracts, contracts[c] # C!NoRow,
           NEW n \in C!ContractRow, ~n.active, NEW d \in Contracts, contracts[d] = C!NoRow, NEW next, TermFits(next),
           n.end < next.start, contracts[c].active,
           contracts' = [[contracts EXCEPT ![c] = n] EXCEPT ![d] = next], employed' = employed
    PROVE  TermDone
<1>1. /\ next \in C!ContractRow /\ contracts \in [Contracts -> C!ContractRow \cup {C!NoRow}]
      /\ employed \in [Workers -> BOOLEAN]
  BY DEF TermFits, TermGoal, TermInv, TermRows, C!TypeOK
<1>2. contracts' \in [Contracts -> C!ContractRow \cup {C!NoRow}]
  BY <1>1
<1>3. \A e \in Contracts : contracts'[e] = IF e = d THEN next ELSE IF e = c THEN n ELSE contracts[e]
  BY <1>1
<1>4. TermRows'
  BY <1>1, <1>2 DEF TermRows, C!TypeOK
<1>5. c # d
  OBVIOUS
<1>6. next.kind = "PKWT" => next.start < next.end /\ next.end # C!Open
  BY DEF TermFits
<1>7. \A e \in Contracts : contracts[e].active /\ ~contracts'[e].active => e = c
  BY <1>3 DEF TermFits
<1>8. contracts[c].active /\ ~contracts'[c].active /\ contracts'[c].end < next.start
  BY <1>3, <1>5
<1>9. TermKeeps
  <2>1. \A e \in Contracts : contracts[e] = C!NoRow /\ contracts'[e] # C!NoRow => e = d /\ contracts'[e] = next
    BY <1>3
  <2> QED
    BY <1>6, <1>7, <1>8, <2>1 DEF TermKeeps
<1> QED
  BY <1>4, <1>9, TermWrites

LEMMA TermBegins ==
    ASSUME TermGoal, TermTables, NEW s \in Sessions, NEW w, C!Begin(s, w), TermHeld(w) PROVE TermDone
<1>1. Turns(s, w)
  BY DEF C!Begin, C!Go, C!Idle, Idle, Turns
<1>2. contracts' = contracts /\ employed' \in [Workers -> BOOLEAN]
  BY DEF TermTables, TermGoal, TermInv, TermRows, C!TypeOK
<1> QED
  BY <1>1, <1>2, TermGoes

LEMMA TermChanges ==
    ASSUME TermGoal, TermTables, NEW s \in Sessions, NEW c \in Contracts, contracts[c] # C!NoRow,
           NEW n \in C!ContractRow, C!ChangeContract(s, c, n)
    PROVE  TermDone
<1>1. PICK w : w = [op |-> "edit", table |-> "contracts", key |-> c, seen |-> contracts[c], new |-> n]
  OBVIOUS
<1>2. C!Begin(s, w)
  BY <1>1 DEF C!ChangeContract, C!Edit
<1>3. EditsTerm(w)
  BY <1>1 DEF EditsTerm
<1> QED
  BY <1>2, <1>3, TermBegins DEF TermHeld

LEMMA TermCommit ==
    ASSUME TermGoal, NEW s \in Sessions, C!Commit(s) \/ C!RenewCommit(s) PROVE TermDone
<1>1. PICK v : v = sess[s] /\ TermHeld(v) /\ contracts \in [Contracts -> C!ContractRow \cup {C!NoRow}]
  BY DEF TermGoal, TermInv, TermRows, C!TypeOK
<1>2. Turns(s, Idle) /\ employed' = employed
  <2>1. sess[s].op \in {"edit", "add", "renew"}
    BY DEF C!Commit, C!Editing, C!Adding, C!RenewCommit
  <2> QED
    BY <2>1 DEF C!Commit, C!RenewCommit, C!Finish, C!Go, C!Idle, Idle, Turns
<1>3. CASE C!Editing(s, "contracts") /\ contracts' = C!Edited(s, contracts)
  <2>1. EditsTerm(v)
    BY <1>1, <1>3, TermOps DEF C!Editing
  <2>2. PICK c \in Contracts, n \in C!ContractRow :
           /\ contracts[c] # C!NoRow
           /\ v = [op |-> "edit", table |-> "contracts", key |-> c, seen |-> contracts[c], new |-> n]
    BY <2>1 DEF EditsTerm
  <2>3. C!Merge(contracts[c], contracts[c], n) = n
    BY <1>1, <2>2, TermMerge
  <2>4. contracts' = [contracts EXCEPT ![c] = C!Merge(@, contracts[c], n)]
    BY <1>1, <1>3, <2>2 DEF C!Edited
  <2>5. contracts' = [contracts EXCEPT ![c] = n]
    BY <2>3, <2>4
  <2> QED
    BY <1>2, <2>2, <2>5, TermEdits
<1>4. ASSUME NEW c \in Contracts, C!Adding(s, "contracts"), contracts[c] = C!NoRow,
             contracts' = [contracts EXCEPT ![c] = sess[s].new]
      PROVE  TermDone
  <2>1. AddsTerm(v)
    BY <1>1, <1>4, TermOps DEF C!Adding
  <2>2. PICK n : /\ TermFits(n) /\ \A d \in C!ActiveOf(n.of) : C!Apart(n.start, n.end, contracts[d])
                 /\ v = [op |-> "add", table |-> "contracts", new |-> n]
    BY <2>1 DEF AddsTerm
  <2>3. contracts' = [contracts EXCEPT ![c] = n]
    BY <1>1, <1>4, <2>2
  <2> QED
    BY <1>2, <1>4, <2>2, <2>3, TermAdds
<1>5. CASE C!RenewCommit(s)
  <2>1. RenewsTerm(v)
    BY <1>1, <1>5, TermOps DEF C!RenewCommit
  <2>2. PICK c, n, next :
           /\ c \in Contracts /\ contracts[c] # C!NoRow /\ contracts[c].active /\ n \in C!ContractRow
           /\ ~n.active /\ TermFits(next) /\ n.end < next.start
           /\ v = [op |-> "renew", key |-> c, seen |-> contracts[c], new |-> n, next |-> next]
    BY <2>1 DEF RenewsTerm
  <2>3. PICK d \in Contracts : contracts[d] = C!NoRow /\ contracts' = [C!Edited(s, contracts) EXCEPT ![d] = next]
    <3>1. PICK d \in Contracts : contracts[d] = C!NoRow /\ contracts' = [C!Edited(s, contracts) EXCEPT ![d] = sess[s].next]
      BY <1>5 DEF C!RenewCommit
    <3>2. sess[s].next = next
      BY <1>1, <2>2
    <3> QED
      BY <3>1, <3>2
  <2>4. C!Merge(contracts[c], contracts[c], n) = n
    BY <1>1, <2>2, TermMerge
  <2>5. C!Edited(s, contracts) = [contracts EXCEPT ![c] = C!Merge(@, contracts[c], n)]
    BY <1>1, <2>2 DEF C!Edited
  <2>6. contracts' = [[contracts EXCEPT ![c] = n] EXCEPT ![d] = next]
    BY <2>3, <2>4, <2>5
  <2> QED
    BY <1>2, <2>2, <2>3, <2>6, TermRenews
<1> QED
  BY <1>3, <1>4, <1>5 DEF C!Commit

LEMMA TermRequest ==
    ASSUME TermGoal, TermTables, NEW s \in Sessions, C!Request(s) PROVE TermDone
<1>1. contracts \in [Contracts -> C!ContractRow \cup {C!NoRow}] /\ LastDay \in Nat
  BY PeopleAssumption DEF TermGoal, TermInv, TermRows, C!TypeOK
<1>2. ASSUME NEW k \in Workers, NEW kind \in {"PKWT", "PKWTT"}, NEW from \in C!Days, NEW to \in C!Ends,
             C!Valid(kind, from, to)
      PROVE  TermFits(C!New(k, kind, from, to))
  <2>1. to \in 0 .. C!Open
    BY <1>1 DEF C!Ends, C!Days, C!Open
  <2> QED
    BY <1>2, <2>1 DEF TermFits, C!New, C!Valid, C!ContractRow
<1>3. ASSUME NEW k \in Workers, NEW kind \in {"PKWT", "PKWTT"}, NEW from \in C!Days, NEW to \in C!Ends,
             C!CreateContract(s, k, kind, from, to)
      PROVE  TermDone
  <2>1. PICK n : n = C!New(k, kind, from, to)
    OBVIOUS
  <2>2. TermFits(n) /\ n.of = k /\ n.start = from /\ n.end = to
    BY <1>2, <1>3, <2>1 DEF C!CreateContract, C!MayCreate, C!New
  <2>3. PICK w : w = [op |-> "add", table |-> "contracts", new |-> n]
    OBVIOUS
  <2>4. C!Begin(s, w)
    BY <1>3, <2>1, <2>3 DEF C!CreateContract, C!Add
  <2>5. AddsTerm(w)
    BY <1>3, <2>2, <2>3 DEF AddsTerm, C!CreateContract, C!MayCreate
  <2> QED
    BY <2>4, <2>5, TermBegins DEF TermHeld
<1>4. ASSUME NEW c \in Contracts, NEW end \in C!Ends, NEW active \in BOOLEAN, C!UpdateContract(s, c, end, active)
      PROVE  TermDone
  <2>1. PICK q : q = contracts[c] /\ q # C!NoRow /\ q \in C!ContractRow
    BY <1>1, <1>4 DEF C!UpdateContract
  <2>2. PICK n : n = [q EXCEPT !.end = end, !.active = active]
    OBVIOUS
  <2>3. end \in 0 .. C!Open
    BY <1>1 DEF C!Ends, C!Days, C!Open
  <2>4. n \in C!ContractRow
    BY <2>1, <2>2, <2>3 DEF C!ContractRow
  <2>5. C!ChangeContract(s, c, n)
    BY <1>4, <2>1, <2>2 DEF C!UpdateContract
  <2> QED
    BY <2>1, <2>4, <2>5, TermChanges
<1>5. ASSUME NEW c \in Contracts, NEW day \in C!Days, C!TerminateContract(s, c, day)
      PROVE  TermDone
  <2>1. PICK q : q = contracts[c] /\ q # C!NoRow /\ q \in C!ContractRow
    BY <1>1, <1>5 DEF C!TerminateContract, C!MayTerminate, C!NoRow
  <2>2. PICK n : n = [q EXCEPT !.end = day, !.active = FALSE]
    OBVIOUS
  <2>3. day \in 0 .. C!Open
    BY <1>1 DEF C!Days, C!Open
  <2>4. n \in C!ContractRow
    BY <2>1, <2>2, <2>3 DEF C!ContractRow
  <2>5. C!ChangeContract(s, c, n)
    BY <1>5, <2>1, <2>2 DEF C!TerminateContract
  <2> QED
    BY <2>1, <2>4, <2>5, TermChanges
<1>6. ASSUME NEW c \in Contracts, NEW kind \in {"PKWT", "PKWTT"}, NEW from \in C!Days, NEW to \in C!Ends,
             C!RenewContract(s, c, kind, from, to)
      PROVE  TermDone
  <2>1. PICK q : q = contracts[c] /\ q # C!NoRow /\ q \in C!ContractRow /\ q.active
    BY <1>1, <1>6 DEF C!RenewContract, C!NoRow
  <2>2. PICK last : last = IF from <= q.end THEN from - 1 ELSE q.end
    OBVIOUS
  <2>3. PICK n : n = [q EXCEPT !.active = FALSE, !.end = last]
    OBVIOUS
  <2>4. q.end \in 0 .. C!Open /\ q.of \in Workers
    BY <2>1 DEF C!ContractRow
  <2>5. last \in 0 .. C!Open /\ last < from
    BY <1>1, <2>2, <2>4 DEF C!Days, C!Open
  <2>6. n \in C!ContractRow /\ ~n.active /\ n.end = last
    BY <2>1, <2>3, <2>5 DEF C!ContractRow
  <2>7. C!Renewed(q, from) = n
    BY <2>2, <2>3 DEF C!Renewed
  <2>8. PICK next : next = C!New(q.of, kind, from, to)
    OBVIOUS
  <2>9. TermFits(next) /\ next.start = from
    BY <1>2, <1>6, <2>4, <2>8 DEF C!RenewContract, C!New
  <2>10. PICK w : w = [op |-> "renew", key |-> c, seen |-> contracts[c], new |-> n, next |-> next]
    OBVIOUS
  <2>11. C!Begin(s, w)
    BY <1>6, <2>1, <2>7, <2>8, <2>10 DEF C!RenewContract
  <2>12. RenewsTerm(w)
    BY <2>1, <2>5, <2>6, <2>9, <2>10 DEF RenewsTerm
  <2> QED
    BY <2>11, <2>12, TermBegins DEF TermHeld
<1> QED
  BY <1>3, <1>4, <1>5, <1>6 DEF C!Request

LEMMA TermStep ==
    ASSUME TermGoal, C!Next PROVE TermDone
<1>1. contracts \in [Contracts -> C!ContractRow \cup {C!NoRow}] /\ employed \in [Workers -> BOOLEAN]
  BY DEF TermGoal, TermInv, TermRows, C!TypeOK
<1>2. ASSUME NEW s \in Sessions, C!Abort(s), TermTables PROVE TermDone
  <2>1. Turns(s, Idle)
    BY <1>2 DEF C!Abort, C!Finish, C!Go, C!Idle, Idle, Turns
  <2> QED
    BY <1>1, <1>2, <2>1, TermGoes DEF TermHeld, TermTables
<1>3. ASSUME NEW k \in Workers, C!Leave(k) PROVE TermDone
  <2>1. contracts' = contracts /\ employed' \in [Workers -> BOOLEAN] /\ UNCHANGED <<alone, sess>>
    BY <1>1, <1>3 DEF C!Leave, C!handlers
  <2>2. TermInv' /\ TermKeeps /\ InTurn'
    BY <2>1, TermQuiet DEF TermGoal, TermKeeps, InTurn
  <2> QED
    BY <2>1, <2>2 DEF TermDone
<1> QED
  BY <1>2, <1>3, TermCommit, TermRequest DEF C!Next, C!Step, C!contractTables, TermTables

-----------------------------------------------------------------------------
\* The onboarding checklists.
BoardTables == UNCHANGED <<templates, tasks, assignments, completions>>
AddsTemplate(w) == \E ks \in SUBSET Tasks : \E required \in [ks -> BOOLEAN] : w = [op |-> "template", required |-> required]
EditsTemplate(w) == \E t, q : w = [op |-> "edit", table |-> "templates", key |-> t, seen |-> q, new |-> q]
AddsTask(w) == \E n \in O!TaskRow : w = [op |-> "add", table |-> "tasks", new |-> n]
EditsBoardTask(w) ==
    \E k \in Tasks, n \in O!TaskRow :
        /\ tasks[k] # O!NoRow
        /\ w = [op |-> "edit", table |-> "tasks", key |-> k, seen |-> tasks[k], new |-> n]
DeletesTask(w) == \E k \in Tasks : w = [op |-> "delete", key |-> k]
Assigns(w) == \E ks \in SUBSET Tasks, n \in O!AssignmentRow : w = [op |-> "assign", tasks |-> ks, new |-> n]
EditsAssignment(w) ==
    \E a \in Assignments, n \in O!AssignmentRow :
        /\ assignments[a] # O!NoRow
        /\ w = [op |-> "edit", table |-> "assignments", key |-> a, seen |-> assignments[a], new |-> n]
Ticks(w) ==
    \E a \in Assignments, k \in Tasks, status \in O!Statuses :
        /\ completions[<<a, k>>] # "none"
        /\ w = [op |-> "complete", assignment |-> a, task |-> k, status |-> status]
Checks(w) == \E a \in Assignments : assignments[a] # O!NoRow /\ w = [op |-> "check", assignment |-> a]
BoardHeld(w) ==
    \/ w = Idle
    \/ AddsTemplate(w) \/ EditsTemplate(w) \/ AddsTask(w) \/ EditsBoardTask(w) \/ DeletesTask(w)
    \/ Assigns(w) \/ EditsAssignment(w) \/ Ticks(w) \/ Checks(w)
BoardRows == O!TypeOK
BoardInv == BoardRows /\ (part = "onboarding" => \A s \in Sessions : BoardHeld(sess[s]))
BoardKeeps ==
    alone => \A s \in Sessions : sess[s].op = "check" /\ sess'[s].op = "edit" =>
        \A k \in O!TasksOf(assignments[sess[s].assignment].of) :
            tasks[k].required => completions[<<sess[s].assignment, k>>] = "DONE"
BoardGoal == InTurn /\ alone /\ BoardInv /\ part = "onboarding" /\ part' = part
BoardDone == InTurn' /\ BoardInv' /\ BoardKeeps /\ alone' = alone

LEMMA BoardStarts ==
    ASSUME O!Init PROVE BoardInv
<1>1. BoardRows
  BY DEF O!Init, BoardRows, O!TypeOK, O!Statuses
<1>2. \A s \in Sessions : BoardHeld(sess[s])
  BY DEF O!Init, O!AllIdle, O!Idle, BoardHeld, Idle
<1> QED
  BY <1>1, <1>2 DEF BoardInv

LEMMA BoardOps ==
    ASSUME NEW v, BoardHeld(v)
    PROVE  /\ v.op = "template" => AddsTemplate(v)
           /\ v.op = "add" => AddsTask(v)
           /\ v.op = "edit" /\ v.table = "tasks" => EditsBoardTask(v)
           /\ v.op = "edit" /\ v.table = "assignments" => EditsAssignment(v)
           /\ v.op = "delete" => DeletesTask(v)
           /\ v.op = "assign" => Assigns(v)
           /\ v.op = "complete" => Ticks(v)
           /\ v.op = "check" => Checks(v)
           /\ v.op # "submit"
<1>1. CASE v = Idle
  BY <1>1 DEF Idle
<1>2. CASE AddsTemplate(v)
  <2>1. PICK required : v = [op |-> "template", required |-> required]
    BY <1>2 DEF AddsTemplate
  <2> QED
    BY <1>2, <2>1
<1>3. CASE EditsTemplate(v)
  <2>1. PICK t, q : v = [op |-> "edit", table |-> "templates", key |-> t, seen |-> q, new |-> q]
    BY <1>3 DEF EditsTemplate
  <2> QED
    BY <2>1
<1>4. CASE AddsTask(v)
  <2>1. PICK n : v = [op |-> "add", table |-> "tasks", new |-> n]
    BY <1>4 DEF AddsTask
  <2> QED
    BY <1>4, <2>1
<1>5. CASE EditsBoardTask(v)
  <2>1. PICK k, n : v = [op |-> "edit", table |-> "tasks", key |-> k, seen |-> tasks[k], new |-> n]
    BY <1>5 DEF EditsBoardTask
  <2> QED
    BY <1>5, <2>1
<1>6. CASE DeletesTask(v)
  <2>1. PICK k : v = [op |-> "delete", key |-> k]
    BY <1>6 DEF DeletesTask
  <2> QED
    BY <1>6, <2>1
<1>7. CASE Assigns(v)
  <2>1. PICK ks, n : v = [op |-> "assign", tasks |-> ks, new |-> n]
    BY <1>7 DEF Assigns
  <2> QED
    BY <1>7, <2>1
<1>8. CASE EditsAssignment(v)
  <2>1. PICK a, n : v = [op |-> "edit", table |-> "assignments", key |-> a, seen |-> assignments[a], new |-> n]
    BY <1>8 DEF EditsAssignment
  <2> QED
    BY <1>8, <2>1
<1>9. CASE Ticks(v)
  <2>1. PICK a, k, status : v = [op |-> "complete", assignment |-> a, task |-> k, status |-> status]
    BY <1>9 DEF Ticks
  <2> QED
    BY <1>9, <2>1
<1>10. CASE Checks(v)
  <2>1. PICK a : v = [op |-> "check", assignment |-> a]
    BY <1>10 DEF Checks
  <2> QED
    BY <1>10, <2>1
<1> QED
  BY <1>1, <1>2, <1>3, <1>4, <1>5, <1>6, <1>7, <1>8, <1>9, <1>10 DEF BoardHeld

LEMMA BoardSame ==
    ASSUME NEW v, BoardHeld(v), BoardTables PROVE BoardHeld(v)'
  BY DEF BoardHeld, BoardTables, AddsTemplate, EditsTemplate, AddsTask, EditsBoardTask, DeletesTask, Assigns,
         EditsAssignment, Ticks, Checks

\* Nobody who looks at a checklist is interrupted by another one's edit.
LEMMA BoardElse ==
    ASSUME BoardGoal, NEW s \in Sessions, NEW w, Turns(s, w), ~(sess[s].op = "check" /\ w.op = "edit")
    PROVE  BoardKeeps
<1>1. ASSUME NEW t \in Sessions, t # s, sess'[t].op = "edit" PROVE FALSE
  <2>1. sess'[t] = Idle
    BY <1>1, SoleTurn DEF BoardGoal
  <2> QED
    BY <1>1, <2>1 DEF Idle
<1>2. sess'[s] = w
  BY SoleTurn DEF BoardGoal
<1> QED
  BY <1>1, <1>2 DEF BoardKeeps

LEMMA BoardGoes ==
    ASSUME BoardGoal, BoardTables, NEW s \in Sessions, NEW w, Turns(s, w), BoardHeld(w), BoardKeeps
    PROVE  BoardDone
<1>1. BoardRows'
  BY DEF BoardGoal, BoardInv, BoardRows, BoardTables, O!TypeOK
<1>2. ASSUME NEW t \in Sessions PROVE BoardHeld(sess[t])'
  <2>1. PICK v : v = sess'[t]
    OBVIOUS
  <2>2. BoardHeld(v)
    BY <2>1, SoleTurn DEF BoardGoal, BoardInv
  <2>3. BoardHeld(v)'
    BY <2>2, BoardSame
  <2> QED
    BY <2>1, <2>3
<1> QED
  BY <1>1, <1>2, SoleTurn DEF BoardGoal, BoardInv, BoardDone

LEMMA BoardQuiet ==
    ASSUME BoardInv, BoardTables, UNCHANGED part, part = "onboarding" => sess' = sess
    PROVE  BoardInv'
<1>1. BoardRows'
  BY DEF BoardInv, BoardRows, BoardTables, O!TypeOK
<1>2. ASSUME part = "onboarding", NEW t \in Sessions PROVE BoardHeld(sess[t])'
  <2>1. PICK v : v = sess[t] /\ v = sess'[t]
    BY <1>2
  <2>2. BoardHeld(v)
    BY <1>2, <2>1 DEF BoardInv
  <2>3. BoardHeld(v)'
    BY <2>2, BoardSame
  <2> QED
    BY <2>1, <2>3
<1> QED
  BY <1>1, <1>2 DEF BoardInv

LEMMA BoardWrites ==
    ASSUME BoardGoal, NEW s \in Sessions, NEW w, Turns(s, w), BoardHeld(w)', w.op # "edit", BoardRows'
    PROVE  BoardDone
<1>1. ASSUME NEW t \in Sessions PROVE BoardHeld(sess[t])'
  <2>1. PICK v : v = sess'[t]
    OBVIOUS
  <2>2. v = w \/ v = Idle
    BY <2>1, SoleTurn DEF BoardGoal
  <2>3. BoardHeld(v)'
    BY <2>2 DEF BoardHeld
  <2> QED
    BY <2>1, <2>3
<1>2. BoardKeeps
  BY BoardElse
<1> QED
  BY <1>1, <1>2, SoleTurn DEF BoardGoal, BoardInv, BoardDone

LEMMA TaskMerge ==
    ASSUME NEW now \in O!TaskRow, NEW n \in O!TaskRow PROVE O!Merge(now, now, n) = n
<1>1. n = [column \in DOMAIN now |-> n[column]]
  BY DEF O!TaskRow
<1> QED
  BY <1>1, Unseen DEF O!Merge

LEMMA AssignmentMerge ==
    ASSUME NEW now \in O!AssignmentRow, NEW n \in O!AssignmentRow PROVE O!Merge(now, now, n) = n
<1>1. n = [column \in DOMAIN now |-> n[column]]
  BY DEF O!AssignmentRow
<1> QED
  BY <1>1, Unseen DEF O!Merge

LEMMA BoardTypes ==
    ASSUME BoardGoal
    PROVE  /\ templates \in [Templates -> {"none", "stored"}]
           /\ tasks \in [Tasks -> O!TaskRow \cup {O!NoRow}]
           /\ assignments \in [Assignments -> O!AssignmentRow \cup {O!NoRow}]
           /\ completions \in [Assignments \X Tasks -> O!Statuses \cup {"none"}]
           /\ \A a \in Assignments, k \in Tasks : completions[<<a, k>>] # "none" => assignments[a] # O!NoRow /\ tasks[k] # O!NoRow
           /\ O!NoRow \notin O!TaskRow /\ O!NoRow \notin O!AssignmentRow
<1>1. O!TypeOK
  BY DEF BoardGoal, BoardInv, BoardRows
<1>2. O!NoRow \notin O!TaskRow
  <2>1. DOMAIN O!NoRow = {"of", "status"} /\ \A n \in O!TaskRow : DOMAIN n = {"of", "required"}
    BY DEF O!NoRow, O!TaskRow
  <2> QED
    BY <2>1
<1>3. O!NoRow \notin O!AssignmentRow
  <2>1. DOMAIN O!NoRow = {"of", "status"} /\ \A n \in O!AssignmentRow : DOMAIN n = {"of", "joiner", "dated", "status"}
    BY DEF O!NoRow, O!AssignmentRow
  <2> QED
    BY <2>1
<1> QED
  BY <1>1, <1>2, <1>3 DEF O!TypeOK

LEMMA BoardTaskStored ==
    ASSUME BoardGoal, NEW k \in Tasks, NEW n \in O!TaskRow, tasks' = [tasks EXCEPT ![k] = n],
           UNCHANGED <<templates, assignments, completions>>
    PROVE  BoardRows'
<1>1. tasks' \in [Tasks -> O!TaskRow \cup {O!NoRow}] /\ \A j \in Tasks : tasks[j] # O!NoRow => tasks'[j] # O!NoRow
  BY BoardTypes
<1> QED
  BY <1>1, BoardTypes DEF BoardRows, O!TypeOK

LEMMA BoardAssignmentStored ==
    ASSUME BoardGoal, NEW a \in Assignments, NEW n \in O!AssignmentRow, assignments' = [assignments EXCEPT ![a] = n],
           UNCHANGED <<templates, tasks, completions>>
    PROVE  BoardRows'
<1>1. /\ assignments' \in [Assignments -> O!AssignmentRow \cup {O!NoRow}]
      /\ \A j \in Assignments : assignments[j] # O!NoRow => assignments'[j] # O!NoRow
  BY BoardTypes
<1> QED
  BY <1>1, BoardTypes DEF BoardRows, O!TypeOK

LEMMA BoardCommit ==
    ASSUME BoardGoal, NEW s \in Sessions, O!Commit(s) PROVE BoardDone
<1>1. PICK v : v = sess[s] /\ BoardHeld(v)
  BY DEF BoardGoal, BoardInv
<1>2. Turns(s, Idle) /\ UNCHANGED <<templates, completions>>
  <2>1. sess[s].op \in {"edit", "add"}
    BY DEF O!Commit, O!Editing, O!Adding
  <2> QED
    BY <2>1 DEF O!Commit, O!Finish, O!Go, O!Idle, Idle, Turns
<1>3. BoardHeld(Idle)' /\ Idle.op # "edit"
  BY DEF BoardHeld, Idle
<1>4. CASE O!Editing(s, "tasks") /\ tasks' = O!Edited(s, tasks) /\ UNCHANGED assignments
  <2>1. EditsBoardTask(v)
    BY <1>1, <1>4, BoardOps DEF O!Editing
  <2>2. PICK k \in Tasks, n \in O!TaskRow :
           /\ tasks[k] # O!NoRow
           /\ v = [op |-> "edit", table |-> "tasks", key |-> k, seen |-> tasks[k], new |-> n]
    BY <2>1 DEF EditsBoardTask
  <2>3. O!Merge(tasks[k], tasks[k], n) = n
    BY <2>2, BoardTypes, TaskMerge
  <2>4. tasks' = [tasks EXCEPT ![k] = O!Merge(@, tasks[k], n)]
    BY <1>1, <1>4, <2>2 DEF O!Edited
  <2>5. tasks' = [tasks EXCEPT ![k] = n]
    BY <2>3, <2>4
  <2> QED
    BY <1>2, <1>3, <1>4, <2>5, BoardTaskStored, BoardWrites
<1>5. ASSUME NEW k \in Tasks, O!Adding(s, "tasks"), tasks[k] = O!NoRow, tasks' = [tasks EXCEPT ![k] = sess[s].new],
             UNCHANGED assignments
      PROVE  BoardDone
  <2>1. AddsTask(v)
    BY <1>1, <1>5, BoardOps DEF O!Adding
  <2>2. PICK n \in O!TaskRow : v = [op |-> "add", table |-> "tasks", new |-> n]
    BY <2>1 DEF AddsTask
  <2>3. tasks' = [tasks EXCEPT ![k] = n]
    BY <1>1, <1>5, <2>2
  <2> QED
    BY <1>2, <1>3, <1>5, <2>3, BoardTaskStored, BoardWrites
<1>6. CASE O!Editing(s, "assignments") /\ assignments' = O!Edited(s, assignments) /\ UNCHANGED tasks
  <2>1. EditsAssignment(v)
    BY <1>1, <1>6, BoardOps DEF O!Editing
  <2>2. PICK a \in Assignments, n \in O!AssignmentRow :
           /\ assignments[a] # O!NoRow
           /\ v = [op |-> "edit", table |-> "assignments", key |-> a, seen |-> assignments[a], new |-> n]
    BY <2>1 DEF EditsAssignment
  <2>3. O!Merge(assignments[a], assignments[a], n) = n
    BY <2>2, BoardTypes, AssignmentMerge
  <2>4. assignments' = [assignments EXCEPT ![a] = O!Merge(@, assignments[a], n)]
    BY <1>1, <1>6, <2>2 DEF O!Edited
  <2>5. assignments' = [assignments EXCEPT ![a] = n]
    BY <2>3, <2>4
  <2> QED
    BY <1>2, <1>3, <1>6, <2>5, BoardAssignmentStored, BoardWrites
<1>7. CASE O!Editing(s, "templates") /\ UNCHANGED <<tasks, assignments>>
  <2>1. BoardKeeps
    BY <1>2, <1>3, BoardElse
  <2> QED
    BY <1>2, <1>7, <2>1, BoardGoes DEF BoardTables, BoardHeld
<1> QED
  BY <1>4, <1>5, <1>6, <1>7 DEF O!Commit

LEMMA BoardTemplate ==
    ASSUME BoardGoal, NEW s \in Sessions, O!TemplateCommit(s) PROVE BoardDone
<1>1. PICK v : v = sess[s] /\ BoardHeld(v)
  BY DEF BoardGoal, BoardInv
<1>2. Turns(s, Idle) /\ UNCHANGED <<assignments, completions>>
  BY DEF O!TemplateCommit, O!Finish, O!Go, O!Idle, Idle, Turns
<1>3. BoardHeld(Idle)' /\ Idle.op # "edit"
  BY DEF BoardHeld, Idle
<1>4. AddsTemplate(v)
  BY <1>1, BoardOps DEF O!TemplateCommit
<1>5. PICK ks \in SUBSET Tasks : \E required \in [ks -> BOOLEAN] : v = [op |-> "template", required |-> required]
  BY <1>4 DEF AddsTemplate
<1>6. PICK required \in [ks -> BOOLEAN] : sess[s].required = required /\ DOMAIN required = ks
  BY <1>1, <1>5
<1>7. PICK t \in Templates :
         /\ templates' = [templates EXCEPT ![t] = "stored"]
         /\ tasks' = [k \in Tasks |-> IF k \in DOMAIN sess[s].required
                                      THEN [of |-> t, required |-> sess[s].required[k]] ELSE tasks[k]]
  BY DEF O!TemplateCommit
<1>8. tasks' = [k \in Tasks |-> IF k \in ks THEN [of |-> t, required |-> required[k]] ELSE tasks[k]]
  BY <1>6, <1>7
<1>9. \A k \in ks : [of |-> t, required |-> required[k]] \in O!TaskRow
  BY <1>6 DEF O!TaskRow
<1>10. templates' \in [Templates -> {"none", "stored"}]
  BY <1>7, BoardTypes
<1>11. /\ tasks' \in [Tasks -> O!TaskRow \cup {O!NoRow}]
       /\ \A j \in Tasks : tasks[j] # O!NoRow => tasks'[j] # O!NoRow
  BY <1>8, <1>9, BoardTypes
<1>12. BoardRows'
  BY <1>2, <1>10, <1>11, BoardTypes DEF BoardRows, O!TypeOK
<1> QED
  BY <1>2, <1>3, <1>12, BoardWrites

LEMMA BoardDelete ==
    ASSUME BoardGoal, NEW s \in Sessions, O!DeleteCommit(s) PROVE BoardDone
<1>1. PICK v : v = sess[s] /\ BoardHeld(v)
  BY DEF BoardGoal, BoardInv
<1>2. Turns(s, Idle) /\ UNCHANGED <<templates, assignments, completions>>
  BY DEF O!DeleteCommit, O!Finish, O!Go, O!Idle, Idle, Turns
<1>3. BoardHeld(Idle)' /\ Idle.op # "edit"
  BY DEF BoardHeld, Idle
<1>4. DeletesTask(v)
  BY <1>1, BoardOps DEF O!DeleteCommit
<1>5. PICK k \in Tasks : v = [op |-> "delete", key |-> k]
  BY <1>4 DEF DeletesTask
<1>6. tasks' = [tasks EXCEPT ![k] = O!NoRow] /\ \A a \in Assignments : completions[<<a, k>>] = "none"
  BY <1>1, <1>5 DEF O!DeleteCommit, O!Unused
<1>7. /\ tasks' \in [Tasks -> O!TaskRow \cup {O!NoRow}]
      /\ \A j \in Tasks : tasks[j] # O!NoRow /\ j # k => tasks'[j] # O!NoRow
  BY <1>6, BoardTypes
<1>8. BoardRows'
  BY <1>2, <1>6, <1>7, BoardTypes DEF BoardRows, O!TypeOK
<1> QED
  BY <1>2, <1>3, <1>8, BoardWrites

LEMMA BoardAssign ==
    ASSUME BoardGoal, NEW s \in Sessions, O!AssignCommit(s) PROVE BoardDone
<1>1. PICK v : v = sess[s] /\ BoardHeld(v)
  BY DEF BoardGoal, BoardInv
<1>2. Turns(s, Idle) /\ UNCHANGED <<templates, tasks>>
  BY DEF O!AssignCommit, O!Finish, O!Go, O!Idle, Idle, Turns
<1>3. BoardHeld(Idle)' /\ Idle.op # "edit"
  BY DEF BoardHeld, Idle
<1>4. Assigns(v)
  BY <1>1, BoardOps DEF O!AssignCommit
<1>5. PICK ks \in SUBSET Tasks, n \in O!AssignmentRow : v = [op |-> "assign", tasks |-> ks, new |-> n]
  BY <1>4 DEF Assigns
<1>6. sess[s].tasks = ks /\ sess[s].new = n /\ \A k \in ks : tasks[k] # O!NoRow
  BY <1>1, <1>5 DEF O!AssignCommit
<1>7. PICK a \in Assignments :
         /\ assignments' = [assignments EXCEPT ![a] = sess[s].new]
         /\ completions' = [c \in Assignments \X Tasks |->
                                IF c[1] = a /\ c[2] \in sess[s].tasks THEN "PENDING" ELSE completions[c]]
  BY DEF O!AssignCommit
<1>8. /\ assignments' = [assignments EXCEPT ![a] = n]
      /\ completions' = [c \in Assignments \X Tasks |-> IF c[1] = a /\ c[2] \in ks THEN "PENDING" ELSE completions[c]]
  BY <1>6, <1>7
<1>9. /\ assignments' \in [Assignments -> O!AssignmentRow \cup {O!NoRow}] /\ assignments'[a] # O!NoRow
      /\ \A j \in Assignments : assignments[j] # O!NoRow => assignments'[j] # O!NoRow
  BY <1>8, BoardTypes
<1>10. completions' \in [Assignments \X Tasks -> O!Statuses \cup {"none"}]
  BY <1>8, BoardTypes DEF O!Statuses
<1>11. ASSUME NEW b \in Assignments, NEW k \in Tasks, completions'[<<b, k>>] # "none"
       PROVE  assignments'[b] # O!NoRow /\ tasks'[k] # O!NoRow
  <2>1. completions'[<<b, k>>] = IF b = a /\ k \in ks THEN "PENDING" ELSE completions[<<b, k>>]
    BY <1>8
  <2> QED
    BY <1>2, <1>6, <1>9, <1>11, <2>1, BoardTypes
<1>12. BoardRows'
  BY <1>2, <1>9, <1>10, <1>11, BoardTypes DEF BoardRows, O!TypeOK
<1> QED
  BY <1>2, <1>3, <1>12, BoardWrites

LEMMA BoardTick ==
    ASSUME BoardGoal, NEW s \in Sessions, O!CompletionCommit(s) PROVE BoardDone
<1>1. PICK v : v = sess[s] /\ BoardHeld(v)
  BY DEF BoardGoal, BoardInv
<1>2. Ticks(v)
  BY <1>1, BoardOps DEF O!CompletionCommit
<1>3. PICK a \in Assignments, k \in Tasks, status \in O!Statuses :
         /\ completions[<<a, k>>] # "none"
         /\ v = [op |-> "complete", assignment |-> a, task |-> k, status |-> status]
  BY <1>2 DEF Ticks
<1>4. PICK w : w = [op |-> "check", assignment |-> a]
  OBVIOUS
<1>5. Turns(s, w) /\ UNCHANGED <<templates, tasks, assignments>>
  BY <1>1, <1>3, <1>4 DEF O!CompletionCommit, O!Go, Idle, Turns
<1>6. completions' = [completions EXCEPT ![<<a, k>>] = status]
  BY <1>1, <1>3 DEF O!CompletionCommit
<1>7. completions' \in [Assignments \X Tasks -> O!Statuses \cup {"none"}]
  BY <1>6, BoardTypes
<1>8. ASSUME NEW b \in Assignments, NEW j \in Tasks, completions'[<<b, j>>] # "none"
      PROVE  assignments'[b] # O!NoRow /\ tasks'[j] # O!NoRow
  <2>1. completions'[<<b, j>>] = IF <<b, j>> = <<a, k>> THEN status ELSE completions[<<b, j>>]
    BY <1>6, BoardTypes
  <2>2. completions[<<b, j>>] # "none"
    BY <1>3, <1>8, <2>1
  <2> QED
    BY <1>5, <2>2, BoardTypes
<1>9. BoardRows'
  BY <1>5, <1>7, <1>8, BoardTypes DEF BoardRows, O!TypeOK
<1>10. assignments[a] # O!NoRow
  BY <1>3, BoardTypes
<1>11. Checks(w)'
  BY <1>4, <1>5, <1>10 DEF Checks
<1>12. w.op # "edit" /\ BoardHeld(w)'
  BY <1>4, <1>11 DEF BoardHeld
<1> QED
  BY <1>5, <1>9, <1>12, BoardWrites

\* As many required tasks are done as are required: all of them.
LEMMA BoardAllDone ==
    ASSUME BoardGoal, NEW a \in Assignments, O!AllDone(a)
    PROVE  \A k \in O!TasksOf(assignments[a].of) : tasks[k].required => completions[<<a, k>>] = "DONE"
<1>1. O!Required(a) \subseteq Tasks /\ O!Done(a) \subseteq O!Required(a)
  BY DEF O!Required, O!Done, O!TasksOf
<1>2. \A set : O!Cardinality(set) = Cardinality(set)
  BY DEF O!Cardinality, Cardinality
<1>3. IsFiniteSet(O!Required(a))
  BY <1>1, FS_Subset, PeopleAssumption
<1>4. Cardinality(O!Done(a)) = Cardinality(O!Required(a))
  BY <1>2 DEF O!AllDone
<1>5. O!Done(a) = O!Required(a)
  BY <1>1, <1>3, <1>4, FS_Subset
<1>6. ASSUME NEW k \in O!TasksOf(assignments[a].of), tasks[k].required PROVE completions[<<a, k>>] = "DONE"
  <2>1. k \in O!Done(a)
    BY <1>5, <1>6 DEF O!Required
  <2> QED
    BY <2>1 DEF O!Done
<1> QED
  BY <1>6

LEMMA BoardCheck ==
    ASSUME BoardGoal, BoardTables, NEW s \in Sessions, O!Check(s) PROVE BoardDone
<1>1. PICK v : v = sess[s] /\ BoardHeld(v)
  BY DEF BoardGoal, BoardInv
<1>2. Checks(v)
  BY <1>1, BoardOps DEF O!Check
<1>3. PICK a \in Assignments : assignments[a] # O!NoRow /\ v = [op |-> "check", assignment |-> a]
  BY <1>2 DEF Checks
<1>4. CASE O!AllDone(a) /\ assignments[a].status # "COMPLETED"
  <2>1. PICK q \in O!AssignmentRow : q = assignments[a]
    BY <1>3, BoardTypes
  <2>2. PICK n : n = [q EXCEPT !.status = "COMPLETED", !.dated = TRUE]
    OBVIOUS
  <2>3. n \in O!AssignmentRow
    BY <2>1, <2>2 DEF O!AssignmentRow, O!AssignmentStatuses
  <2>4. PICK w : w = [op |-> "edit", table |-> "assignments", key |-> a, seen |-> assignments[a], new |-> n]
    OBVIOUS
  <2>5. Turns(s, w)
    <3>1. O!Go(s, w)
      BY <1>1, <1>3, <1>4, <2>1, <2>2, <2>4 DEF O!Check
    <3>2. sess[s] # Idle
      BY <1>1, <1>3 DEF Idle
    <3> QED
      BY <3>1, <3>2 DEF O!Go, Turns
  <2>6. EditsAssignment(w)
    BY <1>3, <2>3, <2>4 DEF EditsAssignment
  <2>7. BoardKeeps
    <3>1. ASSUME NEW t \in Sessions, sess[t].op = "check", sess'[t].op = "edit" PROVE t = s
      <4>1. ASSUME t # s PROVE FALSE
        <5>1. sess'[t] = Idle
          BY <2>5, <4>1, SoleTurn DEF BoardGoal
        <5> QED
          BY <3>1, <5>1 DEF Idle
      <4> QED
        BY <4>1
    <3>2. sess[s].assignment = a
      BY <1>1, <1>3
    <3>3. \A k \in O!TasksOf(assignments[a].of) : tasks[k].required => completions[<<a, k>>] = "DONE"
      BY <1>4, BoardAllDone
    <3> QED
      BY <3>1, <3>2, <3>3 DEF BoardKeeps
  <2> QED
    BY <2>5, <2>6, <2>7, BoardGoes DEF BoardHeld
<1>5. CASE ~(O!AllDone(a) /\ assignments[a].status # "COMPLETED")
  <2>1. Turns(s, Idle)
    BY <1>1, <1>3, <1>5 DEF O!Check, O!Finish, O!Go, O!Idle, Idle, Turns
  <2>2. BoardKeeps /\ BoardHeld(Idle)
    BY <2>1, BoardElse DEF Idle, BoardHeld
  <2> QED
    BY <2>1, <2>2, BoardGoes
<1> QED
  BY <1>4, <1>5

LEMMA BoardBegins ==
    ASSUME BoardGoal, BoardTables, NEW s \in Sessions, NEW w, O!Begin(s, w), BoardHeld(w) PROVE BoardDone
<1>1. Turns(s, w) /\ sess[s] = Idle
  BY DEF O!Begin, O!Go, O!Idle, Idle, Turns
<1>2. BoardKeeps
  BY <1>1, BoardElse DEF Idle
<1> QED
  BY <1>1, <1>2, BoardGoes

LEMMA BoardRequest ==
    ASSUME BoardGoal, BoardTables, NEW s \in Sessions, O!Request(s) PROVE BoardDone
<1> USE BoardTypes
<1>1. ASSUME NEW ks \in SUBSET Tasks, NEW required \in [ks -> BOOLEAN], O!CreateTemplate(s, required) PROVE BoardDone
  <2>1. PICK w : w = [op |-> "template", required |-> required]
    OBVIOUS
  <2>2. O!Begin(s, w) /\ AddsTemplate(w)
    BY <1>1, <2>1 DEF O!CreateTemplate, AddsTemplate
  <2> QED
    BY <2>2, BoardBegins DEF BoardHeld
<1>2. ASSUME NEW t \in Templates, O!UpdateTemplate(s, t) PROVE BoardDone
  <2>1. PICK q : q = templates[t]
    OBVIOUS
  <2>2. PICK w : w = [op |-> "edit", table |-> "templates", key |-> t, seen |-> q, new |-> q]
    OBVIOUS
  <2>3. O!Begin(s, w) /\ EditsTemplate(w)
    BY <1>2, <2>1, <2>2 DEF O!UpdateTemplate, O!Edit, EditsTemplate
  <2> QED
    BY <2>3, BoardBegins DEF BoardHeld
<1>3. ASSUME NEW t \in Templates, NEW required \in BOOLEAN, O!AddTask(s, t, required) PROVE BoardDone
  <2>1. PICK n : n = [of |-> t, required |-> required]
    OBVIOUS
  <2>2. n \in O!TaskRow
    BY <2>1 DEF O!TaskRow
  <2>3. PICK w : w = [op |-> "add", table |-> "tasks", new |-> n]
    OBVIOUS
  <2>4. O!Begin(s, w)
    BY <1>3, <2>1, <2>3 DEF O!AddTask, O!Add
  <2>5. AddsTask(w)
    BY <2>2, <2>3 DEF AddsTask
  <2> QED
    BY <2>4, <2>5, BoardBegins DEF BoardHeld
<1>4. ASSUME NEW t \in Templates, NEW joiner \in Joiners, O!CreateAssignment(s, t, joiner) PROVE BoardDone
  <2>1. PICK n : n = [of |-> t, joiner |-> joiner, dated |-> FALSE, status |-> "IN_PROGRESS"]
    OBVIOUS
  <2>2. n \in O!AssignmentRow
    BY <2>1 DEF O!AssignmentRow, O!AssignmentStatuses
  <2>3. PICK ks \in SUBSET Tasks : ks = O!TasksOf(t)
    <3>1. O!TasksOf(t) \in SUBSET Tasks
      BY DEF O!TasksOf
    <3> QED
      BY <3>1
  <2>4. PICK w : w = [op |-> "assign", tasks |-> ks, new |-> n]
    OBVIOUS
  <2>5. O!Begin(s, w)
    BY <1>4, <2>1, <2>3, <2>4 DEF O!CreateAssignment
  <2>6. Assigns(w)
    BY <2>2, <2>3, <2>4 DEF Assigns
  <2> QED
    BY <2>5, <2>6, BoardBegins DEF BoardHeld
<1>5. ASSUME NEW k \in Tasks, NEW required \in BOOLEAN, O!UpdateTask(s, k, required) PROVE BoardDone
  <2>1. PICK q \in O!TaskRow : q = tasks[k] /\ tasks[k] # O!NoRow
    BY <1>5 DEF O!UpdateTask
  <2>2. PICK n : n = [q EXCEPT !.required = required]
    OBVIOUS
  <2>3. n \in O!TaskRow
    BY <2>1, <2>2 DEF O!TaskRow
  <2>4. PICK w : w = [op |-> "edit", table |-> "tasks", key |-> k, seen |-> tasks[k], new |-> n]
    OBVIOUS
  <2>5. O!Begin(s, w)
    BY <1>5, <2>1, <2>2, <2>4 DEF O!UpdateTask, O!Edit
  <2>6. EditsBoardTask(w)
    BY <2>1, <2>3, <2>4 DEF EditsBoardTask
  <2> QED
    BY <2>5, <2>6, BoardBegins DEF BoardHeld
<1>6. ASSUME NEW k \in Tasks, O!DeleteTask(s, k) PROVE BoardDone
  <2>1. PICK w : w = [op |-> "delete", key |-> k]
    OBVIOUS
  <2>2. O!Begin(s, w) /\ DeletesTask(w)
    BY <1>6, <2>1 DEF O!DeleteTask, DeletesTask
  <2> QED
    BY <2>2, BoardBegins DEF BoardHeld
<1>7. ASSUME NEW k \in Tasks, NEW a \in Assignments, NEW status \in O!Statuses, O!UpdateCompletion(s, a, k, status)
      PROVE  BoardDone
  <2>1. PICK w : w = [op |-> "complete", assignment |-> a, task |-> k, status |-> status]
    OBVIOUS
  <2>2. O!Begin(s, w) /\ Ticks(w)
    BY <1>7, <2>1 DEF O!UpdateCompletion, Ticks
  <2> QED
    BY <2>2, BoardBegins DEF BoardHeld
<1>8. ASSUME NEW a \in Assignments, NEW status \in O!AssignmentStatuses, O!UpdateAssignment(s, a, status) PROVE BoardDone
  <2>1. PICK q \in O!AssignmentRow : q = assignments[a] /\ assignments[a] # O!NoRow
    BY <1>8 DEF O!UpdateAssignment
  <2>2. PICK dated \in BOOLEAN : dated = (q.dated \/ status = "COMPLETED")
    BY <2>1 DEF O!AssignmentRow
  <2>3. PICK n : n = [q EXCEPT !.status = status, !.dated = dated]
    OBVIOUS
  <2>4. n \in O!AssignmentRow
    BY <2>1, <2>2, <2>3 DEF O!AssignmentRow
  <2>5. n = [q EXCEPT !.status = status, !.dated = @ \/ status = "COMPLETED"]
    BY <2>1, <2>2, <2>3 DEF O!AssignmentRow
  <2>6. PICK w : w = [op |-> "edit", table |-> "assignments", key |-> a, seen |-> assignments[a], new |-> n]
    OBVIOUS
  <2>7. O!Begin(s, w)
    BY <1>8, <2>1, <2>5, <2>6 DEF O!UpdateAssignment, O!Edit
  <2>8. EditsAssignment(w)
    BY <2>1, <2>4, <2>6 DEF EditsAssignment
  <2> QED
    BY <2>7, <2>8, BoardBegins DEF BoardHeld
<1> QED
  BY <1>1, <1>2, <1>3, <1>4, <1>5, <1>6, <1>7, <1>8, BoardCheck DEF O!Request

LEMMA BoardStep ==
    ASSUME BoardGoal, NEW s \in Sessions, O!Step(s) PROVE BoardDone
<1>1. CASE O!Abort(s) /\ BoardTables
  <2>1. Turns(s, Idle)
    BY <1>1 DEF O!Abort, O!Finish, O!Go, O!Idle, Idle, Turns
  <2>2. BoardKeeps /\ BoardHeld(Idle)
    BY <2>1, BoardElse DEF Idle, BoardHeld
  <2> QED
    BY <1>1, <2>1, <2>2, BoardGoes
<1> QED
  BY <1>1, BoardRequest, BoardCommit, BoardTemplate, BoardDelete, BoardAssign, BoardTick
     DEF O!Step, O!onboardingTables, BoardTables

-----------------------------------------------------------------------------
\* Probations and articles.
TrialTables == UNCHANGED <<reviews, endDate, articles>>
AddsReview(w) == \E n \in P!ReviewRow : w = [op |-> "add", table |-> "reviews", new |-> n]
DecidesReview(w) ==
    \E r \in Reviews, n \in P!ReviewRow :
        /\ reviews[r].decision = "PENDING" /\ n.of = reviews[r].of
        /\ w = [op |-> "edit", table |-> "reviews", key |-> r, seen |-> reviews[r], seenEnd |-> endDate[reviews[r].of], new |-> n]
AddsArticle(w) ==
    \E n \in P!ArticleRow : n.slug \notin P!Slugs /\ w = [op |-> "add", table |-> "articles", new |-> n]
EditsArticle(w) ==
    \E a \in Articles, n \in P!ArticleRow :
        /\ articles[a] # P!NoRow
        /\ w = [op |-> "edit", table |-> "articles", key |-> a, seen |-> articles[a], new |-> n]
TrialHeld(w) == w = Idle \/ AddsReview(w) \/ DecidesReview(w) \/ AddsArticle(w) \/ EditsArticle(w)
TrialRows == P!TypeOK
TrialInv == TrialRows /\ (part = "probation" => \A s \in Sessions : TrialHeld(sess[s]))
TrialKeeps ==
    alone => \A r \in Reviews : reviews'[r] # reviews[r] /\ reviews[r] # P!NoRow =>
        /\ reviews[r].decision = "PENDING"
        /\ reviews'[r].decision = "EXTEND" => endDate'[reviews[r].of] = reviews'[r].extended
TrialGoal == InTurn /\ alone /\ TrialInv /\ part = "probation" /\ part' = part
TrialDone == InTurn' /\ TrialInv' /\ TrialKeeps /\ alone' = alone

LEMMA TrialStarts ==
    ASSUME P!Init PROVE TrialInv
<1>1. TrialRows
  BY DEF P!Init, TrialRows, P!TypeOK
<1>2. \A s \in Sessions : TrialHeld(sess[s])
  BY DEF P!Init, P!AllIdle, P!Idle, TrialHeld, Idle
<1> QED
  BY <1>1, <1>2 DEF TrialInv

LEMMA TrialOps ==
    ASSUME NEW v, TrialHeld(v)
    PROVE  /\ v.op = "add" /\ v.table = "reviews" => AddsReview(v)
           /\ v.op = "edit" /\ v.table = "reviews" => DecidesReview(v)
           /\ v.op = "add" /\ v.table = "articles" => AddsArticle(v)
           /\ v.op = "edit" /\ v.table = "articles" => EditsArticle(v)
<1>1. CASE v = Idle
  BY <1>1 DEF Idle
<1>2. CASE AddsReview(v)
  BY <1>2 DEF AddsReview
<1>3. CASE DecidesReview(v)
  <2>1. PICK r, n : v = [op |-> "edit", table |-> "reviews", key |-> r, seen |-> reviews[r],
                         seenEnd |-> endDate[reviews[r].of], new |-> n]
    BY <1>3 DEF DecidesReview
  <2> QED
    BY <1>3, <2>1
<1>4. CASE AddsArticle(v)
  BY <1>4 DEF AddsArticle
<1>5. CASE EditsArticle(v)
  <2>1. PICK a, n : v = [op |-> "edit", table |-> "articles", key |-> a, seen |-> articles[a], new |-> n]
    BY <1>5 DEF EditsArticle
  <2> QED
    BY <1>5, <2>1
<1> QED
  BY <1>1, <1>2, <1>3, <1>4, <1>5 DEF TrialHeld

\* A slug that is free when the handler looks is free when it stores the article.
LEMMA TrialSlugs ==
    ASSUME TrialRows, part = "probation" => \A s \in Sessions : TrialHeld(sess[s]),
           part # "probation" => \A s \in Sessions : ~(sess[s].op = "add" /\ sess[s].table = "articles")
    PROVE  P!SlugAccepted
<1>1. ASSUME NEW s \in Sessions, P!Adding(s, "articles") PROVE sess[s].new.slug \notin P!Slugs
  <2>1. part = "probation" /\ sess[s].op = "add" /\ sess[s].table = "articles"
    BY <1>1 DEF P!Adding
  <2>2. AddsArticle(sess[s])
    BY <2>1, TrialOps
  <2> QED
    BY <2>2 DEF AddsArticle
<1> QED
  BY <1>1 DEF P!SlugAccepted

LEMMA TrialSame ==
    ASSUME NEW v, TrialHeld(v), TrialTables PROVE TrialHeld(v)'
<1>1. P!Slugs' = P!Slugs
  BY DEF TrialTables, P!Slugs, P!SlugsOf
<1> QED
  BY <1>1 DEF TrialHeld, TrialTables, AddsReview, DecidesReview, AddsArticle, EditsArticle

LEMMA TrialGoes ==
    ASSUME TrialGoal, TrialTables, NEW s \in Sessions, NEW w, Turns(s, w), TrialHeld(w)
    PROVE  TrialDone
<1>1. TrialRows'
  BY DEF TrialGoal, TrialInv, TrialRows, TrialTables, P!TypeOK
<1>2. ASSUME NEW t \in Sessions PROVE TrialHeld(sess[t])'
  <2>1. PICK v : v = sess'[t]
    OBVIOUS
  <2>2. TrialHeld(v)
    BY <2>1, SoleTurn DEF TrialGoal, TrialInv
  <2>3. TrialHeld(v)'
    BY <2>2, TrialSame
  <2> QED
    BY <2>1, <2>3
<1>3. TrialKeeps
  BY DEF TrialTables, TrialKeeps
<1> QED
  BY <1>1, <1>2, <1>3, SoleTurn DEF TrialGoal, TrialInv, TrialDone

LEMMA TrialQuiet ==
    ASSUME TrialInv, TrialTables, UNCHANGED part, part = "probation" => sess' = sess
    PROVE  TrialInv'
<1>1. TrialRows'
  BY DEF TrialInv, TrialRows, TrialTables, P!TypeOK
<1>2. ASSUME part = "probation", NEW t \in Sessions PROVE TrialHeld(sess[t])'
  <2>1. PICK v : v = sess[t] /\ v = sess'[t]
    BY <1>2
  <2>2. TrialHeld(v)
    BY <1>2, <2>1 DEF TrialInv
  <2>3. TrialHeld(v)'
    BY <2>2, TrialSame
  <2> QED
    BY <2>1, <2>3
<1> QED
  BY <1>1, <1>2 DEF TrialInv

LEMMA TrialWrites ==
    ASSUME TrialGoal, NEW s \in Sessions, Turns(s, Idle), TrialRows', TrialKeeps
    PROVE  TrialDone
<1>1. ASSUME NEW t \in Sessions PROVE TrialHeld(sess[t])'
  <2>1. sess'[t] = Idle
    BY SoleTurn DEF TrialGoal
  <2> QED
    BY <2>1 DEF TrialHeld
<1> QED
  BY <1>1, SoleTurn DEF TrialGoal, TrialInv, TrialDone

LEMMA ReviewMerge ==
    ASSUME NEW now \in P!ReviewRow, NEW n \in P!ReviewRow PROVE P!Merge(now, now, n) = n
<1>1. n = [column \in DOMAIN now |-> n[column]]
  BY DEF P!ReviewRow
<1> QED
  BY <1>1, Unseen DEF P!Merge

LEMMA ArticleMerge ==
    ASSUME NEW now \in P!ArticleRow, NEW n \in P!ArticleRow PROVE P!Merge(now, now, n) = n
<1>1. n = [column \in DOMAIN now |-> n[column]]
  BY DEF P!ArticleRow
<1> QED
  BY <1>1, Unseen DEF P!Merge

LEMMA TrialTypes ==
    ASSUME TrialGoal
    PROVE  /\ reviews \in [Reviews -> P!ReviewRow \cup {P!NoRow}]
           /\ endDate \in [Joiners -> P!Days]
           /\ articles \in [Articles -> P!ArticleRow \cup {P!NoRow}]
           /\ P!NoRow \notin P!ReviewRow /\ P!NoRow \notin P!ArticleRow
<1>1. P!TypeOK
  BY DEF TrialGoal, TrialInv, TrialRows
<1>2. P!NoRow \notin P!ReviewRow
  BY DEF P!NoRow, P!ReviewRow, P!Decisions
<1>3. P!NoRow \notin P!ArticleRow
  <2>1. DOMAIN P!NoRow = {"decision", "slug", "live"}
    BY DEF P!NoRow
  <2>2. \A n \in P!ArticleRow : DOMAIN n = {"title", "slug", "published", "dated", "live"}
    BY DEF P!ArticleRow
  <2> QED
    BY <2>1, <2>2
<1> QED
  BY <1>1, <1>2, <1>3 DEF P!TypeOK

\* Of one more slugs than there can be articles, one is free: the first one.
LEMMA SomeSlugFree ==
    ASSUME NEW title \in Titles
    PROVE  P!NextSlug(title) \in Titles \X Nat /\ P!NextSlug(title) \notin P!Slugs
<1> DEFINE N == Cardinality(Articles)
           Taken(n) == <<title, n>> \in P!Slugs
           Good(slug) == slug \notin P!Slugs /\ \A n \in 0 .. slug[2] - 1 : <<title, n>> \in P!Slugs
<1>1. \A set : P!Cardinality(set) = Cardinality(set)
  BY DEF P!Cardinality, Cardinality
<1>2. N \in Nat
  BY FS_CardinalityType, PeopleAssumption
<1>3. IsFiniteSet(0 .. N) /\ Cardinality(0 .. N) = N + 1
  BY <1>2, FS_Interval
<1>4. \E n \in 0 .. N : <<title, n>> \notin P!Slugs
  <2> SUFFICES ASSUME \A n \in 0 .. N : <<title, n>> \in P!Slugs PROVE FALSE
    OBVIOUS
  <2> DEFINE f == [n \in 0 .. N |-> CHOOSE a \in Articles : articles[a].slug = <<title, n>>]
  <2>1. \A n \in 0 .. N : \E a \in Articles : articles[a].slug = <<title, n>>
    BY DEF P!Slugs, P!SlugsOf
  <2>2. \A n \in 0 .. N : f[n] \in Articles /\ articles[f[n]].slug = <<title, n>>
    BY <2>1
  <2>3. f \in [0 .. N -> Articles]
    BY <2>2
  <2> HIDE DEF f
  <2>4. \E x, y \in 0 .. N : x # y /\ f[x] = f[y]
    <3>1. Cardinality(Articles) < Cardinality(0 .. N)
      BY <1>2, <1>3
    <3>2. IsFiniteSet(Articles)
      BY PeopleAssumption
    <3> HIDE DEF N
    <3>3. \A some, spots : IsFiniteSet(some) /\ IsFiniteSet(spots) /\ Cardinality(spots) < Cardinality(some) =>
             \A h \in [some -> spots] : \E x, y \in some : x # y /\ h[x] = h[y]
      BY FS_PigeonHole
    <3> QED
      BY <1>3, <2>3, <3>1, <3>2, <3>3, Zenon
  <2>5. PICK x \in 0 .. N, y \in 0 .. N : x # y /\ f[x] = f[y]
    BY <2>4
  <2>6. <<title, x>> = <<title, y>>
    BY <2>2, <2>5
  <2> QED
    BY <2>5, <2>6
<1> DEFINE free == {n \in 0 .. N : <<title, n>> \notin P!Slugs}
           g == [n \in free |-> 0 - n]
<1>5. PICK n \in free : \A m \in free : g[m] <= g[n]
  <2>1. IsFiniteSet(free) /\ free # {}
    BY <1>3, <1>4, FS_Subset
  <2>2. \A m \in free : g[m] \in Int
    BY <1>2
  <2> HIDE DEF free, g
  <2> QED
    BY <2>1, <2>2, Highest
<1>6. n \in 0 .. N /\ <<title, n>> \notin P!Slugs
  OBVIOUS
<1>7. ASSUME NEW m \in 0 .. n - 1 PROVE <<title, m>> \in P!Slugs
  <2>1. m \in 0 .. N /\ m < n
    BY <1>2, <1>6
  <2>2. m \in free => 0 - m <= 0 - n
    BY <1>5
  <2> QED
    BY <1>6, <2>1, <2>2
<1>8. PICK slug : slug = <<title, n>>
  OBVIOUS
<1>9. slug \in {title} \X (0 .. N) /\ Good(slug)
  BY <1>6, <1>7, <1>8
<1>10. P!NextSlug(title) = CHOOSE one \in {title} \X (0 .. N) : Good(one)
  BY <1>1 DEF P!NextSlug, P!FirstFree
<1> HIDE DEF Good
<1>11. P!NextSlug(title) \in {title} \X (0 .. N) /\ Good(P!NextSlug(title))
  BY <1>9, <1>10
<1>12. P!NextSlug(title) \notin P!Slugs
  BY <1>11 DEF Good
<1>13. P!NextSlug(title) \in Titles \X Nat
  BY <1>2, <1>11
<1> QED
  BY <1>12, <1>13

LEMMA TrialCreate ==
    ASSUME TrialGoal, NEW s \in Sessions, P!CreateCommit(s) PROVE TrialDone
<1>1. PICK v : v = sess[s] /\ TrialHeld(v)
  BY DEF TrialGoal, TrialInv
<1>2. PICK r \in Reviews : P!Adding(s, "reviews") /\ reviews[r] = P!NoRow /\ reviews' = [reviews EXCEPT ![r] = sess[s].new]
  BY DEF P!CreateCommit
<1>3. Turns(s, Idle) /\ UNCHANGED <<endDate, articles>>
  BY <1>2 DEF P!CreateCommit, P!Adding, P!Finish, P!Go, P!Idle, Idle, Turns
<1>4. PICK n \in P!ReviewRow : v = [op |-> "add", table |-> "reviews", new |-> n]
  <2>1. AddsReview(v)
    BY <1>1, <1>2, TrialOps DEF P!Adding
  <2> QED
    BY <2>1 DEF AddsReview
<1>5. reviews' = [reviews EXCEPT ![r] = n]
  BY <1>1, <1>2, <1>4
<1>6. TrialRows'
  BY <1>3, <1>5, TrialTypes DEF TrialRows, P!TypeOK
<1>7. TrialKeeps
  BY <1>2, <1>5, TrialTypes DEF TrialKeeps
<1> QED
  BY <1>3, <1>6, <1>7, TrialWrites

LEMMA TrialDecide ==
    ASSUME TrialGoal, NEW s \in Sessions, P!DecideCommit(s) PROVE TrialDone
<1>1. PICK v : v = sess[s] /\ TrialHeld(v)
  BY DEF TrialGoal, TrialInv
<1>2. Turns(s, Idle) /\ UNCHANGED articles
  BY DEF P!DecideCommit, P!Editing, P!Finish, P!Go, P!Idle, Idle, Turns
<1>3. PICK r \in Reviews, n \in P!ReviewRow :
        /\ reviews[r].decision = "PENDING" /\ n.of = reviews[r].of
        /\ v = [op |-> "edit", table |-> "reviews", key |-> r, seen |-> reviews[r], seenEnd |-> endDate[reviews[r].of], new |-> n]
  <2>1. DecidesReview(v)
    BY <1>1, TrialOps DEF P!DecideCommit, P!Editing
  <2> QED
    BY <2>1 DEF DecidesReview
<1>4. reviews[r] \in P!ReviewRow
  BY <1>3, TrialTypes DEF P!NoRow
<1>5. reviews' = [reviews EXCEPT ![r] = n]
  <2>1. reviews' = [reviews EXCEPT ![r] = P!Merge(@, reviews[r], n)]
    BY <1>1, <1>3 DEF P!DecideCommit, P!Edited
  <2>2. P!Merge(reviews[r], reviews[r], n) = n
    BY <1>3, <1>4, ReviewMerge
  <2> QED
    BY <2>1, <2>2
<1>6. PICK j \in Joiners : j = reviews[r].of
  BY <1>4 DEF P!ReviewRow
<1>7. endDate' = [i \in Joiners |-> IF /\ n.of = i /\ n.decision = "EXTEND" /\ n.extended # endDate[j]
                                    THEN n.extended ELSE endDate[i]]
  BY <1>1, <1>3, <1>6 DEF P!DecideCommit, P!NewEnd, P!Extends
<1>8. n.extended \in P!Days
  BY DEF P!ReviewRow
<1>9. endDate' \in [Joiners -> P!Days]
  BY <1>7, <1>8, TrialTypes
<1>10. n.decision = "EXTEND" => endDate'[j] = n.extended
  BY <1>3, <1>6, <1>7
<1>11. reviews' \in [Reviews -> P!ReviewRow \cup {P!NoRow}] /\ \A q \in Reviews : reviews'[q] = IF q = r THEN n ELSE reviews[q]
  BY <1>5, TrialTypes
<1>12. TrialRows'
  BY <1>2, <1>9, <1>11, TrialTypes DEF TrialRows, P!TypeOK
<1>13. TrialKeeps
  BY <1>3, <1>6, <1>10, <1>11 DEF TrialKeeps
<1> QED
  BY <1>2, <1>12, <1>13, TrialWrites

LEMMA TrialArticle ==
    ASSUME TrialGoal, NEW s \in Sessions, P!ArticleCommit(s) PROVE TrialDone
<1>1. PICK v : v = sess[s] /\ TrialHeld(v)
  BY DEF TrialGoal, TrialInv
<1>2. Turns(s, Idle) /\ UNCHANGED <<reviews, endDate>>
  <2>1. sess[s].op \in {"edit", "add"}
    BY DEF P!ArticleCommit, P!Editing, P!Adding
  <2> QED
    BY <2>1 DEF P!ArticleCommit, P!Finish, P!Go, P!Idle, Idle, Turns
<1>3. ASSUME NEW a \in Articles, NEW n \in P!ArticleRow, articles' = [articles EXCEPT ![a] = n] PROVE TrialDone
  <2>1. TrialRows'
    BY <1>2, <1>3, TrialTypes DEF TrialRows, P!TypeOK
  <2>2. TrialKeeps
    BY <1>2 DEF TrialKeeps
  <2> QED
    BY <1>2, <2>1, <2>2, TrialWrites
<1>4. CASE P!Editing(s, "articles") /\ articles' = P!Edited(s, articles)
  <2>1. EditsArticle(v)
    BY <1>1, <1>4, TrialOps DEF P!Editing
  <2>2. PICK a \in Articles, n \in P!ArticleRow :
           /\ articles[a] # P!NoRow
           /\ v = [op |-> "edit", table |-> "articles", key |-> a, seen |-> articles[a], new |-> n]
    BY <2>1 DEF EditsArticle
  <2>3. P!Merge(articles[a], articles[a], n) = n
    BY <2>2, ArticleMerge, TrialTypes
  <2>4. articles' = [articles EXCEPT ![a] = P!Merge(@, articles[a], n)]
    BY <1>1, <1>4, <2>2 DEF P!Edited
  <2>5. articles' = [articles EXCEPT ![a] = n]
    BY <2>3, <2>4
  <2> QED
    BY <1>3, <2>5
<1>5. ASSUME NEW a \in Articles, P!Adding(s, "articles"), articles' = [articles EXCEPT ![a] = sess[s].new] PROVE TrialDone
  <2>1. AddsArticle(v)
    BY <1>1, <1>5, TrialOps DEF P!Adding
  <2>2. PICK n \in P!ArticleRow : v = [op |-> "add", table |-> "articles", new |-> n]
    BY <2>1 DEF AddsArticle
  <2>3. articles' = [articles EXCEPT ![a] = n]
    BY <1>1, <1>5, <2>2
  <2> QED
    BY <1>3, <2>3
<1> QED
  BY <1>4, <1>5 DEF P!ArticleCommit

LEMMA TrialBegins ==
    ASSUME TrialGoal, TrialTables, NEW s \in Sessions, NEW w, P!Begin(s, w), TrialHeld(w) PROVE TrialDone
<1>1. Turns(s, w)
  BY DEF P!Begin, P!Go, P!Idle, Idle, Turns
<1> QED
  BY <1>1, TrialGoes

LEMMA TrialRequest ==
    ASSUME TrialGoal, TrialTables, NEW s \in Sessions, P!Request(s) PROVE TrialDone
<1>1. ASSUME NEW j \in Joiners, P!CreateProbation(s, j) PROVE TrialDone
  <2>1. PICK n : n = [of |-> j, decision |-> "PENDING", end |-> endDate[j], extended |-> 0, reviewer |-> NoUser]
    OBVIOUS
  <2>2. 0 \in P!Days /\ endDate[j] \in P!Days
    BY TrialTypes, PeopleAssumption DEF P!Days
  <2>3. n \in P!ReviewRow
    BY <2>1, <2>2 DEF P!ReviewRow, P!Decisions
  <2>4. PICK w : w = [op |-> "add", table |-> "reviews", new |-> n]
    OBVIOUS
  <2>5. P!Begin(s, w)
    BY <1>1, <2>1, <2>4 DEF P!CreateProbation, P!Add
  <2>6. AddsReview(w)
    BY <2>3, <2>4 DEF AddsReview
  <2> QED
    BY <2>5, <2>6, TrialBegins DEF TrialHeld
<1>2. ASSUME NEW r \in Reviews, NEW decision \in P!Decisions \ {"PENDING"}, NEW until \in P!Days, NEW user \in Users,
             P!DecideProbation(s, r, decision, until, user)
      PROVE  TrialDone
  <2>1. PICK q \in P!ReviewRow : q = reviews[r] /\ q.decision = "PENDING"
    BY <1>2, TrialTypes DEF P!DecideProbation, P!MayDecide, P!NoRow
  <2>2. PICK extended \in P!Days : extended = IF decision = "EXTEND" THEN until ELSE q.extended
    BY DEF P!ReviewRow
  <2>3. PICK n : n = [q EXCEPT !.decision = decision, !.reviewer = user, !.extended = extended]
    OBVIOUS
  <2>4. n \in P!ReviewRow /\ n.of = q.of
    BY <2>1, <2>2, <2>3 DEF P!ReviewRow
  <2>5. P!Decided(reviews[r], decision, until, user) = n
    BY <2>1, <2>2, <2>3 DEF P!Decided
  <2>6. PICK w : w = [op |-> "edit", table |-> "reviews", key |-> r, seen |-> reviews[r],
                      seenEnd |-> endDate[reviews[r].of], new |-> n]
    OBVIOUS
  <2>7. P!Begin(s, w)
    BY <1>2, <2>5, <2>6 DEF P!DecideProbation
  <2>8. DecidesReview(w)
    BY <2>1, <2>4, <2>6 DEF DecidesReview
  <2> QED
    BY <2>7, <2>8, TrialBegins DEF TrialHeld
<1>3. ASSUME NEW title \in Titles, NEW published \in BOOLEAN, P!CreateArticle(s, title, published) PROVE TrialDone
  <2>1. PICK slug : slug = P!NextSlug(title)
    OBVIOUS
  <2>2. slug \in Titles \X Nat /\ slug \notin P!Slugs
    BY <2>1, SomeSlugFree
  <2>3. PICK n : n = [title |-> title, slug |-> slug, published |-> published, dated |-> published, live |-> TRUE]
    OBVIOUS
  <2>4. n \in P!ArticleRow /\ n.slug \notin P!Slugs
    BY <2>2, <2>3 DEF P!ArticleRow
  <2>5. PICK w : w = [op |-> "add", table |-> "articles", new |-> n]
    OBVIOUS
  <2>6. P!Begin(s, w)
    BY <1>3, <2>1, <2>3, <2>5 DEF P!CreateArticle, P!Add
  <2>7. AddsArticle(w)
    BY <2>4, <2>5 DEF AddsArticle
  <2> QED
    BY <2>6, <2>7, TrialBegins DEF TrialHeld
<1>4. ASSUME NEW a \in Articles, NEW n \in P!ArticleRow, articles[a] # P!NoRow, P!Edit(s, "articles", a, articles[a], n)
      PROVE  TrialDone
  <2>1. PICK w : w = [op |-> "edit", table |-> "articles", key |-> a, seen |-> articles[a], new |-> n]
    OBVIOUS
  <2>2. P!Begin(s, w)
    BY <1>4, <2>1 DEF P!Edit
  <2>3. EditsArticle(w)
    BY <1>4, <2>1 DEF EditsArticle
  <2> QED
    BY <2>2, <2>3, TrialBegins DEF TrialHeld
<1>5. ASSUME NEW title \in Titles, NEW published \in BOOLEAN, NEW a \in Articles, P!UpdateArticle(s, a, title, published)
      PROVE  TrialDone
  <2>1. PICK q \in P!ArticleRow : q = articles[a] /\ articles[a] # P!NoRow
    BY <1>5, TrialTypes DEF P!UpdateArticle, P!NoRow
  <2>2. PICK dated \in BOOLEAN : dated = (q.dated \/ published)
    BY <2>1 DEF P!ArticleRow
  <2>3. PICK n : n = [q EXCEPT !.title = title, !.published = published, !.dated = dated]
    OBVIOUS
  <2>4. n \in P!ArticleRow
    BY <2>1, <2>2, <2>3 DEF P!ArticleRow
  <2>5. P!Rewritten(articles[a], title, published) = n
    BY <2>1, <2>2, <2>3 DEF P!Rewritten, P!ArticleRow
  <2> QED
    BY <1>4, <1>5, <2>1, <2>4, <2>5 DEF P!UpdateArticle
<1>6. ASSUME NEW a \in Articles, P!DeleteArticle(s, a) PROVE TrialDone
  <2>1. PICK q \in P!ArticleRow : q = articles[a] /\ articles[a] # P!NoRow
    BY <1>6, TrialTypes DEF P!DeleteArticle, P!NoRow
  <2>2. PICK n : n = [q EXCEPT !.live = FALSE]
    OBVIOUS
  <2>3. n \in P!ArticleRow
    BY <2>1, <2>2 DEF P!ArticleRow
  <2> QED
    BY <1>4, <1>6, <2>1, <2>2, <2>3 DEF P!DeleteArticle
<1> QED
  BY <1>1, <1>2, <1>3, <1>5, <1>6 DEF P!Request

LEMMA TrialStep ==
    ASSUME TrialGoal, P!Next PROVE TrialDone
<1>1. ASSUME NEW s \in Sessions, P!Abort(s), TrialTables PROVE TrialDone
  <2>1. Turns(s, Idle)
    BY <1>1 DEF P!Abort, P!Finish, P!Go, P!Idle, Idle, Turns
  <2> QED
    BY <1>1, <2>1, TrialGoes DEF TrialHeld
<1>2. ASSUME NEW j \in Joiners, NEW day \in P!Days \ {0}, P!SetEndDate(j, day) PROVE TrialDone
  <2>1. UNCHANGED <<reviews, articles, alone, sess>> /\ endDate' = [endDate EXCEPT ![j] = day]
    BY <1>2 DEF P!SetEndDate, P!handlers
  <2>2. \A s \in Sessions : sess'[s] = Idle
    BY <1>2, <2>1 DEF P!SetEndDate, P!Idle, Idle, TrialGoal
  <2>3. TrialRows'
    BY <2>1, TrialTypes DEF TrialRows, P!TypeOK
  <2>4. \A s \in Sessions : TrialHeld(sess[s])'
    BY <2>2 DEF TrialHeld
  <2>5. TrialKeeps /\ InTurn'
    BY <2>1 DEF TrialKeeps, TrialGoal, InTurn
  <2> QED
    BY <2>1, <2>3, <2>4, <2>5 DEF TrialDone, TrialInv
<1> QED
  BY <1>1, <1>2, TrialRequest, TrialCreate, TrialDecide, TrialArticle DEF P!Next, P!Step, P!probationTables, TrialTables

-----------------------------------------------------------------------------
\* What the weights of a form bring is a sum over the form.
Bring(weights, line) == weights[line[1]] * line[2]
LEMMA WeightedIsSum ==
    ASSUME NEW c, NEW form, NEW f, f = [i \in DOMAIN form |-> Bring(c.items, form[i])]
    PROVE  A!Weighted(c, form) = SumOn(f, DOMAIN form)
<1>1. \A r \in SUBSET DOMAIN form : r # {} =>
        f[CHOOSE x \in r : TRUE] = c.items[form[CHOOSE x \in r : TRUE][1]] * form[CHOOSE x \in r : TRUE][2]
  BY DEF Bring
<1>2. \A iter : iter = [r \in SUBSET DOMAIN form |-> IF r = {} THEN 0
                           ELSE f[CHOOSE x \in r : TRUE] + iter[r \ {CHOOSE x \in r : TRUE}]]
             <=> iter = [r \in SUBSET DOMAIN form |-> IF r = {} THEN 0
                           ELSE (c.items[form[CHOOSE x \in r : TRUE][1]] * form[CHOOSE x \in r : TRUE][2])
                                + iter[r \ {CHOOSE x \in r : TRUE}]]
  BY <1>1
<1>3. (CHOOSE iter : iter = [r \in SUBSET DOMAIN form |-> IF r = {} THEN 0
                           ELSE f[CHOOSE x \in r : TRUE] + iter[r \ {CHOOSE x \in r : TRUE}]])
      = CHOOSE iter : iter = [r \in SUBSET DOMAIN form |-> IF r = {} THEN 0
                           ELSE (c.items[form[CHOOSE x \in r : TRUE][1]] * form[CHOOSE x \in r : TRUE][2])
                                + iter[r \ {CHOOSE x \in r : TRUE}]]
  BY <1>2
<1> QED
  BY <1>3 DEF SumOn, MapThenSumSet, MapThenFoldSet, A!MapThenSumSet, A!MapThenFoldSet, A!Weighted

LEMMA PercentNat == ASSUME NEW most \in Nat PROVE \A n \in 0 .. most : n \in Nat
  OBVIOUS

\* A form of different items brings no more than a hundred times their weights.
LEMMA DifferentItems ==
    ASSUME NEW most \in Nat, NEW weights \in Seq(0 .. most), NEW form \in Seq(Nat \X (0 .. 100)),
           \A i \in DOMAIN form : form[i][1] \in DOMAIN weights,
           NEW f, f = [i \in DOMAIN form |-> Bring(weights, form[i])]
    PROVE  /\ SumOn(f, DOMAIN form) \in Nat /\ SumOn(weights, DOMAIN weights) \in Nat
           /\ A!Once(form) => SumOn(f, DOMAIN form) <= 100 * SumOn(weights, DOMAIN weights)
<1>1. PICK ids, codes : ids = DOMAIN form /\ codes = DOMAIN weights
  OBVIOUS
<1>2. IsFiniteSet(ids) /\ IsFiniteSet(codes)
  <2>1. ids = 1 .. Len(form) /\ codes = 1 .. Len(weights)
    BY <1>1
  <2>2. Len(form) \in Int /\ Len(weights) \in Int
    OBVIOUS
  <2>3. IsFiniteSet(1 .. Len(form)) /\ IsFiniteSet(1 .. Len(weights))
    BY <2>2, FS_Interval
  <2> QED
    BY <2>1, <2>3
<1>3. \A code \in codes : weights[code] \in Nat
  <2>1. PICK percents : percents = 0 .. most
    OBVIOUS
  <2>2. weights \in Seq(percents)
    BY <2>1
  <2>3. \A code \in codes : weights[code] \in percents
    BY <1>1, <2>2
  <2>4. \A n \in percents : n \in Nat
    BY <2>1, PercentNat, Zenon
  <2> QED
    BY <2>3, <2>4
<1>4. \A i \in ids : form[i][1] \in codes /\ form[i][2] \in 0 .. 100
  BY <1>1
<1>5. PICK name \in [ids -> codes] : name = [i \in ids |-> form[i][1]]
  <2>1. [i \in ids |-> form[i][1]] \in [ids -> codes]
    BY <1>4
  <2> QED
    BY <2>1
<1>6. PICK w \in [codes -> Nat] : w = [code \in codes |-> 100 * weights[code]]
  <2>1. [code \in codes |-> 100 * weights[code]] \in [codes -> Nat]
    BY <1>3
  <2> QED
    BY <2>1
<1>7. ASSUME NEW i \in ids PROVE f[i] \in Nat /\ f[i] <= w[name[i]]
  <2>1. PICK code \in codes : code = form[i][1] /\ code = name[i]
    BY <1>4, <1>5
  <2>2. PICK share \in Nat : share = weights[code] /\ w[code] = 100 * share
    BY <1>3, <1>6
  <2>3. PICK score \in 0 .. 100 : score = form[i][2]
    BY <1>4
  <2>4. score * share \in Nat /\ score * share <= 100 * share
    BY ShareUpTo
  <2>5. score * share = share * score
    OBVIOUS
  <2>6. f[i] = share * score
    BY <1>1, <2>1, <2>2, <2>3 DEF Bring
  <2> QED
    BY <2>1, <2>2, <2>4, <2>5, <2>6
<1>8. f \in [ids -> Nat]
  <2>1. f = [i \in ids |-> f[i]]
    BY <1>1
  <2> QED
    BY <1>7, <2>1
<1>9. SumOn(f, ids) \in Nat /\ SumOn(weights, codes) \in Nat
  BY <1>2, <1>3, <1>7, SumOnType
<1>10. ASSUME A!Once(form) PROVE SumOn(f, ids) <= SumOn(w, codes)
  <2>1. \A i, j \in ids : i # j => form[i][1] # form[j][1]
    BY <1>1, <1>10 DEF A!Once
  <2>2. \A i, j \in ids : i # j => name[i] # name[j]
    BY <1>5, <2>1
  <2> QED
    BY <1>2, <1>7, <1>8, <2>2, SharesWithin
<1>11. SumOn(w, codes) = 100 * SumOn(weights, codes)
  <2>1. \A code \in codes : weights[code] \in Int /\ w[code] = 100 * weights[code]
    BY <1>3, <1>6
  <2> QED
    BY <1>2, <2>1, SumScaled, SMTT(60)
<1> QED
  BY <1>1, <1>9, <1>10, <1>11

\* What the weighted part rounds away, and how far it may go beyond its share.
LEMMA PartWithin ==
    ASSUME NEW n \in Nat, NEW share \in 0 .. A!Full
    PROVE  A!WeightedPart(n, share) \in Nat /\ (n <= 100 * (A!Full + 1) => A!WeightedPart(n, share) <= 100 * share + 100)
<1>1. PICK d \in Nat : d = A!Full /\ d = 100 * 100
  BY DEF A!Full
<1>2. PICK q, r \in Nat : q = n \div d /\ r = n % d /\ r < d /\ n = d * q + r
  <2>1. d > 0
    BY <1>1, SMT
  <2> QED
    BY <2>1, Divided
<1>3. share \in Nat /\ q * share \in Nat /\ r * share \in Nat /\ share <= d
  BY <1>1, SMT
<1>4. PICK product \in Nat : product = r * share
  BY <1>3
<1>5. PICK rest \in Nat : rest = product \div d /\ d * rest <= product
  <2>1. product \div d \in Nat /\ product % d \in Nat /\ product = d * (product \div d) + (product % d)
    <3>1. d > 0
      BY <1>1, SMT
    <3> QED
      BY <3>1, Divided
  <2>2. PICK rest \in Nat : rest = product \div d
    BY <2>1
  <2>3. d * rest \in Nat /\ d * rest <= product
    BY <1>1, <2>1, <2>2, SMT
  <2> QED
    BY <2>2, <2>3
<1>6. PICK whole \in Nat : whole = q * share
  BY <1>3
<1>7. A!WeightedPart(n, share) = whole + rest
  BY <1>1, <1>2, <1>4, <1>5, <1>6 DEF A!WeightedPart
<1>8. ASSUME n <= 100 * (d + 1) PROVE whole + rest <= 100 * share + 100
  <2>1. q <= 100 /\ (q = 100 => r <= 100)
    BY <1>1, <1>2, <1>8, SMT
  <2>2. CASE q = 100
    <3>1. whole = 100 * share
      BY <1>6, <2>2
    <3>2. product <= 100 * share
      <4>1. r \in 0 .. 100
        BY <2>1, <2>2
      <4> QED
        BY <1>3, <1>4, <4>1, ShareUpTo
    <3>3. rest <= 100
      BY <1>1, <1>3, <1>5, <3>2, SMT
    <3> QED
      BY <1>3, <3>1, <3>3
  <2>3. CASE q # 100
    <3>1. q \in 0 .. 99 /\ r \in 0 .. d
      BY <1>2, <2>1, <2>3
    <3>2. whole <= 99 * share
      BY <1>3, <1>6, <3>1, ShareUpTo
    <3>3. product <= d * share
      BY <1>3, <1>4, <3>1, ShareUpTo
    <3>4. rest <= share
      BY <1>1, <1>3, <1>5, <3>3, SMT
    <3> QED
      BY <1>3, <3>2, <3>4
  <2> QED
    BY <2>2, <2>3
<1> QED
  BY <1>1, <1>7, <1>8

LEMMA FinalWithin ==
    ASSUME NEW c \in Configs, A!WeightsFit(c), NEW okr \in Scores, NEW form \in Forms,
           \A i \in DOMAIN form : form[i][1] \in DOMAIN c.items
    PROVE  A!Final(c, okr, form) \in Nat /\ (A!Once(form) => A!Final(c, okr, form) <= A!Full + 2)
<1>0. PICK most \in Nat : most = A!Full /\ most = 100 * 100
  BY DEF A!Full
<1>1. /\ c.items \in Seq(0 .. most) /\ form \in Seq(Nat \X (0 .. 100))
      /\ okr \in 0 .. 100 /\ c.okr \in 0 .. most /\ c.weighted \in 0 .. most
  <2>1. c \in [from: Int, okr: 0 .. most, weighted: 0 .. most, items: Seq(0 .. most)]
    BY <1>0, PeopleAssumption
  <2> QED
    BY <2>1, PeopleAssumption
<1>2. PICK weights \in Seq(0 .. most) : weights = c.items
  BY <1>1
<1>3. PICK f : f = [i \in DOMAIN form |-> Bring(weights, form[i])]
  OBVIOUS
<1>4. PICK n : n = A!Weighted(c, form)
  OBVIOUS
<1>5. n = SumOn(f, DOMAIN form)
  BY <1>2, <1>3, <1>4, WeightedIsSum
<1>6. /\ n \in Nat /\ SumOn(weights, DOMAIN weights) \in Nat
      /\ A!Once(form) => n <= 100 * SumOn(weights, DOMAIN weights)
  BY <1>1, <1>2, <1>3, <1>5, DifferentItems
<1>7. A!Once(form) => n <= 100 * (most + 1)
  <2>1. CASE DOMAIN form = {}
    <3>1. n = 0
      BY <1>5, <2>1, SumOnNone
    <3> QED
      BY <3>1
  <2>2. CASE DOMAIN form # {}
    <3>1. DOMAIN c.items # {}
      BY <2>2
    <3>2. A!ItemSum(weights) <= most + 1
      BY <1>0, <1>2, <3>1 DEF A!WeightsFit, A!AddUp
    <3>3. A!ItemSum(weights) = SumOn(weights, DOMAIN weights)
      BY DEF A!ItemSum, SumOn, MapThenSumSet, MapThenFoldSet, A!MapThenSumSet, A!MapThenFoldSet
    <3> QED
      BY <1>6, <3>2, <3>3
  <2> QED
    BY <2>1, <2>2
<1>8. PICK part1 \in 0 .. most : part1 = c.okr
  BY <1>1
<1>9. PICK part2 \in 0 .. most : part2 = c.weighted
  BY <1>1
<1>10. PICK x \in Nat : part1 \in Nat /\ part2 \in Nat /\ x = okr * part1 /\ x <= 100 * part1
  <2>1. okr * part1 \in Nat /\ okr * part1 <= 100 * part1
    BY <1>1, <1>8, ShareUpTo
  <2> QED
    BY <2>1
<1>11. PICK y \in Nat : y = A!WeightedPart(n, part2) /\ (A!Once(form) => y <= 100 * part2 + 100)
  <2>1. part2 \in 0 .. A!Full
    BY <1>0, <1>9
  <2>2. A!WeightedPart(n, part2) \in Nat /\ (n <= 100 * (A!Full + 1) => A!WeightedPart(n, part2) <= 100 * part2 + 100)
    BY <1>6, <2>1, PartWithin
  <2> QED
    BY <1>0, <1>7, <2>2
<1>12. A!Final(c, okr, form) = (x + y + 50) \div 100
  <2>1. A!Final(c, okr, form) = (okr * c.okr + A!WeightedPart(A!Weighted(c, form), c.weighted) + 50) \div 100
    BY DEF A!Final
  <2> QED
    BY <1>4, <1>8, <1>9, <1>10, <1>11, <2>1
<1>13. part1 + part2 <= most + 1
  BY <1>0, <1>8, <1>9 DEF A!WeightsFit, A!AddUp
<1>14. (x + y + 50) \div 100 \in Nat
  OBVIOUS
<1>15. ASSUME A!Once(form) PROVE (x + y + 50) \div 100 <= most + 2
  BY <1>0, <1>10, <1>11, <1>13, <1>15, SMT
<1> QED
  BY <1>0, <1>12, <1>14, <1>15

\* Periods, configurations, scores, letters and results.
GradeTables == UNCHANGED <<periods, configs, scores, letters, results>>
PeriodRow == [month: Months, closed: BOOLEAN]
LetterRow == [level: 1 .. 3, date: Dates]
Fitting == {c \in Configs : A!WeightsFit(c)}
Rising(own) == \A i, j \in DOMAIN own : i < j => own[i].date < own[j].date
InLevels(own) == Rising(own) => \A i \in DOMAIN own : own[i].level = i
GradeRows ==
    /\ A!TypeOK /\ configs \in Seq(Fitting)
    /\ \A p, q \in Periods : periods[p] # A!NoRow /\ periods[q] # A!NoRow /\ periods[p].month = periods[q].month => p = q
    /\ \A e \in Assessed, p \in Periods :
          Len(scores[<<e, p>>]) <= 1 /\ (scores[<<e, p>>] # << >> => periods[p] # A!NoRow)
    /\ \A e \in Assessed : InLevels(letters[e])

AddsPeriod(w) ==
    \E n \in PeriodRow : /\ \A p \in Periods : periods[p].month # n.month
                         /\ w = [op |-> "add", table |-> "periods", new |-> n]
ClosesPeriod(w) ==
    \E p \in Periods, n \in PeriodRow :
        /\ periods[p] # A!NoRow /\ n.month = periods[p].month /\ n.closed
        /\ w = [op |-> "edit", table |-> "periods", key |-> p, seen |-> periods[p], new |-> n]
AddsConfig(w) == \E c \in Fitting : w = [op |-> "add", table |-> "configs", new |-> c]
SubmitsScore(w) ==
    \E e \in Assessed, p \in Periods, form \in Forms, score \in Nat :
        /\ periods[p] # A!NoRow /\ ~periods[p].closed /\ (A!Once(form) => score <= A!Full + 2)
        /\ w = [op |-> "submit", key |-> <<e, p>>, form |-> form, seen |-> scores[<<e, p>>], new |-> <<score>>]
IssuesLetter(w) ==
    \E e \in Assessed, n \in LetterRow : A!MayIssue(e, n.level) /\ w = [op |-> "letter", key |-> e, new |-> n]
SetsObjective(w) == \E ks \in SUBSET Results : w = [op |-> "objective", keys |-> ks]
SetsResult(w) ==
    \E ks \in SUBSET Results, progress \in 0 .. 100 : w = [op |-> "result", keys |-> ks, progress |-> progress]
GradeHeld(w) ==
    \/ w = Idle
    \/ AddsPeriod(w) \/ ClosesPeriod(w) \/ AddsConfig(w) \/ SubmitsScore(w) \/ IssuesLetter(w)
    \/ SetsObjective(w) \/ SetsResult(w)
GradeInv == GradeRows /\ (part = "assessments" => \A s \in Sessions : GradeHeld(sess[s]))
GradeKeeps ==
    alone => \A p \in Periods : periods[p] # A!NoRow /\ periods[p].closed =>
        periods'[p].closed /\ \A e \in Assessed : scores'[<<e, p>>] = scores[<<e, p>>]
GradeGoal == InTurn /\ alone /\ GradeInv /\ part = "assessments" /\ part' = part
GradeDone == InTurn' /\ GradeInv' /\ GradeKeeps /\ alone' = alone

LEMMA GradeStarts ==
    ASSUME A!Init PROVE GradeInv
<1>1. A!TypeOK
  BY PeopleAssumption DEF A!Init, A!TypeOK
<1>2. configs \in Seq(Fitting)
  BY DEF A!Init
<1>3. /\ \A p \in Periods : periods[p] = A!NoRow
      /\ \A e \in Assessed : letters[e] = << >> /\ \A p \in Periods : scores[<<e, p>>] = << >>
  BY DEF A!Init
<1>4. GradeRows
  BY <1>1, <1>2, <1>3 DEF GradeRows, InLevels
<1>5. \A s \in Sessions : GradeHeld(sess[s])
  BY DEF A!Init, A!AllIdle, A!Idle, GradeHeld, Idle
<1> QED
  BY <1>4, <1>5 DEF GradeInv

LEMMA GradeOps ==
    ASSUME NEW v, GradeHeld(v)
    PROVE  /\ v.op = "add" /\ v.table = "periods" => AddsPeriod(v)
           /\ v.op = "edit" => ClosesPeriod(v)
           /\ v.op = "add" /\ v.table = "configs" => AddsConfig(v)
           /\ v.op = "submit" => SubmitsScore(v)
           /\ v.op = "letter" => IssuesLetter(v)
           /\ v.op = "objective" => SetsObjective(v)
           /\ v.op = "result" => SetsResult(v)
<1>1. CASE v = Idle
  BY <1>1 DEF Idle
<1>2. CASE AddsPeriod(v)
  <2>1. PICK n : v = [op |-> "add", table |-> "periods", new |-> n]
    BY <1>2 DEF AddsPeriod
  <2> QED
    BY <1>2, <2>1
<1>3. CASE ClosesPeriod(v)
  <2>1. PICK p, n : v = [op |-> "edit", table |-> "periods", key |-> p, seen |-> periods[p], new |-> n]
    BY <1>3 DEF ClosesPeriod
  <2> QED
    BY <1>3, <2>1
<1>4. CASE AddsConfig(v)
  BY <1>4 DEF AddsConfig
<1>5. CASE SubmitsScore(v)
  <2>1. PICK k, form, seen, new : v = [op |-> "submit", key |-> k, form |-> form, seen |-> seen, new |-> new]
    BY <1>5, Zenon DEF SubmitsScore
  <2> QED
    BY <1>5, <2>1
<1>6. CASE IssuesLetter(v)
  <2>1. PICK e, n : v = [op |-> "letter", key |-> e, new |-> n]
    BY <1>6 DEF IssuesLetter
  <2> QED
    BY <1>6, <2>1
<1>7. CASE SetsObjective(v)
  BY <1>7 DEF SetsObjective
<1>8. CASE SetsResult(v)
  <2>1. PICK ks, progress : v = [op |-> "result", keys |-> ks, progress |-> progress]
    BY <1>8 DEF SetsResult
  <2> QED
    BY <1>8, <2>1
<1> QED
  BY <1>1, <1>2, <1>3, <1>4, <1>5, <1>6, <1>7, <1>8 DEF GradeHeld

\* A form of different items that is being stored scores at most 100.02.
LEMMA GradeWithin ==
    ASSUME part = "assessments" => \A s \in Sessions : GradeHeld(sess[s]),
           part # "assessments" => \A s \in Sessions : sess[s].op # "submit"
    PROVE  A!ScoreWithin
<1>1. ASSUME NEW s \in Sessions, sess[s].op = "submit", A!Once(sess[s].form) PROVE sess[s].new[1] \in 0 .. A!Full + 2
  <2>1. PICK v : v = sess[s] /\ GradeHeld(v)
    BY <1>1
  <2>2. SubmitsScore(v)
    BY <1>1, <2>1, GradeOps
  <2>3. PICK e \in Assessed, p \in Periods, form \in Forms, score \in Nat :
           /\ A!Once(form) => score <= A!Full + 2
           /\ v = [op |-> "submit", key |-> <<e, p>>, form |-> form, seen |-> scores[<<e, p>>], new |-> <<score>>]
    BY <2>2 DEF SubmitsScore
  <2>4. v.form = form /\ v.new[1] = score
    BY <2>3
  <2> QED
    BY <1>1, <2>1, <2>3, <2>4
<1> QED
  BY <1>1 DEF A!ScoreWithin

LEMMA GradeSame ==
    ASSUME NEW v, GradeHeld(v), GradeTables PROVE GradeHeld(v)'
<1>1. \A e, level : A!MayIssue(e, level)' = A!MayIssue(e, level)
  BY DEF GradeTables, A!MayIssue, A!LastLetters
<1>2. CASE IssuesLetter(v)
  <2>1. PICK e \in Assessed, n \in LetterRow : A!MayIssue(e, n.level) /\ v = [op |-> "letter", key |-> e, new |-> n]
    BY <1>2 DEF IssuesLetter
  <2>2. A!MayIssue(e, n.level)'
    BY <1>1, <2>1
  <2> QED
    BY <2>1, <2>2 DEF GradeHeld, IssuesLetter, LetterRow
<1>3. CASE ~IssuesLetter(v)
  BY <1>3 DEF GradeHeld, GradeTables, AddsPeriod, ClosesPeriod, AddsConfig, SubmitsScore, SetsObjective, SetsResult
<1> QED
  BY <1>2, <1>3

LEMMA GradeRowsSame ==
    ASSUME GradeRows, GradeTables PROVE GradeRows'
  BY DEF GradeRows, GradeTables, A!TypeOK

LEMMA GradeGoes ==
    ASSUME GradeGoal, GradeTables, NEW s \in Sessions, NEW w, Turns(s, w), GradeHeld(w)
    PROVE  GradeDone
<1>1. GradeRows'
  BY GradeRowsSame DEF GradeGoal, GradeInv
<1>2. ASSUME NEW t \in Sessions PROVE GradeHeld(sess[t])'
  <2>1. PICK v : v = sess'[t]
    OBVIOUS
  <2>2. GradeHeld(v)
    BY <2>1, SoleTurn DEF GradeGoal, GradeInv
  <2>3. GradeHeld(v)'
    BY <2>2, GradeSame
  <2> QED
    BY <2>1, <2>3
<1>3. GradeKeeps
  BY DEF GradeTables, GradeKeeps
<1> QED
  BY <1>1, <1>2, <1>3, SoleTurn DEF GradeGoal, GradeInv, GradeDone

LEMMA GradeQuiet ==
    ASSUME GradeInv, GradeTables, UNCHANGED part, part = "assessments" => sess' = sess
    PROVE  GradeInv'
<1>1. GradeRows'
  BY GradeRowsSame DEF GradeInv
<1>2. ASSUME part = "assessments", NEW t \in Sessions PROVE GradeHeld(sess[t])'
  <2>1. PICK v : v = sess[t] /\ v = sess'[t]
    BY <1>2
  <2>2. GradeHeld(v)
    BY <1>2, <2>1 DEF GradeInv
  <2>3. GradeHeld(v)'
    BY <2>2, GradeSame
  <2> QED
    BY <2>1, <2>3
<1> QED
  BY <1>1, <1>2 DEF GradeInv

LEMMA GradeBegins ==
    ASSUME GradeGoal, GradeTables, NEW s \in Sessions, NEW w, A!Begin(s, w), GradeHeld(w) PROVE GradeDone
<1>1. Turns(s, w)
  BY DEF A!Begin, A!Go, A!Idle, Idle, Turns
<1> QED
  BY <1>1, GradeGoes

LEMMA GradeWrites ==
    ASSUME GradeGoal, NEW s \in Sessions, A!Finish(s), sess[s] # Idle, GradeRows', GradeKeeps
    PROVE  GradeDone
<1>1. Turns(s, Idle)
  BY DEF A!Finish, A!Go, A!Idle, Idle, Turns
<1>2. ASSUME NEW t \in Sessions PROVE GradeHeld(sess[t])'
  <2>1. sess'[t] = Idle
    BY <1>1, SoleTurn DEF GradeGoal
  <2> QED
    BY <2>1 DEF GradeHeld
<1> QED
  BY <1>1, <1>2, SoleTurn DEF GradeGoal, GradeInv, GradeDone

LEMMA GradeTypes ==
    ASSUME GradeRows
    PROVE  /\ periods \in [Periods -> PeriodRow \cup {A!NoRow}] /\ A!NoRow \notin PeriodRow
           /\ scores \in [Assessed \X Periods -> Seq(Nat)]
           /\ letters \in [Assessed -> Seq(LetterRow)]
           /\ \A n \in PeriodRow : n.month \in Nat /\ n.closed \in BOOLEAN
           /\ A!NoRow.month = -1
<1>1. \A n \in PeriodRow : n.month \in Nat /\ n.closed \in BOOLEAN
  BY PeopleAssumption DEF PeriodRow
<1>2. A!NoRow.month = -1
  BY DEF A!NoRow, A!None
<1>3. A!NoRow \notin PeriodRow
  BY <1>1, <1>2
<1> QED
  BY <1>1, <1>2, <1>3 DEF GradeRows, A!TypeOK, PeriodRow, LetterRow

LEMMA PeriodMerge ==
    ASSUME NEW now \in PeriodRow, NEW n \in PeriodRow PROVE A!Merge(now, now, n) = n
<1>1. n = [column \in DOMAIN now |-> n[column]]
  BY DEF PeriodRow
<1> QED
  BY <1>1, Unseen DEF A!Merge

\* A new period is of a new month, and a closed one stays closed.
LEMMA PeriodStored ==
    ASSUME GradeGoal, NEW s \in Sessions, A!Finish(s), sess[s] # Idle, UNCHANGED <<configs, scores, letters, results>>,
           NEW p \in Periods, NEW n \in PeriodRow, periods' = [periods EXCEPT ![p] = n],
           \/ periods[p] = A!NoRow /\ \A q \in Periods : periods[q].month # n.month
           \/ periods[p] # A!NoRow /\ n.month = periods[p].month /\ n.closed
    PROVE  GradeDone
<1>1. GradeRows
  BY DEF GradeGoal, GradeInv
<1>2. /\ periods' \in [Periods -> PeriodRow \cup {A!NoRow}] /\ periods'[p] = n /\ n # A!NoRow
      /\ \A q \in Periods : q # p => periods'[q] = periods[q]
  BY <1>1, GradeTypes
<1>3. \A q \in Periods : periods[q] # A!NoRow => periods'[q] # A!NoRow
  BY <1>2
<1>4. ASSUME NEW q \in Periods, NEW r \in Periods, periods'[q] # A!NoRow, periods'[r] # A!NoRow,
             periods'[q].month = periods'[r].month
      PROVE  q = r
  <2>1. \A x, y \in Periods : periods[x] # A!NoRow /\ periods[y] # A!NoRow /\ periods[x].month = periods[y].month => x = y
    BY <1>1 DEF GradeRows
  <2> QED
    BY <1>2, <1>4, <2>1
<1>5. A!TypeOK'
  BY <1>1, <1>2 DEF GradeRows, A!TypeOK, PeriodRow
<1>6. GradeRows'
  BY <1>1, <1>3, <1>4, <1>5 DEF GradeRows
<1>7. GradeKeeps
  BY <1>2 DEF GradeKeeps
<1> QED
  BY <1>6, <1>7, GradeWrites

LEMMA GradePeriods ==
    ASSUME GradeGoal, NEW s \in Sessions, A!Finish(s), UNCHANGED <<configs, scores, letters, results>>,
           \/ A!Editing(s, "periods") /\ periods' = A!Edited(s, periods)
           \/ \E p \in Periods : A!Adding(s, "periods") /\ periods[p] = A!NoRow /\ periods' = [periods EXCEPT ![p] = sess[s].new]
    PROVE  GradeDone
<1>1. PICK v : v = sess[s] /\ GradeHeld(v)
  BY DEF GradeGoal, GradeInv
<1>2. sess[s] # Idle
  BY DEF A!Editing, A!Adding, Idle
<1>3. GradeRows
  BY DEF GradeGoal, GradeInv
<1>4. CASE A!Editing(s, "periods") /\ periods' = A!Edited(s, periods)
  <2>1. ClosesPeriod(v)
    BY <1>1, <1>4, GradeOps DEF A!Editing
  <2>2. PICK p \in Periods, n \in PeriodRow :
           /\ periods[p] # A!NoRow /\ n.month = periods[p].month /\ n.closed
           /\ v = [op |-> "edit", table |-> "periods", key |-> p, seen |-> periods[p], new |-> n]
    BY <2>1 DEF ClosesPeriod
  <2>3. A!Merge(periods[p], periods[p], n) = n
    BY <1>3, <2>2, GradeTypes, PeriodMerge
  <2>4. periods' = [periods EXCEPT ![p] = A!Merge(@, periods[p], n)]
    BY <1>1, <1>4, <2>2 DEF A!Edited
  <2>5. periods' = [periods EXCEPT ![p] = n]
    BY <2>3, <2>4
  <2> QED
    BY <1>2, <2>2, <2>5, PeriodStored
<1>5. CASE \E p \in Periods : A!Adding(s, "periods") /\ periods[p] = A!NoRow /\ periods' = [periods EXCEPT ![p] = sess[s].new]
  <2>1. PICK p \in Periods : A!Adding(s, "periods") /\ periods[p] = A!NoRow /\ periods' = [periods EXCEPT ![p] = sess[s].new]
    BY <1>5
  <2>2. AddsPeriod(v)
    BY <1>1, <2>1, GradeOps DEF A!Adding
  <2>3. PICK n \in PeriodRow : /\ \A q \in Periods : periods[q].month # n.month
                               /\ v = [op |-> "add", table |-> "periods", new |-> n]
    BY <2>2 DEF AddsPeriod
  <2>4. periods' = [periods EXCEPT ![p] = n]
    BY <1>1, <2>1, <2>3
  <2> QED
    BY <1>2, <2>1, <2>3, <2>4, PeriodStored
<1> QED
  BY <1>4, <1>5

LEMMA GradeConfigs ==
    ASSUME GradeGoal, NEW s \in Sessions, A!Finish(s), UNCHANGED <<periods, scores, letters, results>>,
           A!Adding(s, "configs"), configs' = Append(configs, sess[s].new)
    PROVE  GradeDone
<1>1. PICK v : v = sess[s] /\ GradeHeld(v)
  BY DEF GradeGoal, GradeInv
<1>2. AddsConfig(v)
  BY <1>1, GradeOps DEF A!Adding
<1>3. PICK c \in Fitting : v = [op |-> "add", table |-> "configs", new |-> c]
  BY <1>2 DEF AddsConfig
<1>4. configs' = Append(configs, c)
  BY <1>1, <1>3
<1>5. GradeRows
  BY DEF GradeGoal, GradeInv
<1>6. GradeRows'
  <2>1. configs' \in Seq(Fitting)
    <3>1. PICK some : some = Fitting
      OBVIOUS
    <3>2. configs \in Seq(some) /\ c \in some
      BY <1>5, <3>1 DEF GradeRows
    <3>3. configs' \in Seq(some)
      BY <1>4, <3>2
    <3> QED
      BY <3>1, <3>3
  <2>2. A!TypeOK'
    BY <1>5 DEF GradeRows, A!TypeOK
  <2> QED
    BY <1>5, <2>1, <2>2 DEF GradeRows
<1>7. GradeKeeps
  BY DEF GradeKeeps
<1>8. sess[s] # Idle
  BY DEF A!Adding, Idle
<1> QED
  BY <1>6, <1>7, <1>8, GradeWrites

\* A score is stored for a period that is open.
LEMMA GradeScores ==
    ASSUME GradeGoal, NEW s \in Sessions, A!SubmitCommit(s) PROVE GradeDone
<1>1. PICK v : v = sess[s] /\ GradeHeld(v)
  BY DEF GradeGoal, GradeInv
<1>2. SubmitsScore(v)
  BY <1>1, GradeOps DEF A!SubmitCommit
<1>3. PICK e \in Assessed, p \in Periods, form \in Forms, score \in Nat :
        /\ periods[p] # A!NoRow /\ ~periods[p].closed
        /\ v = [op |-> "submit", key |-> <<e, p>>, form |-> form, seen |-> scores[<<e, p>>], new |-> <<score>>]
  BY <1>2 DEF SubmitsScore
<1>4. PICK k \in Assessed \X Periods : k = <<e, p>>
  OBVIOUS
<1>5. v.key = k /\ v.seen = scores[k] /\ v.new = <<score>>
  BY <1>3, <1>4
<1>6. scores' = [scores EXCEPT ![k] = IF scores[k] = << >> THEN @ \o <<score>> ELSE <<score>>]
  BY <1>1, <1>5 DEF A!SubmitCommit
<1>7. GradeRows
  BY DEF GradeGoal, GradeInv
<1>8. scores' = [scores EXCEPT ![k] = <<score>>]
  <2>1. << >> \o <<score>> = <<score>>
    OBVIOUS
  <2> QED
    BY <1>6, <2>1
<1>9. /\ scores' \in [Assessed \X Periods -> Seq(Nat)]
      /\ \A x \in Assessed \X Periods : scores'[x] = IF x = k THEN <<score>> ELSE scores[x]
  BY <1>7, <1>8, GradeTypes
<1>10. \A d \in Assessed, q \in Periods :
          Len(scores'[<<d, q>>]) <= 1 /\ (scores'[<<d, q>>] # << >> => periods[q] # A!NoRow)
  <2>1. ASSUME NEW d \in Assessed, NEW q \in Periods
        PROVE  Len(scores'[<<d, q>>]) <= 1 /\ (scores'[<<d, q>>] # << >> => periods[q] # A!NoRow)
    <3>1. PICK x \in Assessed \X Periods : x = <<d, q>>
      OBVIOUS
    <3>2. CASE x = k
      <4>1. scores'[x] = <<score>> /\ q = p
        BY <1>4, <1>9, <3>1, <3>2
      <4> QED
        BY <1>3, <3>1, <4>1
    <3>3. CASE x # k
      <4>1. scores'[x] = scores[x]
        BY <1>9, <3>3
      <4> QED
        BY <1>7, <3>1, <4>1 DEF GradeRows
    <3> QED
      BY <3>2, <3>3
  <2> QED
    BY <2>1
<1>11. UNCHANGED <<periods, configs, letters, results>> /\ A!Finish(s) /\ sess[s] # Idle
  BY DEF A!SubmitCommit, Idle
<1>12. GradeRows'
  BY <1>7, <1>9, <1>10, <1>11 DEF GradeRows, A!TypeOK
<1>13. GradeKeeps
  <2>1. ASSUME NEW q \in Periods, periods[q].closed, NEW d \in Assessed PROVE scores'[<<d, q>>] = scores[<<d, q>>]
    <3>1. PICK x \in Assessed \X Periods : x = <<d, q>>
      OBVIOUS
    <3>2. x # k
      BY <1>3, <1>4, <2>1, <3>1
    <3> QED
      BY <1>9, <3>1, <3>2
  <2> QED
    BY <1>11, <2>1 DEF GradeKeeps
<1> QED
  BY <1>11, <1>12, <1>13, GradeWrites

\* The last letter, when they are of later and later dates, is the last one issued.
LEMMA LastIsLast ==
    ASSUME GradeRows, NEW e \in Assessed, Rising(letters[e]), letters[e] # << >>
    PROVE  A!LastLetters(e) = {Len(letters[e])}
<1>1. PICK own \in Seq(LetterRow) : own = letters[e]
  BY GradeTypes
<1>2. PICK n \in Nat \ {0} : n = Len(own) /\ DOMAIN own = 1 .. n
  BY <1>1
<1>3. \A i, j \in 1 .. n : i < j => own[i].date < own[j].date
  BY <1>1, <1>2 DEF Rising
<1>4. \A i \in 1 .. n : own[i].date \in Int
  <2>1. \A i \in 1 .. n : own[i] \in LetterRow
    BY <1>1, <1>2
  <2> QED
    BY <2>1, PeopleAssumption DEF LetterRow
<1>5. {j \in DOMAIN own : \A k \in DOMAIN own : own[k].date <= own[j].date} = {n}
  <2>1. \A j \in 1 .. n : (\A k \in 1 .. n : own[k].date <= own[j].date) <=> j = n
    <3>1. ASSUME NEW j \in 1 .. n, j # n PROVE ~(own[n].date <= own[j].date)
      <4>1. own[j].date < own[n].date
        BY <1>3, <3>1
      <4> QED
        BY <1>4, <4>1
    <3>2. ASSUME NEW k \in 1 .. n PROVE own[k].date <= own[n].date
      <4>1. k = n \/ own[k].date < own[n].date
        BY <1>3
      <4> QED
        BY <1>4, <4>1
    <3> QED
      BY <3>1, <3>2
  <2> QED
    BY <1>2, <2>1
<1>6. own[n].level = n
  BY <1>1, <1>2 DEF GradeRows, InLevels
<1>7. A!LastLetters(e) = {own[n].level}
  BY <1>1, <1>5 DEF A!LastLetters
<1> QED
  BY <1>1, <1>2, <1>6, <1>7

LEMMA GradeLetters ==
    ASSUME GradeGoal, NEW s \in Sessions, A!IssueCommit(s) PROVE GradeDone
<1>1. PICK v : v = sess[s] /\ GradeHeld(v)
  BY DEF GradeGoal, GradeInv
<1>2. IssuesLetter(v)
  BY <1>1, GradeOps DEF A!IssueCommit
<1>3. PICK e \in Assessed, n \in LetterRow : A!MayIssue(e, n.level) /\ v = [op |-> "letter", key |-> e, new |-> n]
  BY <1>2 DEF IssuesLetter
<1>4. letters' = [letters EXCEPT ![e] = Append(letters[e], n)] /\ Len(letters[e]) < MaxLetters
  BY <1>1, <1>3 DEF A!IssueCommit
<1>5. GradeRows
  BY DEF GradeGoal, GradeInv
<1>6. PICK own \in Seq(LetterRow) : own = letters[e]
  BY <1>5, GradeTypes
<1>7. PICK more \in Seq(LetterRow) : more = Append(own, n)
  <2>1. PICK some : some = LetterRow
    OBVIOUS
  <2>2. own \in Seq(some) /\ n \in some
    BY <2>1
  <2>3. Append(own, n) \in Seq(some)
    BY <2>2
  <2> QED
    BY <2>1, <2>3
<1>8. PICK l \in Nat : l = Len(own)
  OBVIOUS
<1>9. /\ Len(more) = l + 1 /\ DOMAIN more = 1 .. l + 1 /\ DOMAIN own = 1 .. l
      /\ more[l + 1] = n /\ \A i \in 1 .. l : more[i] = own[i]
  BY <1>7, <1>8
<1>10. /\ letters' \in [Assessed -> Seq(LetterRow)] /\ letters'[e] = more
       /\ \A d \in Assessed : d # e => letters'[d] = letters[d]
  BY <1>4, <1>5, <1>6, <1>7, GradeTypes
<1>11. InLevels(more)
  <2>1. ASSUME Rising(more) PROVE \A i \in 1 .. l + 1 : more[i].level = i
    <3>1. Rising(own)
      <4>1. \A i, j \in 1 .. l + 1 : i < j => more[i].date < more[j].date
        BY <1>9, <2>1 DEF Rising
      <4>2. \A i \in 1 .. l : i \in 1 .. l + 1
        OBVIOUS
      <4>3. \A i, j \in 1 .. l : i < j => own[i].date < own[j].date
        BY <1>9, <4>1, <4>2
      <4> QED
        BY <1>9, <4>3 DEF Rising
    <3>2. \A i \in 1 .. l : own[i].level = i
      BY <1>5, <1>6, <1>9, <3>1 DEF GradeRows, InLevels
    <3>3. n.level = l + 1
      <4>1. CASE own = << >>
        <5>1. n.level = 1 /\ l = 0
          BY <1>3, <1>6, <1>8, <4>1 DEF A!MayIssue
        <5> QED
          BY <5>1
      <4>2. CASE own # << >>
        <5>1. A!LastLetters(e) = {l}
          BY <1>5, <1>6, <1>8, <3>1, <4>2, LastIsLast
        <5> QED
          BY <1>3, <1>6, <4>2, <5>1 DEF A!MayIssue
      <4> QED
        BY <4>1, <4>2
    <3>4. \A i \in 1 .. l + 1 : i \in 1 .. l \/ i = l + 1
      OBVIOUS
    <3> QED
      BY <1>9, <3>2, <3>3, <3>4
  <2> QED
    BY <1>9, <2>1 DEF InLevels
<1>12. UNCHANGED <<periods, configs, scores, results>> /\ A!Finish(s) /\ sess[s] # Idle
  BY DEF A!IssueCommit, Idle
<1>13. \A d \in Assessed : Len(letters'[d]) <= MaxLetters
  <2>1. Len(more) <= MaxLetters
    BY <1>4, <1>6, <1>8, <1>9, PeopleAssumption
  <2> QED
    BY <1>5, <1>10, <2>1 DEF GradeRows, A!TypeOK
<1>14. \A d \in Assessed : InLevels(letters'[d])
  BY <1>5, <1>10, <1>11 DEF GradeRows
<1>15. A!TypeOK'
  BY <1>5, <1>10, <1>12, <1>13 DEF GradeRows, A!TypeOK, LetterRow
<1>16. GradeRows'
  BY <1>5, <1>12, <1>14, <1>15 DEF GradeRows
<1>17. GradeKeeps
  BY <1>12 DEF GradeKeeps
<1> QED
  BY <1>12, <1>16, <1>17, GradeWrites

LEMMA GradeResults ==
    ASSUME GradeGoal, NEW s \in Sessions, A!ResultCommit(s) PROVE GradeDone
<1>1. PICK v : v = sess[s] /\ GradeHeld(v)
  BY DEF GradeGoal, GradeInv
<1>2. UNCHANGED <<periods, configs, scores, letters>> /\ A!Finish(s) /\ sess[s] # Idle
  BY DEF A!ResultCommit, Idle
<1>3. GradeRows
  BY DEF GradeGoal, GradeInv
<1>4. PICK Values : Values = 0 .. 100 \cup {A!None}
  OBVIOUS
<1>5. results \in [Results -> Values]
  BY <1>3, <1>4 DEF GradeRows, A!TypeOK
<1>6. PICK ks, progress : /\ progress \in Values
                          /\ results' = [k \in Results |-> IF k \in ks THEN progress ELSE results[k]]
  <2>1. CASE v.op = "objective"
    <3>1. 0 \in Values
      BY <1>4
    <3>2. results' = [k \in Results |-> IF k \in v.keys THEN 0 ELSE results[k]]
      BY <1>1, <2>1 DEF A!ResultCommit
    <3> QED
      BY <3>1, <3>2
  <2>2. CASE v.op = "result"
    <3>1. SetsResult(v)
      BY <1>1, <2>2, GradeOps
    <3>2. v.progress \in Values
      BY <1>4, <3>1 DEF SetsResult
    <3>3. results' = [k \in Results |-> IF k \in v.keys THEN v.progress ELSE results[k]]
      BY <1>1, <2>2 DEF A!ResultCommit
    <3> QED
      BY <3>2, <3>3
  <2> QED
    BY <1>1, <2>1, <2>2 DEF A!ResultCommit
<1>7. results' \in [Results -> Values]
  BY <1>5, <1>6
<1>8. GradeRows'
  BY <1>2, <1>3, <1>4, <1>7 DEF GradeRows, A!TypeOK
<1>9. GradeKeeps
  BY <1>2 DEF GradeKeeps
<1> QED
  BY <1>2, <1>8, <1>9, GradeWrites

LEMMA GradeSubmit ==
    ASSUME GradeGoal, GradeTables, NEW s \in Sessions, NEW e \in Assessed, NEW p \in Periods, NEW okr \in Scores,
           NEW form \in Forms, A!Submit(s, e, p, okr, form)
    PROVE  GradeDone
<1>1. PICK c \in A!ActiveConfigs(periods[p].month) :
        /\ \A i \in DOMAIN form : form[i][1] \in DOMAIN c.items
        /\ A!Begin(s, [op |-> "submit", key |-> <<e, p>>, form |-> form, seen |-> scores[<<e, p>>],
                       new |-> <<A!Final(c, okr, form)>>])
  BY DEF A!Submit
<1>2. c \in Configs /\ A!WeightsFit(c)
  <2>1. PICK i \in DOMAIN configs : c = configs[i]
    BY <1>1 DEF A!ActiveConfigs
  <2>2. PICK some : some = Fitting
    OBVIOUS
  <2>3. configs \in Seq(some)
    BY <2>2 DEF GradeGoal, GradeInv, GradeRows
  <2>4. c \in some
    BY <2>1, <2>3
  <2> QED
    BY <2>2, <2>4 DEF Fitting
<1>3. PICK score \in Nat : score = A!Final(c, okr, form) /\ (A!Once(form) => score <= A!Full + 2)
  BY <1>1, <1>2, FinalWithin
<1>4. PICK w : w = [op |-> "submit", key |-> <<e, p>>, form |-> form, seen |-> scores[<<e, p>>], new |-> <<score>>]
  OBVIOUS
<1>5. A!Begin(s, w)
  BY <1>1, <1>3, <1>4
<1>6. periods[p] # A!NoRow /\ ~periods[p].closed
  BY DEF A!Submit, A!MaySubmit
<1>7. SubmitsScore(w)
  BY <1>3, <1>4, <1>6 DEF SubmitsScore
<1> QED
  BY <1>5, <1>7, GradeBegins DEF GradeHeld

LEMMA GradeRequest ==
    ASSUME GradeGoal, GradeTables, NEW s \in Sessions, A!Request(s) PROVE GradeDone
<1>1. ASSUME NEW month \in Months, A!CreatePeriod(s, month) PROVE GradeDone
  <2>1. PICK n \in PeriodRow : n = [month |-> month, closed |-> FALSE]
    BY DEF PeriodRow
  <2>2. PICK w : w = [op |-> "add", table |-> "periods", new |-> n]
    OBVIOUS
  <2>3. A!Begin(s, w)
    BY <1>1, <2>1, <2>2 DEF A!CreatePeriod, A!Add
  <2>4. AddsPeriod(w)
    BY <1>1, <2>1, <2>2 DEF A!CreatePeriod, AddsPeriod
  <2> QED
    BY <2>3, <2>4, GradeBegins DEF GradeHeld
<1>2. ASSUME NEW c \in Configs, A!CreateConfig(s, c) PROVE GradeDone
  <2>1. PICK w : w = [op |-> "add", table |-> "configs", new |-> c]
    OBVIOUS
  <2>2. A!Begin(s, w)
    BY <1>2, <2>1 DEF A!CreateConfig, A!Add
  <2>3. AddsConfig(w)
    BY <1>2, <2>1 DEF A!CreateConfig, AddsConfig, Fitting
  <2> QED
    BY <2>2, <2>3, GradeBegins DEF GradeHeld
<1>3. ASSUME NEW p \in Periods, A!ClosePeriod(s, p) PROVE GradeDone
  <2>1. periods[p] # A!NoRow /\ periods[p] \in PeriodRow
    BY <1>3, GradeTypes DEF GradeGoal, GradeInv, A!ClosePeriod
  <2>2. PICK n : n = [periods[p] EXCEPT !.closed = TRUE]
    OBVIOUS
  <2>3. n \in PeriodRow /\ n.month = periods[p].month /\ n.closed
    BY <2>1, <2>2 DEF PeriodRow
  <2>4. PICK w : w = [op |-> "edit", table |-> "periods", key |-> p, seen |-> periods[p], new |-> n]
    OBVIOUS
  <2>5. A!Begin(s, w)
    BY <1>3, <2>2, <2>4 DEF A!ClosePeriod, A!Edit
  <2>6. ClosesPeriod(w)
    BY <2>1, <2>3, <2>4 DEF ClosesPeriod
  <2> QED
    BY <2>5, <2>6, GradeBegins DEF GradeHeld
<1>4. ASSUME NEW e \in Assessed, NEW level \in 1 .. 3, NEW date \in Dates, A!IssueLetter(s, e, level, date) PROVE GradeDone
  <2>1. PICK n \in LetterRow : n = [level |-> level, date |-> date]
    BY DEF LetterRow
  <2>2. PICK w : w = [op |-> "letter", key |-> e, new |-> n]
    OBVIOUS
  <2>3. A!Begin(s, w)
    BY <1>4, <2>1, <2>2 DEF A!IssueLetter
  <2>4. A!MayIssue(e, n.level)
    BY <1>4, <2>1 DEF A!IssueLetter
  <2>5. IssuesLetter(w)
    BY <2>2, <2>4 DEF IssuesLetter
  <2> QED
    BY <2>3, <2>5, GradeBegins DEF GradeHeld
<1>5. ASSUME NEW ks \in SUBSET Results, A!CreateObjective(s, ks) PROVE GradeDone
  <2>1. PICK w : w = [op |-> "objective", keys |-> ks]
    OBVIOUS
  <2>2. A!Begin(s, w)
    BY <1>5, <2>1 DEF A!CreateObjective
  <2>3. SetsObjective(w)
    BY <2>1 DEF SetsObjective
  <2> QED
    BY <2>2, <2>3, GradeBegins DEF GradeHeld
<1>6. ASSUME NEW k \in Results, NEW progress \in Scores, A!UpdateResult(s, k, progress) PROVE GradeDone
  <2>1. PICK w : w = [op |-> "result", keys |-> {k}, progress |-> progress]
    OBVIOUS
  <2>2. A!Begin(s, w)
    BY <1>6, <2>1 DEF A!UpdateResult
  <2>3. progress \in 0 .. 100 /\ {k} \in SUBSET Results
    BY PeopleAssumption
  <2>4. SetsResult(w)
    BY <2>1, <2>3 DEF SetsResult
  <2> QED
    BY <2>2, <2>4, GradeBegins DEF GradeHeld
<1> QED
  BY <1>1, <1>2, <1>3, <1>4, <1>5, <1>6, GradeSubmit DEF A!Request

LEMMA GradeStep ==
    ASSUME GradeGoal, A!Next PROVE GradeDone
<1>1. PICK s \in Sessions : A!Step(s)
  BY DEF A!Next
<1>2. CASE A!Request(s) /\ UNCHANGED A!assessmentTables
  BY <1>2, GradeRequest DEF A!assessmentTables, GradeTables
<1>3. CASE A!Abort(s) /\ UNCHANGED A!assessmentTables
  <2>1. Turns(s, Idle) /\ GradeHeld(Idle) /\ GradeTables
    BY <1>3 DEF A!assessmentTables, GradeTables, A!Abort, A!Finish, A!Go, A!Idle, Idle, Turns, GradeHeld
  <2> QED
    BY <2>1, GradeGoes
<1>4. CASE A!Commit(s)
  BY <1>4, GradePeriods, GradeConfigs DEF A!Commit
<1> QED
  BY <1>1, <1>2, <1>3, <1>4, GradeScores, GradeLetters, GradeResults DEF A!Step

\* The letters go up while they are of later and later dates.
LEMMA GradeEscalates ==
    ASSUME GradeRows PROVE A!LettersEscalate
  BY DEF GradeRows, InLevels, Rising, A!LettersEscalate

\* A letter that came last there is.
LEMMA LetterThere ==
    ASSUME GradeRows, NEW e \in Assessed, letters[e] # << >> PROVE A!LastLetters(e) # {}
<1>1. PICK own \in Seq(LetterRow) : own = letters[e]
  BY GradeTypes
<1>2. PICK ids : ids = DOMAIN own
  OBVIOUS
<1>3. IsFiniteSet(ids) /\ ids # {}
  <2>1. Len(own) \in Int /\ ids = 1 .. Len(own)
    BY <1>1, <1>2
  <2>2. IsFiniteSet(1 .. Len(own))
    BY <2>1, FS_Interval
  <2>3. Len(own) # 0
    BY <1>1
  <2>4. 1 \in 1 .. Len(own)
    BY <1>1, <2>3
  <2> QED
    BY <2>1, <2>2, <2>4
<1>4. PICK f : f = [i \in ids |-> own[i].date]
  OBVIOUS
<1>5. \A i \in ids : f[i] \in Int
  <2>1. \A i \in ids : own[i] \in LetterRow
    BY <1>1, <1>2
  <2> QED
    BY <1>4, <2>1, PeopleAssumption DEF LetterRow
<1>6. PICK j \in ids : \A k \in ids : f[k] <= f[j]
  BY <1>3, <1>5, Highest
<1>7. j \in {i \in DOMAIN own : \A k \in DOMAIN own : own[k].date <= own[i].date}
  BY <1>2, <1>4, <1>6
<1>8. own[j].level \in A!LastLetters(e)
  BY <1>1, <1>7 DEF A!LastLetters
<1> QED
  BY <1>8

LEMMA GradeCount == \A some : A!Cardinality(some) = Cardinality(some)
  BY DEF A!Cardinality, Cardinality

\* The rows of an employee: at most one for a period.
LEMMA RowsAre ==
    ASSUME GradeRows, NEW e \in Assessed
    PROVE  A!Rows(e) = {<<p, 1>> : p \in {q \in Periods : scores[<<e, q>>] # << >>}}
<1>1. ASSUME NEW p \in Periods PROVE {<<p, i>> : i \in DOMAIN scores[<<e, p>>]} = IF scores[<<e, p>>] # << >> THEN {<<p, 1>>} ELSE {}
  <2>1. PICK x \in Seq(Nat) : x = scores[<<e, p>>] /\ Len(x) <= 1
    <3>1. PICK k \in Assessed \X Periods : k = <<e, p>>
      OBVIOUS
    <3>2. scores[k] \in Seq(Nat)
      BY GradeTypes
    <3> QED
      BY <3>1, <3>2 DEF GradeRows
  <2>2. CASE x = << >>
    BY <2>1, <2>2
  <2>3. CASE x # << >>
    <3>1. Len(x) = 1
      <4>1. PICK l : l = Len(x)
        OBVIOUS
      <4>2. l \in Nat
        BY <4>1
      <4>3. l # 0
        BY <2>3, <4>1
      <4>4. l <= 1
        BY <2>1, <4>1
      <4>5. l = 1
        BY <4>2, <4>3, <4>4
      <4> QED
        BY <4>1, <4>5
    <3>2. DOMAIN x = {1}
      BY <2>1, <3>1
    <3> QED
      BY <2>1, <2>3, <3>2
  <2> QED
    BY <2>2, <2>3
<1>2. \A row : row \in A!Rows(e) <=> \E p \in Periods : row \in {<<p, i>> : i \in DOMAIN scores[<<e, p>>]}
  BY DEF A!Rows
<1>3. ASSUME NEW p \in Periods, NEW row
      PROVE  row \in {<<p, i>> : i \in DOMAIN scores[<<e, p>>]} <=> scores[<<e, p>>] # << >> /\ row = <<p, 1>>
  <2>1. PICK set : set = {<<p, i>> : i \in DOMAIN scores[<<e, p>>]}
    OBVIOUS
  <2>2. set = IF scores[<<e, p>>] # << >> THEN {<<p, 1>>} ELSE {}
    BY <1>1, <2>1
  <2>3. row \in set <=> scores[<<e, p>>] # << >> /\ row = <<p, 1>>
    BY <2>2
  <2> QED
    BY <2>1, <2>3
<1>4. \A row : row \in A!Rows(e) <=> \E p \in Periods : scores[<<e, p>>] # << >> /\ row = <<p, 1>>
  BY <1>2, <1>3, Zenon
<1> QED
  BY <1>4

\* An employee who was scored in a month was for one period.
LEMMA OneInMonth ==
    ASSUME GradeRows, NEW e \in Assessed, NEW month, NEW p \in A!ScoredIn(e, month)
    PROVE  /\ A!ScoredIn(e, month) = {p} /\ p \in Periods /\ scores[<<e, p>>] # << >>
           /\ periods[p] # A!NoRow /\ periods[p].month = month /\ month \in Months
<1>1. p \in Periods /\ scores[<<e, p>>] # << >> /\ periods[p].month = month
  BY DEF A!ScoredIn
<1>2. periods[p] # A!NoRow
  BY <1>1 DEF GradeRows
<1>3. \A q \in A!ScoredIn(e, month) : q = p
  <2>1. ASSUME NEW q \in A!ScoredIn(e, month) PROVE q = p
    <3>1. q \in Periods /\ scores[<<e, q>>] # << >> /\ periods[q].month = month
      BY DEF A!ScoredIn
    <3>2. periods[q] # A!NoRow
      BY <3>1 DEF GradeRows
    <3> QED
      BY <1>1, <1>2, <3>1, <3>2 DEF GradeRows
  <2> QED
    BY <2>1
<1>4. month \in Months
  <2>1. periods[p] \in PeriodRow
    BY <1>1, <1>2, GradeTypes
  <2> QED
    BY <1>1, <2>1 DEF PeriodRow
<1> QED
  BY <1>1, <1>2, <1>3, <1>4

\* Scored in the last three months, the three rows of them are the recent ones.
LEMMA LastThree ==
    ASSUME GradeRows, NEW e \in Assessed, NEW m \in Months,
           NEW z0 \in A!ScoredIn(e, m), NEW z1 \in A!ScoredIn(e, m - 1), NEW z2 \in A!ScoredIn(e, m - 2),
           \A later \in Months : later > m => A!ScoredIn(e, later) = {}
    PROVE  A!LowMonths(e) <=> \A p \in {z0, z1, z2} : A!Low(scores[<<e, p>>][1])
<1>1. PICK all : all = A!Rows(e)
  OBVIOUS
<1>2. all = {<<p, 1>> : p \in {q \in Periods : scores[<<e, q>>] # << >>}}
  BY <1>1, RowsAre
<1>3. IsFiniteSet(all)
  <2>1. PICK f : f = [p \in Periods |-> <<p, 1>>]
    OBVIOUS
  <2>2. PICK image : image = {f[p] : p \in Periods}
    OBVIOUS
  <2>3. IsFiniteSet(image)
    <3>1. f \in Surjection(Periods, image)
      BY <2>1, <2>2 DEF Surjection
    <3> QED
      BY <3>1, PeopleAssumption, FS_Surjection
  <2>4. all \in SUBSET image
    BY <1>2, <2>1, <2>2
  <2> QED
    BY <2>3, <2>4, FS_Subset
<1>4. m \in Nat
  BY PeopleAssumption
<1>5. PICK when : when = [row \in all |-> A!Month(row)]
  OBVIOUS
<1>6. PICK x0, x1, x2 : x0 = <<z0, 1>> /\ x1 = <<z1, 1>> /\ x2 = <<z2, 1>>
  OBVIOUS
<1>7. /\ z0 \in Periods /\ scores[<<e, z0>>] # << >> /\ periods[z0].month = m
      /\ z1 \in Periods /\ scores[<<e, z1>>] # << >> /\ periods[z1].month = m - 1
      /\ z2 \in Periods /\ scores[<<e, z2>>] # << >> /\ periods[z2].month = m - 2
  BY DEF A!ScoredIn
<1>8. x0 \in all /\ x1 \in all /\ x2 \in all
  BY <1>2, <1>6, <1>7
<1>9. when[x0] = m /\ when[x1] = m - 1 /\ when[x2] = m - 2
  BY <1>5, <1>6, <1>7, <1>8 DEF A!Month
<1>10. ASSUME NEW x \in all PROVE when[x] \in Int /\ (x \in {x0, x1, x2} \/ when[x] < m - 2)
  <2>1. PICK q \in Periods : scores[<<e, q>>] # << >> /\ x = <<q, 1>>
    BY <1>2
  <2>2. PICK month : month = periods[q].month
    OBVIOUS
  <2>3. q \in A!ScoredIn(e, month)
    BY <2>1, <2>2 DEF A!ScoredIn
  <2>4. month \in Months /\ month \in Nat
    BY <2>3, OneInMonth, PeopleAssumption
  <2>5. when[x] = month
    BY <1>5, <2>1, <2>2 DEF A!Month
  <2>6. ~(month > m)
    BY <2>3, <2>4
  <2>7. month = m \/ month = m - 1 \/ month = m - 2 \/ month < m - 2
    BY <1>4, <2>4, <2>6
  <2>8. month = m => x = x0
    BY <1>6, <2>1, <2>3, OneInMonth
  <2>9. month = m - 1 => x = x1
    BY <1>6, <2>1, <2>3, OneInMonth
  <2>10. month = m - 2 => x = x2
    BY <1>6, <2>1, <2>3, OneInMonth
  <2> QED
    BY <2>4, <2>5, <2>7, <2>8, <2>9, <2>10
<1>11. x0 # x1 /\ x1 # x2 /\ x0 # x2
  BY <1>4, <1>9
<1>12. \A x \in all \ {x0, x1, x2} : when[x] < when[x0] /\ when[x] < when[x1] /\ when[x] < when[x2]
  <2>1. ASSUME NEW x \in all \ {x0, x1, x2} PROVE when[x] < when[x0] /\ when[x] < when[x1] /\ when[x] < when[x2]
    <3>1. when[x] \in Int /\ when[x] < m - 2
      BY <1>10
    <3> QED
      BY <1>4, <1>9, <3>1
  <2> QED
    BY <2>1
<1>13. PICK three \in SUBSET all : three = {x0, x1, x2}
  BY <1>8
<1>14. Latest(all, when, three)
  <2>1. Cardinality(three) = 3
    BY <1>11, <1>13, ThreeDifferent
  <2>2. \A x \in all : when[x] \in Int
    BY <1>10
  <2>3. \A x \in three, y \in all \ three : when[y] < when[x]
    BY <1>12, <1>13
  <2> QED
    BY <1>3, <2>1, <2>2, <2>3 DEF Latest
<1>15. \A rows \in SUBSET all : rows \in A!Recent(e) <=> rows = three
  <2>1. ASSUME NEW rows \in SUBSET all PROVE rows \in A!Recent(e) <=> rows = three
    <3>1. \A row \in rows, other \in all \ rows : when[other] <= when[row] <=> A!Month(other) <= A!Month(row)
      BY <1>5
    <3>2. rows \in A!Recent(e) <=>
             /\ Cardinality(rows) = 3 \/ (Cardinality(rows) < 3 /\ rows = all)
             /\ \A row \in rows, other \in all \ rows : A!Month(other) <= A!Month(row)
      BY <1>1, GradeCount DEF A!Recent
    <3>3. (/\ Cardinality(rows) = 3 \/ (Cardinality(rows) < 3 /\ rows = all)
           /\ \A row \in rows, other \in all \ rows : when[other] <= when[row]) <=> rows = three
      BY <1>14, ThreeLatest
    <3>4. (\A row \in rows, other \in all \ rows : when[other] <= when[row]) <=>
             \A row \in rows, other \in all \ rows : A!Month(other) <= A!Month(row)
      BY <3>1
    <3> QED
      BY <3>2, <3>3, <3>4, Zenon
  <2> QED
    BY <2>1
<1>16. A!Recent(e) \in SUBSET SUBSET all
  BY <1>1 DEF A!Recent
<1>17. A!LowMonths(e) <=> \A row \in three : A!Low(scores[<<e, row[1]>>][row[2]])
  <2>1. A!Recent(e) = {three}
    BY <1>13, <1>15, <1>16
  <2>2. A!Cardinality(three) = 3
    BY <1>14, GradeCount DEF Latest
  <2> QED
    BY <2>1, <2>2 DEF A!LowMonths
<1>18. /\ x0[1] = z0 /\ x0[2] = 1 /\ x1[1] = z1 /\ x1[2] = 1 /\ x2[1] = z2 /\ x2[2] = 1
  BY <1>6
<1>19. (\A row \in three : A!Low(scores[<<e, row[1]>>][row[2]])) <=>
          A!Low(scores[<<e, z0>>][1]) /\ A!Low(scores[<<e, z1>>][1]) /\ A!Low(scores[<<e, z2>>][1])
  BY <1>13, <1>18
<1> QED
  BY <1>17, <1>19

LEMMA GradeSuggests ==
    ASSUME GradeRows PROVE A!SuggestedWhenDue
<1>1. ASSUME NEW e \in Assessed, NEW m \in Months, NEW run, run = [n \in 0 .. 2 |-> A!ScoredIn(e, m - n)],
             \A n \in 0 .. 2 : run[n] # {}, \A later \in Months : later > m => A!ScoredIn(e, later) = {}
      PROVE  A!Suggested(e) # {} <=> \A n \in 0 .. 2 : \A p \in run[n] : scores[<<e, p>>][1] < 60 * 100
  <2>1. m \in Nat
    BY PeopleAssumption
  <2>2. run[0] = A!ScoredIn(e, m) /\ run[1] = A!ScoredIn(e, m - 1) /\ run[2] = A!ScoredIn(e, m - 2)
    <3>1. m - 0 = m
      BY <2>1
    <3> QED
      BY <1>1, <3>1
  <2>3. PICK z0 \in A!ScoredIn(e, m) : TRUE
    BY <1>1, <2>2
  <2>4. PICK z1 \in A!ScoredIn(e, m - 1) : TRUE
    BY <1>1, <2>2
  <2>5. PICK z2 \in A!ScoredIn(e, m - 2) : TRUE
    BY <1>1, <2>2
  <2>6. run[0] = {z0} /\ run[1] = {z1} /\ run[2] = {z2}
    <3>1. A!ScoredIn(e, m) = {z0}
      BY <2>3, OneInMonth
    <3>2. A!ScoredIn(e, m - 1) = {z1}
      BY <2>4, OneInMonth
    <3>3. A!ScoredIn(e, m - 2) = {z2}
      BY <2>5, OneInMonth
    <3> QED
      BY <2>2, <3>1, <3>2, <3>3
  <2>7. A!LowMonths(e) <=> \A p \in {z0, z1, z2} : A!Low(scores[<<e, p>>][1])
    BY <1>1, <2>3, <2>4, <2>5, LastThree
  <2>8. (\A n \in 0 .. 2 : \A p \in run[n] : scores[<<e, p>>][1] < 60 * 100) <=>
           \A p \in {z0, z1, z2} : scores[<<e, p>>][1] < 60 * 100
    <3>1. \A n : n \in 0 .. 2 <=> n = 0 \/ n = 1 \/ n = 2
      OBVIOUS
    <3>2. (\A n \in 0 .. 2 : \A p \in run[n] : scores[<<e, p>>][1] < 60 * 100) <=>
             /\ \A p \in run[0] : scores[<<e, p>>][1] < 60 * 100
             /\ \A p \in run[1] : scores[<<e, p>>][1] < 60 * 100
             /\ \A p \in run[2] : scores[<<e, p>>][1] < 60 * 100
      BY <3>1
    <3> QED
      BY <2>6, <3>2
  <2>9. A!Suggested(e) # {} <=> A!LowMonths(e)
    BY LetterThere DEF A!Suggested
  <2> QED
    BY <2>7, <2>8, <2>9 DEF A!Low
<1>2. ASSUME NEW e \in Assessed, NEW n \in A!Suggested(e) PROVE A!MayIssue(e, n)
  BY <1>2 DEF A!Suggested, A!MayIssue
<1> QED
  BY <1>1, <1>2 DEF A!SuggestedWhenDue

-----------------------------------------------------------------------------
\* The handlers of one part hold nothing that a property of another looks for.
LEMMA HireHolds ==
    ASSUME NEW v, HireHeld(v) PROVE v.op \notin {"submit", "check"} /\ ~(v.op = "add" /\ v.table = "articles")
  BY DEF HireHeld, Idle, AddsOpening, EditsOpening, AddsApplication, EditsApplication, MovesApplication

LEMMA StaffHolds ==
    ASSUME NEW v, StaffHeld(v) PROVE v.op \notin {"submit", "check"} /\ ~(v.op = "add" /\ v.table = "articles")
  BY DEF StaffHeld, Idle, AddsDepartment, EditsDepartment, AddsPosition, EditsPosition, AddsEmployee, EditsEmployee, MovesEmployee

LEMMA TermHolds ==
    ASSUME NEW v, TermHeld(v) PROVE v.op \notin {"submit", "check"} /\ ~(v.op = "add" /\ v.table = "articles")
  BY DEF TermHeld, Idle, AddsTerm, EditsTerm, RenewsTerm

LEMMA BoardHolds ==
    ASSUME NEW v, BoardHeld(v) PROVE v.op # "submit" /\ ~(v.op = "add" /\ v.table = "articles")
<1>1. v.op = "add" => v.table = "tasks"
  BY BoardOps DEF AddsTask
<1> QED
  BY <1>1, BoardOps

LEMMA TrialHolds ==
    ASSUME NEW v, TrialHeld(v) PROVE v.op \notin {"submit", "check"}
  BY DEF TrialHeld, Idle, AddsReview, DecidesReview, AddsArticle, EditsArticle

LEMMA GradeHolds ==
    ASSUME NEW v, GradeHeld(v) PROVE v.op # "check" /\ ~(v.op = "add" /\ v.table = "articles")
<1>1. CASE v = Idle
  BY <1>1 DEF Idle
<1>2. CASE AddsPeriod(v)
  <2>1. PICK n : v = [op |-> "add", table |-> "periods", new |-> n]
    BY <1>2 DEF AddsPeriod
  <2> QED
    BY <2>1
<1>3. CASE ClosesPeriod(v)
  <2>1. PICK p, n : v = [op |-> "edit", table |-> "periods", key |-> p, seen |-> periods[p], new |-> n]
    BY <1>3 DEF ClosesPeriod
  <2> QED
    BY <2>1
<1>4. CASE AddsConfig(v)
  <2>1. PICK n : v = [op |-> "add", table |-> "configs", new |-> n]
    BY <1>4 DEF AddsConfig
  <2> QED
    BY <2>1
<1>5. CASE SubmitsScore(v)
  <2>1. PICK k, form, seen, new : v = [op |-> "submit", key |-> k, form |-> form, seen |-> seen, new |-> new]
    BY <1>5, Zenon DEF SubmitsScore
  <2> QED
    BY <2>1
<1>6. CASE IssuesLetter(v)
  <2>1. PICK e, n : v = [op |-> "letter", key |-> e, new |-> n]
    BY <1>6 DEF IssuesLetter
  <2> QED
    BY <2>1
<1>7. CASE SetsObjective(v)
  <2>1. PICK ks : v = [op |-> "objective", keys |-> ks]
    BY <1>7 DEF SetsObjective
  <2> QED
    BY <2>1
<1>8. CASE SetsResult(v)
  <2>1. PICK ks, progress : v = [op |-> "result", keys |-> ks, progress |-> progress]
    BY <1>8 DEF SetsResult
  <2> QED
    BY <2>1
<1> QED
  BY <1>1, <1>2, <1>3, <1>4, <1>5, <1>6, <1>7, <1>8 DEF GradeHeld

-----------------------------------------------------------------------------
\* What is kept of people, together.
PeopleInv ==
    /\ InTurn /\ alone
    /\ part \in {"hiring", "staff", "contracts", "onboarding", "probation", "assessments"}
    /\ HireInv /\ StaffInv /\ TermInv /\ BoardInv /\ TrialInv /\ GradeInv
PeopleKeeps == StaffKeeps /\ TermKeeps /\ BoardKeeps /\ TrialKeeps /\ GradeKeeps

LEMMA PeopleStarts == PeopleInit => PeopleInv
<1> SUFFICES ASSUME PeopleInit PROVE PeopleInv
  OBVIOUS
<1>1. InTurn
  BY DEF PeopleInit, H!Init, H!AllIdle, H!Idle, Idle, InTurn
<1> QED
  BY <1>1, HireStarts, StaffStarts, TermStarts, BoardStarts, TrialStarts, GradeStarts DEF PeopleInit, PeopleInv

LEMMA NothingElse ==
    ASSUME PeopleInv
    PROVE  /\ part # "assessments" => \A s \in Sessions : sess[s].op # "submit"
           /\ part # "onboarding" => \A s \in Sessions : sess[s].op # "check"
           /\ part # "probation" => \A s \in Sessions : ~(sess[s].op = "add" /\ sess[s].table = "articles")
<1>1. ASSUME NEW s \in Sessions
      PROVE  /\ part # "assessments" => sess[s].op # "submit"
             /\ part # "onboarding" => sess[s].op # "check"
             /\ part # "probation" => ~(sess[s].op = "add" /\ sess[s].table = "articles")
  <2>1. CASE part = "hiring"
    <3>1. HireHeld(sess[s])
      BY <2>1 DEF PeopleInv, HireInv
    <3> QED
      BY <3>1, HireHolds
  <2>2. CASE part = "staff"
    <3>1. StaffHeld(sess[s])
      BY <2>2 DEF PeopleInv, StaffInv
    <3> QED
      BY <3>1, StaffHolds
  <2>3. CASE part = "contracts"
    <3>1. TermHeld(sess[s])
      BY <2>3 DEF PeopleInv, TermInv
    <3> QED
      BY <3>1, TermHolds
  <2>4. CASE part = "onboarding"
    <3>1. BoardHeld(sess[s])
      BY <2>4 DEF PeopleInv, BoardInv
    <3> QED
      BY <2>4, <3>1, BoardHolds
  <2>5. CASE part = "probation"
    <3>1. TrialHeld(sess[s])
      BY <2>5 DEF PeopleInv, TrialInv
    <3> QED
      BY <2>5, <3>1, TrialHolds
  <2>6. CASE part = "assessments"
    <3>1. GradeHeld(sess[s])
      BY <2>6 DEF PeopleInv, GradeInv
    <3> QED
      BY <2>6, <3>1, GradeHolds
  <2> QED
    BY <2>1, <2>2, <2>3, <2>4, <2>5, <2>6 DEF PeopleInv
<1> QED
  BY <1>1

LEMMA PeopleSteps == PeopleInv /\ [PeopleNext]_peopleVars => PeopleInv' /\ PeopleKeeps
<1> SUFFICES ASSUME PeopleInv, [PeopleNext]_peopleVars PROVE PeopleInv' /\ PeopleKeeps
  OBVIOUS
<1>1. /\ InTurn /\ alone /\ HireInv /\ StaffInv /\ TermInv /\ BoardInv /\ TrialInv /\ GradeInv
      /\ part \in {"hiring", "staff", "contracts", "onboarding", "probation", "assessments"}
  BY DEF PeopleInv
<1>2. SUFFICES /\ InTurn' /\ alone' /\ part' = part
               /\ HireInv' /\ StaffInv' /\ TermInv' /\ BoardInv' /\ TrialInv' /\ GradeInv'
               /\ StaffKeeps /\ TermKeeps /\ BoardKeeps /\ TrialKeeps /\ GradeKeeps
  BY <1>1 DEF PeopleInv, PeopleKeeps
<1>3. /\ UNCHANGED staff => StaffKeeps
      /\ UNCHANGED terms => TermKeeps
      /\ UNCHANGED probation => TrialKeeps
      /\ UNCHANGED assessments => GradeKeeps
  BY DEF staff, terms, probation, assessments, StaffKeeps, TermKeeps, TrialKeeps, GradeKeeps
<1>4. part # "onboarding" => BoardKeeps
  BY NothingElse DEF BoardKeeps
<1>5. ASSUME part' = part
      PROVE  /\ UNCHANGED hiring /\ (part = "hiring" => sess' = sess) => HireInv'
             /\ UNCHANGED staff /\ (part = "staff" => sess' = sess) => StaffInv'
             /\ UNCHANGED terms /\ (part = "contracts" => sess' = sess) => TermInv'
             /\ UNCHANGED onboarding /\ (part = "onboarding" => sess' = sess) => BoardInv'
             /\ UNCHANGED probation /\ (part = "probation" => sess' = sess) => TrialInv'
             /\ UNCHANGED assessments /\ (part = "assessments" => sess' = sess) => GradeInv'
  <2>1. UNCHANGED terms => employed' \in [Workers -> BOOLEAN] /\ contracts' = contracts
    BY <1>1 DEF terms, TermInv, TermRows, C!TypeOK
  <2>2. UNCHANGED hiring /\ (part = "hiring" => sess' = sess) => HireInv'
    BY <1>1, <1>5, HireQuiet DEF hiring
  <2>3. UNCHANGED staff /\ (part = "staff" => sess' = sess) => StaffInv'
    BY <1>1, <1>5, StaffQuiet DEF staff, StaffTables
  <2>4. UNCHANGED terms /\ (part = "contracts" => sess' = sess) => TermInv'
    BY <1>1, <1>5, <2>1, TermQuiet
  <2>5. UNCHANGED onboarding /\ (part = "onboarding" => sess' = sess) => BoardInv'
    BY <1>1, <1>5, BoardQuiet DEF onboarding, BoardTables
  <2>6. UNCHANGED probation /\ (part = "probation" => sess' = sess) => TrialInv'
    BY <1>1, <1>5, TrialQuiet DEF probation, TrialTables
  <2>7. UNCHANGED assessments /\ (part = "assessments" => sess' = sess) => GradeInv'
    BY <1>1, <1>5, GradeQuiet DEF assessments, GradeTables
  <2> QED
    BY <2>2, <2>3, <2>4, <2>5, <2>6, <2>7
<1>6. CASE UNCHANGED peopleVars
  <2>1. /\ UNCHANGED <<part, alone, sess>>
        /\ UNCHANGED hiring /\ UNCHANGED staff /\ UNCHANGED terms /\ UNCHANGED onboarding /\ UNCHANGED probation
        /\ UNCHANGED assessments
    BY <1>6 DEF peopleVars
  <2>2. InTurn' /\ alone'
    BY <1>1, <2>1 DEF InTurn
  <2>3. BoardKeeps
    <3>1. \A s \in Sessions : ~(sess[s].op = "check" /\ sess'[s].op = "edit")
      BY <2>1
    <3> QED
      BY <3>1 DEF BoardKeeps
  <2> QED
    BY <1>3, <1>5, <2>1, <2>2, <2>3
<1>7. CASE part' = part /\ part = "hiring" /\ H!Next /\ UNCHANGED <<staff, terms, onboarding, probation, assessments>>
  <2>1. PICK s \in Sessions : H!Step(s)
    BY <1>7 DEF H!Next
  <2>2. InTurn' /\ HireInv' /\ alone' = alone
    BY <1>1, <1>7, <2>1, HireStep DEF HireGoal, HireDone
  <2> QED
    BY <1>1, <1>3, <1>4, <1>5, <1>7, <2>2
<1>8. CASE part' = part /\ part = "staff" /\ S!Next /\ UNCHANGED <<hiring, terms, onboarding, probation, assessments>>
  <2>1. InTurn' /\ StaffInv' /\ StaffKeeps /\ alone' = alone
    BY <1>1, <1>8, StaffStep DEF StaffDone
  <2> QED
    BY <1>1, <1>3, <1>4, <1>5, <1>8, <2>1
<1>9. CASE part' = part /\ part = "contracts" /\ C!Next /\ UNCHANGED <<hiring, staff, onboarding, probation, assessments>>
  <2>1. InTurn' /\ TermInv' /\ TermKeeps /\ alone' = alone
    BY <1>1, <1>9, TermStep DEF TermGoal, TermDone
  <2> QED
    BY <1>1, <1>3, <1>4, <1>5, <1>9, <2>1
<1>10. CASE part' = part /\ part = "onboarding" /\ O!Next /\ UNCHANGED <<hiring, staff, terms, probation, assessments>>
  <2>1. PICK s \in Sessions : O!Step(s)
    BY <1>10 DEF O!Next
  <2>2. InTurn' /\ BoardInv' /\ BoardKeeps /\ alone' = alone
    BY <1>1, <1>10, <2>1, BoardStep DEF BoardGoal, BoardDone
  <2> QED
    BY <1>1, <1>3, <1>5, <1>10, <2>2
<1>11. CASE part' = part /\ part = "probation" /\ P!Next /\ UNCHANGED <<hiring, staff, terms, onboarding, assessments>>
  <2>1. InTurn' /\ TrialInv' /\ TrialKeeps /\ alone' = alone
    BY <1>1, <1>11, TrialStep DEF TrialGoal, TrialDone
  <2> QED
    BY <1>1, <1>3, <1>4, <1>5, <1>11, <2>1
<1>12. CASE part' = part /\ part = "assessments" /\ A!Next /\ UNCHANGED <<hiring, staff, terms, onboarding, probation>>
  <2>1. InTurn' /\ GradeInv' /\ GradeKeeps /\ alone' = alone
    BY <1>1, <1>12, GradeStep DEF GradeGoal, GradeDone
  <2> QED
    BY <1>1, <1>3, <1>4, <1>5, <1>12, <2>1
<1> QED
  BY <1>6, <1>7, <1>8, <1>9, <1>10, <1>11, <1>12 DEF PeopleNext

LEMMA PeopleInvHolds == PeopleSpec => []PeopleInv
  BY PeopleStarts, PeopleSteps, PTL DEF PeopleSpec

\* Every table of people is of its type, for any rows, any number of handlers and
\* any scores, dates and letters.
THEOREM PeopleTyped == PeopleSpec => []PeopleTypeOK
<1>1. PeopleInv => PeopleTypeOK
  BY HireTyped, StaffTyped
     DEF PeopleInv, HireInv, StaffInv, TermInv, TermRows, BoardInv, BoardRows, TrialInv, TrialRows, GradeInv, GradeRows,
         PeopleTypeOK
<1> QED
  BY <1>1, PeopleInvHolds, PTL

\* An offer that goes out was approved by somebody else than who submitted it, and
\* an opening is FILLED when as many were hired as were needed, in whatever order it
\* is closed, reopened and hired for.
THEOREM HiredInOrderHolds == PeopleSpec => []HiredInOrder
<1>1. PeopleInv => HiredInOrder
  BY HireProper DEF PeopleInv, HireInv, HiredInOrder, H!OfferApprovedByOther, H!SlotsDecideStatus
<1> QED
  BY <1>1, PeopleInvHolds, PTL

\* The chart shows every employee but those in or below a circle of supervisors,
\* however deep it is; and the slug an article is given is never refused, however
\* many articles have its title.
THEOREM NothingLostHolds == PeopleSpec => []NothingLost
<1>1. ASSUME PeopleInv PROVE P!SlugAccepted
  <2>1. /\ TrialRows /\ (part = "probation" => \A s \in Sessions : TrialHeld(sess[s]))
        /\ part # "probation" => \A s \in Sessions : ~(sess[s].op = "add" /\ sess[s].table = "articles")
    BY <1>1, NothingElse DEF PeopleInv, TrialInv
  <2> QED
    BY <2>1, TrialSlugs
<1>2. PeopleInv => NothingLost
  BY <1>1, StaffTyped DEF PeopleInv, StaffInv, NothingLost
<1> QED
  BY <1>2, PeopleInvHolds, PTL

\* A form of different items scores at most 100.02 whatever the weights, a letter is
\* suggested exactly after three low months running, whatever came before, and
\* letters of later and later dates go up one level at a time.
THEOREM WarnedInOrderHolds == PeopleSpec => []WarnedInOrder
<1>1. ASSUME PeopleInv PROVE A!ScoreWithin
  <2>1. /\ part = "assessments" => \A s \in Sessions : GradeHeld(sess[s])
        /\ part # "assessments" => \A s \in Sessions : sess[s].op # "submit"
    BY <1>1, NothingElse DEF PeopleInv, GradeInv
  <2> QED
    BY <2>1, GradeWithin
<1>2. PeopleInv => WarnedInOrder
  BY <1>1, GradeSuggests, GradeEscalates DEF PeopleInv, GradeInv, WarnedInOrder
<1> QED
  BY <1>2, PeopleInvHolds, PTL

\* The record of a move says what happened, a contract that starts fits those of
\* its employee, the last required task completes a checklist, a probation is
\* decided once and the scores of a closed month stay.
THEOREM RecordsHoldTrue == PeopleSpec => RecordsHold
<1>1. PeopleInv /\ [PeopleNext]_peopleVars =>
        [alone /\ changes' # changes =>
           LET c == changes'[Len(changes')] IN
           IF c.kind = "MUTATION"
           THEN c.before = S!Place(employees[c.of]) /\ c.after = S!Place(employees'[c.of])
           ELSE /\ c.before = S!Rank(employees[c.of]) /\ c.after[1] = employees'[c.of].position
                /\ c.before[1] # NoKey => c.after[2] < c.before[2]]_S!staffVars
  BY PeopleSteps DEF PeopleKeeps, StaffKeeps
<1>2. PeopleInv /\ [PeopleNext]_peopleVars =>
        [alone => \A c \in Contracts : contracts[c] = C!NoRow /\ contracts'[c] # C!NoRow =>
           LET new  == contracts'[c]
               left == {d \in Contracts : contracts[d].active /\ ~contracts'[d].active}
           IN /\ new.kind = "PKWT" => new.start < new.end /\ new.end # C!Open
              /\ \A d \in left : contracts'[d].end < new.start
              /\ left = {} => \A d \in C!ActiveOf(new.of) : ~C!Meet(contracts[d], new)]_C!contractVars
  BY PeopleSteps DEF PeopleKeeps, TermKeeps
<1>3. PeopleInv /\ [PeopleNext]_peopleVars =>
        [alone => \A s \in Sessions : sess[s].op = "check" /\ sess'[s].op = "edit" =>
           \A k \in O!TasksOf(assignments[sess[s].assignment].of) :
               tasks[k].required => completions[<<sess[s].assignment, k>>] = "DONE"]_O!onboardingVars
  BY PeopleSteps DEF PeopleKeeps, BoardKeeps
<1>4. PeopleInv /\ [PeopleNext]_peopleVars =>
        [alone => \A r \in Reviews : reviews'[r] # reviews[r] /\ reviews[r] # P!NoRow =>
           /\ reviews[r].decision = "PENDING"
           /\ reviews'[r].decision = "EXTEND" => endDate'[reviews[r].of] = reviews'[r].extended]_P!probationVars
  BY PeopleSteps DEF PeopleKeeps, TrialKeeps
<1>5. PeopleInv /\ [PeopleNext]_peopleVars =>
        [alone => \A p \in Periods : periods[p] # A!NoRow /\ periods[p].closed =>
           periods'[p].closed /\ \A e \in Assessed : scores'[<<e, p>>] = scores[<<e, p>>]]_A!assessmentVars
  BY PeopleSteps DEF PeopleKeeps, GradeKeeps
<1> QED
  BY <1>1, <1>2, <1>3, <1>4, <1>5, PeopleInvHolds, PTL
     DEF PeopleSpec, RecordsHold, S!MovesAreTrue, C!NewContractsFit, O!TickCompletes, P!DecidedOnce, A!ClosedScoresStay
===============================================================================
