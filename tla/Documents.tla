------------------------------ MODULE Documents ------------------------------
(***************************************************************************)
(* The documents of a project and their versions, after backend/app/       *)
(* project/document_service.py and document_router.py.  A registration     *)
(* that asks for v1.0 is numbered after the latest one of that name; any   *)
(* other version is stored as it is asked for.  An upload stores its file  *)
(* under the name, whatever the folder, and the version that was asked for.*)
(***************************************************************************)
EXTENDS Handlers, Integers, FiniteSets, Sequences

CONSTANTS
    Names,        \* the names: <<name with _ for its spaces, its spelling and folder>>
    Asked,        \* the versions requests ask for, as 10 * major + minor
    MaxDocuments  \* bound: documents registered in a behaviour

\* documents is a sequence in the order of created_at; files are the objects in
\* storage.
VARIABLES documents, files

documentVars == <<documents, files, alone, sess>>

Default == 10     \* "v1.0", the default of the form
\* The object in storage an upload writes, whatever the folder; file_url names it,
\* or, of a registration, what that is told to.
ObjectOf(name, asked) == <<name[1], asked>>
Objects == {ObjectOf(name, asked) : name \in Names, asked \in Asked}
Row == [name: Names, version: Nat, asked: Asked, file: Objects, live: BOOLEAN]

TypeOK ==
    /\ \A d \in DOMAIN documents : documents[d] \in Row
    /\ DOMAIN documents \subseteq 1 .. MaxDocuments
Init == documents = << >> /\ files = {} /\ AllIdle
-----------------------------------------------------------------------------
\* list_versions: with the deleted ones, the latest first.
VersionsLive(name) == {d \in DOMAIN documents : documents[d].name = name /\ documents[d].live}
Versions(name) == {d \in DOMAIN documents : documents[d].name = name}
Bump(version) == version + 1     \* _bump_version: the next minor
\* The version register_document gives: the latest one's successor, if there is one.
NextVersion(name, asked) ==
    IF asked = Default /\ Versions(name) # {}
    THEN Bump(documents[CHOOSE d \in Versions(name) : \A e \in Versions(name) : e <= d].version)
    ELSE asked

NewRow(name, asked, file) ==
    [name |-> name, version |-> NextVersion(name, asked), asked |-> asked, file |-> file, live |-> TRUE]
\* POST .../documents: of any object, there or not.
Register(s, name, asked, file) ==
    Add(s, "documents", NewRow(name, asked, file)) /\ UNCHANGED <<documents, files>>
\* POST .../documents/upload: the file is stored before the row is registered.
Upload(s, name, asked) ==
    /\ Begin(s, [op |-> "stored", name |-> name, asked |-> asked])
    /\ files' = files \cup {ObjectOf(name, asked)} /\ UNCHANGED documents
UploadRegister(s) ==
    /\ sess[s].op = "stored"
    /\ LET name == sess[s].name  asked == sess[s].asked IN
       Go(s, [op |-> "add", table |-> "documents", new |-> NewRow(name, asked, ObjectOf(name, asked))])
    /\ UNCHANGED <<documents, files>>
Insert(s) ==
    /\ Adding(s, "documents") /\ Len(documents) < MaxDocuments
    /\ documents' = Append(documents, sess[s].new)
    /\ Finish(s) /\ UNCHANGED files

\* soft_delete_document: the row, and then the object, whoever else refers to it.
Delete(s, d) ==
    /\ documents[d].live
    /\ Edit(s, "documents", d, documents[d], [documents[d] EXCEPT !.live = FALSE])
    /\ UNCHANGED <<documents, files>>
DeleteCommit(s) ==
    /\ Editing(s, "documents") /\ documents' = Edited(s, documents)
    /\ Go(s, [op |-> "cleanup", object |-> sess[s].seen.file])
    /\ UNCHANGED files
Cleanup(s) ==
    /\ sess[s].op = "cleanup" /\ files' = files \ {sess[s].object}
    /\ Finish(s) /\ UNCHANGED documents

Step(s) ==
    \/ \E n \in Names, asked \in Asked :
          Upload(s, n, asked) \/ \E file \in Objects : Register(s, n, asked, file)
    \/ \E d \in DOMAIN documents : Delete(s, d)
    \/ UploadRegister(s) \/ Insert(s) \/ DeleteCommit(s) \/ Cleanup(s)
    \/ Abort(s) /\ UNCHANGED <<documents, files>>
Next == \E s \in Sessions : Step(s)
Spec == Init /\ [][Next]_documentVars
-----------------------------------------------------------------------------
\* As long as nobody chooses a version, handlers that do not overlap number the
\* versions of a name without repeating one, those of deleted versions included.
VersionsUnique ==
    alone => \A d, e \in DOMAIN documents :
        d < e /\ documents[d].name = documents[e].name
        /\ (\A k \in Versions(documents[d].name) : documents[k].asked = Default)
        => documents[d].version < documents[e].version

\* A live version whose file is in storage keeps it (soft_delete_document: "cleanup
\* MinIO object").  False of the code: see the README.
LiveHaveFiles ==
    [][alone => \A d \in DOMAIN documents :
        documents[d].live /\ documents[d].file \in files => documents[d].file \in files']_documentVars
=============================================================================
