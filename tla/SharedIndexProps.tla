-------------------------- MODULE SharedIndexProps --------------------------
(***************************************************************************)
(* What is claimed of SharedIndex.                                         *)
(***************************************************************************)
EXTENDS SharedIndex

\* Every variable holds what its declaration says.
TypeOK ==
    /\ schema \in Schemas \cup {None}
    /\ published \in Seq(SUBSET Docs)
    /\ lock \in Sessions \cup {None}
    /\ table \in [Processes -> [Handles -> IndexStates \cup {None}]]
    /\ nextHandle \in [Processes -> 1 .. MaxHandles + 1]
    /\ client \in [Processes -> [Handles -> Clients \cup {None}]]
    /\ committing \in [Processes -> 0 .. MaxHandles]
    /\ starting \in [Processes -> 0 .. MaxHandles]
    /\ reply \in [Processes -> [call : {"none", "open", "invalid", "write", "commit", "close"},
                                handle : 0 .. MaxHandles,
                                outcome : {"none", "ok", "error", "busy"}]]
    /\ stamp \in 0 .. MaxStamps

\* The session has a writer, or is making one that will fail.
HoldsLock(p, h) == HasWriter(p, h) \/ starting[p] = h

(***************************************************************************)
(* The lock file and the tables of all the processes agree: the session    *)
(* the lock is recorded for is the one session that caches a writer or is  *)
(* making one.  So there is never a second writer on the directory, and    *)
(* never a lock whose holder was closed, freed or died, or failed to make  *)
(* its writer (writer.rs ensure_writer, registry.rs close, lib.rs Drop).   *)
(***************************************************************************)
WriterLockConsistent ==
    \A p \in Processes, h \in Handles : HoldsLock(p, h) <=> lock = <<p, h>>

(***************************************************************************)
(* No leak: a state is in a process's table only while the PHP object that *)
(* can close it is alive (lib.rs, the comment on Drop).                    *)
(***************************************************************************)
NoOrphanState ==
    \A p \in Processes, h \in Handles : IsOpen(p, h) => client[p][h] # None

(***************************************************************************)
(* When a process's last call was a commit that succeeded, the session's   *)
(* writer has nothing left to lose and its reader shows the very commit    *)
(* that is on disk, whatever other processes did since (ClientInterface    *)
(* commit: "durable and visible to searches").                             *)
(***************************************************************************)
CommitMakesDurable ==
    \A p \in Processes, h \in Handles :
        /\ reply[p] = [call |-> "commit", handle |-> h, outcome |-> "ok"]
        /\ committing[p] = 0
        /\ HasWriter(p, h)
        => /\ table[p][h].writer = EmptyBuffer
           /\ table[p][h].reader = Len(published)

\* p writes through h in this step, and is answered `outcome`.
WriteStep(p, h, outcome) ==
    /\ reply'[p] = [call |-> "write", handle |-> h, outcome |-> outcome]
    /\ \/ \E d \in Documents : AddDocument(p, h, d)
       \/ \E k \in Keys : DeleteById(p, h, k[1], k[2])
       \/ \E k \in Keys, d \in Documents : UpdateDocument(p, h, k[1], k[2], d)
       \/ WriterFails(p, h)

(***************************************************************************)
(* "Busy" is never a session's own doing: a write is answered with the     *)
(* WRITER_LOCKED_PREFIX only while another session has a writer or, for    *)
(* the moment in which that fails, is making one; and it changes nothing   *)
(* of the index (writer.rs ensure_writer).                                 *)
(***************************************************************************)
BusyMeansContended ==
    [][\A p \in Processes, h \in Handles : WriteStep(p, h, "busy") =>
          /\ \E s \in Sessions \ {<<p, h>>} : HoldsLock(s[1], s[2])
          /\ UNCHANGED <<schema, published, lock, table, stamp>>]_vars

(***************************************************************************)
(* A handle is never handed out while an object of that process still      *)
(* holds it, closed or not: closing or freeing an old object cannot close  *)
(* the index of a newer one (registry.rs NEXT_HANDLE, lib.rs Drop).        *)
(***************************************************************************)
FreshHandle ==
    [][\A p \in Processes, h \in Handles :
          ~IsOpen(p, h) /\ IsOpen(p, h)' => client[p][h] = None]_vars

\* The session that has a writer; one that fails to make its writer never is.
WriterSession == IF lock # None /\ HasWriter(lock[1], lock[2]) THEN lock ELSE None

\* What a commit of that writer would publish.
PendingDocs ==
    IF WriterSession = None THEN CurrentDocs
    ELSE Committed(schema, CurrentDocs, BufferOf(WriterSession[1], WriterSession[2]))

(***************************************************************************)
(* A write that throws leaves what the next commit will publish as it was  *)
(* (ClientInterface: "delete-by-term + add in one batch").                 *)
(***************************************************************************)
FailedWriteKeepsPending ==
    [][\A p \in Processes, h \in Handles :
          WriteStep(p, h, "error") \/ WriteStep(p, h, "busy") => UNCHANGED PendingDocs]_vars

(***************************************************************************)
(* A session takes the lock only by a write with acceptable arguments: one *)
(* whose key field or document is refused leaves the lock to others        *)
(* (writer.rs: "ANTES de tocar el writer").  And it caches a writer only   *)
(* if its heap is enough for one (writer.rs ensure_writer).                *)
(***************************************************************************)
RejectedWriteTakesNoLock ==
    [][\A p \in Processes, h \in Handles :
          /\ ~HoldsLock(p, h) /\ HoldsLock(p, h)' =>
                \/ \E d \in Documents \ {None} : AddDocument(p, h, d)
                \/ \E k \in Keys : FieldIsExactKey(schema, k[1]) /\
                      \/ DeleteById(p, h, k[1], k[2])
                      \/ \E d \in Documents \ {None} : UpdateDocument(p, h, k[1], k[2], d)
          /\ ~HasWriter(p, h) /\ HasWriter(p, h)' => table[p][h].heapOk]_vars

\* The document's field k[1] holds exactly k[2].
Carries(doc, k) == k[1] \in DOMAIN doc.fields /\ doc.fields[k[1]] = k[2]

(***************************************************************************)
(* A write that returns acts, in what the next commit will publish, on     *)
(* exactly the documents whose key field holds the value: a delete removes *)
(* them and no other, an update leaves the one new document in their       *)
(* place, an add keeps everything (writer.rs resolve_key_field, the buffer *)
(* order of delete_term and add_document).                                 *)
(***************************************************************************)
WritesTakeEffect ==
    [][\A p \in Processes, h \in Handles : WriteStep(p, h, "ok") =>
          /\ \A d \in Documents : AddDocument(p, h, d) =>
                PendingDocs' = PendingDocs \cup
                    {[stamp |-> stamp', fields |-> ParseDoc(schema, d)]}
          /\ \A k \in Keys :
                /\ DeleteById(p, h, k[1], k[2]) =>
                      PendingDocs' = {doc \in PendingDocs : ~Carries(doc, k)}
                /\ \A d \in Documents : UpdateDocument(p, h, k[1], k[2], d) =>
                      PendingDocs' = {doc \in PendingDocs : ~Carries(doc, k)} \cup
                          {[stamp |-> stamp', fields |-> ParseDoc(schema, d)]}]_vars

(***************************************************************************)
(* Whatever fails, a write that throws costs what the next commit will     *)
(* publish at most the documents that its own update was to replace, and   *)
(* that only once the arguments were accepted (writer.rs update_document,  *)
(* add_document failing after delete_term).                                *)
(***************************************************************************)
FailedWriteLosesNoOthers ==
    [][\A p \in Processes, h \in Handles :
          WriteStep(p, h, "error") \/ WriteStep(p, h, "busy") =>
             \/ UNCHANGED PendingDocs
             \/ \E k \in Keys, d \in Documents \ {None} :
                   /\ FieldIsExactKey(schema, k[1])
                   /\ UpdateDocument(p, h, k[1], k[2], d)
                   /\ PendingDocs' = {doc \in PendingDocs : ~Carries(doc, k)}]_vars

(***************************************************************************)
(* An index that could be opened can be used: its schema declares no name  *)
(* twice, and every live client's id field is in it, whatever configs the  *)
(* processes tried before (registry.rs register_state, schema.rs           *)
(* build_schema).                                                          *)
(***************************************************************************)
IndexIsUsable ==
    /\ schema # None => ~DeclaredTwice(schema)
    /\ \A p \in Processes, h \in Handles :
          client[p][h] # None => HasField(schema, client[p][h].idField)

(***************************************************************************)
(* A handle opened read-only never becomes the writer of the index         *)
(* (registry.rs open_read_only: a search never mutates the index).         *)
(***************************************************************************)
ReadOnlyNeverWrites ==
    \A p \in Processes, h \in Handles :
        client[p][h] # None /\ client[p][h].mode = "ro" => ~HasWriter(p, h)

(***************************************************************************)
(* An index is only handed out for an id field that can serve as a key     *)
(* (README: id_field "Must be one of fields.keys").                        *)
(***************************************************************************)
IdFieldIsAKey ==
    \A p \in Processes, h \in Handles :
        client[p][h] # None => FieldIsExactKey(schema, client[p][h].idField)

(***************************************************************************)
(* The client interface's promise: for its clients, the buffers, stamps,   *)
(* terms and lock file are a store with one writer's view and atomic       *)
(* publication.                                                            *)
(***************************************************************************)
SessionSees ==
    [s \in {open \in Sessions : IsOpen(open[1], open[2])} |-> Shown(s[1], s[2])]

\* What a document passed by a client can become.
StoredContents == {ParseDoc(s, d) : s \in Schemas, d \in Documents \ {None}}

Store == INSTANCE NrtStore WITH
    Documents <- [stamp : 1 .. MaxStamps, fields : StoredContents],
    docs      <- CurrentDocs,
    writer    <- WriterSession,
    view      <- PendingDocs,
    seen      <- SessionSees

ImplementsNrtStore == Store!Spec

(***************************************************************************)
(* Every open reader catches up with every commit, of whatever process,    *)
(* unless it is closed first (registry.rs ReloadPolicy::OnCommitWithDelay).*)
(***************************************************************************)
ReaderCatchesUp ==
    \A p \in Processes, h \in Handles, n \in 1 .. MaxCommits + 1 :
        IsOpen(p, h) /\ Len(published) >= n
            ~> ~IsOpen(p, h) \/ table[p][h].reader >= n

(***************************************************************************)
(* Contention is transient: a session that took the writer lock gives it   *)
(* back (IndexBusyException: "a transient contention condition").          *)
(***************************************************************************)
LockIsReleased ==
    \A s \in Sessions : lock = s ~> lock # s
=============================================================================
