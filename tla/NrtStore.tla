------------------------------ MODULE NrtStore ------------------------------
(***************************************************************************)
(* What the client interface promises of an index directory                *)
(* (php/src/ClientInterface.php): a near-real-time store.                  *)
(*                                                                         *)
(* There is one set of committed documents.  At most one session writes at *)
(* a time; its writes act at once on its own view, which nobody sees, and  *)
(* which becomes the committed set when it publishes and is forgotten when *)
(* it leaves.  Deleting and replacing go by exact equality of a field.     *)
(* Every session reads some committed set, and is moved only to the        *)
(* current one.                                                            *)
(*                                                                         *)
(* There is no buffer here, no stamp, no schema, no lock file and no       *)
(* handle: module SharedIndex is shown to implement this one.              *)
(***************************************************************************)
CONSTANTS Sessions,    \* who can open the index
          Documents,   \* records with `fields`, a function from names to values
          Names,       \* the fields deletes and replacements go by
          Values,      \* the values they look for
          None

VARIABLES docs,     \* the committed documents
          writer,   \* the session that writes, or None
          view,     \* what `writer` has made of docs; docs when nobody writes
          seen      \* seen[s], for each session s that is open: the committed set it reads

vars == <<docs, writer, view, seen>>

Init ==
    /\ docs = {}
    /\ writer = None
    /\ view = {}
    /\ seen = [s \in {} |-> {}]

Open(s) ==
    /\ s \notin DOMAIN seen
    /\ seen' = [t \in DOMAIN seen \cup {s} |-> IF t = s THEN docs ELSE seen[t]]
    /\ UNCHANGED <<docs, writer, view>>

\* s becomes the writer, or goes on writing: never while another one is.
Writing(s) ==
    /\ s \in DOMAIN seen
    /\ writer \in {None, s}
    /\ writer' = s
    /\ UNCHANGED <<docs, seen>>

\* A write that has no effect on the view (a failed one, or a delete of nothing).
Touch(s) == Writing(s) /\ UNCHANGED view

Add(s, d) == Writing(s) /\ d \notin view /\ view' = view \cup {d}

Without(f, v) == {d \in view : ~(f \in DOMAIN d.fields /\ d.fields[f] = v)}

Delete(s, f, v) == Writing(s) /\ view' = Without(f, v)

Replace(s, f, v, d) == Writing(s) /\ d \notin view /\ view' = Without(f, v) \cup {d}

Publish(s) ==
    /\ writer = s
    /\ docs' = view
    /\ UNCHANGED <<writer, view, seen>>

\* A failed publication may cost the writer additions, never committed documents.
FailToPublish(s) ==
    /\ writer = s
    /\ view' \in SUBSET view
    /\ view \cap docs \subseteq view'
    /\ UNCHANGED <<docs, writer, seen>>

Refresh(s) ==
    /\ s \in DOMAIN seen
    /\ seen' = [seen EXCEPT ![s] = docs]
    /\ UNCHANGED <<docs, writer, view>>

\* Some sessions close, or die: what the writer among them did not publish is lost.
Leave(S) ==
    /\ seen' = [s \in DOMAIN seen \ S |-> seen[s]]
    /\ IF writer \in S
       THEN writer' = None /\ view' = docs
       ELSE UNCHANGED <<writer, view>>
    /\ UNCHANGED docs

Next ==
    \/ \E s \in Sessions :
          \/ Open(s) \/ Touch(s) \/ Publish(s) \/ FailToPublish(s) \/ Refresh(s)
          \/ \E d \in Documents : Add(s, d)
          \/ \E f \in Names, v \in Values :
                \/ Delete(s, f, v)
                \/ \E d \in Documents : Replace(s, f, v, d)
    \/ \E S \in SUBSET Sessions : Leave(S)

Spec == Init /\ [][Next]_vars
=============================================================================
