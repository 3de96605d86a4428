------------------------------ MODULE OneIndex ------------------------------
(***************************************************************************)
(* What opening promises (php/src/ClientInterface.php, README "fixed for   *)
(* the life of the index directory"): a directory comes to hold one index, *)
(* once; its schema never changes, its committed documents stay, and       *)
(* whoever opens it works with that schema.                                *)
(***************************************************************************)
CONSTANTS Processes,
          Schemas,       \* the schemas an index can be created with
          Documents,
          InitialIndexes,
          None           \* no index, not open

VARIABLES index,   \* the schema and the documents, or None
          open     \* open[p]: the schema p works with, or None

vars == <<index, open>>

Init ==
    /\ index \in InitialIndexes
    /\ open = [p \in Processes |-> None]

Create ==
    /\ index = None
    /\ \E schema \in Schemas : index' = [schema |-> schema, docs |-> {}]
    /\ UNCHANGED open

Open(p) ==
    /\ index # None
    /\ open' = [open EXCEPT ![p] = index.schema]
    /\ UNCHANGED index

Commit(p, d) ==
    /\ open[p] # None
    /\ index' = [index EXCEPT !.docs = @ \cup {d}]
    /\ UNCHANGED open

Leave(p) ==
    /\ open' = [open EXCEPT ![p] = None]
    /\ UNCHANGED index

Next ==
    \/ Create
    \/ \E p \in Processes :
          \/ Open(p)
          \/ \E d \in Documents : Commit(p, d)
          \/ Leave(p)

Spec == Init /\ [][Next]_vars
=============================================================================
