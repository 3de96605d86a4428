---------------------------- MODULE HandleTable ----------------------------
(***************************************************************************)
(* What the registry promises: a map from handles to open indexes.  A      *)
(* handle is given out once and never again, an operation works on the     *)
(* index as the operation before it left it, and a closed handle stays     *)
(* closed.  Nothing here waits, locks or panics.                           *)
(***************************************************************************)
CONSTANTS Handles,
          Threads,
          None      \* not open

VARIABLES contents,   \* contents[h]: whose operations the index of h bears, or None
          given       \* the handles given out so far

vars == <<contents, given>>

Init ==
    /\ contents = [h \in Handles |-> None]
    /\ given = {}

Insert(h) ==
    /\ h \notin given
    /\ given' = given \cup {h}
    /\ contents' = [contents EXCEPT ![h] = {}]

Operate(h, t) ==
    /\ contents[h] # None
    /\ contents' = [contents EXCEPT ![h] = @ \cup {t}]
    /\ UNCHANGED given

Remove(h) ==
    /\ contents' = [contents EXCEPT ![h] = None]
    /\ UNCHANGED given

Next == \E h \in Handles : Insert(h) \/ Remove(h) \/ \E t \in Threads : Operate(h, t)

Spec == Init /\ [][Next]_vars
=============================================================================
