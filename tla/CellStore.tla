----------------------------- MODULE CellStore -----------------------------
(***************************************************************************)
(* What internal/core/engine/session_state.go promises its clients: the    *)
(* session state is a set of cells, an edit stays private until it is      *)
(* committed, and a commit replaces exactly the cells that were edited, in *)
(* one step.  SessionState implements this.                                *)
(***************************************************************************)
CONSTANTS Procs, Cells, Absent

VARIABLES
    store,    \* the value of each cell
    pending   \* for each process, a function from the cells it has edited

Nothing == [c \in {} |-> Absent]

Init ==
    /\ store = [c \in Cells |-> Absent]
    /\ pending = [p \in Procs |-> Nothing]

\* A process edits cells, or gives up edits it has not committed.
Edit(p) ==
    /\ DOMAIN pending' = Procs
    /\ DOMAIN pending'[p] \subseteq Cells
    /\ \A q \in Procs \ {p} : pending'[q] = pending[q]
    /\ UNCHANGED store

Commit(p) ==
    /\ store' = [c \in Cells |-> IF c \in DOMAIN pending[p] THEN pending[p][c]
                                 ELSE store[c]]
    /\ pending' = [pending EXCEPT ![p] = Nothing]

Next == \E p \in Procs : Edit(p) \/ Commit(p)

Spec == Init /\ [][Next]_<<store, pending>>
=============================================================================
