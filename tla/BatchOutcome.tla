---------------------------- MODULE BatchOutcome ----------------------------
(***************************************************************************)
(* What a batch RPC promises its caller about a parent job and its         *)
(* children, with no account of who aggregates them, when, or from which   *)
(* snapshots: the decision of refresh_terminal_parent                      *)
(* (orchestrator/job_tracker.rs) taken in one atomic step.                 *)
(***************************************************************************)
EXTENDS Naturals, Sequences

CONSTANT Children

VARIABLES
    parent,                 \* "absent", "Running", "Completed" or "Failed"
    children,               \* the child ids of the parent, in admission order
    state                   \* child -> "absent", "Queued", "Running", ...

vars == <<parent, children, state>>

Final == {"Completed", "Failed"}

Admitted == {children[i] : i \in DOMAIN children}

Init ==
    /\ parent = "absent"
    /\ children = <<>>
    /\ state = [c \in Children |-> "absent"]

Open ==
    /\ parent = "absent"
    /\ parent' = "Running"
    /\ UNCHANGED <<children, state>>

Admit(c) ==
    /\ parent = "Running"
    /\ c \notin Admitted
    /\ children' = Append(children, c)
    /\ state' = [state EXCEPT ![c] = "Queued"]
    /\ UNCHANGED parent

(* A child advances on its own, whatever the parent's state.               *)
Advance(c, s) ==
    /\ c \in Admitted
    /\ state[c] \notin Final
    /\ state' = [state EXCEPT ![c] = s]
    /\ UNCHANGED <<parent, children>>

(* Every child completed.                                                  *)
Complete ==
    /\ parent = "Running"
    /\ children # <<>>
    /\ \A c \in Admitted : state[c] = "Completed"
    /\ parent' = "Completed"
    /\ UNCHANGED <<children, state>>

(* Every child is final and one failed, or no child was admitted.          *)
Fail ==
    /\ parent = "Running"
    /\ \A c \in Admitted : state[c] \in Final
    /\ children # <<>> => \E c \in Admitted : state[c] = "Failed"
    /\ parent' = "Failed"
    /\ UNCHANGED <<children, state>>

Next ==
    \/ Open \/ Complete \/ Fail
    \/ \E c \in Children : Admit(c) \/ \E s \in {"Running"} \cup Final : Advance(c, s)

Spec == Init /\ [][Next]_vars

=============================================================================
