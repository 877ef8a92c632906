----------------------------- MODULE GuestMemory -----------------------------
(***************************************************************************)
(* What kernel/kload.c promises of guest memory to the processes that map  *)
(* it: memory is filled, then finished, then retired, and goes back to the *)
(* host at once or when the last process that maps it has let go; only     *)
(* finished memory is mapped for the first time.  KernelLoad implements    *)
(* this specification.                                                     *)
(***************************************************************************)
CONSTANT Users     \* handles that may map guest memory

VARIABLES state,   \* "none", "filling", "finished", "retired"
          lessees  \* the users with a page of it in their process

vars == <<state, lessees>>

Init == state = "none" /\ lessees = {}

Fill == state = "none" /\ state' = "filling" /\ UNCHANGED lessees

Finish == state = "filling" /\ state' = "finished" /\ UNCHANGED lessees

Retire == state = "finished" /\ state' = "retired" /\ UNCHANGED lessees

Free == state # "none" /\ lessees = {} /\ state' = "none" /\ UNCHANGED lessees

\* A user that reserved finished memory may map it after it was retired.
Lease(u) == state \in {"finished", "retired"} /\ lessees' = lessees \cup {u}
            /\ UNCHANGED state

Return(u) == lessees' = lessees \ {u} /\ UNCHANGED state

Next == Fill \/ Finish \/ Retire \/ Free
        \/ \E u \in Users : Lease(u) \/ Return(u)

Spec == Init /\ [][Next]_vars
=============================================================================
