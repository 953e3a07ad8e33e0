---------------------------- MODULE TaskService ----------------------------
(***************************************************************************)
(* What IThreadPool promises its callers, without threads, queues or       *)
(* condition variables: a task is accepted or, once the pool is closing,   *)
(* refused; an accepted task is started at most once, not before its time  *)
(* and not after the pool began to close; it is dropped only when the pool *)
(* is closing.                                                             *)
(***************************************************************************)
EXTENDS Naturals

CONSTANTS Tasks, MaxTime

VARIABLES fate, due, clock, closing

vars == <<fate, due, clock, closing>>

Init ==
    /\ fate = [t \in Tasks |-> "new"]
    /\ due = [t \in Tasks |-> 0]
    /\ clock = 0
    /\ closing = FALSE

Accept(t) ==
    /\ fate[t] = "new" /\ ~closing
    /\ fate' = [fate EXCEPT ![t] = "accepted"]
    /\ \E when \in clock..MaxTime : due' = [due EXCEPT ![t] = when]
    /\ UNCHANGED <<clock, closing>>

Finish(t, from, to) ==
    /\ fate[t] = from
    /\ fate' = [fate EXCEPT ![t] = to]
    /\ UNCHANGED <<due, clock, closing>>

Refuse(t) == closing /\ Finish(t, "new", "refused")
Start(t) == ~closing /\ due[t] <= clock /\ Finish(t, "accepted", "started")
Drop(t) == closing /\ Finish(t, "accepted", "dropped")

Close == closing' = TRUE /\ UNCHANGED <<fate, due, clock>>

Tick == clock' = clock + 1 /\ UNCHANGED <<fate, due, closing>>

Next ==
    \/ \E t \in Tasks : Accept(t) \/ Refuse(t) \/ Start(t) \/ Drop(t)
    \/ Close
    \/ Tick

Spec == Init /\ [][Next]_vars
=============================================================================
