--------------------------- MODULE Notifications ---------------------------
(***************************************************************************)
(* What a NotifyTargetSet promises the models that use it, without copies  *)
(* or lock counts: a notification goes to the targets there were when it   *)
(* began, each once and in order, whatever the targets it calls add,       *)
(* remove or notify meanwhile; and a change takes effect for every         *)
(* notification that begins later.                                         *)
(***************************************************************************)
EXTENDS Naturals, Sequences

CONSTANTS Targets, MaxDepth

VARIABLES
    targets,    \* the targets, in the order they were added
    running     \* the notifications under way, the innermost last

vars == <<targets, running>>

Init == targets = << >> /\ running = << >>

Listed(list, t) == \E i \in 1..Len(list) : list[i] = t

Without(list, t) ==
    LET i == CHOOSE i \in 1..Len(list) : list[i] = t
    IN  SubSeq(list, 1, i - 1) \o SubSeq(list, i + 1, Len(list))

Add(t) ==
    /\ ~Listed(targets, t)
    /\ targets' = Append(targets, t)
    /\ UNCHANGED running

Remove(t) ==
    /\ Listed(targets, t)
    /\ targets' = Without(targets, t)
    /\ UNCHANGED running

Clear == targets' = << >> /\ UNCHANGED running

Begin ==
    /\ targets # << >> /\ Len(running) < MaxDepth
    /\ running' = Append(running, [list |-> targets, next |-> 1])
    /\ UNCHANGED targets

Top == running[Len(running)]

Deliver ==
    /\ running # << >> /\ Top.next <= Len(Top.list)
    /\ running' = [running EXCEPT ![Len(running)] =
                       [list |-> Top.list, next |-> Top.next + 1]]
    /\ UNCHANGED targets

End ==
    /\ running # << >> /\ Top.next > Len(Top.list)
    /\ running' = SubSeq(running, 1, Len(running) - 1)
    /\ UNCHANGED targets

Next ==
    \/ \E t \in Targets : Add(t) \/ Remove(t)
    \/ Clear \/ Begin \/ Deliver \/ End

Spec == Init /\ [][Next]_vars
=============================================================================
