-------------------------- MODULE NotifyTargetSet --------------------------
(***************************************************************************)
(* The list of targets that a model notifies (devkit/data/NotifyTargetSet) *)
(* under the notifications that run over it.  A notification locks the     *)
(* list and iterates it; the targets it calls add and remove targets and   *)
(* cause nested notifications.  A locked list is not changed: the first    *)
(* change clones it into a node of its own in front of the locked one.     *)
(*                                                                         *)
(* The nodes are cells of a heap, so that a node that is freed and         *)
(* allocated again is the same cell.  A notification holds iterators into  *)
(* the list of the node it locked and does not know the node: Unlock finds *)
(* the lock to release by looking at the first two nodes only.             *)
(***************************************************************************)
EXTENDS Integers, Sequences, FiniteSets

CONSTANTS
    Targets,    \* the objects that are notified
    Nodes,      \* the memory of TargetListNodes
    MaxDepth    \* bound on the nesting of notifications

ASSUME DepthAssumption == MaxDepth \in Nat

VARIABLES
    node,       \* vTargetList and nLockCount of each TargetListNode
    chain,      \* m_pTargetList and the pNext that follow it, m_pTargetList LAST
    running     \* the iterators of the notifications, the innermost last

vars == <<node, chain, running>>

Freed == [list |-> << >>, locks |-> 0]

Init ==
    /\ node = [n \in Nodes |-> Freed]
    /\ chain = << >>
    /\ running = << >>

Free == {n \in Nodes : \A k \in 1..Len(chain) : chain[k] # n}
First == chain[Len(chain)]
Listed(list, t) == \E i \in 1..Len(list) : list[i] = t

IsEmpty == chain = << >> \/ node[First].list = << >>

-----------------------------------------------------------------------------
(* Changes.  EnsureMutable and the change that follows it are one step.    *)

\* Variant: the list is changed in place although a notification iterates it.
ReplaceInPlace(list) ==
    /\ node' = [node EXCEPT ![First].list = list]
    /\ UNCHANGED chain

\* Variant: a node that is cloned goes behind the older ones, not in front.
ReplaceLinksLast(list) ==
    \/ /\ node[First].locks = 0
       /\ node' = [node EXCEPT ![First].list = list]
       /\ UNCHANGED chain
    \/ /\ node[First].locks # 0
       /\ \E n \in Free :
             /\ node' = [node EXCEPT ![n] = [list |-> list, locks |-> 0]]
             /\ chain' = <<First>> \o SubSeq(chain, 1, Len(chain) - 1) \o <<n>>

\* EnsureMutable, and then the list of the first node becomes `list`
Replace(list) ==
    \/ /\ node[First].locks = 0
       /\ node' = [node EXCEPT ![First].list = list]
       /\ UNCHANGED chain
    \/ /\ node[First].locks # 0
       /\ \E n \in Free :
             /\ node' = [node EXCEPT ![n] = [list |-> list, locks |-> 0]]
             /\ chain' = Append(chain, n)

Add(t) ==
    /\ \/ /\ chain = << >>
          /\ \E n \in Free :
                /\ node' = [node EXCEPT ![n] = [list |-> <<t>>, locks |-> 0]]
                /\ chain' = <<n>>
       \/ /\ chain # << >> /\ ~Listed(node[First].list, t)
          /\ Replace(Append(node[First].list, t))
    /\ UNCHANGED running

Without(list, t) ==
    LET i == CHOOSE i \in 1..Len(list) : list[i] = t
    IN  SubSeq(list, 1, i - 1) \o SubSeq(list, i + 1, Len(list))

Remove(t) ==
    /\ chain # << >> /\ Listed(node[First].list, t)
    /\ Replace(Without(node[First].list, t))
    /\ UNCHANGED running

Clear ==
    /\ chain # << >>
    /\ Replace(<< >>)
    /\ UNCHANGED running

-----------------------------------------------------------------------------
(* A notification: LockIfNotEmpty, the loop over Targets(), Unlock.         *)

Begin ==
    /\ ~IsEmpty /\ Len(running) < MaxDepth
    /\ node' = [node EXCEPT ![First].locks = @ + 1]
    /\ running' = Append(running, [in |-> First, next |-> 1,
                                   end |-> Len(node[First].list)])
    /\ UNCHANGED chain

Top == running[Len(running)]

\* the target at the iterator is called and the iterator advanced
Deliver ==
    /\ running # << >> /\ Top.next <= Top.end
    /\ running' = [running EXCEPT ![Len(running)].next = @ + 1]
    /\ UNCHANGED <<node, chain>>

\* Variant: the first node is taken to hold the lock.
ReleaseFirst ==
    /\ node' = [node EXCEPT ![First].locks = @ - 1]
    /\ UNCHANGED chain

\* Variant: a copy is kept when its last lock is released.
ReleaseKeepsCopy ==
    LET holder == IF node[First].locks > 0 THEN First ELSE chain[Len(chain) - 1]
    IN  /\ node' = [node EXCEPT ![holder].locks = @ - 1]
        /\ UNCHANGED chain

\* Variant: a copy goes as soon as one of its locks is released.
ReleaseDropsCopy ==
    \/ /\ node[First].locks > 0
       /\ node' = [node EXCEPT ![First].locks = @ - 1]
       /\ UNCHANGED chain
    \/ /\ node[First].locks = 0
       /\ node' = [node EXCEPT ![chain[Len(chain) - 1]] = Freed]
       /\ chain' = SubSeq(chain, 1, Len(chain) - 2) \o <<First>>

\* With one unlocked node Unlock does nothing; LocksOwned excludes the case.
Release ==
    \/ /\ node[First].locks > 0
       /\ node' = [node EXCEPT ![First].locks = @ - 1]
       /\ UNCHANGED chain
    \/ /\ node[First].locks = 0 /\ Len(chain) > 1
       /\ LET next == chain[Len(chain) - 1] IN
          \/ /\ node[next].locks # 1
             /\ node' = [node EXCEPT ![next].locks = @ - 1]
             /\ UNCHANGED chain
          \/ /\ node[next].locks = 1
             /\ node' = [node EXCEPT ![next] = Freed]
             /\ chain' = [k \in 1..Len(chain) - 1 |->
                             IF k = Len(chain) - 1 THEN First ELSE chain[k]]

\* Unlock, after the iterator has reached the end
End ==
    /\ running # << >> /\ Top.next > Top.end
    /\ Release
    /\ running' = SubSeq(running, 1, Len(running) - 1)

Next ==
    \/ \E t \in Targets : Add(t) \/ Remove(t)
    \/ Clear \/ Begin \/ Deliver \/ End

Spec == Init /\ [][Next]_vars

-----------------------------------------------------------------------------
Node == [list : Seq(Targets), locks : Nat]
Iterator == [in : Nodes, next : Nat, end : Nat]

\* Nodes, the list of nodes and the iterators are well formed: in particular no
\* lock count becomes negative.
TypeOK ==
    /\ node \in [Nodes -> Node]
    /\ chain \in Seq(Nodes)
    /\ running \in Seq(Iterator)

\* the notifications of `run` that iterate a node
Holders(run, n) == {i \in 1..Len(run) : run[i].in = n}

\* A node that a notification iterates is one of the list's, and the locks of
\* each node are those of the notifications that iterate it.
LocksOwned ==
    /\ \A i \in 1..Len(running) : \E k \in 1..Len(chain) : chain[k] = running[i].in
    /\ \A k \in 1..Len(chain) :
          node[chain[k]].locks = Cardinality(Holders(running, chain[k]))

\* A copy lives no longer than the notifications that iterate it: every node but
\* the first is locked, so that at rest there is one list, unlocked.
CopiesReleased ==
    \A k \in 1..Len(chain) - 1 : Holders(running, chain[k]) # {}

\* The nodes are locked from the inside out: a notification that began later
\* iterates the same list or a newer one.  This is what lets Unlock look at the
\* first two nodes only.
LocksNested ==
    \A i, j \in 1..Len(running) : i <= j =>
        \A k, l \in 1..Len(chain) :
            chain[k] = running[i].in /\ chain[l] = running[j].in => k <= l

\* Each notification goes over the list it locked, whatever happens meanwhile:
\* the copies and lock counts implement Notifications.
Promise == INSTANCE Notifications WITH
    targets <- IF chain = << >> THEN << >> ELSE node[First].list,
    running <- [i \in 1..Len(running) |->
                   [list |-> node[running[i].in].list, next |-> running[i].next]]

ImplementsNotifications == Promise!Spec
=============================================================================
