----------------------- MODULE NotifyTargetSetProofs -----------------------
(***************************************************************************)
(* Proofs about NotifyTargetSet for any targets, any memory and any depth  *)
(* of nesting: the locks are those of the notifications under way, and the *)
(* copies and locks implement Notifications.                               *)
(***************************************************************************)
EXTENDS NotifyTargetSet, FiniteSetTheorems, SequenceTheorems, TLAPS

\* No node is twice in the list of nodes.
Distinct ==
    \A k, l \in 1..Len(chain) : chain[k] = chain[l] => k = l

\* An iterator's end is the end of the list that it runs over.
EndsMatch ==
    \A i \in 1..Len(running) : running[i].end = Len(node[running[i].in].list)

IInv ==
    /\ TypeOK /\ Distinct /\ EndsMatch
    /\ LocksOwned /\ CopiesReleased /\ LocksNested

\* Elements and lengths, which most steps need.
LEMMA Shape ==
    ASSUME TypeOK
    PROVE  /\ Len(chain) \in Nat /\ Len(running) \in Nat
           /\ \A k \in 1..Len(chain) : chain[k] \in Nodes
           /\ \A i \in 1..Len(running) :
                 /\ running[i] \in Iterator
                 /\ running[i].in \in Nodes
                 /\ running[i].next \in Nat /\ running[i].end \in Nat
           /\ \A n \in Nodes : /\ node[n] \in Node
                               /\ node[n].list \in Seq(Targets)
                               /\ node[n].locks \in Nat
           /\ chain # << >> => Len(chain) >= 1 /\ First \in Nodes
           /\ running # << >> => Len(running) >= 1
<1>1. /\ Len(chain) \in Nat /\ Len(running) \in Nat
      /\ \A k \in 1..Len(chain) : chain[k] \in Nodes
      /\ \A i \in 1..Len(running) : running[i] \in Iterator
  BY LenProperties, ElementOfSeq DEF TypeOK
<1>2. /\ chain # << >> => Len(chain) >= 1
      /\ running # << >> => Len(running) >= 1
  <2>1. /\ chain # << >> => Len(chain) \in Nat \ {0}
        /\ running # << >> => Len(running) \in Nat \ {0}
    BY EmptySeq DEF TypeOK
  <2> QED
    BY <2>1
<1>3. /\ \A i \in 1..Len(running) :
            running[i].in \in Nodes /\ running[i].next \in Nat /\ running[i].end \in Nat
      /\ \A n \in Nodes : node[n] \in Node
  BY <1>1 DEF TypeOK, Iterator
<1>4. \A n \in Nodes : node[n].list \in Seq(Targets) /\ node[n].locks \in Nat
  BY <1>3 DEF Node
<1>5. chain # << >> => First \in Nodes
  BY <1>1, <1>2 DEF First
<1> QED
  BY <1>1, <1>2, <1>3, <1>4, <1>5

\* The notifications that hold a lock on a node can be counted.
LEMMA LocksFinite ==
    ASSUME NEW run, Len(run) \in Nat, NEW n
    PROVE  /\ IsFiniteSet(Holders(run, n))
           /\ Cardinality(Holders(run, n)) \in Nat
           /\ Cardinality(Holders(run, n)) = 0 <=> Holders(run, n) = {}
<1>1. IsFiniteSet(1..Len(run)) /\ Holders(run, n) \in SUBSET (1..Len(run))
  BY FS_Interval DEF Holders
<1> QED
  BY <1>1, FS_Subset, FS_CardinalityType, FS_EmptySet

\* A node without a lock is iterated by no notification; a node that is not in
\* the list of nodes is neither.
LEMMA Unlocked ==
    ASSUME IInv
    PROVE  /\ \A k \in 1..Len(chain) :
                 node[chain[k]].locks = 0 <=> Holders(running, chain[k]) = {}
           /\ \A n \in Free : Holders(running, n) = {}
<1>1. \A k \in 1..Len(chain) : node[chain[k]].locks = 0 <=> Holders(running, chain[k]) = {}
  BY Shape, LocksFinite DEF IInv, LocksOwned
<1>2. \A n \in Free : Holders(running, n) = {}
  BY DEF IInv, LocksOwned, Free, Holders
<1> QED
  BY <1>1, <1>2

-----------------------------------------------------------------------------
(* A change of the list: the notifications under way do not see it.        *)

Unseen ==
    \A i \in 1..Len(running) :
        node'[running[i].in].list = node[running[i].in].list

\* EnsureMutable and the change keep the invariant, leave the lists that are
\* iterated alone, and make the new list the one that is notified next.
LEMMA ReplaceStep ==
    ASSUME IInv, chain # << >>, NEW list \in Seq(Targets), Replace(list),
           UNCHANGED running
    PROVE  IInv' /\ Unseen /\ chain' # << >> /\ node'[First'].list = list
<1> USE DEF IInv
<1>1. CASE /\ node[First].locks = 0
           /\ node' = [node EXCEPT ![First].list = list]
           /\ UNCHANGED chain
  <2>1. /\ node' \in [Nodes -> Node]
        /\ \A n \in Nodes : node'[n].locks = node[n].locks
        /\ \A n \in Nodes \ {First} : node'[n] = node[n]
        /\ node'[First].list = list
    BY <1>1, Shape DEF TypeOK, Node
  <2>2. Holders(running, First) = {}
    BY SMTT(30), <1>1, Shape, Unlocked DEF First
  <2>3. Unseen
    BY <2>1, <2>2, Shape DEF Unseen, Holders
  <2>4. TypeOK' /\ Distinct' /\ EndsMatch' /\ CopiesReleased' /\ LocksNested'
    BY <1>1, <2>1, <2>3, Shape
       DEF TypeOK, Distinct, EndsMatch, Unseen, CopiesReleased, LocksNested
  <2>5. LocksOwned'
    BY <1>1, <2>1, Shape DEF LocksOwned
  <2> QED
    BY <1>1, <2>1, <2>3, <2>4, <2>5 DEF First
<1>2. ASSUME node[First].locks # 0,
             NEW n \in Free,
             node' = [node EXCEPT ![n] = [list |-> list, locks |-> 0]],
             chain' = Append(chain, n)
      PROVE  IInv' /\ Unseen /\ chain' # << >> /\ node'[First'].list = list
  <2>1. /\ chain' \in Seq(Nodes) /\ Len(chain') = Len(chain) + 1
        /\ \A k \in 1..Len(chain) : chain'[k] = chain[k]
        /\ chain'[Len(chain) + 1] = n
    BY <1>2, AppendProperties DEF TypeOK, Free
  <2>2. /\ node' \in [Nodes -> Node]
        /\ \A m \in Nodes \ {n} : node'[m] = node[m]
        /\ node'[n] = [list |-> list, locks |-> 0]
    BY <1>2 DEF TypeOK, Free, Node
  <2>3. /\ Holders(running, n) = {} /\ n \in Nodes
        /\ \A k \in 1..Len(chain) : chain[k] # n
        /\ \A i \in 1..Len(running) : running[i].in # n
    BY Unlocked DEF Free, Holders
  <2>4. Unseen
    BY <2>2, <2>3, Shape DEF Unseen
  <2>5. TypeOK' /\ EndsMatch'
    BY <2>1, <2>2, <2>4 DEF TypeOK, EndsMatch, Unseen
  <2>6. Distinct'
    BY <2>1, <2>3, Shape DEF Distinct
  <2>7. CopiesReleased'
    <3>1. Holders(running, First) # {}
      BY <1>2, Shape, Unlocked DEF First
    <3>2. Len(chain) \in Nat /\ Len(chain') - 1 = Len(chain) /\ chain[Len(chain)] = First
      BY <2>1, Shape DEF First
    <3>3. ASSUME NEW k \in 1..Len(chain) PROVE Holders(running, chain[k]) # {}
      <4>1. k = Len(chain) \/ k \in 1..Len(chain) - 1
        BY <3>2
      <4> QED
        BY <3>1, <3>2, <4>1 DEF CopiesReleased
    <3>4. ASSUME NEW k \in 1..Len(chain) PROVE Holders(running', chain'[k]) # {}
      BY <2>1, <3>3
    <3> QED
      BY <3>2, <3>4 DEF CopiesReleased
  <2>8. LocksNested'
    <3>1. ASSUME NEW i \in 1..Len(running), NEW j \in 1..Len(running), i <= j,
                 NEW k \in 1..Len(chain'), NEW l \in 1..Len(chain'),
                 chain'[k] = running[i].in, chain'[l] = running[j].in
          PROVE  k <= l
      <4>1. k \in 1..Len(chain) /\ l \in 1..Len(chain)
        BY <2>1, <2>3, <3>1, Shape
      <4> QED
        BY <2>1, <3>1, <4>1 DEF LocksNested
    <3>2. running' = running
      OBVIOUS
    <3> QED
      BY <3>1, <3>2 DEF LocksNested
  <2>9. LocksOwned'
    <3>1. Cardinality(Holders(running, n)) = 0
      BY <2>3, FS_EmptySet
    <3>2. \A k \in 1..Len(chain') :
             node'[chain'[k]].locks = Cardinality(Holders(running, chain'[k]))
      <4>1. ASSUME NEW k \in 1..Len(chain)
            PROVE  node'[chain'[k]].locks = Cardinality(Holders(running, chain'[k]))
        BY <2>1, <2>2, <2>3, Shape DEF LocksOwned
      <4>2. \A k \in 1..Len(chain') : k \in 1..Len(chain) \/ k = Len(chain) + 1
        BY <2>1, Shape
      <4> QED
        BY <2>1, <2>2, <3>1, <4>1, <4>2
    <3>3. \A i \in 1..Len(running') : \E k \in 1..Len(chain') :
             chain'[k] = running'[i].in
      <4>1. ASSUME NEW i \in 1..Len(running)
            PROVE  \E k \in 1..Len(chain') : chain'[k] = running[i].in
        <5>1. PICK k \in 1..Len(chain) : chain[k] = running[i].in
          BY DEF LocksOwned
        <5>2. k \in 1..Len(chain') /\ chain'[k] = running[i].in
          BY <2>1, <5>1, Shape
        <5> QED
          BY <5>2
      <4> QED
        BY <4>1
    <3> QED
      BY <3>2, <3>3 DEF LocksOwned
  <2> QED
    BY <2>1, <2>2, <2>4, <2>5, <2>6, <2>7, <2>8, <2>9, Shape, EmptySeq DEF First
<1> QED
  BY <1>1, <1>2 DEF Replace

-----------------------------------------------------------------------------
(* A notification begins, delivers and ends.                               *)

LEMMA BeginStep ==
    ASSUME IInv, Begin
    PROVE  /\ IInv' /\ Unseen
           /\ running' = Append(running, [in |-> First, next |-> 1,
                                          end |-> Len(node[First].list)])
           /\ node'[First].list = node[First].list
<1> USE DEF IInv
<1> DEFINE top == Len(running) + 1
<1>1. chain # << >> /\ First \in Nodes /\ Len(chain) \in 1..Len(chain) /\ top \in Nat
  BY Shape DEF Begin, IsEmpty
<1>2. /\ node' \in [Nodes -> Node]
      /\ node'[First].locks = node[First].locks + 1
      /\ \A n \in Nodes \ {First} : node'[n] = node[n]
      /\ \A n \in Nodes : node'[n].list = node[n].list
  <2>1. node[First] \in Node /\ node[First].locks + 1 \in Nat
    BY <1>1, Shape
  <2> DEFINE locked == [node[First] EXCEPT !.locks = @ + 1]
  <2>2. node' = [node EXCEPT ![First] = locked]
    BY DEF Begin
  <2>3. /\ locked \in Node /\ locked.list = node[First].list
        /\ locked.locks = node[First].locks + 1
    BY <2>1 DEF Node
  <2> HIDE DEF locked
  <2> QED
    BY <1>1, <2>2, <2>3 DEF TypeOK
<1>3. [in |-> First, next |-> 1, end |-> Len(node[First].list)] \in Iterator
  BY <1>1, Shape, LenProperties DEF Iterator
<1>4. /\ running' \in Seq(Iterator) /\ Len(running') = top
      /\ \A i \in 1..Len(running) : running'[i] = running[i]
      /\ running'[top] = [in |-> First, next |-> 1, end |-> Len(node[First].list)]
  BY <1>3, AppendProperties DEF Begin, TypeOK
<1>5. Unseen
  BY <1>2, Shape DEF Unseen
<1>6. \A i \in 1..top : i \in 1..Len(running) \/ i = top
  BY Shape
<1>7. chain' = chain
  BY DEF Begin
<1>8. TypeOK' /\ Distinct'
  BY <1>2, <1>4, <1>7 DEF TypeOK, Distinct
<1>9. EndsMatch'
  <2>1. \A i \in 1..Len(running) : running'[i].end = Len(node'[running'[i].in].list)
    BY SMTT(30), <1>4, <1>5 DEF EndsMatch, Unseen
  <2>2. running'[top].end = Len(node'[running'[top].in].list)
    BY <1>1, <1>2, <1>4
  <2> QED
    BY <1>4, <1>6, <2>1, <2>2 DEF EndsMatch
<1>10. /\ Holders(running', First) = Holders(running, First) \cup {top}
       /\ top \notin Holders(running, First)
       /\ \A n : n # First => Holders(running', n) = Holders(running, n)
  BY <1>4, <1>6, Shape DEF Holders
<1>11. CopiesReleased'
  <2>1. \A n : Holders(running, n) # {} => Holders(running', n) # {}
    BY <1>10
  <2> QED
    BY <1>7, <2>1 DEF CopiesReleased
<1>12. LocksNested'
  <2>1. ASSUME NEW i \in 1..top, NEW j \in 1..top, i <= j,
               NEW k \in 1..Len(chain), NEW l \in 1..Len(chain),
               chain[k] = running'[i].in, chain[l] = running'[j].in
        PROVE  k <= l
    <3>1. CASE j = top
      BY <1>1, <1>4, <2>1, <3>1, Shape DEF Distinct, First
    <3>2. CASE j # top
      <4>1. i \in 1..Len(running) /\ j \in 1..Len(running)
        BY <1>1, <1>6, <2>1, <3>2, Shape
      <4> QED
        BY <1>4, <2>1, <4>1 DEF LocksNested
    <3> QED
      BY <3>1, <3>2
  <2> QED
    BY <1>4, <1>7, <2>1 DEF LocksNested
<1>13. LocksOwned'
  <2>1. \A i \in 1..top : \E k \in 1..Len(chain) : chain[k] = running'[i].in
    BY <1>1, <1>4, <1>6 DEF LocksOwned, First
  <2>2. ASSUME NEW k \in 1..Len(chain)
        PROVE  node'[chain[k]].locks = Cardinality(Holders(running', chain[k]))
    <3>1. CASE chain[k] = First
      <4>1. Cardinality(Holders(running', First)) = Cardinality(Holders(running, First)) + 1
        BY <1>10, LocksFinite, FS_AddElement, Shape
      <4> QED
        BY <1>2, <3>1, <4>1 DEF LocksOwned
    <3>2. CASE chain[k] # First
      BY <1>2, <1>10, <3>2, Shape DEF LocksOwned
    <3> QED
      BY <3>1, <3>2
  <2> QED
    BY <1>4, <1>7, <2>1, <2>2 DEF LocksOwned
<1> QED
  BY <1>1, <1>2, <1>5, <1>8, <1>9, <1>11, <1>12, <1>13 DEF Begin

LEMMA DeliverStep ==
    ASSUME IInv, Deliver
    PROVE  IInv' /\ Unseen
<1> USE DEF IInv
<1>1. Len(running) \in 1..Len(running) /\ Top \in Iterator
  BY Shape DEF Deliver, Top
<1>2. /\ running' \in Seq(Iterator) /\ Len(running') = Len(running)
      /\ \A i \in 1..Len(running) :
            running'[i].in = running[i].in /\ running'[i].end = running[i].end
  <2>1. running' = [running EXCEPT ![Len(running)] = [Top EXCEPT !.next = @ + 1]]
    BY <1>1, Shape DEF Deliver, Top, TypeOK
  <2>2. /\ [Top EXCEPT !.next = @ + 1] \in Iterator
        /\ [Top EXCEPT !.next = @ + 1].in = Top.in
        /\ [Top EXCEPT !.next = @ + 1].end = Top.end
    BY <1>1 DEF Iterator
  <2> QED
    BY <1>1, <2>1, <2>2, ExceptSeq DEF TypeOK, Top
<1>3. node' = node /\ chain' = chain
  BY DEF Deliver
<1>4. \A n : Holders(running', n) = Holders(running, n)
  BY <1>2 DEF Holders
<1>5. TypeOK' /\ Distinct' /\ EndsMatch' /\ Unseen
  BY <1>2, <1>3 DEF TypeOK, Distinct, EndsMatch, Unseen
<1>6. LocksOwned' /\ CopiesReleased'
  BY <1>2, <1>3, <1>4 DEF LocksOwned, CopiesReleased
<1>7. LocksNested'
  BY <1>2, <1>3 DEF LocksNested
<1> QED
  BY <1>5, <1>6, <1>7

\* The lock that Unlock releases, found without knowing the node, is the one of
\* the innermost notification.
LEMMA HolderFound ==
    ASSUME IInv, running # << >>
    PROVE  LET in == running[Len(running)].in
           IN  /\ in \in Nodes
               /\ node[First].locks > 0 => in = First
               /\ ~ node[First].locks > 0 =>
                     Len(chain) - 1 \in 1..Len(chain) /\ in = chain[Len(chain) - 1]
<1> USE DEF IInv
<1> DEFINE top == Len(running)
           in == running[top].in
<1>1. top \in 1..Len(running) /\ in \in Nodes
  BY Shape
<1>2. PICK p \in 1..Len(chain) : chain[p] = in
  BY <1>1 DEF LocksOwned
<1>3. /\ Len(chain) \in Nat /\ Len(chain) \in 1..Len(chain)
      /\ First \in Nodes /\ node[First].locks \in Nat
  <2>1. Len(chain) \in Nat /\ Len(chain) \in 1..Len(chain)
    BY <1>2, Shape
  <2> QED
    BY <2>1, Shape DEF First
<1>4. ASSUME NEW k \in 1..Len(chain), Holders(running, chain[k]) # {}
      PROVE  k <= p
  <2>1. PICK j \in 1..Len(running) : running[j].in = chain[k]
    BY <1>4 DEF Holders
  <2>2. j <= top
    BY <2>1, Shape
  <2> QED
    BY <1>1, <1>2, <2>1, <2>2 DEF LocksNested
<1>5. CASE node[First].locks > 0
  <2>1. Holders(running, First) # {}
    BY <1>3, <1>5, Unlocked DEF First
  <2> QED
    BY <1>1, <1>2, <1>3, <1>4, <1>5, <2>1 DEF First
<1>6. CASE ~ node[First].locks > 0
  <2>1. Holders(running, First) = {}
    BY SMTT(30), <1>3, <1>6, Unlocked DEF First
  <2>2. in # First
    BY <1>1, <2>1 DEF Holders
  <2>3. p # Len(chain) /\ Len(chain) - 1 \in 1..Len(chain) /\ Len(chain) - 1 \in 1..Len(chain) - 1
    BY <1>2, <1>3, <2>2 DEF First
  <2>4. Len(chain) - 1 <= p
    BY <1>4, <2>3 DEF CopiesReleased
  <2> QED
    BY <1>1, <1>2, <1>3, <1>6, <2>3, <2>4
<1> QED
  BY <1>5, <1>6

\* What is left running after Unlock.
LEMMA PoppedRunning ==
    ASSUME IInv, running # << >>,
           running' = SubSeq(running, 1, Len(running) - 1)
    PROVE  LET top == Len(running)
               in == running[top].in
           IN  /\ running' \in Seq(Iterator) /\ Len(running') = top - 1
               /\ \A i \in 1..top - 1 : running'[i] = running[i]
               /\ Holders(running', in) = Holders(running, in) \ {top}
               /\ top \in Holders(running, in)
               /\ \A n : n # in => Holders(running', n) = Holders(running, n)
<1> USE DEF IInv
<1> DEFINE top == Len(running)
<1>0. running' = SubSeq(running, 1, top - 1)
  OBVIOUS
<1>1. top \in Nat /\ top >= 1 /\ \A i \in 1..top : running[i] \in Iterator
  BY Shape
<1>2. /\ running' \in Seq(Iterator) /\ Len(running') = top - 1
      /\ \A i \in 1..top - 1 : running'[i] = running[i]
  <2>1. /\ SubSeq(running, 1, top - 1) \in Seq(Iterator)
        /\ Len(SubSeq(running, 1, top - 1)) = IF 1 <= top - 1 THEN top - 1 - 1 + 1 ELSE 0
        /\ \A i \in 1..top - 1 - 1 + 1 : SubSeq(running, 1, top - 1)[i] = running[1 + i - 1]
    <3>1. \A i \in 1..top - 1 : running[i] \in Iterator
      BY <1>1
    <3> QED
      BY <1>1, <3>1, SubSeqProperties
  <2> HIDE DEF top
  <2>4. top - 1 - 1 + 1 = top - 1 /\ (~ (1 <= top - 1) => top - 1 = 0)
    BY <1>1
  <2>2. top - 1 - 1 + 1 = top - 1 /\ (IF 1 <= top - 1 THEN top - 1 - 1 + 1 ELSE 0) = top - 1
    BY <2>4
  <2>3. \A i \in 1..top - 1 : 1 + i - 1 = i
    BY <1>1
  <2> QED
    BY <1>0, <2>1, <2>2, <2>3
<1>3. \A i \in 1..top : i \in 1..top - 1 \/ i = top
  BY <1>1
<1> QED
  BY <1>1, <1>2, <1>3 DEF Holders

\* Unlock keeps the invariant and the lists that are still iterated, and does
\* not change the list that is notified next.
LEMMA EndStep ==
    ASSUME IInv, End
    PROVE  /\ IInv'
           /\ \A i \in 1..Len(running) - 1 :
                 node'[running[i].in].list = node[running[i].in].list
           /\ chain # << >> /\ chain' # << >>
           /\ node'[First'].list = node[First].list
<1> USE DEF IInv
<1> DEFINE top == Len(running)
           in == running[top].in
           last == Len(chain)
<1>0. running # << >> /\ running' = SubSeq(running, 1, Len(running) - 1)
  BY DEF End
<1>1. /\ top \in Nat /\ top >= 1 /\ last \in Nat /\ last \in 1..last
      /\ in \in Nodes /\ chain # << >> /\ First \in Nodes
  <2>1. top \in 1..top /\ last \in Nat /\ top \in Nat /\ in \in Nodes
    BY <1>0, Shape
  <2>2. PICK p \in 1..last : chain[p] = in
    BY <2>1 DEF LocksOwned
  <2>3. last \in 1..last
    BY <2>1, <2>2
  <2>4. chain # << >>
    BY <2>3, EmptySeq
  <2> QED
    BY <2>1, <2>3, <2>4, Shape
<1>2. /\ running' \in Seq(Iterator) /\ Len(running') = top - 1
      /\ \A i \in 1..top - 1 : running'[i] = running[i]
      /\ Holders(running', in) = Holders(running, in) \ {top}
      /\ top \in Holders(running, in)
      /\ \A n : n # in => Holders(running', n) = Holders(running, n)
  BY <1>0, PoppedRunning
<1>3. \A i \in 1..top - 1 : i \in 1..top /\ running[i].in \in Nodes
  BY <1>1, Shape
<1>4. Cardinality(Holders(running', in)) = Cardinality(Holders(running, in)) - 1
  <2>1. IsFiniteSet(Holders(running, in))
    BY <1>1, LocksFinite
  <2> QED
    BY ZenonT(30), <1>2, <2>1, FS_RemoveElement
<1> HIDE DEF in
<1>5. ASSUME node' = [node EXCEPT ![in].locks = @ - 1], chain' = chain,
             in = First \/ node[in].locks # 1
      PROVE  IInv' /\ \A n \in Nodes : node'[n].list = node[n].list
  <2> DEFINE unlocked == [node[in] EXCEPT !.locks = @ - 1]
  <2>1. node[in].locks = Cardinality(Holders(running, in)) /\ node[in].locks >= 1
    <3>1. PICK p \in 1..last : chain[p] = in
      BY <1>1 DEF LocksOwned, in
    <3>2. node[in].locks = Cardinality(Holders(running, in))
      BY <3>1 DEF LocksOwned
    <3> QED
      BY <1>1, <1>2, <3>2, LocksFinite
  <2>2. /\ unlocked \in Node /\ unlocked.list = node[in].list
        /\ unlocked.locks = node[in].locks - 1
    BY <1>1, <2>1, Shape DEF Node
  <2>3. node' = [node EXCEPT ![in] = unlocked]
    BY <1>5
  <2> HIDE DEF unlocked
  <2>4. /\ node' \in [Nodes -> Node]
        /\ \A n \in Nodes : node'[n].list = node[n].list
        /\ \A n \in Nodes \ {in} : node'[n].locks = node[n].locks
        /\ node'[in].locks = node[in].locks - 1
    BY <1>1, <2>2, <2>3 DEF TypeOK
  <2>5. TypeOK' /\ Distinct'
    BY <1>2, <1>5, <2>4 DEF TypeOK, Distinct
  <2>6. EndsMatch'
    BY <1>2, <1>3, <2>4, SMTT(30) DEF EndsMatch
  <2>7. CopiesReleased'
    <3>1. ASSUME NEW k \in 1..last - 1 PROVE Holders(running', chain[k]) # {}
      <4>1. CASE chain[k] # in
        BY <1>2, <3>1, <4>1 DEF CopiesReleased
      <4>2. CASE chain[k] = in
        <5>1. in # First
          BY <1>1, <3>1, <4>2 DEF Distinct, First
        <5>2. Cardinality(Holders(running', in)) # 0
          BY <1>4, <1>5, <2>1, <5>1
        <5> QED
          BY <4>2, <5>2, FS_EmptySet
      <4> QED
        BY <4>1, <4>2
    <3> QED
      BY <1>5, <3>1 DEF CopiesReleased
  <2>8. LocksNested'
    BY SMTT(30), <1>1, <1>2, <1>3, <1>5 DEF LocksNested
  <2>9. LocksOwned'
    <3>1. \A i \in 1..top - 1 : \E k \in 1..last : chain[k] = running'[i].in
      BY <1>2, <1>3 DEF LocksOwned
    <3>2. \A k \in 1..last : node'[chain[k]].locks = Cardinality(Holders(running', chain[k]))
      BY <1>2, <1>4, <2>1, <2>4, Shape DEF LocksOwned
    <3> QED
      BY <1>2, <1>5, <3>1, <3>2 DEF LocksOwned
  <2> QED
    BY <2>4, <2>5, <2>6, <2>7, <2>8, <2>9
<1>6. ASSUME last > 1, in = chain[last - 1], node[in].locks = 1,
             node' = [node EXCEPT ![in] = Freed],
             chain' = [k \in 1..last - 1 |-> IF k = last - 1 THEN First ELSE chain[k]]
      PROVE  /\ IInv'
             /\ \A i \in 1..top - 1 : running[i].in # in
             /\ chain' # << >> /\ First' = First /\ in # First
  <2> DEFINE old(k) == IF k = last - 1 THEN last ELSE k
  <2>1. /\ last - 1 \in Nat /\ last - 1 \in 1..last /\ last - 1 # last
        /\ \A k \in 1..last - 1 : old(k) \in 1..last /\ old(k) # last - 1
    BY <1>1, <1>6
  <2>2. /\ chain' \in Seq(Nodes) /\ Len(chain') = last - 1
        /\ \A k \in 1..last - 1 : chain'[k] = chain[old(k)]
    <3>1. \A k \in 1..last - 1 :
             (IF k = last - 1 THEN First ELSE chain[k]) = chain[old(k)] /\ chain[old(k)] \in Nodes
      BY <2>1, Shape DEF First
    <3>2. chain' \in [1..last - 1 -> Nodes]
      BY <1>6, <3>1
    <3>3. chain' \in Seq(Nodes)
      BY <2>1, <3>2, SeqDef
    <3>4. Len(chain') = last - 1
      BY <2>1, <3>2, <3>3, LenProperties
    <3> QED
      BY <1>6, <3>1, <3>3, <3>4
  <2>3. /\ node' \in [Nodes -> Node]
        /\ \A n \in Nodes \ {in} : node'[n] = node[n]
    <3>1. Freed \in Node
      BY EmptySeq DEF Freed, Node
    <3> QED
      BY <1>1, <1>6, <3>1 DEF TypeOK
  <2>4. Holders(running', in) = {}
    <3>1. Cardinality(Holders(running, in)) = 1
      BY <1>6, <2>1 DEF LocksOwned
    <3>2. Len(running') \in Nat
      BY <1>1, <1>2
    <3>3. Cardinality(Holders(running', in)) = 0
      BY <1>4, <3>1
    <3> QED
      BY <3>2, <3>3, LocksFinite
  <2>5. \A i \in 1..top - 1 : running[i].in # in
    BY <1>2, <2>4 DEF Holders
  <2>6. \A k \in 1..last - 1 : chain[old(k)] # in /\ chain[old(k)] \in Nodes
    BY <1>6, <2>1, Shape DEF Distinct
  <2>7. TypeOK'
    BY <1>2, <2>2, <2>3 DEF TypeOK
  <2>8. Distinct'
    <3>1. ASSUME NEW k \in 1..last - 1, NEW l \in 1..last - 1, chain'[k] = chain'[l]
          PROVE  k = l
      <4>1. old(k) = old(l)
        BY <2>1, <2>2, <3>1 DEF Distinct
      <4> QED
        BY <1>1, <3>1, <4>1
    <3> QED
      BY <2>2, <3>1 DEF Distinct
  <2>9. EndsMatch'
    BY <1>2, <1>3, <2>3, <2>5 DEF EndsMatch
  <2>10. CopiesReleased'
    <3>1. ASSUME NEW k \in 1..last - 1 - 1 PROVE Holders(running', chain'[k]) # {}
      <4>1. k \in 1..last - 1 /\ old(k) = k /\ k \in 1..Len(chain) - 1
        BY <1>1, <3>1
      <4>2. chain'[k] = chain[k] /\ chain[k] # in
        BY <2>2, <2>6, <4>1
      <4> QED
        BY <1>2, <4>1, <4>2 DEF CopiesReleased
    <3> QED
      BY <2>2, <3>1 DEF CopiesReleased
  <2>11. LocksNested'
    <3>1. ASSUME NEW i \in 1..top - 1, NEW j \in 1..top - 1, i <= j,
                 NEW k \in 1..last - 1, NEW l \in 1..last - 1,
                 chain'[k] = running[i].in, chain'[l] = running[j].in
          PROVE  k <= l
      <4>1. old(k) <= old(l)
        <5>1. i \in 1..Len(running) /\ j \in 1..Len(running)
          BY <1>3, <3>1
        <5>2. chain[old(k)] = running[i].in /\ chain[old(l)] = running[j].in
          BY <2>2, <3>1
        <5>3. old(k) \in 1..Len(chain) /\ old(l) \in 1..Len(chain)
          BY <2>1, <3>1
        <5> HIDE DEF old
        <5> QED
          BY <3>1, <5>1, <5>2, <5>3 DEF LocksNested
      <4> QED
        BY <1>1, <3>1, <4>1
    <3> QED
      BY SMTT(30), <1>2, <2>2, <3>1 DEF LocksNested
  <2>12. LocksOwned'
    <3>1. ASSUME NEW i \in 1..top - 1
          PROVE  \E k \in 1..last - 1 : chain'[k] = running'[i].in
      <4>1. PICK p \in 1..last : chain[p] = running[i].in
        BY <1>3 DEF LocksOwned
      <4>2. p # last - 1
        BY <1>6, <2>5, <4>1
      <4>3. CASE p = last
        <5>1. last - 1 \in 1..last - 1 /\ old(last - 1) = p
          BY <1>1, <1>6, <4>3
        <5> QED
          BY <1>2, <2>2, <4>1, <5>1
      <4>4. CASE p # last
        <5>1. p \in 1..last - 1 /\ old(p) = p
          BY <1>1, <4>2, <4>4
        <5> QED
          BY <1>2, <2>2, <4>1, <5>1
      <4> QED
        BY <4>3, <4>4
    <3>2. ASSUME NEW k \in 1..last - 1
          PROVE  node'[chain'[k]].locks = Cardinality(Holders(running', chain'[k]))
      <4>1. chain'[k] = chain[old(k)] /\ chain[old(k)] # in /\ chain[old(k)] \in Nodes
        BY <2>2, <2>6
      <4>2. node[chain[old(k)]].locks = Cardinality(Holders(running, chain[old(k)]))
        BY <2>1 DEF LocksOwned
      <4> HIDE DEF old
      <4>3. node'[chain[old(k)]] = node[chain[old(k)]]
        BY <2>3, <4>1
      <4> QED
        BY <1>2, <4>1, <4>2, <4>3
    <3> QED
      BY <1>2, <2>2, <3>1, <3>2 DEF LocksOwned
  <2>13. chain' # << >> /\ First' = First
    <3>1. last - 1 \in 1..last - 1 /\ old(last - 1) = last
      BY <1>1, <1>6
    <3> QED
      BY <2>2, <3>1, EmptySeq DEF First
  <2>14. in # First
    BY <1>1, <1>6, <2>1 DEF Distinct, First
  <2> QED
    BY <2>5, <2>7, <2>8, <2>9, <2>10, <2>11, <2>12, <2>13, <2>14
<1>7. /\ node[First].locks > 0 => in = First
      /\ ~ node[First].locks > 0 => in = chain[last - 1]
  BY <1>0, HolderFound DEF in
<1>8. CASE /\ node' = [node EXCEPT ![in].locks = @ - 1] /\ chain' = chain
           /\ in = First \/ node[in].locks # 1
  <2>1. First' = First
    BY <1>8 DEF First
  <2> QED
    BY <1>1, <1>3, <1>5, <1>8, <2>1
<1>9. CASE /\ last > 1 /\ in = chain[last - 1] /\ node[in].locks = 1
           /\ node' = [node EXCEPT ![in] = Freed]
           /\ chain' = [k \in 1..last - 1 |-> IF k = last - 1 THEN First ELSE chain[k]]
  <2>1. \A n \in Nodes : n # in => node'[n] = node[n]
    BY <1>9 DEF TypeOK
  <2> QED
    BY <1>1, <1>3, <1>6, <1>9, <2>1
<1>10. \/ node[First].locks > 0 /\ node' = [node EXCEPT ![First].locks = @ - 1] /\ chain' = chain
       \/ /\ node[First].locks = 0 /\ last > 1
          /\ \/ /\ node[chain[last - 1]].locks # 1 /\ chain' = chain
                /\ node' = [node EXCEPT ![chain[last - 1]].locks = @ - 1]
             \/ /\ node[chain[last - 1]].locks = 1
                /\ node' = [node EXCEPT ![chain[last - 1]] = Freed]
                /\ chain' = [k \in 1..last - 1 |-> IF k = last - 1 THEN First ELSE chain[k]]
  BY DEF End, Release
<1> QED
  BY <1>7, <1>8, <1>9, <1>10

-----------------------------------------------------------------------------
\* The pieces of the list around an element are lists of targets.
LEMMA WithoutType ==
    ASSUME NEW list \in Seq(Targets), NEW t, Listed(list, t)
    PROVE  Without(list, t) \in Seq(Targets)
<1> DEFINE i == CHOOSE i \in 1..Len(list) : list[i] = t
<1>1. i \in 1..Len(list) /\ Len(list) \in Nat
  BY LenProperties DEF Listed
<1> HIDE DEF i
<1>2. /\ \A k \in 1..i - 1 : list[k] \in Targets
      /\ \A k \in i + 1..Len(list) : list[k] \in Targets
  BY <1>1, ElementOfSeq
<1>3. SubSeq(list, 1, i - 1) \in Seq(Targets) /\ SubSeq(list, i + 1, Len(list)) \in Seq(Targets)
  BY <1>1, <1>2, SubSeqProperties
<1>4. SubSeq(list, 1, i - 1) \o SubSeq(list, i + 1, Len(list)) \in Seq(Targets)
  BY <1>3, ConcatProperties
<1> QED
  BY <1>4 DEF Without, i

\* The first target of all is added.
LEMMA FirstAddStep ==
    ASSUME IInv, chain = << >>, NEW t \in Targets, NEW n \in Free,
           node' = [node EXCEPT ![n] = [list |-> <<t>>, locks |-> 0]],
           chain' = <<n>>, UNCHANGED running
    PROVE  IInv' /\ Unseen /\ running = << >> /\ First' = n /\ node'[n].list = <<t>>
<1> USE DEF IInv
<1>1. Len(chain) = 0 /\ n \in Nodes
  BY DEF Free
<1>2. Len(running) = 0 /\ running = << >>
  <2>1. Len(running) \in Nat /\ ~ (Len(running) >= 1)
    BY <1>1, Shape DEF LocksOwned
  <2> QED
    BY <2>1, Shape
<1>3. <<t>> \in Seq(Targets) /\ <<n>> \in Seq(Nodes) /\ Len(<<n>>) = 1 /\ <<n>>[1] = n
  BY <1>1
<1>4. node' \in [Nodes -> Node] /\ node'[n] = [list |-> <<t>>, locks |-> 0]
  BY <1>1, <1>3 DEF TypeOK, Node
<1>5. Holders(running', n) = {} /\ Cardinality(Holders(running', n)) = 0
  BY <1>2, FS_EmptySet DEF Holders
<1>6. TypeOK' /\ Distinct' /\ EndsMatch' /\ CopiesReleased' /\ LocksNested'
  BY <1>2, <1>3, <1>4 DEF TypeOK, Distinct, EndsMatch, CopiesReleased, LocksNested
<1>7. LocksOwned'
  BY <1>2, <1>3, <1>4, <1>5 DEF LocksOwned
<1> QED
  BY <1>2, <1>3, <1>4, <1>6, <1>7 DEF Unseen, First

\* The parts of the invariant are kept by every step.
LEMMA StepKeepsInvariant ==
    ASSUME IInv, [Next]_vars
    PROVE  IInv'
<1>1. ASSUME NEW t \in Targets, Add(t) PROVE IInv'
  <2>1. CASE chain = << >>
    BY <1>1, <2>1, FirstAddStep DEF Add
  <2>2. CASE chain # << >>
    <3>1. Append(node[First].list, t) \in Seq(Targets)
      BY <2>2, Shape, AppendProperties DEF IInv
    <3> QED
      BY <1>1, <2>2, <3>1, ReplaceStep DEF Add
  <2> QED
    BY <2>1, <2>2
<1>2. ASSUME NEW t \in Targets, Remove(t) PROVE IInv'
  <2>1. chain # << >> /\ Without(node[First].list, t) \in Seq(Targets)
    BY <1>2, Shape, WithoutType DEF IInv, Remove
  <2> QED
    BY <1>2, <2>1, ReplaceStep DEF Remove
<1>3. ASSUME Clear PROVE IInv'
  BY <1>3, ReplaceStep, EmptySeq DEF Clear
<1>4. CASE Begin
  BY <1>4, BeginStep
<1>5. CASE Deliver
  BY <1>5, DeliverStep
<1>6. CASE End
  BY <1>6, EndStep
<1>7. CASE UNCHANGED vars
  <2>1. node' = node /\ chain' = chain /\ running' = running
    BY <1>7 DEF vars
  <2>2. TypeOK' /\ Distinct' /\ EndsMatch'
    BY <2>1 DEF IInv, TypeOK, Distinct, EndsMatch
  <2>3. LocksOwned' /\ CopiesReleased'
    BY <2>1 DEF IInv, LocksOwned, CopiesReleased
  <2>4. LocksNested'
    BY <2>1 DEF IInv, LocksNested
  <2> QED
    BY <2>2, <2>3, <2>4 DEF IInv
<1> QED
  BY <1>1, <1>2, <1>3, <1>4, <1>5, <1>6, <1>7 DEF Next

LEMMA InitInvariant == Init => IInv
<1> SUFFICES ASSUME Init PROVE IInv
  OBVIOUS
<1>1. Len(chain) = 0 /\ Len(running) = 0 /\ Freed \in Node
  BY EmptySeq DEF Init, Freed, Node
<1>2. TypeOK
  BY <1>1, EmptySeq DEF Init, TypeOK
<1> QED
  BY <1>1, <1>2 DEF IInv, Distinct, EndsMatch, LocksOwned, CopiesReleased, LocksNested

\* IInv holds in every reachable state.
THEOREM Invariance == Spec => []IInv
<1> QED
  BY InitInvariant, StepKeepsInvariant, PTL DEF Spec

\* Every variable keeps its type; no lock count becomes negative.
THEOREM TypeCorrect == Spec => []TypeOK
<1>1. IInv => TypeOK
  BY DEF IInv
<1> QED
  BY <1>1, Invariance, PTL

\* The locks of each node are those of the notifications that iterate it: a list
\* that is iterated is never changed, and one that is not is never kept.
THEOREM LocksAlwaysOwned == Spec => []LocksOwned
<1>1. IInv => LocksOwned
  BY DEF IInv
<1> QED
  BY <1>1, Invariance, PTL

\* Unlock, which looks at the first two nodes only, always finds the right one.
THEOREM LocksAlwaysNested == Spec => []LocksNested
<1>1. IInv => LocksNested
  BY DEF IInv
<1> QED
  BY <1>1, Invariance, PTL

\* No copy of the list outlives the notifications that iterate it.
THEOREM CopiesAlwaysReleased == Spec => []CopiesReleased
<1>1. IInv => CopiesReleased
  BY DEF IInv
<1> QED
  BY <1>1, Invariance, PTL

-----------------------------------------------------------------------------
(* Refinement.                                                              *)

\* What Notifications calls targets and running.
Shown == IF chain = << >> THEN << >> ELSE node[First].list
Over(nodes, run) == [i \in 1..Len(run) |->
                        [list |-> nodes[run[i].in].list, next |-> run[i].next]]
Entry == [list : Seq(Targets), next : Nat]

LEMMA OverShape ==
    ASSUME NEW nodes \in [Nodes -> Node], NEW run \in Seq(Iterator)
    PROVE  /\ Over(nodes, run) \in Seq(Entry) /\ Len(Over(nodes, run)) = Len(run)
           /\ Len(run) \in Nat
           /\ \A i \in 1..Len(run) :
                 Over(nodes, run)[i] = [list |-> nodes[run[i].in].list,
                                        next |-> run[i].next]
<1>1. /\ Len(run) \in Nat
      /\ \A i \in 1..Len(run) : run[i].in \in Nodes /\ run[i].next \in Nat
  <2>1. Len(run) \in Nat /\ \A i \in 1..Len(run) : run[i] \in Iterator
    BY LenProperties, ElementOfSeq
  <2> QED
    BY <2>1 DEF Iterator
<1>2. Over(nodes, run) \in [1..Len(run) -> Entry]
  BY <1>1 DEF Over, Entry, Node
<1>3. Over(nodes, run) \in Seq(Entry)
  BY <1>1, <1>2, SeqDef
<1>4. Len(Over(nodes, run)) = Len(run)
  BY <1>1, <1>2, <1>3, LenProperties
<1> QED
  BY <1>1, <1>3, <1>4 DEF Over

\* A change is invisible to the notifications under way.
LEMMA UnseenOver ==
    ASSUME Unseen, running' = running
    PROVE  Over(node', running') = Over(node, running)
  BY DEF Unseen, Over

LEMMA BeginRefines ==
    ASSUME IInv, Begin
    PROVE  Promise!Begin
<1> USE DEF IInv
<1> DEFINE e == [list |-> node[First].list, next |-> 1]
           it == [in |-> First, next |-> 1, end |-> Len(node[First].list)]
<1>1. /\ chain # << >> /\ node[First].list # << >> /\ chain' = chain
      /\ First \in Nodes /\ Len(running) < MaxDepth
  BY Shape DEF Begin, IsEmpty
<1>2. /\ IInv' /\ Unseen /\ running' = Append(running, it)
      /\ node'[First].list = node[First].list
  BY BeginStep
<1>3. it \in Iterator /\ e \in Entry
  BY <1>1, Shape, LenProperties DEF Iterator, Entry
<1>4. /\ Len(running') = Len(running) + 1 /\ Len(running) \in Nat
      /\ \A i \in 1..Len(running) : running'[i] = running[i]
      /\ running'[Len(running) + 1] = it
  BY <1>2, <1>3, AppendProperties, Shape DEF TypeOK
<1> DEFINE was == Over(node, running)
           is == Over(node', running')
<1>5. /\ was \in Seq(Entry) /\ Len(was) = Len(running)
      /\ is \in Seq(Entry) /\ Len(is) = Len(running')
      /\ \A i \in 1..Len(running) : was[i] = [list |-> node[running[i].in].list,
                                             next |-> running[i].next]
      /\ \A i \in 1..Len(running') : is[i] = [list |-> node'[running'[i].in].list,
                                              next |-> running'[i].next]
  BY <1>2, OverShape DEF TypeOK
<1>6. /\ Append(was, e) \in Seq(Entry)
      /\ Len(Append(was, e)) = Len(running) + 1
      /\ \A i \in 1..Len(running) : Append(was, e)[i] = was[i]
      /\ Append(was, e)[Len(running) + 1] = e
  <2> HIDE DEF was, e
  <2> QED
    BY <1>3, <1>5, AppendProperties
<1>7. \A i \in 1..Len(running) + 1 : is[i] = Append(was, e)[i]
  <2> HIDE DEF was, is
  <2>1. ASSUME NEW i \in 1..Len(running)
        PROVE  is[i] = Append(was, e)[i]
    <3>1. i \in 1..Len(running')
      BY <1>4
    <3> QED
      BY <1>2, <1>4, <1>5, <1>6, <3>1 DEF Unseen
  <2>2. is[Len(running) + 1] = e
    <3>1. Len(running) + 1 \in 1..Len(running')
      BY <1>4
    <3> QED
      BY <1>2, <1>4, <1>5, <3>1
  <2>3. \A i \in 1..Len(running) + 1 : i \in 1..Len(running) \/ i = Len(running) + 1
    BY <1>4
  <2> QED
    BY <1>6, <2>1, <2>2, <2>3
<1>8. is = Append(was, e)
  <2> HIDE DEF was, is
  <2> QED
    BY <1>4, <1>5, <1>6, <1>7, SeqEqual
<1>9. Shown' = Shown /\ Shown = node[First].list
  BY <1>1, <1>2 DEF Shown, First
<1> QED
  BY <1>1, <1>5, <1>8, <1>9 DEF Promise!Begin, Shown, Over

LEMMA DeliverRefines ==
    ASSUME IInv, Deliver
    PROVE  Promise!Deliver
<1> USE DEF IInv
<1> DEFINE top == Len(running)
           was == Over(node, running)
           is == Over(node', running')
           e == [list |-> was[top].list, next |-> was[top].next + 1]
<1>1. /\ running # << >> /\ running[top].next <= running[top].end
      /\ node' = node /\ chain' = chain /\ top \in 1..top /\ top \in Nat
      /\ running[top] \in Iterator
  BY Shape DEF Deliver, Top
<1>2. /\ running' = [running EXCEPT ![top] = [running[top] EXCEPT !.next = @ + 1]]
      /\ [running[top] EXCEPT !.next = @ + 1] \in Iterator
  BY SMTT(30), <1>1, Shape DEF Deliver, TypeOK, Iterator, Top
<1>3. /\ running' \in Seq(Iterator) /\ Len(running') = top
      /\ \A i \in 1..top : i # top => running'[i] = running[i]
      /\ running'[top].in = running[top].in
      /\ running'[top].next = running[top].next + 1
  <2>1. /\ [running[top] EXCEPT !.next = @ + 1].in = running[top].in
        /\ [running[top] EXCEPT !.next = @ + 1].next = running[top].next + 1
    BY <1>1 DEF Iterator
  <2> QED
    BY <1>1, <1>2, <2>1, ExceptSeq DEF TypeOK
<1>4. /\ was \in Seq(Entry) /\ Len(was) = top
      /\ is \in Seq(Entry) /\ Len(is) = top
      /\ \A i \in 1..top : was[i] = [list |-> node[running[i].in].list,
                                     next |-> running[i].next]
      /\ \A i \in 1..top : is[i] = [list |-> node[running'[i].in].list,
                                    next |-> running'[i].next]
  <2>1. node' \in [Nodes -> Node] /\ node \in [Nodes -> Node] /\ running \in Seq(Iterator)
    BY <1>1 DEF TypeOK
  <2> QED
    BY <1>1, <1>3, <2>1, OverShape
<1> HIDE DEF was, is
<1>5. /\ e \in Entry /\ is[top] = e
      /\ \A i \in 1..top : i # top => is[i] = was[i]
  <2>1. was[top] \in Entry
    BY <1>1, <1>4, ElementOfSeq
  <2>2. was[top] = [list |-> node[running[top].in].list, next |-> running[top].next]
    BY <1>1, <1>4
  <2>3. was[top].list = node[running[top].in].list /\ was[top].next = running[top].next
    BY <2>2
  <2>4. is[top] = [list |-> node[running'[top].in].list, next |-> running'[top].next]
    BY <1>1, <1>4
  <2>5. is[top] = e
    BY <1>3, <2>3, <2>4
  <2>6. e \in Entry
    BY <1>1, <1>4, <2>5, ElementOfSeq
  <2>7. ASSUME NEW i \in 1..top, i # top PROVE is[i] = was[i]
    <3>1. is[i] = [list |-> node[running'[i].in].list, next |-> running'[i].next]
      BY <1>4
    <3>2. was[i] = [list |-> node[running[i].in].list, next |-> running[i].next]
      BY <1>4
    <3> QED
      BY <1>3, <2>7, <3>1, <3>2
  <2> QED
    BY <2>5, <2>6, <2>7
<1> HIDE DEF e
<1>6. /\ [was EXCEPT ![top] = e] \in Seq(Entry)
      /\ Len([was EXCEPT ![top] = e]) = top
      /\ \A i \in 1..top : [was EXCEPT ![top] = e][i] = IF i = top THEN e ELSE was[i]
  BY <1>1, <1>4, <1>5, ExceptSeq
<1>7. is = [was EXCEPT ![top] = e]
  <2>1. \A i \in 1..top : is[i] = [was EXCEPT ![top] = e][i]
    BY <1>5, <1>6
  <2> QED
    BY <1>4, <1>6, <2>1, SeqEqual
<1>8. was # << >> /\ was[top].next <= Len(was[top].list)
  <2>1. was # << >>
    BY <1>1, <1>4, EmptySeq
  <2>2. was[top] = [list |-> node[running[top].in].list, next |-> running[top].next]
    BY <1>1, <1>4
  <2>3. was[top].list = node[running[top].in].list /\ was[top].next = running[top].next
    BY <2>2
  <2> QED
    BY <1>1, <2>1, <2>3 DEF EndsMatch
<1>9. Shown' = Shown
  BY <1>1 DEF Shown, First
<1> QED
  BY <1>4, <1>7, <1>8, <1>9 DEF Promise!Deliver, Promise!Top, Shown, Over, was, is, e

LEMMA EndRefines ==
    ASSUME IInv, End
    PROVE  Promise!End
<1> USE DEF IInv
<1> DEFINE top == Len(running)
           was == Over(node, running)
           is == Over(node', running')
<1>1. /\ running # << >> /\ running[top].next > running[top].end
      /\ top \in 1..top /\ top \in Nat /\ top >= 1
      /\ running' = SubSeq(running, 1, top - 1)
  BY Shape DEF End, Top
<1>2. /\ running' \in Seq(Iterator) /\ Len(running') = top - 1
      /\ \A i \in 1..top - 1 : running'[i] = running[i]
  BY <1>1, PoppedRunning
<1>3. /\ IInv' /\ chain # << >> /\ chain' # << >>
      /\ \A i \in 1..top - 1 : node'[running[i].in].list = node[running[i].in].list
      /\ node'[First'].list = node[First].list
  BY EndStep
<1>4. /\ was \in Seq(Entry) /\ Len(was) = top
      /\ is \in Seq(Entry) /\ Len(is) = top - 1
      /\ \A i \in 1..top : was[i] = [list |-> node[running[i].in].list,
                                     next |-> running[i].next]
      /\ \A i \in 1..top - 1 : is[i] = [list |-> node'[running'[i].in].list,
                                        next |-> running'[i].next]
  <2>1. node' \in [Nodes -> Node] /\ node \in [Nodes -> Node] /\ running \in Seq(Iterator)
    BY <1>3 DEF TypeOK
  <2> QED
    BY <1>2, <2>1, OverShape
<1> HIDE DEF was, is
<1>5. /\ SubSeq(was, 1, top - 1) \in Seq(Entry)
      /\ Len(SubSeq(was, 1, top - 1)) = top - 1
      /\ \A i \in 1..top - 1 : SubSeq(was, 1, top - 1)[i] = was[i]
  <2> HIDE DEF top
  <2>1. \A i \in 1..top - 1 : was[i] \in Entry
    BY <1>1, <1>4, ElementOfSeq
  <2>2. /\ top - 1 - 1 + 1 = top - 1 /\ (~ (1 <= top - 1) => top - 1 = 0)
        /\ \A i \in 1..top - 1 : 1 + i - 1 = i
    BY <1>1
  <2>3. /\ SubSeq(was, 1, top - 1) \in Seq(Entry)
        /\ Len(SubSeq(was, 1, top - 1)) = IF 1 <= top - 1 THEN top - 1 - 1 + 1 ELSE 0
        /\ \A i \in 1..top - 1 - 1 + 1 : SubSeq(was, 1, top - 1)[i] = was[1 + i - 1]
    BY <1>1, <2>1, SubSeqProperties
  <2> QED
    BY <2>2, <2>3
<1>6. is = SubSeq(was, 1, top - 1)
  <2>1. \A i \in 1..top - 1 : is[i] = SubSeq(was, 1, top - 1)[i]
    <3>1. ASSUME NEW i \in 1..top - 1 PROVE is[i] = was[i]
      <4>1. i \in 1..top
        BY <1>1, <3>1
      <4>2. is[i] = [list |-> node'[running'[i].in].list, next |-> running'[i].next]
        BY <1>4, <3>1
      <4>3. was[i] = [list |-> node[running[i].in].list, next |-> running[i].next]
        BY <1>4, <4>1
      <4>4. running'[i] = running[i]
            /\ node'[running[i].in].list = node[running[i].in].list
        BY <1>2, <1>3, <3>1
      <4> QED
        BY <4>2, <4>3, <4>4
    <3> QED
      BY <1>5, <3>1
  <2> QED
    BY <1>1, <1>4, <1>5, <2>1, SeqEqual
<1>7. was # << >> /\ was[top].next > Len(was[top].list)
  <2>1. was # << >>
    BY <1>1, <1>4, EmptySeq
  <2>2. was[top] = [list |-> node[running[top].in].list, next |-> running[top].next]
    BY <1>1, <1>4
  <2>3. was[top].list = node[running[top].in].list /\ was[top].next = running[top].next
    BY <2>2
  <2> QED
    BY <1>1, <2>1, <2>3 DEF EndsMatch
<1>8. Shown' = Shown
  BY <1>3 DEF Shown
<1> QED
  BY <1>4, <1>6, <1>7, <1>8 DEF Promise!End, Promise!Top, Shown, Over, was, is

LEMMA ChangeRefines ==
    ASSUME IInv, [Next]_vars, ~ Begin, ~ Deliver, ~ End
    PROVE  [Promise!Next]_(Promise!vars)
<1> USE DEF IInv
<1>1. ASSUME NEW t \in Targets, Add(t) PROVE Promise!Add(t)
  <2>1. CASE chain = << >>
    <3>1. /\ Unseen /\ running' = running /\ running = << >>
          /\ Shown' = <<t>> /\ chain' # << >>
      <4>1. PICK n \in Free : /\ node' = [node EXCEPT ![n] = [list |-> <<t>>, locks |-> 0]]
                              /\ chain' = <<n>>
        BY <1>1, <2>1 DEF Add
      <4>2. running' = running
        BY <1>1 DEF Add
      <4> QED
        BY <2>1, <4>1, <4>2, FirstAddStep DEF Shown
    <3>2. Shown = << >> /\ ~ Promise!Listed(<< >>, t) /\ Append(<< >>, t) = <<t>>
      BY <2>1 DEF Shown, Promise!Listed
    <3> QED
      BY <3>1, <3>2, UnseenOver DEF Promise!Add, Shown, Over
  <2>2. CASE chain # << >>
    <3>1. Append(node[First].list, t) \in Seq(Targets)
      BY <2>2, Shape, AppendProperties
    <3>2. /\ Unseen /\ running' = running /\ chain' # << >>
          /\ node'[First'].list = Append(node[First].list, t)
      BY <1>1, <2>2, <3>1, ReplaceStep DEF Add
    <3>3. Shown' = Append(Shown, t) /\ ~ Listed(Shown, t)
      BY <1>1, <2>2, <3>2 DEF Shown, Add
    <3> QED
      BY <3>2, <3>3, UnseenOver DEF Promise!Add, Promise!Listed, Listed, Shown, Over
  <2> QED
    BY <2>1, <2>2
<1>2. ASSUME NEW t \in Targets, Remove(t) PROVE Promise!Remove(t)
  <2>1. chain # << >> /\ Without(node[First].list, t) \in Seq(Targets)
    BY <1>2, Shape, WithoutType DEF Remove
  <2>2. /\ Unseen /\ running' = running /\ chain' # << >>
        /\ node'[First'].list = Without(node[First].list, t)
    BY <1>2, <2>1, ReplaceStep DEF Remove
  <2>3. Shown' = Without(Shown, t) /\ Listed(Shown, t)
    BY <1>2, <2>1, <2>2 DEF Shown, Remove
  <2> QED
    BY <2>2, <2>3, UnseenOver
       DEF Promise!Remove, Promise!Listed, Promise!Without, Listed, Without, Shown, Over
<1>3. ASSUME Clear PROVE Promise!Clear
  <2>1. /\ Unseen /\ running' = running /\ chain' # << >>
        /\ node'[First'].list = << >>
    BY <1>3, ReplaceStep, EmptySeq DEF Clear
  <2>2. Shown' = << >>
    BY <2>1 DEF Shown
  <2> QED
    BY <2>1, <2>2, UnseenOver DEF Promise!Clear, Shown, Over
<1>4. CASE UNCHANGED vars
  BY <1>4 DEF vars, Promise!vars, First
<1> QED
  BY <1>1, <1>2, <1>3, <1>4 DEF Next, Promise!Next

\* The copy-on-write list implements Notifications: each notification goes over
\* the targets there were when it began, whatever happens while it runs.
THEOREM Refinement == Spec => ImplementsNotifications
<1>1. Init => Promise!Init
  <2>1. SUFFICES ASSUME Init PROVE Promise!Init
    OBVIOUS
  <2>2. Over(node, running) = << >>
    BY <2>1 DEF Init, Over
  <2> QED
    BY <2>1, <2>2 DEF Init, Promise!Init, Over
<1>2. IInv /\ [Next]_vars => [Promise!Next]_(Promise!vars)
  BY BeginRefines, DeliverRefines, EndRefines, ChangeRefines DEF Promise!Next
<1> QED
  BY <1>1, <1>2, Invariance, PTL DEF Spec, ImplementsNotifications, Promise!Spec
=============================================================================
