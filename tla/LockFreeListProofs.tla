-------------------------- MODULE LockFreeListProofs --------------------------
(***************************************************************************)
(* Proofs about LockFreeList, for any nodes, values and consumers: a       *)
(* pointer is followed only to a node, whoever races; and with one         *)
(* producer the list is a queue, whose nodes are all accounted for.        *)
(***************************************************************************)
EXTENDS LockFreeList, FiniteSetTheorems, SequenceTheorems, WellFoundedInduction, TLAPS

-----------------------------------------------------------------------------
(* The inductive invariants *)

NodePtrs == Nat \X Nodes

\* Where a thread is tells which of its pointers point to a node.
Follows(t) ==
    /\ pc[t] \in {"top", "allocNext", "allocCas"} => old[t] \in NodePtrs
    /\ Holds(t) \/ pc[t] = "swing" => own[t] \in NodePtrs
    /\ pc[t] \in {"readNext", "help", "link"} => in[t] \in NodePtrs
    /\ pc[t] \in {"popIn", "popNext", "popHelp", "popData", "popCas"} => out[t] \in NodePtrs
    /\ pc[t] \in {"help", "popHelp", "popData", "popCas"} => nxt[t] \in NodePtrs

\* Producers push and consumers pop; what is pushed is a value.
Plays(t) ==
    /\ pc[t] \in PushPCs => t \in Producers /\ val[t] \in Values
    /\ pc[t] \in PopPCs => t \in Consumers

TypeInv == TypeOK /\ \A t \in Threads : Follows(t) /\ Plays(t)

\* The dummy and the queue behind it, and the pointer to each of its nodes.
Line == Chain(next, mOut)
Ptr(i) == IF i = 1 THEN mOut ELSE next[Line[i - 1]]

\* s is the sequence of nodes that the pointers in tbl visit from ptr on.
Linked(tbl, s, ptr) ==
    /\ s \in Seq(Nodes) /\ Len(s) <= Max
    /\ s = <<>> <=> ptr = NullPtr
    /\ s # <<>> => Node(ptr) = s[1] /\ tbl[s[Len(s)]] = NullPtr
    /\ \A i \in 1..(Len(s) - 1) : tbl[s[i]] # NullPtr /\ Node(tbl[s[i]]) = s[i + 1]
Chains == Linked(next, Line, mOut) /\ Linked(next, Free, mHead)

\* Each node is in one place.
Place(n, k, i) ==
    \/ k = "line" /\ i \in 1..Len(Line) /\ Line[i] = n
    \/ k = "free" /\ i \in 1..Len(Free) /\ Free[i] = n
    \/ k = "held" /\ i \in Threads /\ Holds(i) /\ Node(own[i]) = n
Placed ==
    \A n \in Nodes :
        /\ \E k, i : Place(n, k, i)
        /\ \A k, i, l, j : Place(n, k, i) /\ Place(n, l, j) => k = l /\ i = j

\* A pointer into the line is younger than those before it, and none is to come
\* back: mId is beyond all.
Rising ==
    /\ \A i \in 1..Len(Line) : Ver(Ptr(i)) < mId
    /\ \A i, j \in 1..Len(Line) : i < j => Ver(Ptr(i)) < Ver(Ptr(j))

\* m_in points to the last node, or to the one before while push is about to
\* move it on.
Tailed ==
    \/ mIn = Ptr(Len(Line))
    \/ /\ Len(Line) > 1 /\ mIn = Ptr(Len(Line) - 1)
       /\ \E p \in Producers : pc[p] = "swing" /\ in[p] = mIn

\* What is in the queue are values.
Valued == \A i \in 2..Len(Line) : data[Line[i]] \in Values

\* The producer: nobody else takes from the free list or adds to the line.
PushOf(p) ==
    /\ pc[p] \in {"top", "allocNext", "allocCas"} =>
         \E i \in 1..Len(Free) : Free[i] = Node(old[p])
    /\ pc[p] \in {"allocNext", "allocCas"} /\ mHead = old[p] => top[p] = Node(old[p])
    /\ pc[p] = "allocCas" /\ mHead = old[p] => nxt[p] = next[top[p]]
    /\ pc[p] \in {"readIn", "readNext", "link"} =>
         /\ next[Node(own[p])] = NullPtr /\ data[Node(own[p])] = val[p]
         /\ Ver(own[p]) < mId
         /\ \A i \in 1..Len(Line) : Ver(Ptr(i)) < Ver(own[p])
    /\ pc[p] \in {"readNext", "link"} => in[p] = mIn
    /\ pc[p] # "help"
    /\ pc[p] = "swing" => own[p] = Ptr(Len(Line))

\* A consumer: what it has read is true as long as the dummy it read is the dummy.
PopOf(t) ==
    /\ pc[t] \in {"popIn", "popNext", "popHelp", "popData", "popCas"} => Ver(out[t]) <= Ver(mOut)
    /\ pc[t] \in {"popNext", "popData", "popCas"} /\ mOut = out[t] /\ in[t] # out[t] => mIn # mOut
    /\ pc[t] \in {"popData", "popCas"} =>
         in[t] # out[t] /\ (mOut = out[t] => nxt[t] = next[Node(out[t])])
    /\ pc[t] = "popCas" /\ mOut = out[t] => val[t] = data[Node(nxt[t])]
    /\ pc[t] = "popHelp" => in[t] = out[t] /\ (mIn = in[t] => nxt[t] = next[Node(in[t])])
    /\ pc[t] = "releaseCas" => next[Node(own[t])] = old[t]

ListInv ==
    /\ Chains /\ Placed /\ Rising /\ Tailed /\ Valued
    /\ \A p \in Producers : PushOf(p)
    /\ \A t \in Consumers : PopOf(t)

-----------------------------------------------------------------------------
(* Types *)

\* The constants and places that types are made of.
LEMMA Facts ==
    /\ Max \in Nat /\ Max > 1
    /\ Null \notin Nodes /\ 0 \in Nodes /\ 1 \in Nodes /\ Nodes \subseteq Nat
    /\ NodePtrs = Nat \X Nodes /\ NullPtr \notin NodePtrs /\ Pointers = NodePtrs \cup {NullPtr}
    /\ \A x \in NodePtrs : Node(x) \in Nodes /\ Ver(x) \in Nat /\ x = <<Ver(x), Node(x)>>
    /\ \A v \in Nat, n \in Nodes : <<v, n>> \in NodePtrs /\ Ver(<<v, n>>) = v /\ Node(<<v, n>>) = n
    /\ Node(NullPtr) = Null
    /\ NoValue \notin Values
BY MaxAssumption, ValueAssumption DEF Null, Nodes, NullPtr, NodePtrs, Pointers, Node, Ver

\* The constructor leaves pointers to nodes.
LEMMA InitTypes == Init => TypeInv
<1> SUFFICES ASSUME Init PROVE TypeInv
  OBVIOUS
<1>1. next \in [Nodes -> Pointers]
  BY MaxAssumption DEF Init, Nodes, NodePtrs, Pointers
<1>2. mIn \in NodePtrs /\ mOut \in NodePtrs /\ mHead \in Pointers /\ mId \in Nat
  BY MaxAssumption DEF Init, Nodes, NodePtrs, Pointers
<1>3. TypeOK
  BY <1>1, <1>2, Facts DEF Init, TypeOK, NodePtrs, PCs
<1> QED BY <1>3, Facts DEF Init, TypeInv, Follows, Plays, Holds, PushPCs, PopPCs

Step(t) ==
    \/ \E v \in Values : PushCall(t, v)
    \/ PopCall(t)
    \/ PushStep(t) \/ PopStep(t) \/ Return(t)

\* A step of one thread leaves the others where they are, with their locals.
SameThread(u) ==
    /\ pc'[u] = pc[u] /\ val'[u] = val[u] /\ own'[u] = own[u] /\ in'[u] = in[u]
    /\ out'[u] = out[u] /\ nxt'[u] = nxt[u] /\ old'[u] = old[u] /\ top'[u] = top[u]

\* Every step leaves all threads but one as they are.
LEMMA Alone ==
    ASSUME TypeInv, NEW t \in Threads, Step(t), NEW u \in Threads, u # t
    PROVE  SameThread(u)
<1> USE DEF TypeInv, TypeOK, SameThread, Goto, At, shared, locals
<1>1. ASSUME NEW v \in Values, PushCall(t, v) PROVE SameThread(u)
  BY <1>1 DEF PushCall
<1>2. CASE PopCall(t) \/ Return(t)
  BY <1>2 DEF PopCall, Return
<1>3. CASE PushStep(t)
  BY <1>3 DEF PushStep, AllocRead, AllocTop, AllocNext, AllocCas, AllocClear, Fill, ReadIn,
     ReadNext, Help, Link, Swing
<1>4. CASE PopStep(t)
  BY <1>4 DEF PopStep, PopReadOut, PopReadIn, PopReadNext, PopHelp, PopData, PopCas, Version,
     Release, ReleaseCas
<1> QED BY <1>1, <1>2, <1>3, <1>4 DEF Step

\* What is to be shown of the types: the variables', and where the thread is.
Types ==
    /\ mIn \in NodePtrs /\ mOut \in NodePtrs
    /\ mHead \in Pointers /\ mId \in Nat
    /\ next \in [Nodes -> Pointers]
    /\ data \in [Nodes -> Values \cup {NoValue}]
    /\ todo \in SUBSET Values
    /\ pc \in [Threads -> PCs]
    /\ val \in [Threads -> Values \cup {NoValue}]
    /\ in \in [Threads -> Pointers] /\ out \in [Threads -> Pointers]
    /\ nxt \in [Threads -> Pointers] /\ own \in [Threads -> Pointers]
    /\ old \in [Threads -> Pointers]
    /\ top \in [Threads -> Nodes \cup {Null}]

\* AllocNode follows m_head only where it is a node.
FollowsTop(t) == pc[t] = "allocNext" => top[t] \in Nodes

AllTypes == Types /\ \A t \in Threads : FollowsTop(t) /\ Follows(t) /\ Plays(t)

\* The type invariant in the form that the steps are checked against.
LEMMA TypesAre == TypeInv <=> AllTypes
<1>1. TypeOK => Types /\ \A t \in Threads : FollowsTop(t)
  BY Facts DEF TypeOK, Types, FollowsTop
<1>2. ASSUME Types, NEW t \in Threads, Follows(t)
      PROVE  /\ pc[t] \in {"allocNext", "allocCas"} => Node(old[t]) \in Nodes
             /\ pc[t] \in {"clear", "fill", "swing", "version", "release"} => Node(own[t]) \in Nodes
             /\ pc[t] \in {"readNext", "help", "link"} => Node(in[t]) \in Nodes
             /\ pc[t] \in {"popData", "popCas"} => Node(nxt[t]) \in Nodes
  BY <1>2, Facts DEF Follows, Holds
<1>3. Types /\ (\A t \in Threads : FollowsTop(t) /\ Follows(t)) => TypeOK
  BY <1>2, Facts DEF TypeOK, Types, FollowsTop
<1> QED BY <1>1, <1>3 DEF TypeInv, AllTypes

\* Each step keeps the types: what it follows it has read as a node.
LEMMA StepTypes ==
    ASSUME TypeInv, NEW t \in Threads, Step(t)
    PROVE  TypeInv'
<1>1. Types /\ FollowsTop(t) /\ Follows(t) /\ Plays(t)
  BY TypesAre DEF AllTypes
<1> DEFINE Goal == Types' /\ FollowsTop(t)' /\ Follows(t)' /\ Plays(t)'
<1>0. /\ NullPtr \in Pointers /\ NullPtr \notin NodePtrs
      /\ \A x : x \in Pointers <=> x = NullPtr \/ x \in NodePtrs
      /\ \A x \in NodePtrs : Node(x) \in Nodes
      /\ \A v \in Nat, n \in Nodes : <<v, n>> \in NodePtrs
  BY Facts
<1> USE <1>0 DEF Types, FollowsTop, Follows, Plays, Holds, Goto, At, shared, locals, PushPCs, PopPCs, PCs
<1>2. ASSUME NEW v \in Values, PushCall(t, v) PROVE Goal
  BY <1>1, <1>2 DEF PushCall
<1>3. AllocRead(t) => Goal
  BY <1>1 DEF AllocRead
<1>4. AllocTop(t) => Goal
  BY <1>1, Facts DEF AllocTop
<1>5. AllocNext(t) => Goal
  BY <1>1 DEF AllocNext
<1>6. AllocCas(t) => Goal
  BY <1>1 DEF AllocCas
<1>7. AllocClear(t) => Goal
  BY <1>1 DEF AllocClear
<1>8. Fill(t) => Goal
  BY <1>1 DEF Fill
<1>9. ReadIn(t) => Goal
  BY <1>1 DEF ReadIn
<1>10. ReadNext(t) => Goal
  BY <1>1 DEF ReadNext
<1>11. Help(t) => Goal
  BY <1>1 DEF Help
<1>12. Link(t) => Goal
  BY <1>1 DEF Link
<1>13. Swing(t) => Goal
  BY <1>1 DEF Swing
<1>14. PopCall(t) => Goal
  BY <1>1 DEF PopCall
<1>15. PopReadOut(t) => Goal
  BY <1>1 DEF PopReadOut
<1>16. PopReadIn(t) => Goal
  BY <1>1 DEF PopReadIn
<1>17. PopReadNext(t) => Goal
  BY <1>1 DEF PopReadNext
<1>18. PopHelp(t) => Goal
  BY <1>1 DEF PopHelp
<1>19. PopData(t) => Goal
  BY <1>1 DEF PopData, Datum
<1>20. PopCas(t) => Goal
  BY <1>1 DEF PopCas, Freed
<1>21. Version(t) => Goal
  BY <1>1 DEF Version
<1>22. Release(t) => Goal
  BY <1>1 DEF Release
<1>23. ReleaseCas(t) => Goal
  BY <1>1 DEF ReleaseCas
<1>24. Return(t) => Goal
  BY <1>1 DEF Return
<1>25. Goal
  BY <1>2, <1>3, <1>4, <1>5, <1>6, <1>7, <1>8, <1>9, <1>10, <1>11, <1>12, <1>13, <1>14, <1>15, <1>16, <1>17, <1>18, <1>19, <1>20, <1>21, <1>22, <1>23, <1>24 DEF Step, PushStep, PopStep
<1>26. ASSUME NEW u \in Threads, u # t PROVE FollowsTop(u)' /\ Follows(u)' /\ Plays(u)'
  <2>1. FollowsTop(u) /\ Follows(u) /\ Plays(u) /\ SameThread(u)
    BY <1>26, TypesAre, Alone DEF AllTypes
  <2> QED BY <2>1 DEF SameThread
<1>27. AllTypes'
  BY <1>1, <1>25, <1>26 DEF AllTypes
<1> QED BY <1>27, TypesAre, PTL

\* Whoever races, a pointer that is followed is one to a node.
THEOREM ListTypes == Spec => []TypeOK
<1>1. TypeInv /\ [Next]_vars => TypeInv'
  <2>1. ASSUME TypeInv, UNCHANGED vars PROVE TypeInv'
    BY <2>1 DEF vars, shared, locals, TypeInv, TypeOK, Follows, Plays, Holds
  <2> QED BY <2>1, StepTypes DEF Next, Step
<1>2. TypeInv => TypeOK
  BY DEF TypeInv
<1> QED BY <1>1, <1>2, InitTypes, PTL DEF Spec

-----------------------------------------------------------------------------
(* Chains *)

\* A nonempty set of numbers has a smallest one, since < is well founded on them.
LEMMA SmallestNat ==
    ASSUME NEW T \in SUBSET Nat, T # {}
    PROVE  \E x \in T : \A y \in T : x <= y
<1> DEFINE R == {ss \in Nat \X Nat : ss[1] < ss[2]}
<1>1. R = OpToRel(<, Nat)
    BY DEF OpToRel
<1>2. IsWellFoundedOn(R, Nat)
    BY <1>1, NatLessThanWellFounded
<1> HIDE DEF R
<1>3. PICK x \in T : \A y \in T : ~(<<y, x>> \in R)
    BY <1>2, WFMin
<1>4. \A y \in T : ~(y < x)
    BY <1>3 DEF R
<1> QED BY <1>4

\* What the pointers of a table visit is the chain that the program computes.
LEMMA ChainIs ==
    ASSUME NEW tbl, NEW s, NEW ptr, Linked(tbl, s, ptr)
    PROVE  Chain(tbl, ptr) = s
<1> DEFINE Rec(f) == f = [k \in 0..Max |-> IF k = 0 THEN ptr
                            ELSE IF f[k - 1] = NullPtr THEN NullPtr
                            ELSE tbl[Node(f[k - 1])]]
           step == CHOOSE f : Rec(f)
           g == [k \in 0..Max |-> IF k = 0 THEN ptr
                    ELSE IF k <= Len(s) THEN tbl[s[k]] ELSE NullPtr]
<1>0. /\ Max \in Nat /\ Len(s) \in Nat /\ Len(s) <= Max
      /\ \A i \in 1..Len(s) : s[i] \in Nodes
  BY MaxAssumption DEF Linked
<1>1. ASSUME NEW k \in 0..Max
      PROVE  g[k] = IF k = 0 THEN ptr ELSE IF g[k - 1] = NullPtr THEN NullPtr
                    ELSE tbl[Node(g[k - 1])]
  <2>1. CASE k = 0
    BY <2>1
  <2>2. CASE k = 1
    BY <2>2, <1>0 DEF Linked
  <2>3. CASE k > 1 /\ k <= Len(s)
    <3>1. g[k] = tbl[s[k]] /\ g[k - 1] = tbl[s[k - 1]] /\ k - 1 \in 1..(Len(s) - 1)
      BY <2>3, <1>0
    <3> QED BY <3>1, <2>3, <1>0 DEF Linked
  <2>4. CASE k > 1 /\ k > Len(s)
    <3>1. g[k] = NullPtr
      BY <2>4, <1>0
    <3>2. g[k - 1] = NullPtr
      <4>1. CASE k - 1 = Len(s)
        BY <4>1, <2>4, <1>0 DEF Linked
      <4>2. CASE k - 1 > Len(s)
        BY <4>2, <2>4, <1>0
      <4> QED BY <4>1, <4>2, <2>4, <1>0
    <3> QED BY <3>1, <3>2, <2>4
  <2> QED BY <2>1, <2>2, <2>3, <2>4, <1>0
<1>2. Rec(g)
  BY <1>1, Zenon
<1>3. Rec(step)
  BY <1>2, Zenon
<1>4. Chain(tbl, ptr) = [k \in 1..Cardinality({k \in 0..Max : step[k] # NullPtr}) |-> Node(step[k - 1])]
  BY Zenon DEF Chain
<1> HIDE DEF step
\* Where step and g differ they differ in a first place, and then they do not.
<1>5. ASSUME NEW k \in 0..Max PROVE step[k] = g[k]
  <2> SUFFICES ASSUME step[k] # g[k] PROVE FALSE
    OBVIOUS
  <2> DEFINE D == {j \in 0..Max : step[j] # g[j]}
  <2>1. PICK m \in D : \A j \in D : m <= j
    <3>1. D \in SUBSET Nat /\ D # {}
      BY <1>0
    <3> HIDE DEF D
    <3> QED BY <3>1, SmallestNat
  <2>2. m # 0 => m - 1 \in 0..Max /\ step[m - 1] = g[m - 1]
    BY <2>1, <1>0
  <2>3. step[m] = IF m = 0 THEN ptr ELSE IF step[m - 1] = NullPtr THEN NullPtr
                  ELSE tbl[Node(step[m - 1])]
    BY <1>3
  <2> QED BY <2>1, <2>2, <2>3, <1>1
<1>6. \A k \in 0..Max : g[k] # NullPtr <=> k < Len(s)
  <2> SUFFICES ASSUME NEW k \in 0..Max PROVE g[k] # NullPtr <=> k < Len(s)
    OBVIOUS
  <2>1. CASE k = 0
    BY <2>1, <1>0 DEF Linked
  <2>2. CASE k > 0 /\ k < Len(s)
    BY <2>2, <1>0 DEF Linked
  <2>3. CASE k > 0 /\ k >= Len(s)
    BY <2>3, <1>0 DEF Linked
  <2> QED BY <2>1, <2>2, <2>3, <1>0
<1>7. \A k \in 1..Len(s) : Node(g[k - 1]) = s[k]
  <2> SUFFICES ASSUME NEW k \in 1..Len(s) PROVE Node(g[k - 1]) = s[k]
    OBVIOUS
  <2>1. CASE k = 1
    BY <2>1, <1>0 DEF Linked
  <2>2. CASE k > 1
    <3>1. g[k - 1] = tbl[s[k - 1]] /\ k - 1 \in 1..(Len(s) - 1)
      BY <2>2, <1>0
    <3> QED BY <3>1, <1>0 DEF Linked
  <2> QED BY <2>1, <2>2, <1>0
<1> HIDE DEF g
<1>8. {k \in 0..Max : step[k] # NullPtr} = 0..(Len(s) - 1)
  BY <1>0, <1>5, <1>6
<1>9. Cardinality(0..(Len(s) - 1)) = Len(s)
  <2>1. 0 \in Int /\ Len(s) - 1 \in Int
    BY <1>0
  <2>2. Cardinality(0..(Len(s) - 1)) = IF 0 > Len(s) - 1 THEN 0 ELSE Len(s) - 1 - 0 + 1
    BY <2>1, FS_Interval, Zenon
  <2> QED BY <2>2, <1>0
<1>10. Chain(tbl, ptr) = [k \in 1..Len(s) |-> s[k]]
  <2>1. \A k \in 1..Len(s) : k - 1 \in 0..Max /\ Node(step[k - 1]) = s[k]
    BY <1>0, <1>5, <1>7
  <2> QED BY <2>1, <1>4, <1>8, <1>9
<1>11. s = [k \in 1..Len(s) |-> s[k]]
  BY LenProperties DEF Linked
<1> QED BY <1>10, <1>11

\* A sequence of different nodes is not longer than the array.
LEMMA ShortSeq ==
    ASSUME NEW s \in Seq(Nodes), \A i, j \in 1..Len(s) : s[i] = s[j] => i = j
    PROVE  Len(s) <= Max
<1>1. Len(s) \in Nat /\ s \in [1..Len(s) -> Nodes]
  BY LenProperties
<1>2. IsFiniteSet(Nodes) /\ Cardinality(Nodes) = Max
  <2>1. 0 \in Int /\ Max - 1 \in Int /\ Max > 0 /\ Max \in Nat
    BY MaxAssumption
  <2>2. IsFiniteSet(Nodes) /\ Cardinality(Nodes) = IF 0 > Max - 1 THEN 0 ELSE Max - 1 - 0 + 1
    BY <2>1, FS_Interval, Zenon DEF Nodes
  <2> QED BY <2>1, <2>2
<1>3. s \in Injection(1..Len(s), Nodes)
  BY <1>1 DEF Injection, IsInjective
<1>4. Cardinality(1..Len(s)) <= Cardinality(Nodes)
  BY <1>2, <1>3, FS_Injection
<1>5. Cardinality(1..Len(s)) = Len(s)
  <2>1. 1 \in Int /\ Len(s) \in Int
    BY <1>1
  <2>2. Cardinality(1..Len(s)) = IF 1 > Len(s) THEN 0 ELSE Len(s) - 1 + 1
    BY <2>1, FS_Interval, Zenon
  <2> QED BY <2>2, <1>1
<1> QED BY <1>2, <1>4, <1>5

\* Pointers of other nodes do not matter to a chain.
LEMMA LinkedFrame ==
    ASSUME NEW tbl, NEW tbl2, NEW s, NEW ptr, Linked(tbl, s, ptr),
           \A i \in 1..Len(s) : tbl2[s[i]] = tbl[s[i]]
    PROVE  Linked(tbl2, s, ptr)
<1>1. Len(s) \in Nat /\ (s # <<>> => Len(s) \in 1..Len(s))
  BY DEF Linked
<1> QED BY <1>1 DEF Linked

\* A chain without its first node.
LEMMA LinkedTail ==
    ASSUME NEW tbl, NEW s, NEW ptr, Linked(tbl, s, ptr), s # <<>>
    PROVE  /\ Linked(tbl, Tail(s), tbl[s[1]])
           /\ Len(Tail(s)) = Len(s) - 1 /\ Len(s) \in Nat \ {0}
           /\ \A i \in 1..(Len(s) - 1) : Tail(s)[i] = s[i + 1]
<1>1. /\ s \in Seq(Nodes) /\ Len(s) \in Nat \ {0}
      /\ Tail(s) \in Seq(Nodes) /\ Len(Tail(s)) = Len(s) - 1
      /\ \A i \in 1..(Len(s) - 1) : Tail(s)[i] = s[i + 1]
  BY HeadTailProperties, EmptySeq DEF Linked
<1>2. Tail(s) = <<>> <=> Len(s) = 1
  <2>1. Tail(s) = <<>> => Len(Tail(s)) = 0
    BY EmptySeq
  <2>2. Tail(s) # <<>> => Len(Tail(s)) \in Nat \ {0}
    BY <1>1, EmptySeq
  <2> QED BY <1>1, <2>1, <2>2
<1>3. tbl[s[1]] = NullPtr <=> Len(s) = 1
  BY <1>1 DEF Linked
<1>4. Tail(s) # <<>> => Node(tbl[s[1]]) = Tail(s)[1] /\ tbl[Tail(s)[Len(s) - 1]] = NullPtr
  BY <1>1, <1>2 DEF Linked
<1>5. ASSUME NEW i \in 1..(Len(Tail(s)) - 1)
      PROVE  tbl[Tail(s)[i]] # NullPtr /\ Node(tbl[Tail(s)[i]]) = Tail(s)[i + 1]
  <2>1. i \in 1..(Len(s) - 1) /\ i + 1 \in 1..(Len(s) - 1) /\ i + 1 \in Nat
    BY <1>1
  <2> QED BY <2>1, <1>1 DEF Linked
<1>6. Len(Tail(s)) <= Max
  BY <1>1, Facts DEF Linked
<1> QED BY <1>1, <1>2, <1>3, <1>4, <1>5, <1>6 DEF Linked

\* A chain with a node put in front of it.
LEMMA LinkedCons ==
    ASSUME NEW tbl, NEW s, NEW ptr, Linked(tbl, s, ptr), Len(s) < Max,
           NEW q \in NodePtrs, tbl[Node(q)] = ptr
    PROVE  /\ Linked(tbl, <<Node(q)>> \o s, q)
           /\ Len(<<Node(q)>> \o s) = Len(s) + 1 /\ Len(s) \in Nat
           /\ (<<Node(q)>> \o s)[1] = Node(q)
           /\ \A i \in 1..Len(s) : (<<Node(q)>> \o s)[i + 1] = s[i]
<1> DEFINE r == <<Node(q)>> \o s
<1>0. Node(q) \in Nodes /\ <<Node(q)>> \in Seq(Nodes) /\ Len(<<Node(q)>>) = 1 /\ <<Node(q)>>[1] = Node(q)
      /\ s \in Seq(Nodes) /\ Len(s) \in Nat /\ q # NullPtr /\ Max \in Nat
  BY Facts DEF Linked
<1>1. /\ r \in Seq(Nodes) /\ Len(r) = 1 + Len(s)
      /\ \A i \in 1..(1 + Len(s)) : r[i] = IF i <= 1 THEN <<Node(q)>>[i] ELSE s[i - 1]
  BY <1>0, ConcatProperties
<1> HIDE DEF r
<1>2. r[1] = Node(q) /\ \A i \in 1..Len(s) : i + 1 \in 1..Len(r) /\ r[i + 1] = s[i]
  BY <1>0, <1>1
<1>3. r # <<>> /\ Len(r) <= Max
  BY <1>0, <1>1
<1>4. tbl[r[Len(r)]] = NullPtr
  <2>1. CASE s = <<>>
    BY <2>1, <1>0, <1>1, <1>2 DEF Linked
  <2>2. CASE s # <<>>
    <3>1. Len(s) \in 1..Len(s) /\ r[Len(r)] = s[Len(s)]
      BY <2>2, <1>0, <1>1, <1>2, EmptySeq
    <3> QED BY <3>1, <2>2 DEF Linked
  <2> QED BY <2>1, <2>2
<1>5. ASSUME NEW i \in 1..(Len(r) - 1)
      PROVE  tbl[r[i]] # NullPtr /\ Node(tbl[r[i]]) = r[i + 1]
  <2>1. CASE i = 1
    <3>1. s # <<>> /\ r[2] = s[1]
      BY <2>1, <1>0, <1>1, <1>2
    <3> QED BY <3>1, <2>1, <1>2 DEF Linked
  <2>2. CASE i > 1
    <3>1. i - 1 \in 1..(Len(s) - 1) /\ r[i] = s[i - 1] /\ r[i + 1] = s[i]
      BY <2>2, <1>0, <1>1, <1>2
    <3>2. tbl[s[i - 1]] # NullPtr /\ Node(tbl[s[i - 1]]) = s[(i - 1) + 1]
      BY <3>1 DEF Linked
    <3> QED BY <3>1, <3>2, <1>0
  <2> QED BY <2>1, <2>2, <1>0, <1>1
<1> QED BY <1>0, <1>1, <1>2, <1>3, <1>4, <1>5 DEF Linked, r

\* A chain with a node linked behind its last one.
LEMMA LinkedAppend ==
    ASSUME NEW tbl, NEW tbl2, NEW s, NEW ptr, Linked(tbl, s, ptr), s # <<>>, Len(s) < Max,
           NEW n \in Nodes, tbl2[n] = NullPtr,
           tbl2[s[Len(s)]] # NullPtr, Node(tbl2[s[Len(s)]]) = n,
           \A i \in 1..(Len(s) - 1) : tbl2[s[i]] = tbl[s[i]]
    PROVE  /\ Linked(tbl2, Append(s, n), ptr)
           /\ Len(Append(s, n)) = Len(s) + 1 /\ Len(s) \in Nat \ {0}
           /\ Append(s, n)[Len(s) + 1] = n
           /\ \A i \in 1..Len(s) : Append(s, n)[i] = s[i]
<1> DEFINE r == Append(s, n)
<1>0. /\ n \in Nodes /\ Max \in Nat
      /\ s \in Seq(Nodes) /\ Len(s) \in Nat \ {0}
  BY Facts, EmptySeq DEF Linked
<1>1. /\ r \in Seq(Nodes) /\ Len(r) = Len(s) + 1
      /\ r[Len(s) + 1] = n /\ \A i \in 1..Len(s) : r[i] = s[i]
  BY <1>0, AppendProperties
<1> HIDE DEF r
<1>2. r # <<>> /\ Len(r) <= Max /\ r[1] = s[1]
  BY <1>0, <1>1
<1>3. ASSUME NEW i \in 1..(Len(r) - 1)
      PROVE  tbl2[r[i]] # NullPtr /\ Node(tbl2[r[i]]) = r[i + 1]
  <2>1. CASE i = Len(s)
    BY <2>1, <1>0, <1>1
  <2>2. CASE i < Len(s)
    <3>1. i \in 1..(Len(s) - 1) /\ r[i] = s[i] /\ r[i + 1] = s[i + 1]
      BY <2>2, <1>0, <1>1
    <3> QED BY <3>1 DEF Linked
  <2> QED BY <2>1, <2>2, <1>0, <1>1
<1> QED BY <1>0, <1>1, <1>2, <1>3 DEF Linked, r

-----------------------------------------------------------------------------
(* The line and the free list *)

\* The nodes of both, and the pointers to those of the line.
LEMMA LineFacts ==
    ASSUME TypeInv, Chains
    PROVE  /\ Len(Line) \in Nat \ {0} /\ Len(Line) <= Max
           /\ \A i \in 1..Len(Line) : Line[i] \in Nodes
           /\ Line[1] = Node(mOut) /\ Ptr(1) = mOut
           /\ \A i \in 1..Len(Line) : Ptr(i) \in NodePtrs /\ Node(Ptr(i)) = Line[i]
           /\ \A i \in 1..(Len(Line) - 1) : next[Line[i]] = Ptr(i + 1)
           /\ next[Line[Len(Line)]] = NullPtr
<1>1. Types /\ mOut # NullPtr
  BY TypesAre, Facts DEF AllTypes, Types
<1>2. /\ Line \in Seq(Nodes) /\ Line # <<>> /\ Len(Line) \in Nat \ {0} /\ Len(Line) <= Max
      /\ \A i \in 1..Len(Line) : Line[i] \in Nodes
  BY <1>1, EmptySeq DEF Chains, Linked
<1>3. Line[1] = Node(mOut) /\ Ptr(1) = mOut /\ next[Line[Len(Line)]] = NullPtr
  BY <1>1, <1>2 DEF Chains, Linked, Ptr
<1>4. \A i \in 1..(Len(Line) - 1) : next[Line[i]] = Ptr(i + 1)
  BY <1>2 DEF Ptr
<1>5. ASSUME NEW i \in 1..Len(Line) PROVE Ptr(i) \in NodePtrs /\ Node(Ptr(i)) = Line[i]
  <2>1. CASE i = 1
    BY <2>1, <1>1, <1>3 DEF Types
  <2>2. CASE i > 1
    <3>1. i - 1 \in 1..(Len(Line) - 1) /\ (i - 1) + 1 = i
      BY <2>2, <1>2
    <3>2. next[Line[i - 1]] # NullPtr /\ Node(next[Line[i - 1]]) = Line[i]
      BY <3>1 DEF Chains, Linked
    <3>3. Line[i - 1] \in Nodes /\ next[Line[i - 1]] \in Pointers
      BY <3>1, <1>1, <1>2 DEF Types
    <3> QED BY <2>2, <3>2, <3>3, Facts DEF Ptr
  <2> QED BY <2>1, <2>2, <1>2
<1> QED BY <1>2, <1>3, <1>4, <1>5

\* The free list's nodes, and m_head as its first.
LEMMA FreeFacts ==
    ASSUME TypeInv, Chains
    PROVE  /\ Len(Free) \in Nat /\ \A i \in 1..Len(Free) : Free[i] \in Nodes
           /\ mHead = NullPtr <=> Len(Free) = 0
           /\ Len(Free) > 0 => mHead \in NodePtrs /\ Free[1] = Node(mHead)
<1>1. Types
  BY TypesAre DEF AllTypes
<1> QED BY <1>1, EmptySeq, Facts DEF Chains, Linked, Types

\* A node that a thread holds is in neither, and in no other thread's hands.
LEMMA HeldFacts ==
    ASSUME TypeInv, Placed, NEW t \in Threads, Holds(t)
    PROVE  /\ Node(own[t]) \in Nodes /\ own[t] \in NodePtrs
           /\ \A i \in 1..Len(Line) : Line[i] # Node(own[t])
           /\ \A i \in 1..Len(Free) : Free[i] # Node(own[t])
           /\ \A u \in Threads : Holds(u) /\ Node(own[u]) = Node(own[t]) => u = t
<1>1. own[t] \in NodePtrs /\ Node(own[t]) \in Nodes
  BY Facts DEF TypeInv, Follows
<1>2. Place(Node(own[t]), "held", t)
  BY DEF Place
<1>3. \A k, i : Place(Node(own[t]), k, i) => k = "held" /\ i = t
  BY <1>1, <1>2 DEF Placed
<1>4. ASSUME NEW i \in 1..Len(Line), Line[i] = Node(own[t]) PROVE FALSE
  <2>1. Place(Node(own[t]), "line", i)
    BY <1>4 DEF Place
  <2> QED BY <2>1, <1>3
<1>5. ASSUME NEW i \in 1..Len(Free), Free[i] = Node(own[t]) PROVE FALSE
  <2>1. Place(Node(own[t]), "free", i)
    BY <1>5 DEF Place
  <2> QED BY <2>1, <1>3
<1>6. ASSUME NEW u \in Threads, Holds(u), Node(own[u]) = Node(own[t]) PROVE u = t
  <2>1. Place(Node(own[t]), "held", u)
    BY <1>6 DEF Place
  <2> QED BY <2>1, <1>3
<1> QED BY <1>1, <1>4, <1>5, <1>6

\* Nodes of the two chains are different.
LEMMA ChainFacts ==
    ASSUME TypeInv, Chains, Placed
    PROVE  /\ \A i, j \in 1..Len(Line) : Line[i] = Line[j] => i = j
           /\ \A i, j \in 1..Len(Free) : Free[i] = Free[j] => i = j
           /\ \A i \in 1..Len(Line), j \in 1..Len(Free) : Line[i] # Free[j]
<1>1. \A i \in 1..Len(Line) : Line[i] \in Nodes /\ Place(Line[i], "line", i)
  BY LineFacts DEF Place
<1>2. \A i \in 1..Len(Free) : Free[i] \in Nodes /\ Place(Free[i], "free", i)
  BY FreeFacts DEF Place
<1>3. \A n \in Nodes : \A k, i, l, j : Place(n, k, i) /\ Place(n, l, j) => k = l /\ i = j
  BY DEF Placed
<1>4. "line" # "free"
  OBVIOUS
<1> QED BY <1>1, <1>2, <1>3, <1>4, Zenon

\* What a step that moves no node leaves alone.
Same ==
    /\ Line' = Line /\ Free' = Free
    /\ \A i \in 1..Len(Line) : Ptr(i)' = Ptr(i)

\* Threads hold what they held.
SameHands ==
    \A u \in Threads : /\ Holds(u)' <=> Holds(u)
                       /\ Holds(u) => Node(own'[u]) = Node(own[u])

\* A step that changes pointers of held nodes only moves none.
LEMMA Quiet ==
    ASSUME TypeInv, Chains, Placed, mOut' = mOut, mHead' = mHead, SameHands,
           \A n \in Nodes : \/ next'[n] = next[n]
                            \/ \E t \in Threads : Holds(t) /\ Node(own[t]) = n
    PROVE  Same /\ Chains' /\ Placed'
<1>1. /\ \A i \in 1..Len(Line) : Line[i] \in Nodes /\ next'[Line[i]] = next[Line[i]]
      /\ \A i \in 1..Len(Free) : Free[i] \in Nodes /\ next'[Free[i]] = next[Free[i]]
  BY LineFacts, FreeFacts, HeldFacts
<1>2. Linked(next', Line, mOut') /\ Linked(next', Free, mHead')
  BY <1>1, LinkedFrame DEF Chains
<1>3. Line' = Line /\ Free' = Free
  BY <1>2, ChainIs DEF Line, Free
<1>4. Chains'
  BY <1>2, <1>3 DEF Chains
<1>5. ASSUME NEW i \in 1..Len(Line) PROVE Ptr(i)' = Ptr(i)
  <2>1. i # 1 => i - 1 \in 1..Len(Line)
    BY LineFacts
  <2> QED BY <2>1, <1>1, <1>3 DEF Ptr
<1>6. \A n, k, i : Place(n, k, i)' <=> Place(n, k, i)
  BY <1>3 DEF Place, SameHands
<1>7. Placed'
  BY <1>6 DEF Placed
<1> QED BY <1>3, <1>4, <1>5, <1>7 DEF Same

-----------------------------------------------------------------------------
(* The four steps that move a node *)

\* AllocNode takes the first free node.
LEMMA AllocMoves ==
    ASSUME TypeInv, Chains, Placed, NEW p \in Threads, AllocCas(p), PushOf(p), mHead = old[p]
    PROVE  /\ Line' = Line /\ \A i \in 1..Len(Line) : Ptr(i)' = Ptr(i)
           /\ Chains' /\ Placed'
<1>1. /\ pc[p] = "allocCas" /\ ~Holds(p) /\ old[p] \in NodePtrs
      /\ Types /\ top[p] = Node(old[p]) /\ nxt[p] = next[Node(old[p])]
  BY TypesAre DEF AllocCas, At, PushOf, AllTypes, Follows, Holds
<1>2. /\ mHead' = next[Free[1]] /\ next' = next /\ mOut' = mOut
      /\ Free # <<>> /\ Free[1] = Node(mHead) /\ Len(Free) \in Nat \ {0}
  BY <1>1, FreeFacts, Facts, EmptySeq DEF AllocCas, Chains, Linked
<1>3. Holds(p)' /\ own'[p] = mHead /\ \A u \in Threads : u # p => SameThread(u)
  BY <1>1, Alone DEF AllocCas, Goto, Types, Holds, Step, PushStep
<1>4. Linked(next', Tail(Free), mHead') /\ Linked(next', Line, mOut')
  BY <1>2, LinkedTail DEF Chains
<1>5. Line' = Line /\ Free' = Tail(Free)
  BY <1>4, ChainIs DEF Line, Free
<1>6. Chains'
  BY <1>4, <1>5 DEF Chains
<1>7. Len(Free') = Len(Free) - 1 /\ \A i \in 1..(Len(Free) - 1) : Free'[i] = Free[i + 1]
  BY <1>2, <1>5, LinkedTail DEF Chains
<1>8. \A u \in Threads : Holds(u)' <=> u = p \/ Holds(u)
  BY <1>3 DEF SameThread, Holds
<1>9. \A n, k, i : Place(n, k, i)' <=> \/ k = "line" /\ Place(n, "line", i)
                                       \/ k = "free" /\ i \in Nat \ {0} /\ Place(n, "free", i + 1)
                                       \/ k = "held" /\ i # p /\ Place(n, "held", i)
                                       \/ k = "held" /\ i = p /\ Place(n, "free", 1)
  <2> SUFFICES ASSUME NEW n, NEW k, NEW i
               PROVE  Place(n, k, i)' <=> \/ k = "line" /\ Place(n, "line", i)
                                          \/ k = "free" /\ i \in Nat \ {0} /\ Place(n, "free", i + 1)
                                          \/ k = "held" /\ i # p /\ Place(n, "held", i)
                                          \/ k = "held" /\ i = p /\ Place(n, "free", 1)
    OBVIOUS
  <2>1. CASE k = "line"
    BY <2>1, <1>5 DEF Place
  <2>2. CASE k = "free"
    <3>1. i \in 1..Len(Free') <=> i \in Nat \ {0} /\ i + 1 \in 1..Len(Free)
      BY <1>2, <1>7
    <3>2. i \in 1..Len(Free') => Free'[i] = Free[i + 1]
      BY <1>2, <1>7
    <3> QED BY <2>2, <3>1, <3>2 DEF Place
  <2>3. CASE k = "held"
    BY <2>3, <1>2, <1>3, <1>8 DEF Place, SameThread
  <2>4. CASE k \notin {"line", "free", "held"}
    BY <2>4 DEF Place
  <2> QED BY <2>1, <2>2, <2>3, <2>4
<1>10. Placed'
  <2> SUFFICES ASSUME NEW n \in Nodes
               PROVE  /\ \E k, i : Place(n, k, i)'
                      /\ \A k, i, l, j : Place(n, k, i)' /\ Place(n, l, j)' => k = l /\ i = j
    BY DEF Placed
  <2>1. PICK k, i : Place(n, k, i)
    BY DEF Placed
  <2>2. \A l, j : Place(n, l, j) => l = k /\ j = i
    BY <2>1 DEF Placed
  <2>3. ~Place(n, "held", p)
    BY <1>1 DEF Place
  <2>4. \E l, j : Place(n, l, j)'
    <3>1. CASE k = "line"
      BY <3>1, <2>1, <1>9
    <3>2. CASE k = "free" /\ i = 1
      BY <3>2, <2>1, <1>9
    <3>3. CASE k = "free" /\ i # 1
      <4>1. i - 1 \in Nat \ {0} /\ (i - 1) + 1 = i
        BY <3>3, <2>1, <1>2 DEF Place
      <4> QED BY <4>1, <3>3, <2>1, <1>9
    <3>4. CASE k = "held"
      BY <3>4, <2>1, <2>3, <1>9
    <3> QED BY <3>1, <3>2, <3>3, <3>4, <2>1 DEF Place
  <2>5. ASSUME NEW l, NEW j, NEW l2, NEW j2, Place(n, l, j)', Place(n, l2, j2)'
        PROVE  l = l2 /\ j = j2
    <3>1. /\ l = "line" => k = "line" /\ j = i
          /\ l = "free" => k = "free" /\ j \in Nat \ {0} /\ j + 1 = i
          /\ l = "held" => IF j = p THEN k = "free" /\ i = 1 ELSE k = "held" /\ j = i
          /\ l \in {"line", "free", "held"}
      BY <2>2, <2>5, <1>9
    <3>2. /\ l2 = "line" => k = "line" /\ j2 = i
          /\ l2 = "free" => k = "free" /\ j2 \in Nat \ {0} /\ j2 + 1 = i
          /\ l2 = "held" => IF j2 = p THEN k = "free" /\ i = 1 ELSE k = "held" /\ j2 = i
          /\ l2 \in {"line", "free", "held"}
      BY <2>2, <2>5, <1>9
    <3> QED BY <3>1, <3>2
  <2> QED BY <2>4, <2>5
<1>11. \A i \in 1..Len(Line) : Ptr(i)' = Ptr(i)
  BY <1>2, <1>5 DEF Ptr
<1> QED BY <1>5, <1>6, <1>10, <1>11

\* push links its node behind the last one, to which m_in points.
LEMMA LinkMoves ==
    ASSUME TypeInv, Chains, Placed, NEW p \in Threads, Link(p), PushOf(p), mIn = Ptr(Len(Line))
    PROVE  /\ pc'[p] = "swing" /\ next' = [next EXCEPT ![Line[Len(Line)]] = own[p]]
           /\ Len(Line') = Len(Line) + 1 /\ \A i \in 1..Len(Line) : Line'[i] = Line[i]
           /\ Line'[Len(Line) + 1] = Node(own[p])
           /\ \A i \in 1..Len(Line) : Ptr(i)' = Ptr(i)
           /\ \A i : i = Len(Line) + 1 => Ptr(i)' = own[p]
           /\ Free' = Free /\ Chains' /\ Placed'
<1> DEFINE last == Line[Len(Line)]
           n0 == Node(own[p])
<1>1. /\ pc[p] = "link" /\ Holds(p) /\ in[p] = mIn /\ next[n0] = NullPtr
      /\ Types
  BY TypesAre DEF Link, At, PushOf, AllTypes, Holds
<1>2. /\ Len(Line) \in Nat \ {0} /\ Line # <<>> /\ last \in Nodes
      /\ Node(mIn) = last /\ next[last] = NullPtr
  BY LineFacts, EmptySeq
<1>3. /\ own[p] \in NodePtrs /\ n0 \in Nodes
      /\ \A i \in 1..Len(Line) : Line[i] # n0
      /\ \A i \in 1..Len(Free) : Free[i] # n0
  BY <1>1, HeldFacts
<1>4. /\ next' = [next EXCEPT ![last] = own[p]] /\ pc' = [pc EXCEPT ![p] = "swing"]
      /\ mOut' = mOut /\ mHead' = mHead /\ own' = own
  BY <1>1, <1>2 DEF Link, Goto
<1>5. /\ next'[last] = own[p] /\ next'[n0] = NullPtr
      /\ \A i \in 1..(Len(Line) - 1) : next'[Line[i]] = next[Line[i]]
      /\ \A i \in 1..Len(Free) : next'[Free[i]] = next[Free[i]]
  <2>1. \A i \in 1..(Len(Line) - 1) : Line[i] # last /\ Line[i] \in Nodes
    BY <1>2, ChainFacts, LineFacts
  <2>2. \A i \in 1..Len(Free) : Free[i] # last /\ Free[i] \in Nodes
    BY <1>2, ChainFacts, FreeFacts
  <2>3. n0 # last
    BY <1>2, <1>3
  <2> QED BY <1>1, <1>2, <1>3, <1>4, <2>1, <2>2, <2>3 DEF Types
<1> HIDE DEF last, n0
<1>6. Len(Line) < Max
  <2>1. Append(Line, n0) \in Seq(Nodes) /\ Len(Append(Line, n0)) = Len(Line) + 1
        /\ Append(Line, n0)[Len(Line) + 1] = n0
        /\ \A i \in 1..Len(Line) : Append(Line, n0)[i] = Line[i]
    BY <1>3, AppendProperties DEF Chains, Linked
  <2>2. ASSUME NEW i \in 1..(Len(Line) + 1), NEW j \in 1..(Len(Line) + 1),
               Append(Line, n0)[i] = Append(Line, n0)[j]
        PROVE  i = j
    BY <2>1, <2>2, <1>2, <1>3, ChainFacts
  <2>3. Len(Append(Line, n0)) <= Max
    BY <2>1, <2>2, ShortSeq
  <2> QED BY <2>1, <2>3, <1>2, Facts
<1>7. /\ Linked(next', Append(Line, n0), mOut)
      /\ Len(Append(Line, n0)) = Len(Line) + 1
      /\ Append(Line, n0)[Len(Line) + 1] = n0
      /\ \A i \in 1..Len(Line) : Append(Line, n0)[i] = Line[i]
  <2>1. /\ Linked(next, Line, mOut) /\ Line # <<>> /\ Len(Line) < Max
        /\ n0 \in Nodes /\ next'[n0] = NullPtr
        /\ next'[Line[Len(Line)]] # NullPtr /\ Node(next'[Line[Len(Line)]]) = n0
        /\ \A i \in 1..(Len(Line) - 1) : next'[Line[i]] = next[Line[i]]
    BY <1>2, <1>3, <1>5, <1>6, Facts DEF Chains, last, n0
  <2> QED BY <2>1, LinkedAppend
<1>8. Linked(next', Free, mHead)
  BY <1>5, LinkedFrame DEF Chains
<1>9. Line' = Append(Line, n0) /\ Free' = Free /\ Chains'
  <2>1. Line' = Append(Line, n0) /\ Free' = Free
    BY <1>4, <1>7, <1>8, ChainIs DEF Line, Free
  <2> QED BY <1>4, <1>7, <1>8, <2>1 DEF Chains
<1>10. /\ Len(Line') = Len(Line) + 1 /\ Line'[Len(Line) + 1] = n0
       /\ \A i \in 1..Len(Line) : Line'[i] = Line[i]
  BY <1>7, <1>9
<1>11. /\ \A i : i = Len(Line) + 1 => Ptr(i)' = own[p]
       /\ \A i \in 1..Len(Line) : Ptr(i)' = Ptr(i)
  <2>1. ASSUME NEW i \in 1..Len(Line) PROVE Ptr(i)' = Ptr(i)
    <3>1. i # 1 => i - 1 \in 1..(Len(Line) - 1)
      BY <1>2
    <3> QED BY <3>1, <1>2, <1>4, <1>5, <1>10 DEF Ptr
  <2>2. ASSUME NEW i, i = Len(Line) + 1 PROVE Ptr(i)' = own[p]
    <3>1. i # 1 /\ i - 1 = Len(Line) /\ Line'[i - 1] = last
      BY <2>2, <1>2, <1>10 DEF last
    <3> QED BY <3>1, <1>5 DEF Ptr
  <2> QED BY <2>1, <2>2
<1>12. \A u \in Threads : Holds(u)' <=> u # p /\ Holds(u)
  BY <1>1, <1>4 DEF Holds, Types
<1>13. \A n, k, i : Place(n, k, i)' <=> \/ k = "line" /\ Place(n, "line", i)
                                        \/ k = "line" /\ i = Len(Line) + 1 /\ Place(n, "held", p)
                                        \/ k = "free" /\ Place(n, "free", i)
                                        \/ k = "held" /\ i # p /\ Place(n, "held", i)
  <2> SUFFICES ASSUME NEW n, NEW k, NEW i
               PROVE  Place(n, k, i)' <=> \/ k = "line" /\ Place(n, "line", i)
                                          \/ k = "line" /\ i = Len(Line) + 1 /\ Place(n, "held", p)
                                          \/ k = "free" /\ Place(n, "free", i)
                                          \/ k = "held" /\ i # p /\ Place(n, "held", i)
    OBVIOUS
  <2>1. CASE k = "line"
    <3>1. i \in 1..Len(Line') <=> i \in 1..Len(Line) \/ i = Len(Line) + 1
      BY <1>2, <1>10
    <3>2. Len(Line) + 1 \notin 1..Len(Line)
      BY <1>2
    <3> QED BY <2>1, <3>1, <3>2, <1>1, <1>10 DEF Place, n0
  <2>2. CASE k = "free"
    BY <2>2, <1>9 DEF Place
  <2>3. CASE k = "held"
    BY <2>3, <1>4, <1>12 DEF Place
  <2>4. CASE k \notin {"line", "free", "held"}
    BY <2>4 DEF Place
  <2> QED BY <2>1, <2>2, <2>3, <2>4
<1>14. Placed'
  <2> SUFFICES ASSUME NEW n \in Nodes
               PROVE  /\ \E k, i : Place(n, k, i)'
                      /\ \A k, i, l, j : Place(n, k, i)' /\ Place(n, l, j)' => k = l /\ i = j
    BY DEF Placed
  <2>1. PICK k, i : Place(n, k, i)
    BY DEF Placed
  <2>2. \A l, j : Place(n, l, j) => l = k /\ j = i
    BY <2>1 DEF Placed
  <2>3. k \in {"line", "free", "held"}
    BY <2>1 DEF Place
  <2>4. \E l, j : Place(n, l, j)'
    BY <2>1, <2>3, <1>13
  <2>5. ASSUME NEW l, NEW j, NEW l2, NEW j2, Place(n, l, j)', Place(n, l2, j2)'
        PROVE  l = l2 /\ j = j2
    <3>1. /\ l = "line" => (k = "line" /\ j = i) \/ (k = "held" /\ i = p /\ j = Len(Line) + 1)
          /\ l # "line" => l = k /\ j = i /\ ~(k = "held" /\ i = p)
      <4>1. \/ l = "line" /\ Place(n, "line", j)
            \/ l = "line" /\ j = Len(Line) + 1 /\ Place(n, "held", p)
            \/ l = "free" /\ Place(n, "free", j)
            \/ l = "held" /\ j # p /\ Place(n, "held", j)
        BY <2>5, <1>13, Zenon
      <4> QED BY <4>1, <2>2
    <3>2. /\ l2 = "line" => (k = "line" /\ j2 = i) \/ (k = "held" /\ i = p /\ j2 = Len(Line) + 1)
          /\ l2 # "line" => l2 = k /\ j2 = i /\ ~(k = "held" /\ i = p)
      <4>1. \/ l2 = "line" /\ Place(n, "line", j2)
            \/ l2 = "line" /\ j2 = Len(Line) + 1 /\ Place(n, "held", p)
            \/ l2 = "free" /\ Place(n, "free", j2)
            \/ l2 = "held" /\ j2 # p /\ Place(n, "held", j2)
        BY <2>5, <1>13, Zenon
      <4> QED BY <4>1, <2>2
    <3> QED BY <3>1, <3>2
  <2> QED BY <2>4, <2>5
<1>15. pc'[p] = "swing"
  BY <1>4 DEF Types, AllTypes, TypeInv, TypeOK
<1> QED BY <1>4, <1>9, <1>10, <1>11, <1>14, <1>15 DEF n0, last

\* pop makes the first node of the queue the dummy, and has the old one in its hands.
LEMMA PopMoves ==
    ASSUME TypeInv, Chains, Placed, NEW t \in Threads, PopCas(t), PopOf(t), mOut = out[t]
    PROVE  /\ Len(Line) > 1 /\ mOut' = Ptr(2) /\ val' = val /\ next' = next
           /\ Len(Line') = Len(Line) - 1
           /\ \A i \in 1..(Len(Line) - 1) : Line'[i] = Line[i + 1] /\ Ptr(i)' = Ptr(i + 1)
           /\ Free' = Free /\ Chains' /\ Placed'
<1>1. /\ pc[t] = "popCas" /\ ~Holds(t) /\ nxt[t] = next[Node(mOut)] /\ nxt[t] # NullPtr
      /\ Types
  BY TypesAre, Facts DEF PopCas, At, PopOf, AllTypes, Follows, Holds
<1>2. /\ Len(Line) \in Nat \ {0} /\ Line # <<>> /\ Line[1] = Node(mOut)
  BY LineFacts, EmptySeq
<1>3. Len(Line) > 1 /\ next[Line[1]] = Ptr(2)
  BY <1>1, <1>2, LineFacts
<1>4. mOut' = next[Line[1]] /\ next' = next /\ mHead' = mHead /\ val' = val
  BY <1>1, <1>2 DEF PopCas
<1>5. Holds(t)' /\ own'[t] = mOut /\ \A u \in Threads : u # t => SameThread(u)
  BY <1>1, Alone DEF PopCas, Freed, Goto, Types, Holds, Step, PopStep
<1>6. Linked(next', Tail(Line), mOut') /\ Linked(next', Free, mHead')
  BY <1>2, <1>4, LinkedTail DEF Chains
<1>7. Line' = Tail(Line) /\ Free' = Free
  BY <1>6, ChainIs DEF Line, Free
<1>8. Chains'
  BY <1>6, <1>7 DEF Chains
<1>9. Len(Line') = Len(Line) - 1 /\ \A i \in 1..(Len(Line) - 1) : Line'[i] = Line[i + 1]
  BY <1>2, <1>7, LinkedTail DEF Chains
<1>10. ASSUME NEW i \in 1..(Len(Line) - 1) PROVE Ptr(i)' = Ptr(i + 1)
  <2>1. CASE i = 1
    BY <2>1, <1>3, <1>4 DEF Ptr
  <2>2. CASE i > 1
    <3>1. i - 1 \in 1..(Len(Line) - 1) /\ (i - 1) + 1 = i /\ i + 1 # 1 /\ (i + 1) - 1 = i
      BY <2>2, <1>2
    <3> QED BY <3>1, <2>2, <1>4, <1>9 DEF Ptr
  <2> QED BY <2>1, <2>2, <1>2
<1>11. \A u \in Threads : Holds(u)' <=> u = t \/ Holds(u)
  BY <1>5 DEF SameThread, Holds
<1>12. \A n, k, i : Place(n, k, i)' <=> \/ k = "line" /\ i \in Nat \ {0} /\ Place(n, "line", i + 1)
                                        \/ k = "free" /\ Place(n, "free", i)
                                        \/ k = "held" /\ i # t /\ Place(n, "held", i)
                                        \/ k = "held" /\ i = t /\ Place(n, "line", 1)
  <2> SUFFICES ASSUME NEW n, NEW k, NEW i
               PROVE  Place(n, k, i)' <=> \/ k = "line" /\ i \in Nat \ {0} /\ Place(n, "line", i + 1)
                                          \/ k = "free" /\ Place(n, "free", i)
                                          \/ k = "held" /\ i # t /\ Place(n, "held", i)
                                          \/ k = "held" /\ i = t /\ Place(n, "line", 1)
    OBVIOUS
  <2>1. CASE k = "line"
    <3>1. i \in 1..Len(Line') <=> i \in Nat \ {0} /\ i + 1 \in 1..Len(Line)
      BY <1>2, <1>9
    <3>2. i \in 1..Len(Line') => Line'[i] = Line[i + 1]
      BY <1>2, <1>9
    <3> QED BY <2>1, <3>1, <3>2 DEF Place
  <2>2. CASE k = "free"
    BY <2>2, <1>7 DEF Place
  <2>3. CASE k = "held"
    BY <2>3, <1>2, <1>5, <1>11 DEF Place, SameThread
  <2>4. CASE k \notin {"line", "free", "held"}
    BY <2>4 DEF Place
  <2> QED BY <2>1, <2>2, <2>3, <2>4
<1>13. Placed'
  <2> SUFFICES ASSUME NEW n \in Nodes
               PROVE  /\ \E k, i : Place(n, k, i)'
                      /\ \A k, i, l, j : Place(n, k, i)' /\ Place(n, l, j)' => k = l /\ i = j
    BY DEF Placed
  <2>1. PICK k, i : Place(n, k, i)
    BY DEF Placed
  <2>2. \A l, j : Place(n, l, j) => l = k /\ j = i
    BY <2>1 DEF Placed
  <2>3. ~Place(n, "held", t)
    BY <1>1 DEF Place
  <2>4. \E l, j : Place(n, l, j)'
    <3>1. CASE k = "free"
      BY <3>1, <2>1, <1>12
    <3>2. CASE k = "line" /\ i = 1
      BY <3>2, <2>1, <1>12
    <3>3. CASE k = "line" /\ i # 1
      <4>1. i - 1 \in Nat \ {0} /\ (i - 1) + 1 = i
        BY <3>3, <2>1, <1>2 DEF Place
      <4> QED BY <4>1, <3>3, <2>1, <1>12
    <3>4. CASE k = "held"
      BY <3>4, <2>1, <2>3, <1>12
    <3> QED BY <3>1, <3>2, <3>3, <3>4, <2>1 DEF Place
  <2>5. ASSUME NEW l, NEW j, NEW l2, NEW j2, Place(n, l, j)', Place(n, l2, j2)'
        PROVE  l = l2 /\ j = j2
    <3>1. /\ l = "free" => k = "free" /\ j = i
          /\ l = "line" => k = "line" /\ j \in Nat \ {0} /\ j + 1 = i
          /\ l = "held" => IF j = t THEN k = "line" /\ i = 1 ELSE k = "held" /\ j = i
          /\ l \in {"line", "free", "held"}
      BY <2>2, <2>5, <1>12
    <3>2. /\ l2 = "free" => k = "free" /\ j2 = i
          /\ l2 = "line" => k = "line" /\ j2 \in Nat \ {0} /\ j2 + 1 = i
          /\ l2 = "held" => IF j2 = t THEN k = "line" /\ i = 1 ELSE k = "held" /\ j2 = i
          /\ l2 \in {"line", "free", "held"}
      BY <2>2, <2>5, <1>12
    <3> QED BY <3>1, <3>2
  <2> QED BY <2>4, <2>5
<1> QED BY <1>3, <1>4, <1>7, <1>8, <1>9, <1>10, <1>13

\* ReleaseNode puts its node in front of the free list.
LEMMA ReleaseMoves ==
    ASSUME TypeInv, Chains, Placed, NEW t \in Threads, ReleaseCas(t), PopOf(t), t \in Consumers,
           mHead = old[t]
    PROVE  /\ Line' = Line /\ \A i \in 1..Len(Line) : Ptr(i)' = Ptr(i)
           /\ \A i \in 1..Len(Free) : \E j \in 1..Len(Free') : Free'[j] = Free[i]
           /\ Chains' /\ Placed'
<1> DEFINE n0 == Node(own[t])
<1>1. /\ pc[t] = "releaseCas" /\ Holds(t) /\ next[n0] = mHead /\ Types
  BY TypesAre DEF ReleaseCas, At, PopOf, AllTypes, Holds
<1>2. /\ own[t] \in NodePtrs /\ n0 \in Nodes
      /\ \A i \in 1..Len(Free) : Free[i] # n0
  BY <1>1, HeldFacts
<1>3. mHead' = own[t] /\ next' = next /\ mOut' = mOut
  BY <1>1 DEF ReleaseCas
<1>4. ~Holds(t)' /\ \A u \in Threads : u # t => SameThread(u)
  BY <1>1, Alone DEF ReleaseCas, Goto, Types, Holds, Step, PopStep
<1>5. Free \in Seq(Nodes) /\ Len(Free) \in Nat /\ Max \in Nat
  BY FreeFacts, Facts DEF Chains, Linked
<1>6. Len(Free) < Max
  <2> DEFINE r == Append(Free, n0)
  <2>1. r \in Seq(Nodes) /\ Len(r) = Len(Free) + 1 /\ r[Len(Free) + 1] = n0
        /\ \A i \in 1..Len(Free) : r[i] = Free[i]
    BY <1>2, <1>5, AppendProperties
  <2> HIDE DEF r
  <2>2. ASSUME NEW i \in 1..(Len(Free) + 1), NEW j \in 1..(Len(Free) + 1), r[i] = r[j]
        PROVE  i = j
    BY <2>1, <2>2, <1>2, <1>5, ChainFacts
  <2>3. Len(r) <= Max
    BY <2>1, <2>2, ShortSeq
  <2> QED BY <2>1, <2>3, <1>5
<1>7. /\ Linked(next', <<n0>> \o Free, mHead')
      /\ Len(<<n0>> \o Free) = Len(Free) + 1 /\ (<<n0>> \o Free)[1] = n0
      /\ \A i \in 1..Len(Free) : (<<n0>> \o Free)[i + 1] = Free[i]
  BY <1>1, <1>2, <1>3, <1>6, LinkedCons DEF Chains
<1>8. Line' = Line /\ Free' = <<n0>> \o Free /\ Linked(next', Line, mOut')
  BY <1>3, <1>7, ChainIs DEF Chains, Line, Free
<1>9. Chains'
  BY <1>7, <1>8 DEF Chains
<1>10. /\ Len(Free') = Len(Free) + 1 /\ Free'[1] = n0
       /\ \A i \in 1..Len(Free) : Free'[i + 1] = Free[i]
  BY <1>7, <1>8
<1>11. \A u \in Threads : Holds(u)' <=> u # t /\ Holds(u)
  BY <1>4 DEF SameThread, Holds
<1>12. \A n, k, i : Place(n, k, i)' <=> \/ k = "line" /\ Place(n, "line", i)
                                        \/ k = "free" /\ i = 1 /\ Place(n, "held", t)
                                        \/ k = "free" /\ i \in Nat \ {0, 1} /\ Place(n, "free", i - 1)
                                        \/ k = "held" /\ i # t /\ Place(n, "held", i)
  <2> SUFFICES ASSUME NEW n, NEW k, NEW i
               PROVE  Place(n, k, i)' <=> \/ k = "line" /\ Place(n, "line", i)
                                          \/ k = "free" /\ i = 1 /\ Place(n, "held", t)
                                          \/ k = "free" /\ i \in Nat \ {0, 1} /\ Place(n, "free", i - 1)
                                          \/ k = "held" /\ i # t /\ Place(n, "held", i)
    OBVIOUS
  <2>1. CASE k = "line"
    BY <2>1, <1>8 DEF Place
  <2>2. CASE k = "free"
    <3>1. i \in 1..Len(Free') <=> i = 1 \/ (i \in Nat \ {0, 1} /\ i - 1 \in 1..Len(Free))
      BY <1>5, <1>10
    <3>2. i \in Nat \ {0, 1} /\ i - 1 \in 1..Len(Free) => Free'[i] = Free[i - 1]
      <4>1. i \in Nat \ {0, 1} => (i - 1) + 1 = i
        OBVIOUS
      <4> QED BY <4>1, <1>10
    <3> QED BY <2>2, <3>1, <3>2, <1>1, <1>10 DEF Place
  <2>3. CASE k = "held"
    BY <2>3, <1>4, <1>11 DEF Place, SameThread
  <2>4. CASE k \notin {"line", "free", "held"}
    BY <2>4 DEF Place
  <2> QED BY <2>1, <2>2, <2>3, <2>4
<1>13. Placed'
  <2> SUFFICES ASSUME NEW n \in Nodes
               PROVE  /\ \E k, i : Place(n, k, i)'
                      /\ \A k, i, l, j : Place(n, k, i)' /\ Place(n, l, j)' => k = l /\ i = j
    BY DEF Placed
  <2>1. PICK k, i : Place(n, k, i)
    BY DEF Placed
  <2>2. \A l, j : Place(n, l, j) => l = k /\ j = i
    BY <2>1 DEF Placed
  <2>3. \E l, j : Place(n, l, j)'
    <3>1. CASE k = "line"
      BY <3>1, <2>1, <1>12
    <3>2. CASE k = "free"
      <4>1. i + 1 \in Nat \ {0, 1} /\ (i + 1) - 1 = i
        BY <3>2, <2>1, <1>5 DEF Place
      <4> QED BY <4>1, <3>2, <2>1, <1>12
    <3>3. CASE k = "held"
      BY <3>3, <2>1, <1>12
    <3> QED BY <3>1, <3>2, <3>3, <2>1 DEF Place
  <2>4. ASSUME NEW l, NEW j, NEW l2, NEW j2, Place(n, l, j)', Place(n, l2, j2)'
        PROVE  l = l2 /\ j = j2
    <3>1. /\ l = "line" => k = "line" /\ j = i
          /\ l = "free" => IF j = 1 THEN k = "held" /\ i = t
                           ELSE k = "free" /\ j \in Nat /\ j - 1 = i
          /\ l = "held" => k = "held" /\ j = i /\ j # t
          /\ l \in {"line", "free", "held"}
      BY <2>2, <2>4, <1>12
    <3>2. /\ l2 = "line" => k = "line" /\ j2 = i
          /\ l2 = "free" => IF j2 = 1 THEN k = "held" /\ i = t
                            ELSE k = "free" /\ j2 \in Nat /\ j2 - 1 = i
          /\ l2 = "held" => k = "held" /\ j2 = i /\ j2 # t
          /\ l2 \in {"line", "free", "held"}
      BY <2>2, <2>4, <1>12
    <3> QED BY <3>1, <3>2
  <2> QED BY <2>3, <2>4
<1>14. \A i \in 1..Len(Line) : Ptr(i)' = Ptr(i)
  BY <1>3, <1>8 DEF Ptr
<1>15. ASSUME NEW i \in 1..Len(Free) PROVE \E j \in 1..Len(Free') : Free'[j] = Free[i]
  <2>1. i + 1 \in 1..Len(Free') /\ Free'[i + 1] = Free[i]
    BY <1>5, <1>10
  <2> QED BY <2>1
<1> QED BY <1>8, <1>9, <1>13, <1>14, <1>15

-----------------------------------------------------------------------------
(* What a step leaves true of the threads that did not take it *)

\* A pop under way survives the steps of others: while the dummy is the one it read, so
\* are its successor and its value; and the node it releases is its own.
LEMMA PopFrame ==
    ASSUME TypeInv, TypeInv', ListInv, NEW u \in Consumers, SameThread(u),
           mOut' = mOut \/ Ver(mOut) < Ver(mOut'),
           mIn' = mIn \/ (mOut' = mOut /\ Ver(mOut) < Ver(mIn')),
           \A i \in 1..Len(Line) : next[Line[i]] # NullPtr => next'[Line[i]] = next[Line[i]],
           \A i \in 1..Len(Line) : data'[Line[i]] = data[Line[i]],
           Holds(u) => next'[Node(own[u])] = next[Node(own[u])]
    PROVE  PopOf(u)'
<1>1. u \in Threads /\ Types /\ Types' /\ Follows(u)
  <2>1. AllTypes /\ AllTypes'
    BY TypesAre, PTL
  <2> QED BY <2>1 DEF AllTypes, Threads
<1>2. PopOf(u) /\ Chains /\ Tailed
  BY DEF ListInv
<1>3. Ver(mOut) \in Nat /\ Ver(mOut') \in Nat /\ Ver(mIn) \in Nat /\ Ver(mIn') \in Nat
  BY <1>1, Facts DEF Types
<1>4. pc[u] \in {"popIn", "popNext", "popHelp", "popData", "popCas"} => Ver(out[u]) \in Nat
  BY <1>1, Facts DEF Follows
<1>5. pc[u] \in {"popIn", "popNext", "popHelp", "popData", "popCas"} =>
        Ver(out[u]) <= Ver(mOut) /\ Ver(out[u]) <= Ver(mOut') /\ (mOut' = out[u] => mOut' = mOut)
  BY <1>2, <1>3, <1>4 DEF PopOf
<1>6. pc[u] \in {"popNext", "popData", "popCas"} /\ mOut' = out[u] /\ in[u] # out[u] => mIn' # mOut'
  BY <1>2, <1>3, <1>5 DEF PopOf
<1>7. ASSUME pc[u] \in {"popData", "popCas"}, mOut' = out[u]
      PROVE  /\ nxt[u] = next'[Node(out[u])]
             /\ data'[Node(nxt[u])] = data[Node(nxt[u])]
  <2>1. /\ mOut = out[u] /\ nxt[u] = next[Node(out[u])] /\ nxt[u] # NullPtr
    BY <1>1, <1>2, <1>5, <1>7, Facts DEF PopOf, Follows
  <2>2. Node(out[u]) = Line[1] /\ 1 \in 1..Len(Line) /\ Len(Line) \in Nat /\ next[Line[Len(Line)]] = NullPtr
    BY <2>1, <1>2, LineFacts
  <2>3. 2 \in 1..Len(Line) /\ nxt[u] = Ptr(2) /\ Node(nxt[u]) = Line[2]
    <3>1. Len(Line) \in Nat \ {0} /\ Len(Line) # 1
      BY <2>1, <2>2
    <3>2. \A n \in Nat \ {0} : n # 1 => 1 \in 1..(n - 1) /\ 2 \in 1..n
      OBVIOUS
    <3>3. 1 \in 1..(Len(Line) - 1) /\ 2 \in 1..Len(Line)
      BY <3>1, <3>2, Zenon
    <3> QED BY <3>3, <2>1, <2>2, <1>2, LineFacts
  <2> QED BY <2>1, <2>2, <2>3
<1>8. ASSUME pc[u] = "popHelp", mIn' = in[u] PROVE nxt[u] = next'[Node(in[u])]
  <2>1. in[u] = out[u] /\ mIn' = mIn
    BY <1>2, <1>3, <1>5, <1>8 DEF PopOf
  <2>2. nxt[u] = next[Node(in[u])] /\ nxt[u] # NullPtr
    BY <2>1, <1>1, <1>2, <1>8, Facts DEF PopOf, Follows
  <2>3. PICK i \in 1..Len(Line) : mIn = Ptr(i)
    BY <1>2, LineFacts DEF Tailed
  <2>4. Node(in[u]) = Line[i]
    BY <2>1, <2>3, <1>2, <1>8, LineFacts
  <2> QED BY <2>2, <2>4
<1>9. pc[u] = "releaseCas" => next'[Node(own[u])] = old[u]
  BY <1>2 DEF PopOf, Holds
<1> QED BY <1>2, <1>5, <1>6, <1>7, <1>8, <1>9 DEF PopOf, SameThread

\* A push under way survives a pop: the free nodes it has seen stay free, its own node is
\* untouched, and the last node is where it was.
LEMMA PushFrame ==
    ASSUME TypeInv, ListInv, NEW p \in Producers, SameThread(p),
           \A i \in 1..Len(Free) : /\ next'[Free[i]] = next[Free[i]]
                                   /\ \E j \in 1..Len(Free') : Free'[j] = Free[i],
           mHead' = mHead \/ \E u \in Threads : Holds(u) /\ Node(mHead') = Node(own[u]),
           Holds(p) => /\ next'[Node(own[p])] = next[Node(own[p])]
                       /\ data'[Node(own[p])] = data[Node(own[p])],
           mId' \in Nat, mId <= mId',
           \A i \in 1..Len(Line') : \E j \in 1..Len(Line) : Ptr(i)' = Ptr(j),
           pc[p] # "swing" => mIn' = mIn,
           \A i, j : i = Len(Line) /\ j = Len(Line') => Ptr(j)' = Ptr(i)
    PROVE  PushOf(p)'
<1>1. p \in Threads /\ Types /\ Follows(p)
  BY TypesAre DEF AllTypes, Threads
<1>2. PushOf(p) /\ Chains /\ Placed
  BY DEF ListInv
<1>3. ASSUME pc[p] \in {"top", "allocNext", "allocCas"}
      PROVE  /\ \E i \in 1..Len(Free') : Free'[i] = Node(old[p])
             /\ mHead' = old[p] => mHead = old[p]
             /\ next'[Node(old[p])] = next[Node(old[p])]
  <2>1. PICK i \in 1..Len(Free) : Free[i] = Node(old[p])
    BY <1>2, <1>3 DEF PushOf
  <2>2. ASSUME NEW u \in Threads, Holds(u) PROVE Node(own[u]) # Node(old[p])
    BY <2>1, <2>2, <1>2, HeldFacts
  <2> QED BY <2>1, <2>2
<1>4. ASSUME pc[p] \in {"readIn", "readNext", "link"}
      PROVE  /\ next'[Node(own[p])] = NullPtr /\ data'[Node(own[p])] = val[p]
             /\ Ver(own[p]) < mId'
             /\ \A i \in 1..Len(Line') : Ver(Ptr(i)') < Ver(own[p])
  <2>1. /\ next[Node(own[p])] = NullPtr /\ data[Node(own[p])] = val[p]
        /\ Ver(own[p]) < mId
        /\ \A i \in 1..Len(Line) : Ver(Ptr(i)) < Ver(own[p])
    BY <1>2, <1>4 DEF PushOf
  <2>2. Holds(p) /\ own[p] \in NodePtrs
    BY <1>1, <1>4 DEF Holds, Follows
  <2>3. Ver(own[p]) \in Nat /\ mId \in Nat
    BY <2>2, <1>1, Facts DEF Types
  <2> QED BY <2>1, <2>2, <2>3
<1>5. pc[p] = "swing" => \A j : j = Len(Line') => own[p] = Ptr(j)'
  BY <1>2 DEF PushOf
<1>6. pc[p] \in {"readNext", "link"} => in[p] = mIn'
  BY <1>2 DEF PushOf
<1>7. pc[p] # "help"
  BY <1>2 DEF PushOf
<1>8. /\ pc'[p] \in {"top", "allocNext", "allocCas"} =>
           \E i \in 1..Len(Free') : Free'[i] = Node(old'[p])
      /\ pc'[p] \in {"allocNext", "allocCas"} /\ mHead' = old'[p] => top'[p] = Node(old'[p])
      /\ pc'[p] = "allocCas" /\ mHead' = old'[p] => nxt'[p] = next'[top'[p]]
  BY <1>2, <1>3 DEF PushOf, SameThread
<1>9. pc'[p] \in {"readIn", "readNext", "link"} =>
           /\ next'[Node(own'[p])] = NullPtr /\ data'[Node(own'[p])] = val'[p]
           /\ Ver(own'[p]) < mId'
           /\ \A i \in 1..Len(Line') : Ver(Ptr(i)') < Ver(own'[p])
  BY <1>4 DEF SameThread
<1>10. /\ pc'[p] \in {"readNext", "link"} => in'[p] = mIn'
       /\ pc'[p] # "help"
       /\ pc'[p] = "swing" => own'[p] = Ptr(Len(Line))'
  BY <1>5, <1>6, <1>7 DEF SameThread
<1> QED BY <1>8, <1>9, <1>10 DEF PushOf

\* At most one thread pushes.
OneProducer == \A p, q \in Producers : p = q

\* A step that moves no node, and changes at most the one it holds and m_in.
LEMMA QuietStep ==
    ASSUME OneProducer, TypeInv, TypeInv', ListInv, NEW t \in Threads,
           \A u \in Threads : u # t => SameThread(u),
           SameHands, mOut' = mOut, mHead' = mHead, pc[t] # "swing",
           mIn' = mIn \/ \E i : i = Len(Line) /\ mIn # Ptr(i) /\ mIn' = Ptr(i),
           mId' \in Nat, mId <= mId',
           \A n \in Nodes : \/ next'[n] = next[n] /\ data'[n] = data[n]
                            \/ Holds(t) /\ Node(own[t]) = n,
           t \in Producers => PushOf(t)', t \in Consumers => PopOf(t)'
    PROVE  ListInv'
<1>1. Chains /\ Placed /\ Rising /\ Tailed /\ Valued /\ Types
  BY TypesAre DEF ListInv, AllTypes
<1>2. /\ Line' = Line /\ Free' = Free /\ Chains' /\ Placed'
      /\ \A i \in 1..Len(Line) : Ptr(i)' = Ptr(i)
  <2>1. \A n \in Nodes : next'[n] = next[n] \/ \E u \in Threads : Holds(u) /\ Node(own[u]) = n
    OBVIOUS
  <2> QED BY <2>1, <1>1, Quiet DEF Same
<1>3. /\ Len(Line) \in Nat \ {0} /\ Len(Line) \in 1..Len(Line)
      /\ \A i \in 1..Len(Line) : /\ Line[i] \in Nodes /\ ~(Holds(t) /\ Node(own[t]) = Line[i])
                                 /\ Ptr(i) \in NodePtrs
      /\ \A i \in 1..Len(Free) : Free[i] \in Nodes /\ ~(Holds(t) /\ Node(own[t]) = Free[i])
      /\ mOut = Ptr(1)
  <2>1. /\ Len(Line) \in Nat \ {0} /\ mOut = Ptr(1)
        /\ \A i \in 1..Len(Line) : Line[i] \in Nodes /\ Ptr(i) \in NodePtrs
    BY <1>1, LineFacts
  <2>2. \A i \in 1..Len(Free) : Free[i] \in Nodes
    BY <1>1, FreeFacts
  <2>3. Holds(t) => /\ \A i \in 1..Len(Line) : Line[i] # Node(own[t])
                    /\ \A i \in 1..Len(Free) : Free[i] # Node(own[t])
    BY <1>1, HeldFacts
  <2> QED BY <2>1, <2>2, <2>3
<1>4. /\ \A i \in 1..Len(Line) : next'[Line[i]] = next[Line[i]] /\ data'[Line[i]] = data[Line[i]]
      /\ \A i \in 1..Len(Free) : next'[Free[i]] = next[Free[i]]
  BY <1>3
<1>5. ASSUME NEW u \in Threads, u # t, Holds(u)
      PROVE  next'[Node(own[u])] = next[Node(own[u])] /\ data'[Node(own[u])] = data[Node(own[u])]
  <2>1. Node(own[u]) \in Nodes /\ ~(Holds(t) /\ Node(own[t]) = Node(own[u]))
    BY <1>1, <1>5, HeldFacts
  <2> QED BY <2>1
<1>6. Rising'
  <2>1. mId \in Nat /\ \A i \in 1..Len(Line) : Ver(Ptr(i)) \in Nat
    BY <1>1, <1>3, Facts DEF Types
  <2> QED BY <2>1, <1>1, <1>2 DEF Rising
<1>7. mIn' # mIn => /\ mIn' = Ptr(Len(Line)) /\ Len(Line) > 1
                    /\ \E p \in Producers : pc[p] = "swing"
  BY <1>1 DEF Tailed
<1>8. Tailed'
  <2>1. CASE mIn' = mIn
    <3>1. CASE mIn = Ptr(Len(Line))
      BY <3>1, <2>1, <1>2, <1>3 DEF Tailed
    <3>2. CASE mIn # Ptr(Len(Line))
      <4>1. Len(Line) > 1 /\ mIn = Ptr(Len(Line) - 1) /\ Len(Line) - 1 \in 1..Len(Line)
        BY <3>2, <1>1, <1>3 DEF Tailed
      <4>2. PICK p \in Producers : pc[p] = "swing" /\ in[p] = mIn
        BY <3>2, <1>1 DEF Tailed
      <4>3. pc'[p] = "swing" /\ in'[p] = mIn'
        BY <4>2, <2>1 DEF SameThread, Threads
      <4>4. \A i : i = Len(Line) - 1 => Ptr(i)' = mIn'
        BY <4>1, <2>1, <1>2
      <4> QED BY <4>1, <4>3, <4>4, <1>2 DEF Tailed
    <3> QED BY <3>1, <3>2
  <2>2. CASE mIn' # mIn
    BY <2>2, <1>2, <1>3, <1>7 DEF Tailed
  <2> QED BY <2>1, <2>2
<1>9. Valued'
  BY <1>1, <1>2, <1>3, <1>4 DEF Valued
<1>10. ASSUME NEW p \in Producers PROVE PushOf(p)'
  <2>1. CASE p = t
    BY <2>1
  <2>2. CASE p # t
    <3>1. p \in Threads /\ SameThread(p)
      BY <2>2 DEF Threads
    <3>2. pc[p] # "swing" => mIn' = mIn
      BY <1>7 DEF OneProducer
    <3>3. \A i \in 1..Len(Free) : /\ next'[Free[i]] = next[Free[i]]
                                  /\ \E j \in 1..Len(Free') : Free'[j] = Free[i]
      BY <1>2, <1>4
    <3>4. /\ \A i \in 1..Len(Line') : \E j \in 1..Len(Line) : Ptr(i)' = Ptr(j)
          /\ \A i, j : i = Len(Line) /\ j = Len(Line') => Ptr(j)' = Ptr(i)
      BY <1>2, <1>3
    <3>5. Holds(p) => /\ next'[Node(own[p])] = next[Node(own[p])]
                      /\ data'[Node(own[p])] = data[Node(own[p])]
      BY <3>1, <2>2, <1>5
    <3> QED BY <3>1, <3>2, <3>3, <3>4, <3>5, PushFrame
  <2> QED BY <2>1, <2>2
<1>11. ASSUME NEW u \in Consumers PROVE PopOf(u)'
  <2>1. CASE u = t
    BY <2>1
  <2>2. CASE u # t
    <3>1. u \in Threads /\ SameThread(u)
      BY <2>2 DEF Threads
    <3>2. mIn' = mIn \/ Ver(mOut) < Ver(mIn')
      <4>1. CASE mIn' # mIn
        <5>1. mIn' = Ptr(Len(Line)) /\ 1 < Len(Line) /\ 1 \in 1..Len(Line)
          BY <4>1, <1>3, <1>7
        <5>2. Ver(Ptr(1)) < Ver(Ptr(Len(Line)))
          BY <5>1, <1>1, <1>3 DEF Rising
        <5> QED BY <5>1, <5>2, <1>3
      <4> QED BY <4>1
    <3>3. Holds(u) => next'[Node(own[u])] = next[Node(own[u])]
      BY <3>1, <2>2, <1>5
    <3> QED BY <3>1, <3>2, <3>3, <1>4, PopFrame
  <2> QED BY <2>1, <2>2
<1> QED BY <1>2, <1>6, <1>8, <1>9, <1>10, <1>11 DEF ListInv

-----------------------------------------------------------------------------
(* The steps of the list, one by one *)

\* The constructor: the dummy alone, and all other nodes free.
LEMMA InitList == Init => ListInv
<1> SUFFICES ASSUME Init PROVE ListInv
  OBVIOUS
<1> DEFINE others == [i \in 1..(Max - 1) |-> i]
<1>1. /\ next = [n \in Nodes |-> IF n = 0 \/ n = Max - 1 THEN NullPtr ELSE <<n + 1, n + 1>>]
      /\ mHead = <<1, 1>> /\ mIn = <<0, 0>> /\ mOut = <<0, 0>> /\ mId = Max - 1
      /\ \A t \in Threads : pc[t] = "idle" /\ ~Holds(t)
  BY DEF Init, Holds
<1>2. /\ Max \in Nat /\ Max > 1 /\ Max - 1 \in Nat
      /\ \A i \in 1..(Max - 1) : i \in Nodes /\ i # 0
      /\ \A n \in Nodes : n = 0 \/ n \in 1..(Max - 1)
  BY MaxAssumption DEF Nodes
<1>3. /\ <<0>> \in Seq(Nodes) /\ Len(<<0>>) = 1 /\ <<0>>[1] = 0 /\ <<0>> # <<>>
      /\ others \in Seq(Nodes) /\ Len(others) = Max - 1 /\ others # <<>>
  <2>1. others \in [1..(Max - 1) -> Nodes]
    BY <1>2
  <2>2. others \in Seq(Nodes) /\ Len(others) = Max - 1
    BY <2>1, <1>2, SeqDef, LenProperties
  <2>3. others # <<>>
    BY <2>2, <1>2, EmptySeq
  <2> QED BY <2>2, <2>3, Facts
<1>4. \A i \in 1..(Max - 1) : others[i] = i
  OBVIOUS
<1> HIDE DEF others
<1>5. /\ \A n \in Nat : <<n, n>> # NullPtr \/ n = Max
      /\ \A n \in Nat : Node(<<n, n>>) = n /\ Ver(<<n, n>>) = n
      /\ <<0, 0>> # NullPtr /\ <<1, 1>> # NullPtr
  BY <1>2 DEF NullPtr, Null, Node, Ver
<1>6. Linked(next, <<0>>, mOut)
  BY <1>1, <1>2, <1>3, <1>5, Facts DEF Linked
<1>7. Linked(next, others, mHead)
  <2>1. Node(mHead) = others[1] /\ next[others[Len(others)]] = NullPtr
    BY <1>1, <1>2, <1>3, <1>4, <1>5
  <2>2. ASSUME NEW i \in 1..(Len(others) - 1)
        PROVE  next[others[i]] # NullPtr /\ Node(next[others[i]]) = others[i + 1]
    <3>1. i \in Nodes /\ i # 0 /\ i # Max - 1 /\ i + 1 # Max /\ i + 1 \in 1..(Max - 1) /\ i \in 1..(Max - 1)
      BY <1>2, <1>3
    <3>2. next[i] = <<i + 1, i + 1>>
      BY <3>1, <1>1
    <3>3. others[i] = i /\ others[i + 1] = i + 1 /\ i + 1 \in Nat
      BY <3>1, <1>2, <1>4
    <3>4. <<i + 1, i + 1>> # NullPtr /\ Node(<<i + 1, i + 1>>) = i + 1
      BY <3>1, <3>3, <1>5
    <3> QED BY <3>2, <3>3, <3>4
  <2> QED BY <2>1, <2>2, <1>1, <1>2, <1>3, <1>5 DEF Linked
<1>8. Line = <<0>> /\ Free = others
  BY <1>6, <1>7, ChainIs DEF Line, Free
<1>9. Chains
  BY <1>6, <1>7, <1>8 DEF Chains
<1>10. \A n, k, i : Place(n, k, i) <=> \/ k = "line" /\ i = 1 /\ n = 0
                                       \/ k = "free" /\ i \in 1..(Max - 1) /\ n = i
  <2>1. \A i : i \in 1..1 <=> i = 1
    OBVIOUS
  <2> QED BY <2>1, <1>1, <1>3, <1>4, <1>8 DEF Place
<1>11. Placed
  BY <1>2, <1>10 DEF Placed
<1>12. Len(Line) = 1 /\ Ptr(1) = mOut /\ Ver(Ptr(1)) = 0
  BY <1>1, <1>3, <1>5, <1>8 DEF Ptr
<1>13. Rising /\ Tailed /\ Valued
  BY <1>1, <1>2, <1>12 DEF Rising, Tailed, Valued
<1>14. (\A p \in Producers : PushOf(p)) /\ \A t \in Consumers : PopOf(t)
  BY <1>1 DEF PushOf, PopOf, Threads
<1> QED BY <1>9, <1>11, <1>13, <1>14 DEF ListInv

\* The lists are read from the pointers alone.
LEMMA StillShared ==
    ASSUME UNCHANGED <<next, mOut, mHead>>
    PROVE  Line' = Line /\ Free' = Free /\ \A i : Ptr(i)' = Ptr(i)
BY DEF Line, Free, Ptr

\* A step of a thread with what it does to itself only.
LEMMA LocalStep ==
    ASSUME OneProducer, TypeInv, ListInv, NEW t \in Threads, Step(t),
           UNCHANGED shared, pc[t] # "swing",
           Holds(t)' <=> Holds(t), Holds(t) => own'[t] = own[t],
           t \in Producers => PushOf(t)', t \in Consumers => PopOf(t)'
    PROVE  ListInv'
<1>1. TypeInv' /\ \A u \in Threads : u # t => SameThread(u)
  BY StepTypes, Alone
<1>2. SameHands
  BY <1>1 DEF SameHands, SameThread, Holds
<1>3. mId' \in Nat /\ mId <= mId'
  BY DEF shared, TypeInv, TypeOK
<1> QED BY <1>1, <1>2, <1>3, QuietStep DEF shared

\* While the producer is not between its two swaps, m_in points to the last node.
LEMMA TailIsLast ==
    ASSUME OneProducer, TypeInv, ListInv, NEW p \in Producers, pc[p] # "swing"
    PROVE  /\ mIn = Ptr(Len(Line)) /\ mIn \in NodePtrs
           /\ next[Node(mIn)] = NullPtr
<1>1. mIn = Ptr(Len(Line))
  BY DEF ListInv, Tailed, OneProducer
<1> QED BY <1>1, LineFacts DEF ListInv

\* push, where it changes nothing that others see.
LEMMA PushLocal ==
    ASSUME OneProducer, TypeInv, ListInv, NEW t \in Threads,
           \/ \E v \in Values : PushCall(t, v)
           \/ AllocRead(t) \/ AllocTop(t) \/ AllocNext(t) \/ (AllocCas(t) /\ mHead # old[t])
           \/ ReadIn(t) \/ ReadNext(t)
    PROVE  ListInv'
<1> DEFINE Kept == /\ Step(t) /\ UNCHANGED shared /\ pc[t] # "swing"
                   /\ Holds(t)' <=> Holds(t)
                   /\ Holds(t) => own'[t] = own[t]
                   /\ t \in Producers /\ PushOf(t)'
<1>1. t \notin Consumers \/ t \notin Producers
  BY RoleAssumption
<1>2. Types /\ Plays(t) /\ Follows(t) /\ (t \in Producers => PushOf(t)) /\ Chains
  BY TypesAre DEF AllTypes, ListInv
<1> USE <1>2 DEF Types, Plays, PushPCs, Goto, At, PushOf, Holds, Step, PushStep
<1>3. ASSUME NEW v \in Values, PushCall(t, v) PROVE Kept
  BY <1>3 DEF PushCall
<1>4. CASE AllocRead(t)
  <2>1. UNCHANGED shared /\ pc[t] = "alloc" /\ pc' = [pc EXCEPT ![t] = IF mHead = NullPtr THEN "fail" ELSE "top"]
        /\ old'[t] = mHead /\ own' = own
    BY <1>4 DEF AllocRead
  <2>2. Free' = Free
    BY <2>1, StillShared DEF shared
  <2>3. pc'[t] = "top" => \E i \in 1..Len(Free) : Free[i] = Node(mHead)
    <3>1. pc'[t] = "top" => 1 \in 1..Len(Free) /\ Free[1] = Node(mHead)
      BY <2>1, FreeFacts
    <3> QED BY <3>1
  <2>4. Kept
    BY <1>4, <2>1, <2>2, <2>3
  <2> QED BY <2>4, <1>1, LocalStep
<1>5. CASE AllocTop(t)
  <2>1. Free' = Free
    BY <1>5, StillShared DEF AllocTop, shared
  <2>2. Kept
    BY <1>5, <2>1 DEF AllocTop, shared
  <2> QED BY <2>2, <1>1, LocalStep
<1>6. CASE AllocNext(t)
  <2>1. Free' = Free
    BY <1>6, StillShared DEF AllocNext, shared
  <2>2. Kept
    BY <1>6, <2>1 DEF AllocNext, shared
  <2> QED BY <2>2, <1>1, LocalStep
<1>7. CASE AllocCas(t) /\ mHead # old[t]
  <2>1. Kept
    BY <1>7 DEF AllocCas, shared
  <2> QED BY <2>1, <1>1, LocalStep
<1>8. CASE ReadIn(t)
  <2>1. Line' = Line /\ \A i : Ptr(i)' = Ptr(i)
    BY <1>8, StillShared DEF ReadIn, shared
  <2>2. Kept
    BY <1>8, <2>1 DEF ReadIn, shared
  <2> QED BY <2>2, <1>1, LocalStep
<1>9. CASE ReadNext(t)
  <2>1. Line' = Line /\ \A i : Ptr(i)' = Ptr(i)
    BY <1>9, StillShared DEF ReadNext, shared
  <2>2. t \in Producers /\ pc[t] = "readNext" /\ in[t] = mIn
    BY <1>9 DEF ReadNext
  <2>3. next[Node(in[t])] = NullPtr
    BY <2>2, TailIsLast
  <2>4. Kept
    BY <1>9, <2>1, <2>2, <2>3 DEF ReadNext, shared
  <2> QED BY <2>4, <1>1, LocalStep
<1> QED BY <1>1, <1>3, <1>4, <1>5, <1>6, <1>7, <1>8, <1>9, LocalStep

\* pop, where it changes nothing that others see; and calls and returns.
LEMMA PopLocal ==
    ASSUME OneProducer, TypeInv, ListInv, NEW t \in Threads,
           \/ Return(t) \/ PopCall(t) \/ PopReadOut(t) \/ PopReadIn(t) \/ PopReadNext(t) \/ PopData(t)
           \/ (PopCas(t) /\ mOut # out[t]) \/ (ReleaseCas(t) /\ mHead # old[t])
    PROVE  ListInv'
<1> DEFINE Kept == /\ Step(t) /\ UNCHANGED shared /\ pc[t] # "swing"
                   /\ Holds(t)' <=> Holds(t)
                   /\ Holds(t) => own'[t] = own[t]
                   /\ t \in Consumers /\ PopOf(t)'
<1>1. t \notin Consumers \/ t \notin Producers
  BY RoleAssumption
<1>2. Types /\ Types' /\ Plays(t) /\ Follows(t) /\ (t \in Consumers => PopOf(t)) /\ Step(t)
  <2>1. Step(t)
    BY DEF Step, PopStep
  <2>2. AllTypes /\ AllTypes'
    BY <2>1, StepTypes, TypesAre, PTL
  <2> QED BY <2>1, <2>2 DEF AllTypes, ListInv
<1>3. Ver(mOut) \in Nat
  BY <1>2, Facts DEF Types
<1>4. CASE Return(t)
  <2>1. pc[t] \in {"done", "fail"} /\ pc'[t] = "idle" /\ UNCHANGED shared /\ own' = own
    BY <1>2, <1>4 DEF Return, Types, Goto
  <2>2. PopOf(t)' /\ PushOf(t)'
    BY <2>1 DEF PopOf, PushOf
  <2>3. pc[t] # "swing" /\ (Holds(t)' <=> Holds(t)) /\ (Holds(t) => own'[t] = own[t])
    BY <2>1 DEF Holds
  <2> QED BY <2>1, <2>2, <2>3, <1>2, LocalStep
<1> USE <1>2, <1>3 DEF Types, Plays, PopPCs, Follows, Goto, At, PopOf, Holds, shared
<1>5. CASE PopCall(t)
  <2>1. Kept
    BY <1>5 DEF PopCall
  <2> QED BY <2>1, <1>1, LocalStep
<1>6. CASE PopReadOut(t)
  <2>1. Kept
    BY <1>6 DEF PopReadOut
  <2> QED BY <2>1, <1>1, LocalStep
<1>7. CASE PopReadIn(t)
  <2>1. Kept
    BY <1>7 DEF PopReadIn
  <2> QED BY <2>1, <1>1, LocalStep
<1>8. CASE PopReadNext(t)
  <2>1. Kept
    BY <1>8 DEF PopReadNext
  <2> QED BY <2>1, <1>1, LocalStep
<1>9. CASE PopData(t)
  <2>1. Kept
    BY <1>9 DEF PopData, Datum
  <2> QED BY <2>1, <1>1, LocalStep
<1>10. CASE PopCas(t) /\ mOut # out[t]
  <2>1. Kept
    BY <1>10 DEF PopCas
  <2> QED BY <2>1, <1>1, LocalStep
<1>11. CASE ReleaseCas(t) /\ mHead # old[t]
  <2>1. Kept
    BY <1>11 DEF ReleaseCas
  <2> QED BY <2>1, <1>1, LocalStep
<1> QED BY <1>4, <1>5, <1>6, <1>7, <1>8, <1>9, <1>10, <1>11

\* Both, where they write to the node in their hands; and where pop helps m_in on.
LEMMA HeldStep ==
    ASSUME OneProducer, TypeInv, ListInv, NEW t \in Threads,
           AllocClear(t) \/ Fill(t) \/ Version(t) \/ Release(t) \/ PopHelp(t)
    PROVE  ListInv'
<1>1. t \notin Consumers \/ t \notin Producers
  BY RoleAssumption
<1>2. /\ TypeInv' /\ \A u \in Threads : u # t => SameThread(u)
      /\ Types /\ Plays(t) /\ Follows(t) /\ (t \in Consumers => PopOf(t))
      /\ Chains /\ Placed /\ Rising
  <2>1. Step(t)
    BY DEF Step, PushStep, PopStep
  <2> QED BY <2>1, StepTypes, Alone, TypesAre DEF AllTypes, ListInv
<1>3. Holds(t) => own[t] \in NodePtrs /\ Node(own[t]) \in Nodes
  BY <1>2, HeldFacts
<1> DEFINE Kept == /\ mOut' = mOut /\ mHead' = mHead /\ pc[t] # "swing"
                   /\ mId' \in Nat /\ mId <= mId'
                   /\ Holds(t)' <=> Holds(t)
                   /\ Holds(t) => Node(own'[t]) = Node(own[t])
                   /\ \A n \in Nodes : \/ next'[n] = next[n] /\ data'[n] = data[n]
                                       \/ Holds(t) /\ Node(own[t]) = n
<1>4. Kept => SameHands
  BY <1>2 DEF SameHands, SameThread, Holds
<1>5. Kept => Same
  <2>1. Kept => \A n \in Nodes : next'[n] = next[n] \/ \E u \in Threads : Holds(u) /\ Node(own[u]) = n
    OBVIOUS
  <2> QED BY <2>1, <1>2, <1>4, Quiet
<1>6. CASE AllocClear(t)
  <2>1. /\ pc[t] = "clear" /\ pc'[t] = "fill" /\ t \in Producers /\ own' = own
        /\ UNCHANGED <<mIn, mOut, mHead, mId, data>>
        /\ \A n \in Nodes : n # Node(own[t]) => next'[n] = next[n]
    BY <1>2, <1>6 DEF AllocClear, Types, Plays, PushPCs, At, Goto, locals
  <2>2. Kept
    BY <1>2, <2>1 DEF Types, Holds
  <2>3. PushOf(t)'
    BY <2>1 DEF PushOf
  <2> QED BY <2>1, <2>2, <2>3, <1>1, <1>2, <1>4, QuietStep
<1>7. CASE Fill(t)
  <2>1. Kept /\ mIn' = mIn /\ t \in Producers
    BY <1>2, <1>3, <1>7, Facts DEF Fill, Types, Plays, PushPCs, At, Goto, Holds
  <2>2. /\ pc'[t] = "readIn" /\ own'[t] = <<mId, Node(own[t])>> /\ Ver(own'[t]) = mId
        /\ Node(own'[t]) = Node(own[t])
        /\ next'[Node(own[t])] = NullPtr /\ data'[Node(own[t])] = val[t] /\ val' = val
        /\ mId' = mId + 1 /\ mId \in Nat
    BY <1>2, <1>3, <1>7, Facts DEF Fill, Types, At, Goto, Holds
  <2>3. \A i \in 1..Len(Line') : Ver(Ptr(i)') < Ver(own'[t])
    BY <2>1, <2>2, <1>2, <1>5 DEF Same, Rising
  <2>4. PushOf(t)'
    BY <2>2, <2>3 DEF PushOf
  <2> QED BY <2>1, <2>4, <1>1, <1>2, <1>4, QuietStep
<1>8. CASE Version(t)
  <2>1. Kept /\ mIn' = mIn /\ t \in Consumers /\ PopOf(t)'
    BY <1>2, <1>3, <1>8, Facts DEF Version, Types, Plays, PopPCs, At, Goto, Holds, PopOf
  <2> QED BY <2>1, <1>1, <1>2, <1>4, QuietStep
<1>9. CASE Release(t)
  <2>1. Kept /\ mIn' = mIn /\ t \in Consumers
    BY <1>2, <1>3, <1>9 DEF Release, Types, Plays, PopPCs, At, Goto, Holds
  <2>2. /\ pc'[t] = "releaseCas" /\ next'[Node(own'[t])] = old'[t]
    BY <1>2, <1>3, <1>9 DEF Release, Types, At, Goto, Holds
  <2>3. PopOf(t)'
    BY <2>2 DEF PopOf
  <2> QED BY <2>1, <2>3, <1>1, <1>2, <1>4, QuietStep
<1>10. CASE PopHelp(t)
  <2>1. Kept /\ t \in Consumers /\ PopOf(t)' /\ pc[t] = "popHelp"
        /\ mIn' = (IF mIn = in[t] THEN nxt[t] ELSE mIn)
    BY <1>2, <1>10 DEF PopHelp, Types, Plays, PopPCs, At, Goto, Holds, PopOf
  <2>2. ASSUME mIn = in[t]
        PROVE  \A i : i = Len(Line) => mIn # Ptr(i) /\ nxt[t] = Ptr(i)
    <3>1. nxt[t] = next[Node(mIn)] /\ nxt[t] # NullPtr
      BY <2>1, <2>2, <1>2, Facts DEF PopOf, Follows
    <3>2. Len(Line) \in Nat \ {0} /\ mIn # Ptr(Len(Line))
      BY <3>1, <1>2, LineFacts
    <3>3. Len(Line) > 1 /\ mIn = Ptr(Len(Line) - 1)
      BY <3>2 DEF ListInv, Tailed
    <3>4. Len(Line) - 1 \in 1..(Len(Line) - 1) /\ Len(Line) - 1 \in 1..Len(Line) /\ (Len(Line) - 1) + 1 = Len(Line)
      BY <3>2, <3>3
    <3>5. Node(mIn) = Line[Len(Line) - 1] /\ next[Line[Len(Line) - 1]] = Ptr(Len(Line))
      <4>1. \A i \in 1..(Len(Line) - 1) : next[Line[i]] = Ptr(i + 1)
        BY <1>2, LineFacts
      <4> QED BY <4>1, <3>3, <3>4, <1>2, LineFacts
    <3> QED BY <3>1, <3>2, <3>5
  <2>3. mIn' = mIn \/ \E i : i = Len(Line) /\ mIn # Ptr(i) /\ mIn' = Ptr(i)
    BY <2>1, <2>2
  <2> QED BY <2>1, <2>3, <1>1, <1>2, <1>4, QuietStep
<1> QED BY <1>6, <1>7, <1>8, <1>9, <1>10

\* push moves m_in on to its node, which pop may have done.
LEMMA SwingStep ==
    ASSUME OneProducer, TypeInv, ListInv, NEW t \in Threads, Swing(t)
    PROVE  ListInv'
<1>1. /\ TypeInv' /\ Types /\ Plays(t) /\ pc[t] = "swing" /\ Step(t)
      /\ \A u \in Threads : u # t => SameThread(u)
  <2>1. Step(t)
    BY DEF Step, PushStep
  <2> QED BY <2>1, StepTypes, Alone, TypesAre DEF AllTypes, Swing, At
<1>2. /\ t \in Producers /\ t \notin Consumers /\ PushOf(t) /\ \A p \in Producers : p = t
      /\ Chains /\ Placed /\ Rising /\ Tailed /\ Valued
  BY <1>1, RoleAssumption DEF Plays, PushPCs, ListInv, OneProducer
<1>3. /\ UNCHANGED <<mOut, mHead, mId, next, data>> /\ pc'[t] = "done"
      /\ mIn' = IF mIn = in[t] THEN own[t] ELSE mIn
  BY <1>1 DEF Swing, Goto, Types
<1>4. Line' = Line /\ Free' = Free /\ \A i : Ptr(i)' = Ptr(i)
  BY <1>3, StillShared
<1>5. mIn' = Ptr(Len(Line))
  BY <1>1, <1>2, <1>3 DEF PushOf, Tailed
<1>6. mIn' # mIn => Len(Line) > 1
  BY <1>5, <1>2 DEF Tailed
<1>7. SameHands
  BY <1>1, <1>3 DEF SameHands, SameThread, Holds
<1>8. Chains' /\ Placed'
  BY <1>2, <1>3, <1>7, Quiet
<1>9. Rising' /\ Tailed' /\ Valued'
  BY <1>2, <1>3, <1>4, <1>5 DEF Rising, Tailed, Valued
<1>10. \A p \in Producers : PushOf(p)'
  BY <1>2, <1>3 DEF PushOf
<1>11. ASSUME NEW u \in Consumers PROVE PopOf(u)'
  <2>1. u \in Threads /\ SameThread(u)
    BY <1>1, <1>2 DEF Threads
  <2>2. mIn' # mIn => Ver(mOut) < Ver(mIn')
    BY <1>2, <1>5, <1>6, LineFacts DEF Rising
  <2> QED BY <2>1, <2>2, <1>1, <1>3, PopFrame
<1> QED BY <1>8, <1>9, <1>10, <1>11 DEF ListInv

\* AllocNode's swap succeeds.
LEMMA AllocStep ==
    ASSUME OneProducer, TypeInv, ListInv, NEW t \in Threads, AllocCas(t), mHead = old[t]
    PROVE  ListInv'
<1>1. /\ TypeInv' /\ Types /\ Plays(t) /\ pc[t] = "allocCas" /\ Step(t)
      /\ \A u \in Threads : u # t => SameThread(u)
  <2>1. Step(t)
    BY DEF Step, PushStep
  <2> QED BY <2>1, StepTypes, Alone, TypesAre DEF AllTypes, AllocCas, At
<1>2. /\ t \in Producers /\ t \notin Consumers /\ PushOf(t) /\ \A p \in Producers : p = t
      /\ Chains /\ Placed /\ Rising /\ Tailed /\ Valued
  BY <1>1, RoleAssumption DEF Plays, PushPCs, ListInv, OneProducer
<1>3. UNCHANGED <<mIn, mOut, mId, next, data>> /\ pc'[t] = "clear"
  BY <1>1 DEF AllocCas, Goto, Types
<1>4. /\ Line' = Line /\ \A i \in 1..Len(Line) : Ptr(i)' = Ptr(i)
      /\ Chains' /\ Placed'
  BY <1>2, AllocMoves
<1>5. /\ mIn = Ptr(Len(Line)) /\ Len(Line) \in 1..Len(Line)
  BY <1>1, <1>2, TailIsLast, LineFacts
<1>6. Rising' /\ Tailed' /\ Valued'
  BY <1>2, <1>3, <1>4, <1>5 DEF Rising, Tailed, Valued
<1>7. \A p \in Producers : PushOf(p)'
  BY <1>2, <1>3 DEF PushOf
<1>8. ASSUME NEW u \in Consumers PROVE PopOf(u)'
  <2>1. u \in Threads /\ SameThread(u)
    BY <1>1, <1>2 DEF Threads
  <2> QED BY <2>1, <1>1, <1>3, PopFrame
<1> QED BY <1>4, <1>6, <1>7, <1>8 DEF ListInv

\* push's swap, which succeeds: nobody else links a node.
LEMMA LinkStep ==
    ASSUME OneProducer, TypeInv, ListInv, NEW t \in Threads, Link(t)
    PROVE  ListInv'
<1>1. /\ TypeInv' /\ Types /\ Plays(t) /\ pc[t] = "link" /\ Holds(t) /\ Step(t)
      /\ \A u \in Threads : u # t => SameThread(u)
  <2>1. Step(t)
    BY DEF Step, PushStep
  <2> QED BY <2>1, StepTypes, Alone, TypesAre DEF AllTypes, Link, At, Holds
<1>2. /\ t \in Producers /\ t \notin Consumers /\ PushOf(t) /\ \A p \in Producers : p = t
      /\ Chains /\ Placed /\ Rising /\ Valued
      /\ val[t] \in Values
  BY <1>1, RoleAssumption DEF Plays, PushPCs, ListInv, OneProducer
<1>3. /\ mIn = Ptr(Len(Line)) /\ in[t] = mIn /\ next[Node(mIn)] = NullPtr
  BY <1>1, <1>2, TailIsLast DEF PushOf
<1>4. UNCHANGED <<mIn, mOut, mHead, mId, data, in, own>>
  BY <1>3 DEF Link
<1>5. /\ pc'[t] = "swing" /\ next' = [next EXCEPT ![Line[Len(Line)]] = own[t]]
      /\ Len(Line') = Len(Line) + 1 /\ \A i \in 1..Len(Line) : Line'[i] = Line[i]
      /\ Line'[Len(Line) + 1] = Node(own[t])
      /\ \A i \in 1..Len(Line) : Ptr(i)' = Ptr(i)
      /\ \A i : i = Len(Line) + 1 => Ptr(i)' = own[t]
      /\ Free' = Free /\ Chains' /\ Placed'
  BY <1>2, <1>3, LinkMoves
<1>6. /\ Len(Line) \in Nat \ {0} /\ Len(Line) \in 1..Len(Line)
      /\ \A i \in 1..Len(Line) : Line[i] \in Nodes /\ Line[i] # Node(own[t]) /\ Ver(Ptr(i)) \in Nat
      /\ next[Line[Len(Line)]] = NullPtr
  BY <1>1, <1>2, LineFacts, HeldFacts, Facts
<1>7. /\ Ver(own[t]) \in Nat /\ mId \in Nat /\ Ver(own[t]) < mId /\ data[Node(own[t])] = val[t]
      /\ \A i \in 1..Len(Line) : Ver(Ptr(i)) < Ver(own[t])
  BY <1>1, <1>2, HeldFacts, Facts DEF PushOf, Types
<1>8. \A i \in 1..Len(Line') : i \in 1..Len(Line) \/ i = Len(Line) + 1
  BY <1>5, <1>6
<1>9. Rising'
  <2>1. \A i \in 1..Len(Line') : Ver(Ptr(i)') < mId'
    BY <1>2, <1>4, <1>5, <1>7, <1>8 DEF Rising
  <2>2. ASSUME NEW i \in 1..Len(Line'), NEW j \in 1..Len(Line'), i < j
        PROVE  Ver(Ptr(i)') < Ver(Ptr(j)')
    <3>1. i \in 1..Len(Line)
      BY <2>2, <1>5, <1>6
    <3> QED BY <2>2, <3>1, <1>2, <1>5, <1>7, <1>8 DEF Rising
  <2> QED BY <2>1, <2>2 DEF Rising
<1>10. Tailed'
  <2>1. Len(Line') > 1
    BY <1>5, <1>6
  <2>2. \A i : i = Len(Line') - 1 => mIn' = Ptr(i)'
    BY <1>3, <1>4, <1>5, <1>6
  <2>3. pc'[t] = "swing" /\ in'[t] = mIn'
    BY <1>3, <1>4, <1>5
  <2> QED BY <2>1, <2>2, <2>3, <1>2 DEF Tailed
<1>11. Valued'
  BY <1>2, <1>4, <1>5, <1>6, <1>7, <1>8 DEF Valued
<1>12. \A p \in Producers : PushOf(p)'
  <2>1. \A i : i = Len(Line') => own'[t] = Ptr(i)'
    BY <1>4, <1>5
  <2> QED BY <2>1, <1>2, <1>5 DEF PushOf
<1>13. ASSUME NEW u \in Consumers PROVE PopOf(u)'
  <2>1. u \in Threads /\ SameThread(u)
    BY <1>1, <1>2 DEF Threads
  <2>2. \A i \in 1..Len(Line) : next[Line[i]] # NullPtr => next'[Line[i]] = next[Line[i]]
    BY <1>1, <1>5, <1>6 DEF Types
  <2>3. Holds(u) => next'[Node(own[u])] = next[Node(own[u])]
    BY <2>1, <1>1, <1>2, <1>5, <1>6, HeldFacts DEF Types
  <2> QED BY <2>1, <2>2, <2>3, <1>1, <1>4, PopFrame
<1> QED BY <1>5, <1>9, <1>10, <1>11, <1>12, <1>13 DEF ListInv

\* pop's swap succeeds: m_in has left the old dummy before.
LEMMA PopCasStep ==
    ASSUME OneProducer, TypeInv, ListInv, NEW t \in Threads, PopCas(t), mOut = out[t]
    PROVE  ListInv'
<1>1. /\ TypeInv' /\ Types /\ Plays(t) /\ pc[t] = "popCas" /\ Step(t)
      /\ \A u \in Threads : u # t => SameThread(u)
  <2>1. Step(t)
    BY DEF Step, PopStep
  <2> QED BY <2>1, StepTypes, Alone, TypesAre DEF AllTypes, PopCas, At
<1>2. /\ t \in Consumers /\ t \notin Producers /\ PopOf(t)
      /\ Chains /\ Placed /\ Rising /\ Tailed /\ Valued
  BY <1>1, RoleAssumption DEF Plays, PopPCs, ListInv
<1>3. UNCHANGED <<mIn, mHead, mId, next, data>> /\ pc'[t] = "version"
  BY <1>1 DEF PopCas, Goto, Types
<1>4. /\ Len(Line) > 1 /\ mOut' = Ptr(2) /\ Len(Line') = Len(Line) - 1
      /\ \A i \in 1..(Len(Line) - 1) : Line'[i] = Line[i + 1] /\ Ptr(i)' = Ptr(i + 1)
      /\ Free' = Free /\ Chains' /\ Placed'
  BY <1>2, PopMoves
<1>5. /\ Len(Line) \in Nat /\ mOut = Ptr(1) /\ mIn # mOut
      /\ \A i \in 1..(Len(Line) - 1) : i + 1 \in 2..Len(Line) /\ i + 1 \in 1..Len(Line)
  BY <1>1, <1>2, <1>4, LineFacts DEF PopOf
<1>6. Rising'
  BY <1>2, <1>3, <1>4, <1>5 DEF Rising
<1>7. \A i, j : i = Len(Line) /\ j = Len(Line') => j \in 1..(Len(Line) - 1) /\ Ptr(j)' = Ptr(i)
  BY <1>4, <1>5
<1>8. Tailed'
  <2>1. CASE mIn = Ptr(Len(Line))
    BY <2>1, <1>3, <1>7 DEF Tailed
  <2>2. CASE mIn # Ptr(Len(Line))
    <3>1. mIn = Ptr(Len(Line) - 1) /\ Len(Line) - 1 # 1
      BY <2>2, <1>2, <1>5 DEF Tailed
    <3>2. \A i : i = Len(Line') - 1 => Ptr(i)' = mIn'
      <4> SUFFICES ASSUME NEW i, i = Len(Line') - 1 PROVE Ptr(i)' = mIn'
        OBVIOUS
      <4>1. i \in 1..(Len(Line) - 1) /\ i + 1 = Len(Line) - 1
        BY <3>1, <1>4, <1>5
      <4>2. Ptr(i)' = Ptr(i + 1)
        BY <4>1, <1>4
      <4> QED BY <3>1, <4>1, <4>2, <1>3
    <3>3. PICK p \in Producers : pc[p] = "swing" /\ in[p] = mIn
      BY <2>2, <1>2 DEF Tailed
    <3>4. pc'[p] = "swing" /\ in'[p] = mIn'
      BY <3>3, <1>1, <1>2, <1>3 DEF Threads, SameThread
    <3>5. Len(Line') > 1
      BY <3>1, <1>4, <1>5
    <3> QED BY <3>2, <3>4, <3>5 DEF Tailed
  <2> QED BY <2>1, <2>2
<1>9. Valued'
  <2>1. \A i \in 2..Len(Line') : i + 1 \in 2..Len(Line) /\ Line'[i] = Line[i + 1]
    BY <1>4, <1>5
  <2> QED BY <2>1, <1>2, <1>3 DEF Valued
<1>10. ASSUME NEW p \in Producers PROVE PushOf(p)'
  <2>1. p \in Threads /\ SameThread(p)
    BY <1>1, <1>2 DEF Threads
  <2>2. \A i \in 1..Len(Line') : \E j \in 1..Len(Line) : Ptr(i)' = Ptr(j)
    BY <1>4, <1>5
  <2>3. mId' \in Nat /\ mId <= mId'
    BY <1>1, <1>3 DEF Types
  <2> QED BY <2>1, <2>2, <2>3, <1>3, <1>4, <1>7, PushFrame
<1>11. ASSUME NEW u \in Consumers PROVE PopOf(u)'
  <2>1. CASE u = t
    BY <2>1, <1>3 DEF PopOf
  <2>2. CASE u # t
    <3>1. SameThread(u)
      BY <2>2, <1>1 DEF Threads
    <3>2. Ver(mOut) < Ver(mOut')
      <4>1. 1 \in 1..Len(Line) /\ 2 \in 1..Len(Line) /\ 1 < 2
        BY <1>4, <1>5
      <4> QED BY <4>1, <1>2, <1>4, <1>5 DEF Rising
    <3> QED BY <3>1, <3>2, <1>1, <1>3, PopFrame
  <2> QED BY <2>1, <2>2
<1> QED BY <1>4, <1>6, <1>8, <1>9, <1>10, <1>11 DEF ListInv

\* ReleaseNode's swap succeeds: what AllocNode has read of the free list is out of date.
LEMMA ReleaseStep ==
    ASSUME OneProducer, TypeInv, ListInv, NEW t \in Threads, ReleaseCas(t), mHead = old[t]
    PROVE  ListInv'
<1>1. /\ TypeInv' /\ Types /\ Plays(t) /\ pc[t] = "releaseCas" /\ Holds(t) /\ Step(t)
      /\ \A u \in Threads : u # t => SameThread(u)
  <2>1. Step(t)
    BY DEF Step, PopStep
  <2> QED BY <2>1, StepTypes, Alone, TypesAre DEF AllTypes, ReleaseCas, At, Holds
<1>2. /\ t \in Consumers /\ t \notin Producers /\ PopOf(t)
      /\ Chains /\ Placed /\ Rising /\ Tailed /\ Valued
  BY <1>1, RoleAssumption DEF Plays, PopPCs, ListInv
<1>3. UNCHANGED <<mIn, mOut, mId, next, data>> /\ pc'[t] = "done" /\ mHead' = own[t]
  BY <1>1 DEF ReleaseCas, Goto, Types
<1>4. /\ Line' = Line /\ \A i \in 1..Len(Line) : Ptr(i)' = Ptr(i)
      /\ \A i \in 1..Len(Free) : \E j \in 1..Len(Free') : Free'[j] = Free[i]
      /\ Chains' /\ Placed'
  BY <1>2, ReleaseMoves
<1>5. Len(Line) \in Nat \ {0} /\ Len(Line) \in 1..Len(Line)
  BY <1>1, <1>2, LineFacts
<1>6. Rising' /\ Valued'
  BY <1>2, <1>3, <1>4, <1>5 DEF Rising, Valued
<1>7. Tailed'
  <2>1. CASE mIn = Ptr(Len(Line))
    BY <2>1, <1>3, <1>4, <1>5 DEF Tailed
  <2>2. CASE mIn # Ptr(Len(Line))
    <3>1. Len(Line) > 1 /\ Len(Line) - 1 \in 1..Len(Line) /\ mIn = Ptr(Len(Line) - 1)
      BY <2>2, <1>2, <1>5 DEF Tailed
    <3>2. PICK p \in Producers : pc[p] = "swing" /\ in[p] = mIn
      BY <2>2, <1>2 DEF Tailed
    <3>3. pc'[p] = "swing" /\ in'[p] = mIn'
      BY <3>2, <1>1, <1>2, <1>3 DEF Threads, SameThread
    <3>4. \A i : i = Len(Line) - 1 => Ptr(i)' = mIn'
      BY <3>1, <1>3, <1>4
    <3> QED BY <3>1, <3>3, <3>4, <1>4 DEF Tailed
  <2> QED BY <2>1, <2>2
<1>8. ASSUME NEW p \in Producers PROVE PushOf(p)'
  <2>1. p \in Threads /\ SameThread(p)
    BY <1>1, <1>2 DEF Threads
  <2>2. mId' \in Nat /\ mId <= mId'
    BY <1>1, <1>3 DEF Types
  <2>3. /\ \A i \in 1..Len(Line') : \E j \in 1..Len(Line) : Ptr(i)' = Ptr(j)
        /\ \A i, j : i = Len(Line) /\ j = Len(Line') => Ptr(j)' = Ptr(i)
    BY <1>4, <1>5
  <2> QED BY <2>1, <2>2, <2>3, <1>1, <1>3, <1>4, PushFrame
<1>9. ASSUME NEW u \in Consumers PROVE PopOf(u)'
  <2>1. CASE u = t
    BY <2>1, <1>3 DEF PopOf
  <2>2. CASE u # t
    <3>1. SameThread(u)
      BY <2>2, <1>1 DEF Threads
    <3> QED BY <3>1, <1>1, <1>3, PopFrame
  <2> QED BY <2>1, <2>2
<1> QED BY <1>4, <1>6, <1>7, <1>8, <1>9 DEF ListInv

\* Every step keeps the invariant.
LEMMA StepList ==
    ASSUME OneProducer, TypeInv, ListInv, NEW t \in Threads, Step(t)
    PROVE  ListInv'
<1>1. ~Help(t)
  <2>1. Help(t) => t \in Producers /\ pc[t] = "help"
    BY DEF Help, At, TypeInv, Plays, PushPCs
  <2> QED BY <2>1 DEF ListInv, PushOf
<1>2. CASE PushStep(t)
  BY <1>1, <1>2, PushLocal, AllocStep, HeldStep, LinkStep, SwingStep DEF PushStep
<1>3. CASE PopStep(t)
  BY <1>3, PopLocal, HeldStep, PopCasStep, ReleaseStep DEF PopStep
<1> QED BY <1>2, <1>3, PushLocal, PopLocal DEF Step

\* The invariant of the list with one producer.
LEMMA ListInvariant == OneProducer => (Spec => [](TypeInv /\ ListInv))
<1> SUFFICES ASSUME OneProducer PROVE Spec => [](TypeInv /\ ListInv)
  OBVIOUS
<1>1. TypeInv /\ ListInv /\ [Next]_vars => TypeInv' /\ ListInv'
  <2>1. ASSUME TypeInv, ListInv, UNCHANGED vars PROVE TypeInv' /\ ListInv'
    <3>1. TypeInv'
      BY <2>1 DEF vars, shared, locals, TypeInv, TypeOK, Follows, Plays, Holds
    <3>2. /\ Line' = Line /\ Free' = Free /\ \A i : Ptr(i)' = Ptr(i)
          /\ \A n, k, i : Place(n, k, i)' <=> Place(n, k, i)
      BY <2>1 DEF vars, shared, locals, Line, Free, Ptr, Place, Holds
    <3>3. Chains' /\ Placed' /\ Rising' /\ Tailed' /\ Valued'
      BY <2>1, <3>2 DEF vars, shared, locals, ListInv, Chains, Placed, Rising, Tailed, Valued
    <3>4. (\A p \in Producers : PushOf(p)') /\ \A t \in Consumers : PopOf(t)'
      BY <2>1, <3>2 DEF vars, shared, locals, ListInv, PushOf, PopOf
    <3> QED BY <3>1, <3>3, <3>4 DEF ListInv
  <2> QED BY <2>1, StepTypes, StepList DEF Next, Step
<1> QED BY <1>1, InitTypes, InitList, PTL DEF Spec

-----------------------------------------------------------------------------
(* The nodes are accounted for *)

\* The queue is the line without the dummy.
LEMMA QueuedIs ==
    ASSUME TypeInv, Chains
    PROVE  /\ Queued = Tail(Line) /\ Line # <<>>
           /\ Len(Queued) \in Nat /\ Len(Queued) = Len(Line) - 1
           /\ \A i \in 1..Len(Queued) : Queued[i] = Line[i + 1]
<1>1. Line # <<>> /\ Line[1] = Node(mOut) /\ Len(Line) \in Nat \ {0}
  BY LineFacts, EmptySeq
<1>2. /\ Linked(next, Tail(Line), next[Node(mOut)]) /\ Len(Tail(Line)) = Len(Line) - 1
      /\ \A i \in 1..(Len(Line) - 1) : Tail(Line)[i] = Line[i + 1]
  BY <1>1, LinkedTail DEF Chains
<1>3. Queued = Tail(Line)
  BY <1>2, ChainIs DEF Queued
<1> QED BY <1>1, <1>2, <1>3

\* A node that is in one place is counted once.
LEMMA PlacedAccounts == TypeInv /\ ListInv => NodesAccounted
<1> SUFFICES ASSUME TypeInv, ListInv, NEW n \in Nodes
             PROVE  Cardinality(InChain(Queued, n)) + Cardinality(InChain(Free, n))
                    + Cardinality({t \in Threads : Holds(t) /\ Node(own[t]) = n})
                    + (IF Node(mOut) = n THEN 1 ELSE 0) = 1
  BY DEF NodesAccounted
<1> DEFINE Q == InChain(Queued, n)
           F == InChain(Free, n)
           H == {t \in Threads : Holds(t) /\ Node(own[t]) = n}
           D == IF Node(mOut) = n THEN 1 ELSE 0
           Total == Cardinality(Q) + Cardinality(F) + Cardinality(H) + D
<1>1. Chains /\ Placed
  BY DEF ListInv
<1>2. PICK k, i : Place(n, k, i)
  BY <1>1 DEF Placed
<1>3. \A l, j : Place(n, l, j) => l = k /\ j = i
  BY <1>1, <1>2 DEF Placed
<1>4. /\ Len(Line) \in Nat \ {0} /\ Line[1] = Node(mOut)
      /\ Len(Queued) = Len(Line) - 1
      /\ \A j \in 1..Len(Queued) : Queued[j] = Line[j + 1]
  BY <1>1, LineFacts, QueuedIs
<1>5. \A j : j \in Q <=> j \in Nat \ {0} /\ Place(n, "line", j + 1)
  <2>1. \A j : j \in 1..Len(Queued) <=> j \in Nat \ {0} /\ j + 1 \in 1..Len(Line)
    BY <1>4
  <2> QED BY <2>1, <1>4 DEF InChain, Place
<1>6. (\A j : j \in F <=> Place(n, "free", j)) /\ \A j : j \in H <=> Place(n, "held", j)
  BY DEF InChain, Place
<1>7. D = IF Place(n, "line", 1) THEN 1 ELSE 0
  BY <1>4 DEF Place
<1> HIDE DEF Q, F, H, D
<1>8. \A x : Cardinality({x}) = 1
  BY FS_Singleton
<1>9. Cardinality({}) = 0
  BY FS_EmptySet
<1>10. ASSUME k = "line", i = 1 PROVE Total = 1
  <2>1. D = 1
    BY <1>2, <1>7, <1>10
  <2>2. Q = {}
    BY <1>3, <1>4, <1>5, <1>10
  <2>3. F = {} /\ H = {}
    <3>1. \A j : ~Place(n, "free", j) /\ ~Place(n, "held", j)
      BY <1>3, <1>10
    <3> QED BY <3>1, <1>6, Zenon
  <2> QED BY <2>1, <2>2, <2>3, <1>9
<1>11. ASSUME k = "line", i # 1 PROVE Total = 1
  <2>1. i - 1 \in Nat \ {0} /\ (i - 1) + 1 = i
    BY <1>2, <1>4, <1>11 DEF Place
  <2>2. Q = {i - 1}
    BY <2>1, <1>2, <1>3, <1>5, <1>11
  <2>3. F = {} /\ H = {}
    BY <1>3, <1>6, <1>11
  <2>4. D = 0
    <3>1. ~Place(n, "line", 1)
      BY <1>3, <1>11
    <3> QED BY <3>1, <1>7, Zenon
  <2>5. Cardinality(Q) = 1 /\ Cardinality(F) = 0 /\ Cardinality(H) = 0
    BY <2>2, <2>3, <1>8, <1>9, Zenon
  <2> QED BY <2>4, <2>5
<1>12. ASSUME k = "free" PROVE Total = 1
  <2>1. F = {i}
    BY <1>2, <1>3, <1>6, <1>12
  <2>2. Q = {} /\ H = {}
    BY <1>3, <1>5, <1>6, <1>12
  <2>3. D = 0
    <3>1. ~Place(n, "line", 1)
      BY <1>3, <1>12
    <3> QED BY <3>1, <1>7, Zenon
  <2> QED BY <2>1, <2>2, <2>3, <1>8, <1>9
<1>13. ASSUME k = "held" PROVE Total = 1
  <2>1. H = {i}
    BY <1>2, <1>3, <1>6, <1>13
  <2>2. Q = {} /\ F = {}
    BY <1>3, <1>5, <1>6, <1>13
  <2>3. D = 0
    <3>1. ~Place(n, "line", 1)
      BY <1>3, <1>13
    <3> QED BY <3>1, <1>7, Zenon
  <2>4. Cardinality(Q) = 0 /\ Cardinality(F) = 0 /\ Cardinality(H) = 1
    BY <2>1, <2>2, <1>8, <1>9, Zenon
  <2> QED BY <2>3, <2>4
<1>14. Total = 1
  BY <1>2, <1>10, <1>11, <1>12, <1>13 DEF Place
<1> QED BY <1>14 DEF Q, F, H, D

\* With one producer a node is never lost and never in two places.
THEOREM NodesAreAccounted == OneProducer => (Spec => []NodesAccounted)
BY ListInvariant, PlacedAccounts, PTL

-----------------------------------------------------------------------------
(* With one producer the list is a queue *)

\* What a call returns: what it pushed, or what it took out of the line.
Answers(t) ==
    /\ t \in Producers /\ pc[t] \in {"done", "fail"} => val[t] \in Values
    /\ t \in Consumers /\ pc[t] \in {"version", "release", "releaseCas", "done"} => val[t] \in Values

AnswerInv == \A t \in Threads : Answers(t)

\* pop takes the value behind the dummy.
LEMMA FirstValue ==
    ASSUME TypeInv, ListInv, NEW t \in Consumers, PopCas(t), mOut = out[t]
    PROVE  /\ Len(Line) \in Nat /\ Len(Line) > 1
           /\ val[t] = data[Line[2]] /\ val[t] \in Values
<1>1. /\ t \in Threads /\ pc[t] = "popCas" /\ PopOf(t) /\ Chains /\ Placed /\ Valued
  BY DEF PopCas, At, ListInv, Threads
<1>2. Len(Line) \in Nat /\ Len(Line) > 1
  BY <1>1, PopMoves, LineFacts
<1>3. nxt[t] = next[Line[1]] /\ val[t] = data[Node(nxt[t])]
  BY <1>1, LineFacts DEF PopOf
<1>4. nxt[t] = Ptr(2) /\ Node(Ptr(2)) = Line[2]
  BY <1>1, <1>2, <1>3, LineFacts
<1> QED BY <1>1, <1>2, <1>3, <1>4 DEF Valued

\* Every step keeps the answers values.
LEMMA StepAnswers ==
    ASSUME TypeInv, ListInv, AnswerInv, NEW t \in Threads, Step(t)
    PROVE  AnswerInv'
<1>1. Types /\ Plays(t) /\ Answers(t)
  BY TypesAre DEF AllTypes, AnswerInv
<1>2. t \notin Consumers \/ t \notin Producers
  BY RoleAssumption
<1> USE <1>1, <1>2 DEF Types, Plays, PushPCs, PopPCs, Answers, Goto, At, shared, locals
<1>3. ASSUME NEW v \in Values, PushCall(t, v) PROVE Answers(t)'
  BY <1>3 DEF PushCall
<1>4. ASSUME PopCall(t) \/ Return(t) PROVE Answers(t)'
  BY <1>4 DEF PopCall, Return
<1>5. ASSUME PushStep(t) PROVE Answers(t)'
  BY <1>5 DEF PushStep, AllocRead, AllocTop, AllocNext, AllocCas, AllocClear, Fill, ReadIn,
     ReadNext, Help, Link, Swing
<1>6. ASSUME PopStep(t) PROVE Answers(t)'
  <2>1. CASE PopCas(t) /\ mOut = out[t]
    <3>1. t \in Consumers /\ val[t] \in Values /\ val' = val /\ pc'[t] = "version"
      BY <2>1, FirstValue DEF PopCas
    <3> QED BY <3>1
  <2>2. CASE PopReadOut(t) \/ PopReadIn(t) \/ PopReadNext(t) \/ PopHelp(t) \/ PopData(t)
    BY <2>2 DEF PopReadOut, PopReadIn, PopReadNext, PopHelp, PopData
  <2>3. CASE PopCas(t) /\ mOut # out[t]
    BY <2>3 DEF PopCas
  <2>4. CASE Version(t) \/ Release(t) \/ ReleaseCas(t)
    BY <2>4 DEF Version, Release, ReleaseCas
  <2> QED BY <1>6, <2>1, <2>2, <2>3, <2>4 DEF PopStep
<1>7. Answers(t)'
  BY <1>3, <1>4, <1>5, <1>6 DEF Step
<1>8. ASSUME NEW u \in Threads, u # t PROVE Answers(u)'
  <2>1. Answers(u) /\ SameThread(u)
    BY <1>8, Alone DEF AnswerInv
  <2> QED BY <2>1 DEF SameThread
<1> QED BY <1>7, <1>8 DEF AnswerInv

\* The values in the queue are those of the line, behind the dummy.
QueueValues ==
    /\ QueueOf \in Seq(Values) /\ Len(QueueOf) = Len(Line) - 1 /\ Len(QueueOf) \in Nat
    /\ \A i \in 1..Len(QueueOf) : QueueOf[i] = data[Line[i + 1]]

\* So it is as long as the invariant holds.
LEMMA QueueIs == TypeInv /\ ListInv => QueueValues
<1> SUFFICES ASSUME TypeInv, Chains, Valued PROVE QueueValues
  BY DEF ListInv
<1>1. /\ Len(Queued) \in Nat /\ Len(Queued) = Len(Line) - 1
      /\ \A i \in 1..Len(Queued) : Queued[i] = Line[i + 1]
  BY QueuedIs
<1>2. Len(Line) \in Nat
  BY LineFacts
<1>3. \A i \in 1..Len(Queued) : i + 1 \in 2..Len(Line) /\ data[Queued[i]] \in Values
  BY <1>1, <1>2 DEF Valued
<1>4. QueueOf \in [1..Len(Queued) -> Values]
  BY <1>3 DEF QueueOf
<1>5. QueueOf \in Seq(Values) /\ Len(QueueOf) = Len(Queued)
  <2>1. QueueOf \in Seq(Values)
    BY <1>1, <1>4, SeqDef
  <2>2. DOMAIN QueueOf = 1..Len(Queued) /\ DOMAIN QueueOf = 1..Len(QueueOf) /\ Len(QueueOf) \in Nat
    BY <1>4, <2>1, LenProperties
  <2> QED BY <1>1, <2>1, <2>2
<1> QED BY <1>1, <1>5 DEF QueueOf, QueueValues

\* The queue changes with the line and with the values in it only.
LEMMA SameQueue ==
    ASSUME TypeInv, TypeInv', ListInv, ListInv', Line' = Line,
           \A i \in 1..Len(Line) : data'[Line[i]] = data[Line[i]]
    PROVE  QueueOf' = QueueOf
<1>1. QueueValues
  BY QueueIs
<1>2. QueueValues'
  BY QueueIs, PTL
<1>3. Len(Line) \in Nat
  BY LineFacts DEF ListInv
<1>4. ASSUME NEW i \in 1..Len(QueueOf) PROVE QueueOf'[i] = QueueOf[i]
  <2>1. i \in 1..Len(QueueOf') /\ i + 1 \in 1..Len(Line)
    BY <1>1, <1>2, <1>3 DEF QueueValues
  <2> QED BY <2>1, <1>1, <1>2 DEF QueueValues
<1> QED BY <1>1, <1>2, <1>4, SeqEqual DEF QueueValues

\* What a thread's callers see of it.
CallOf(t) == IF pc[t] = "idle" THEN NoValue ELSE IF t \in Producers THEN val[t] ELSE "pop"
ResultOf(t) ==
    IF pc[t] = "fail" THEN "fail"
    ELSE IF pc[t] \in {"swing", "done"} /\ t \in Producers THEN "done"
    ELSE IF pc[t] \in {"version", "release", "releaseCas", "done"} /\ t \in Consumers THEN val[t]
    ELSE "pending"

Seen ==
    /\ Calls = [t \in Threads |-> CallOf(t)]
    /\ Results = [t \in Threads |-> ResultOf(t)]

\* Calls and Results are what is seen of each thread.
LEMMA CallsAre == Seen
<1>1. ASSUME NEW t \in Threads
      PROVE  (CASE pc[t] = "idle" -> NoValue
                [] pc[t] # "idle" /\ t \in Producers -> val[t]
                [] OTHER -> "pop") = CallOf(t)
  BY DEF CallOf
<1>2. ASSUME NEW t \in Threads
      PROVE  (CASE pc[t] = "fail" -> "fail"
                [] pc[t] \in {"swing", "done"} /\ t \in Producers -> "done"
                [] pc[t] \in {"version", "release", "releaseCas", "done"}
                       /\ t \in Consumers -> val[t]
                [] OTHER -> "pending") = ResultOf(t)
  BY RoleAssumption DEF ResultOf
<1> QED BY <1>1, <1>2 DEF Seen, Calls, Results

\* A step changes what is seen of the thread that takes it.
LEMMA SeenStep ==
    ASSUME TypeInv, NEW t \in Threads, Step(t)
    PROVE  /\ Calls' = [Calls EXCEPT ![t] = CallOf(t)']
           /\ Results' = [Results EXCEPT ![t] = ResultOf(t)']
           /\ Calls[t] = CallOf(t) /\ Results[t] = ResultOf(t)
<1>1. \A u \in Threads : u # t => CallOf(u)' = CallOf(u) /\ ResultOf(u)' = ResultOf(u)
  BY Alone DEF CallOf, ResultOf, SameThread
<1>2. Seen /\ Seen'
  BY CallsAre, PTL
<1> QED BY <1>1, <1>2 DEF Seen

\* The list begins as an empty queue.
LEMMA FifoInit == Init => Queue!Init
<1> SUFFICES ASSUME Init PROVE Queue!Init
  OBVIOUS
<1>1. TypeInv /\ ListInv /\ \A t \in Threads : pc[t] = "idle"
  BY InitTypes, InitList DEF Init
<1>2. Calls = [t \in Threads |-> NoValue] /\ Results = [t \in Threads |-> "pending"]
  BY <1>1, CallsAre DEF Seen, CallOf, ResultOf
<1>3. next[Node(mOut)] = NullPtr
  BY MaxAssumption DEF Init, Node, Nodes
<1>4. Len(Line) = 1
  <2>1. /\ Len(Line) \in Nat \ {0}
        /\ \A i \in 1..(Len(Line) - 1) : next[Line[i]] # NullPtr
        /\ Line[1] = Node(mOut)
    BY <1>1, LineFacts, Facts DEF ListInv
  <2>2. 1 \notin 1..(Len(Line) - 1)
    <3>1. 1 \in 1..(Len(Line) - 1) => next[Line[1]] # NullPtr
      BY <2>1
    <3>2. Line[1] = Node(mOut)
      BY <2>1
    <3> QED BY <3>1, <3>2, <1>3
  <2>3. \A n \in Nat \ {0} : 1 \notin 1..(n - 1) => n = 1
    OBVIOUS
  <2> QED BY <2>1, <2>2, <2>3, Zenon
<1>5. QueueOf = <<>>
  BY <1>1, <1>4, QueueIs, EmptySeq DEF QueueValues
<1> QED BY <1>2, <1>5 DEF Queue!Init

\* All that the steps to the abstract queue may use.
LEMMA Steps ==
    ASSUME OneProducer, TypeInv, ListInv, NEW t \in Threads, Step(t)
    PROVE  /\ TypeInv' /\ ListInv'
           /\ Types /\ Types' /\ Plays(t) /\ Chains
           /\ t \in Consumers <=> t \notin Producers
<1>1. TypeInv' /\ ListInv'
  BY StepTypes, StepList
<1>2. AllTypes /\ AllTypes'
  BY <1>1, TypesAre, PTL
<1> QED BY <1>1, <1>2, RoleAssumption DEF AllTypes, ListInv, Threads

\* A step that no caller sees.
LEMMA Unseen ==
    ASSUME OneProducer, TypeInv, ListInv, NEW t \in Threads, Step(t),
           CallOf(t)' = CallOf(t), ResultOf(t)' = ResultOf(t), QueueOf' = QueueOf
    PROVE  UNCHANGED Queue!vars
<1>1. Calls \in [Threads -> {CallOf(u) : u \in Threads}] /\ Results \in [Threads -> {ResultOf(u) : u \in Threads}]
  BY CallsAre DEF Seen
<1>2. Calls' = Calls /\ Results' = Results
  BY <1>1, SeenStep
<1> QED BY <1>2 DEF Queue!vars

\* The line stays, with its values, unless push links a node or pop takes one.
LEMMA QueueStays ==
    ASSUME OneProducer, TypeInv, ListInv, NEW t \in Threads, Step(t),
           pc[t] # "link", ~(pc[t] = "popCas" /\ mOut = out[t])
    PROVE  QueueOf' = QueueOf
<1>1. TypeInv' /\ ListInv' /\ Types
  BY Steps
<1>2. /\ mOut' = mOut
      /\ \A n \in Nodes : \/ next'[n] = next[n] /\ data'[n] = data[n]
                          \/ Holds(t) /\ n = Node(own[t])
  <2> DEFINE Goal == /\ mOut' = mOut
                     /\ \A n \in Nodes : \/ next'[n] = next[n] /\ data'[n] = data[n]
                                         \/ Holds(t) /\ n = Node(own[t])
  <2>1. ASSUME UNCHANGED <<mOut, next, data>> PROVE Goal
    BY <2>1
  <2>2. ASSUME NEW v \in Values, PushCall(t, v) PROVE Goal
    BY <2>2, <2>1 DEF PushCall, shared
  <2>3. ASSUME PopCall(t) \/ Return(t) PROVE Goal
    BY <2>3, <2>1 DEF PopCall, Return, shared
  <2>4. ASSUME AllocRead(t) \/ AllocTop(t) \/ AllocNext(t) \/ AllocCas(t) \/ ReadIn(t) \/ ReadNext(t)
               \/ Help(t) \/ Swing(t)
        PROVE  Goal
    BY <2>4, <2>1 DEF AllocRead, AllocTop, AllocNext, AllocCas, ReadIn, ReadNext, Help, Swing, shared
  <2>5. ASSUME PopReadOut(t) \/ PopReadIn(t) \/ PopReadNext(t) \/ PopHelp(t) \/ PopData(t) \/ PopCas(t)
               \/ Version(t) \/ ReleaseCas(t)
        PROVE  Goal
    BY <2>5, <2>1 DEF PopReadOut, PopReadIn, PopReadNext, PopHelp, PopData, PopCas, Version,
       ReleaseCas, shared, At
  <2>6. ASSUME AllocClear(t) \/ Fill(t) \/ Release(t) PROVE Goal
    BY <2>6, <1>1 DEF AllocClear, Fill, Release, Types, At, Holds
  <2>7. ~Link(t)
    BY DEF Link, At
  <2> QED BY <2>2, <2>3, <2>4, <2>5, <2>6, <2>7 DEF Step, PushStep, PopStep
<1>3. \A i \in 1..Len(Line) : next'[Line[i]] = next[Line[i]] /\ data'[Line[i]] = data[Line[i]]
  <2>1. Holds(t) => \A i \in 1..Len(Line) : Line[i] # Node(own[t])
    BY HeldFacts DEF ListInv
  <2> QED BY <2>1, <1>2, LineFacts DEF ListInv
<1>4. Linked(next', Line, mOut')
  BY <1>2, <1>3, LinkedFrame DEF ListInv, Chains
<1>5. Line' = Line
  BY <1>4, ChainIs DEF Line
<1> QED BY <1>1, <1>3, <1>5, SameQueue

\* push's swap adds the value at the end.
LEMMA LinkAppends ==
    ASSUME OneProducer, TypeInv, ListInv, NEW t \in Threads, Link(t)
    PROVE  Queue!Push(t)
<1>1. /\ Step(t) /\ TypeInv' /\ ListInv' /\ Types /\ Plays(t) /\ Chains /\ pc[t] = "link"
  <2>1. Step(t)
    BY DEF Step, PushStep
  <2> QED BY <2>1, Steps DEF Link, At
<1>2. /\ t \in Producers /\ val[t] \in Values /\ PushOf(t)
      /\ mIn = Ptr(Len(Line)) /\ next[Node(in[t])] = NullPtr
  BY <1>1, TailIsLast DEF Plays, PushPCs, ListInv, PushOf
<1>3. /\ pc'[t] = "swing" /\ val' = val /\ data' = data
      /\ data[Node(own[t])] = val[t]
      /\ Len(Line') = Len(Line) + 1 /\ Len(Line) \in Nat
      /\ \A i \in 1..Len(Line) : Line'[i] = Line[i]
      /\ Line'[Len(Line) + 1] = Node(own[t])
  BY <1>1, <1>2, LinkMoves, LineFacts DEF ListInv, PushOf, Link
<1>4. QueueValues /\ QueueValues'
  BY <1>1, QueueIs, PTL
<1>5. QueueOf' = Append(QueueOf, val[t])
  <2>1. /\ Append(QueueOf, val[t]) \in Seq(Values)
        /\ Len(Append(QueueOf, val[t])) = Len(QueueOf) + 1
        /\ \A i \in 1..Len(QueueOf) : Append(QueueOf, val[t])[i] = QueueOf[i]
        /\ Append(QueueOf, val[t])[Len(QueueOf) + 1] = val[t]
    BY <1>2, <1>4, AppendProperties DEF QueueValues
  <2>2. Len(QueueOf) = Len(Line) - 1 /\ Len(QueueOf) \in Nat /\ Len(QueueOf') = Len(QueueOf) + 1
    BY <1>3, <1>4 DEF QueueValues
  <2>3. ASSUME NEW i \in 1..Len(QueueOf') PROVE QueueOf'[i] = Append(QueueOf, val[t])[i]
    <3>1. QueueOf'[i] = data[Line'[i + 1]]
      BY <1>3, <1>4 DEF QueueValues
    <3>2. CASE i \in 1..Len(QueueOf)
      <4>1. i + 1 \in 1..Len(Line) /\ QueueOf[i] = data[Line[i + 1]]
        BY <3>2, <2>2, <1>3, <1>4 DEF QueueValues
      <4> QED BY <4>1, <3>1, <3>2, <2>1, <1>3
    <3>3. CASE i \notin 1..Len(QueueOf)
      <4>1. i = Len(QueueOf) + 1 /\ i + 1 = Len(Line) + 1
        BY <3>3, <2>2, <1>3
      <4> QED BY <4>1, <3>1, <2>1, <1>3
    <3> QED BY <3>2, <3>3
  <2> QED BY <2>1, <2>2, <2>3, <1>4, SeqEqual DEF QueueValues
<1>6. CallOf(t) = val[t] /\ CallOf(t)' = val[t] /\ ResultOf(t) = "pending" /\ ResultOf(t)' = "done"
  BY <1>1, <1>2, <1>3 DEF CallOf, ResultOf
<1>7. Calls[t] = val[t] /\ Results[t] = "pending" /\ Results' = [Results EXCEPT ![t] = "done"]
  BY <1>1, <1>6, SeenStep
<1>8. Calls' = Calls
  BY <1>1, <1>6, SeenStep, CallsAre DEF Seen
<1> QED BY <1>2, <1>5, <1>7, <1>8 DEF Queue!Push, Queue!Yields

\* pop's swap takes the first value.
LEMMA PopTakes ==
    ASSUME OneProducer, TypeInv, ListInv, NEW t \in Threads, PopCas(t), mOut = out[t]
    PROVE  Queue!Pop(t)
<1>1. /\ Step(t) /\ TypeInv' /\ ListInv' /\ Types /\ Plays(t) /\ Chains /\ pc[t] = "popCas"
      /\ t \in Consumers /\ t \notin Producers
  <2>1. Step(t)
    BY DEF Step, PopStep
  <2> QED BY <2>1, Steps DEF PopCas, At, Plays, PopPCs
<1>2. /\ Len(Line) \in Nat /\ Len(Line) > 1 /\ val[t] = data[Line[2]]
  BY <1>1, FirstValue
<1>3. /\ pc'[t] = "version" /\ val' = val /\ data' = data
      /\ Len(Line') = Len(Line) - 1
      /\ \A i \in 1..(Len(Line) - 1) : Line'[i] = Line[i + 1]
  BY <1>1, PopMoves DEF ListInv, PopCas, Goto, Types
<1>4. QueueValues /\ QueueValues'
  BY <1>1, QueueIs, PTL
<1>5. QueueOf # <<>> /\ Head(QueueOf) = val[t] /\ QueueOf' = Tail(QueueOf)
  <2>1. Len(QueueOf) = Len(Line) - 1 /\ Len(QueueOf) \in Nat /\ Len(QueueOf) > 0 /\ QueueOf \in Seq(Values)
        /\ QueueOf[1] = data[Line[2]]
    BY <1>2, <1>4 DEF QueueValues
  <2>2. QueueOf # <<>> /\ Head(QueueOf) = val[t]
    BY <2>1, <1>2, EmptySeq
  <2>3. /\ Tail(QueueOf) \in Seq(Values) /\ Len(Tail(QueueOf)) = Len(QueueOf) - 1
        /\ \A i \in 1..Len(Tail(QueueOf)) : Tail(QueueOf)[i] = QueueOf[i + 1]
    BY <2>1, <2>2, HeadTailProperties
  <2>4. Len(QueueOf') = Len(QueueOf) - 1
    BY <2>1, <1>2, <1>3, <1>4 DEF QueueValues
  <2>5. ASSUME NEW i \in 1..Len(QueueOf') PROVE QueueOf'[i] = Tail(QueueOf)[i]
    <3>1. /\ i + 1 \in 1..(Len(Line) - 1) /\ i + 1 \in 1..Len(QueueOf) /\ i \in 1..Len(Tail(QueueOf))
      BY <2>1, <2>3, <2>4, <1>2
    <3>2. QueueOf'[i] = data[Line'[i + 1]] /\ QueueOf[i + 1] = data[Line[(i + 1) + 1]]
      BY <3>1, <1>3, <1>4 DEF QueueValues
    <3> QED BY <3>1, <3>2, <2>3, <1>3
  <2> QED BY <2>2, <2>3, <2>4, <2>5, <1>4, SeqEqual DEF QueueValues
<1>6. CallOf(t) = "pop" /\ CallOf(t)' = "pop" /\ ResultOf(t) = "pending" /\ ResultOf(t)' = val[t]
  BY <1>1, <1>3 DEF CallOf, ResultOf
<1>7. Calls[t] = "pop" /\ Results[t] = "pending" /\ Results' = [Results EXCEPT ![t] = val[t]]
  BY <1>1, <1>6, SeenStep
<1>8. Calls' = Calls
  BY <1>1, <1>6, SeenStep, CallsAre DEF Seen
<1> QED BY <1>5, <1>7, <1>8 DEF Queue!Pop, Queue!Yields

\* Calls and returns.
LEMMA CallsReturnAs ==
    ASSUME OneProducer, TypeInv, ListInv, AnswerInv, NEW t \in Threads
    PROVE  /\ \A v \in Values : PushCall(t, v) => Queue!Call(t, v)
           /\ PopCall(t) => Queue!Call(t, "pop")
           /\ Return(t) => Queue!Return(t)
<1>1. ASSUME NEW v \in Values, PushCall(t, v) PROVE Queue!Call(t, v)
  <2>1. Step(t) /\ pc[t] = "idle" /\ t \in Producers
    BY <1>1 DEF Step, PushCall, At
  <2>2. Types /\ QueueOf' = QueueOf
    BY <2>1, Steps, QueueStays
  <2>3. pc'[t] = "alloc" /\ val'[t] = v
    BY <1>1, <2>2 DEF PushCall, Goto, Types
  <2>4. CallOf(t) = NoValue /\ CallOf(t)' = v /\ ResultOf(t) = "pending" /\ ResultOf(t)' = "pending"
    BY <2>1, <2>3 DEF CallOf, ResultOf
  <2>5. /\ Calls[t] = NoValue /\ Calls' = [Calls EXCEPT ![t] = v]
        /\ Results' = Results
    BY <2>1, <2>4, SeenStep, CallsAre DEF Seen
  <2> QED BY <2>2, <2>5 DEF Queue!Call
<1>2. ASSUME PopCall(t) PROVE Queue!Call(t, "pop")
  <2>1. Step(t) /\ pc[t] = "idle" /\ t \in Consumers
    BY <1>2 DEF Step, PopCall, At
  <2>2. Types /\ QueueOf' = QueueOf /\ t \notin Producers
    BY <2>1, Steps, QueueStays
  <2>3. pc'[t] = "readOut"
    BY <1>2, <2>2 DEF PopCall, Goto, Types
  <2>4. CallOf(t) = NoValue /\ CallOf(t)' = "pop" /\ ResultOf(t) = "pending" /\ ResultOf(t)' = "pending"
    BY <2>1, <2>2, <2>3 DEF CallOf, ResultOf
  <2>5. /\ Calls[t] = NoValue /\ Calls' = [Calls EXCEPT ![t] = "pop"]
        /\ Results' = Results
    BY <2>1, <2>4, SeenStep, CallsAre DEF Seen
  <2> QED BY <2>2, <2>5 DEF Queue!Call
<1>3. ASSUME Return(t) PROVE Queue!Return(t)
  <2>1. Step(t) /\ pc[t] \in {"done", "fail"}
    BY <1>3 DEF Step, Return
  <2>2. Types /\ QueueOf' = QueueOf /\ (t \in Consumers <=> t \notin Producers) /\ Answers(t)
    BY <2>1, Steps, QueueStays DEF AnswerInv
  <2>3. pc'[t] = "idle"
    BY <1>3, <2>2 DEF Return, Goto, Types
  <2>4. CallOf(t) # NoValue /\ CallOf(t)' = NoValue
    BY <2>1, <2>2, <2>3, ValueAssumption DEF CallOf, Answers
  <2>5. ResultOf(t) # "pending" /\ ResultOf(t)' = "pending"
    BY <2>1, <2>2, <2>3, ValueAssumption DEF ResultOf, Answers
  <2>6. /\ Calls[t] # NoValue /\ Calls' = [Calls EXCEPT ![t] = NoValue]
        /\ Results[t] # "pending" /\ Results' = [Results EXCEPT ![t] = "pending"]
    BY <2>1, <2>4, <2>5, SeenStep
  <2> QED BY <2>2, <2>6 DEF Queue!Return
<1> QED BY <1>1, <1>2, <1>3

\* push fails when it finds the free list empty, pop when it finds no successor.
LEMMA Failures ==
    ASSUME OneProducer, TypeInv, ListInv, NEW t \in Threads
    PROVE  /\ AllocRead(t) /\ mHead = NullPtr => Queue!Push(t)
           /\ PopReadNext(t) /\ next[Node(out[t])] = NullPtr => Queue!Pop(t)
<1>1. ASSUME AllocRead(t), mHead = NullPtr PROVE Queue!Push(t)
  <2>1. Step(t) /\ pc[t] = "alloc"
    BY <1>1 DEF Step, PushStep, AllocRead, At
  <2>2. Types /\ Plays(t) /\ QueueOf' = QueueOf
    BY <2>1, Steps, QueueStays
  <2>3. t \in Producers /\ val[t] \in Values /\ pc'[t] = "fail" /\ val' = val
    BY <1>1, <2>1, <2>2 DEF AllocRead, Goto, Types, Plays, PushPCs
  <2>4. CallOf(t) = val[t] /\ CallOf(t)' = val[t] /\ ResultOf(t) = "pending" /\ ResultOf(t)' = "fail"
    BY <2>1, <2>3 DEF CallOf, ResultOf
  <2>5. /\ Calls[t] = val[t] /\ Calls' = Calls
        /\ Results[t] = "pending" /\ Results' = [Results EXCEPT ![t] = "fail"]
    BY <2>1, <2>4, SeenStep, CallsAre DEF Seen
  <2> QED BY <2>2, <2>3, <2>5 DEF Queue!Push, Queue!Yields
<1>2. ASSUME PopReadNext(t), next[Node(out[t])] = NullPtr PROVE Queue!Pop(t)
  <2>1. Step(t) /\ pc[t] = "popNext"
    BY <1>2 DEF Step, PopStep, PopReadNext, At
  <2>2. Types /\ Plays(t) /\ Chains /\ QueueOf' = QueueOf /\ (t \in Consumers <=> t \notin Producers)
    BY <2>1, Steps, QueueStays
  <2>3. t \in Consumers /\ t \notin Producers /\ pc'[t] = "fail"
    BY <1>2, <2>1, <2>2 DEF PopReadNext, Goto, Types, Plays, PopPCs
  <2>4. CallOf(t) = "pop" /\ CallOf(t)' = "pop" /\ ResultOf(t) = "pending" /\ ResultOf(t)' = "fail"
    BY <2>1, <2>3 DEF CallOf, ResultOf
  <2>5. /\ Calls[t] = "pop" /\ Calls' = Calls
        /\ Results[t] = "pending" /\ Results' = [Results EXCEPT ![t] = "fail"]
    BY <2>1, <2>4, SeenStep, CallsAre DEF Seen
  <2>6. QueueOf = <<>> \/ t \in Overtaken
    <3>1. CASE mOut # out[t]
      BY <3>1, <2>1 DEF Overtaken, At
    <3>2. CASE mOut = out[t]
      <4>1. Len(Line) \in Nat \ {0} /\ next[Line[1]] = NullPtr
        BY <3>2, <1>2, <2>2, LineFacts
      <4>2. \A i \in 1..(Len(Line) - 1) : next[Line[i]] # NullPtr
        BY DEF ListInv, Chains, Linked
      <4>3. 1 \notin 1..(Len(Line) - 1)
        BY <4>1, <4>2
      <4>4. \A n \in Nat \ {0} : 1 \notin 1..(n - 1) => n - 1 = 0
        OBVIOUS
      <4>5. Len(Line) - 1 = 0
        BY <4>1, <4>3, <4>4, Zenon
      <4> QED BY <4>5, QueueIs, EmptySeq DEF QueueValues
    <3> QED BY <3>1, <3>2
  <2> QED BY <2>2, <2>5, <2>6 DEF Queue!Pop, Queue!Yields
<1> QED BY <1>1, <1>2

\* Where a thread neither calls, takes effect nor returns, nobody sees its step.
LEMMA Silent ==
    ASSUME OneProducer, TypeInv, ListInv, NEW t \in Threads,
           \/ (AllocRead(t) /\ mHead # NullPtr)
           \/ AllocTop(t) \/ AllocNext(t) \/ AllocCas(t) \/ AllocClear(t) \/ Fill(t)
           \/ ReadIn(t) \/ ReadNext(t) \/ Swing(t)
           \/ PopReadOut(t) \/ PopReadIn(t)
           \/ (PopReadNext(t) /\ next[Node(out[t])] # NullPtr)
           \/ PopHelp(t) \/ PopData(t) \/ (PopCas(t) /\ mOut # out[t])
           \/ Version(t) \/ Release(t) \/ ReleaseCas(t)
    PROVE  UNCHANGED Queue!vars
<1>1. /\ Step(t) /\ pc[t] # "link" /\ ~(pc[t] = "popCas" /\ mOut = out[t])
  BY DEF Step, PushStep, PopStep, At, AllocRead, AllocTop, AllocNext, AllocCas, AllocClear, Fill,
     ReadIn, ReadNext, Swing, PopReadOut, PopReadIn, PopReadNext, PopHelp, PopData, PopCas,
     Version, Release, ReleaseCas
<1>2. Types /\ Plays(t) /\ QueueOf' = QueueOf /\ (t \in Consumers <=> t \notin Producers)
  BY <1>1, Steps, QueueStays
<1> USE <1>2 DEF Types, Plays, PushPCs, PopPCs, CallOf, ResultOf, Goto, At, locals
<1> DEFINE Goal == CallOf(t)' = CallOf(t) /\ ResultOf(t)' = ResultOf(t)
<1>3. ASSUME \/ (AllocRead(t) /\ mHead # NullPtr)
             \/ AllocTop(t) \/ AllocNext(t) \/ AllocCas(t) \/ AllocClear(t) \/ Fill(t)
             \/ ReadIn(t) \/ ReadNext(t) \/ Swing(t)
      PROVE  Goal
  BY <1>3 DEF AllocRead, AllocTop, AllocNext, AllocCas, AllocClear, Fill, ReadIn, ReadNext, Swing
<1>4. ASSUME PopReadOut(t) \/ PopReadIn(t) \/ (PopReadNext(t) /\ next[Node(out[t])] # NullPtr)
      PROVE  Goal
  BY <1>4 DEF PopReadOut, PopReadIn, PopReadNext
<1>5. ASSUME PopHelp(t) \/ PopData(t) \/ (PopCas(t) /\ mOut # out[t])
             \/ Version(t) \/ Release(t) \/ ReleaseCas(t)
      PROVE  Goal
  BY <1>5 DEF PopHelp, PopData, PopCas, Version, Release, ReleaseCas
<1> QED BY <1>1, <1>2, <1>3, <1>4, <1>5, Unseen

\* Every step is one of the abstract queue or shows nothing of itself.
LEMMA FifoStep ==
    ASSUME OneProducer, TypeInv, ListInv, AnswerInv, NEW t \in Threads, Step(t)
    PROVE  [Queue!Next]_(Queue!vars)
<1>1. ~Help(t)
  <2>1. Help(t) => t \in Producers /\ pc[t] = "help"
    BY DEF Help, At, TypeInv, Plays, PushPCs
  <2> QED BY <2>1 DEF ListInv, PushOf
<1>2. /\ \A v \in Values : PushCall(t, v) => Queue!Next
      /\ PopCall(t) => Queue!Next
      /\ Return(t) => Queue!Next
  BY CallsReturnAs DEF Queue!Next
<1>3. /\ AllocRead(t) /\ mHead = NullPtr => Queue!Next
      /\ PopReadNext(t) /\ next[Node(out[t])] = NullPtr => Queue!Next
      /\ Link(t) => Queue!Next
      /\ PopCas(t) /\ mOut = out[t] => Queue!Next
  BY Failures, LinkAppends, PopTakes DEF Queue!Next
<1>4. ASSUME PushStep(t), ~Link(t), ~(AllocRead(t) /\ mHead = NullPtr) PROVE UNCHANGED Queue!vars
  BY <1>1, <1>4, Silent DEF PushStep
<1>5. ASSUME PopStep(t), ~(PopCas(t) /\ mOut = out[t]), ~(PopReadNext(t) /\ next[Node(out[t])] = NullPtr)
      PROVE  UNCHANGED Queue!vars
  <2>1. PopCas(t) => mOut # out[t]
    BY <1>5
  <2>2. PopReadNext(t) => next[Node(out[t])] # NullPtr
    BY <1>5
  <2> QED BY <1>5, <2>1, <2>2, Silent, Zenon DEF PopStep
<1> QED BY <1>2, <1>3, <1>4, <1>5 DEF Step

\* With one producer the list is a queue: each push and each pop takes effect at one
\* step of its call (lockfreelist.h:74-157).
THEOREM ImplementsFifo == OneProducer => (Spec => FifoSpec)
<1> SUFFICES ASSUME OneProducer PROVE Spec => FifoSpec
  OBVIOUS
<1>1. Init => AnswerInv
  BY DEF Init, AnswerInv, Answers
<1>2. TypeInv /\ ListInv /\ AnswerInv /\ [Next]_vars => AnswerInv'
  <2>1. AnswerInv /\ UNCHANGED vars => AnswerInv'
    BY DEF vars, locals, AnswerInv, Answers
  <2> QED BY <2>1, StepAnswers DEF Next, Step
<1>3. TypeInv /\ ListInv /\ AnswerInv /\ [Next]_vars => [Queue!Next]_(Queue!vars)
  <2>1. UNCHANGED vars => UNCHANGED Queue!vars
    BY DEF vars, shared, locals, Queue!vars, QueueOf, Queued, Calls, Results
  <2> QED BY <2>1, FifoStep DEF Next, Step
<1> QED BY <1>1, <1>2, <1>3, FifoInit, ListInvariant, PTL DEF Spec, FifoSpec, Queue!Spec

\* With one consumer a pop holds the dummy until it replaces it: no pop is overtaken, and
\* the queue that the list implements is one without qualification (lockfreelist.h:135-150).
THEOREM NoneOvertaken == (\A s, t \in Consumers : s = t) => (Spec => [](Overtaken = {}))
<1> SUFFICES ASSUME \A s, t \in Consumers : s = t PROVE Spec => [](Overtaken = {})
  OBVIOUS
<1> DEFINE Holding(t) == pc[t] \in {"popIn", "popNext", "popHelp", "popData", "popCas"} => out[t] = mOut
           Inv == \A t \in Threads : Holding(t)
<1>1. Init => Inv
  BY DEF Init
<1>2. TypeInv /\ Inv /\ [Next]_vars => Inv'
  <2>1. UNCHANGED vars => (Inv => Inv')
    BY DEF vars, shared, locals
  <2>2. ASSUME TypeInv, Inv, NEW t \in Threads, Step(t) PROVE Inv'
    <3>1. Types /\ Plays(t) /\ Holding(t)
      BY <2>2, TypesAre DEF AllTypes
    <3>2. Holding(t)' /\ (mOut' = mOut \/ t \in Consumers)
      <4> USE <2>2, <3>1 DEF Types, Plays, PushPCs, PopPCs, Goto, At, shared, locals
      <4> DEFINE Goal == Holding(t)' /\ (mOut' = mOut \/ t \in Consumers)
      <4>1. ASSUME NEW v \in Values, PushCall(t, v) PROVE Goal
        BY <4>1 DEF PushCall
      <4>2. ASSUME PopCall(t) \/ Return(t) PROVE Goal
        BY <4>2 DEF PopCall, Return
      <4>3. ASSUME PushStep(t) PROVE Goal
        BY <4>3 DEF PushStep, AllocRead, AllocTop, AllocNext, AllocCas, AllocClear, Fill, ReadIn,
           ReadNext, Help, Link, Swing
      <4>4. ASSUME PopStep(t) PROVE Goal
        BY <4>4 DEF PopStep, PopReadOut, PopReadIn, PopReadNext, PopHelp, PopData, PopCas, Version,
           Release, ReleaseCas
      <4> QED BY <4>1, <4>2, <4>3, <4>4 DEF Step
    <3>3. ASSUME NEW u \in Threads, u # t PROVE Holding(u)'
      <4>1. SameThread(u) /\ Plays(u) /\ Holding(u)
        BY <2>2, <3>3, Alone DEF TypeInv
      <4>2. pc[u] \in {"popIn", "popNext", "popHelp", "popData", "popCas"} => u \in Consumers
        BY <4>1 DEF Plays, PopPCs
      <4> QED BY <3>2, <3>3, <4>1, <4>2 DEF SameThread
    <3> QED BY <3>2, <3>3
  <2> QED BY <2>1, <2>2 DEF Next, Step
<1>3. Inv => Overtaken = {}
  BY DEF Overtaken, At
<1>4. TypeInv /\ [Next]_vars => TypeInv'
  <2>1. TypeInv /\ UNCHANGED vars => TypeInv'
    BY DEF vars, shared, locals, TypeInv, TypeOK, Follows, Plays, Holds
  <2> QED BY <2>1, StepTypes DEF Next, Step
<1> QED BY <1>1, <1>2, <1>3, <1>4, InitTypes, PTL DEF Spec
=============================================================================
