----------------------------- MODULE LockFreeList -----------------------------
(***************************************************************************)
(* LockFreeList (thread/lockfreelist.h): a linked queue with a dummy node  *)
(* at its head, whose nodes come from and go back to a free list in one    *)
(* array.  A DoublePointer is a version and a node, swapped as 128 bits.   *)
(*                                                                         *)
(* One action is one atomic access to shared memory; stores to a node that *)
(* a later access of the same thread publishes are part of that thread's   *)
(* last action before it.                                                  *)
(***************************************************************************)
EXTENDS Naturals, Sequences, FiniteSets

CONSTANTS
    Producers,  \* threads that push
    Consumers,  \* threads that pop
    Values,     \* what is pushed, each value by one call at a time
    NoValue,
    Max         \* m_max, the number of nodes

ASSUME MaxAssumption == Max \in Nat \ {0, 1}
\* A value is told from no value, from a call of pop and from an operation under way.
ASSUME ValueAssumption == /\ NoValue \notin Values \cup {"pop"}
                          /\ "pending" \notin Values
ASSUME RoleAssumption == Producers \cap Consumers = {}

Threads == Producers \cup Consumers
Nodes == 0..(Max - 1)
Null == Max
NullPtr == <<0, Null>>
Ver(ptr) == ptr[1]
Node(ptr) == ptr[2]

VARIABLES
    mIn, mOut,  \* m_in, the tail, and m_out, the dummy node
    mHead,      \* m_head, the free list
    mId,        \* m_id, the next version
    next, data, \* the nodes
    todo,       \* values nobody pushes or has pushed
    pc,         \* where each thread is
    val,        \* data: what a thread pushes, or popped
    own,        \* the node push has allocated or pop releases, with its version
    in, out,    \* locals of the same names
    nxt,        \* local next
    old,        \* old_head
    top         \* m_head.vals[1] as AllocNode reads it again

shared == <<mIn, mOut, mHead, mId, next, data>>
locals == <<val, own, in, out, nxt, old, top>>
vars == <<shared, todo, pc, locals>>

PushPCs == {"alloc", "top", "allocNext", "allocCas", "clear", "fill", "readIn", "readNext",
            "help", "link", "swing"}
PopPCs == {"readOut", "popIn", "popNext", "popHelp", "popData", "popCas",
           "version", "release", "releaseCas"}
PCs == {"idle", "done", "fail", "crashed"} \cup PushPCs \cup PopPCs

Pointers == (Nat \X Nodes) \cup {NullPtr}

\* The type invariant: a pointer is followed only to a node.
TypeOK ==
    /\ mIn \in Nat \X Nodes /\ mOut \in Nat \X Nodes
    /\ mHead \in Pointers /\ mId \in Nat
    /\ next \in [Nodes -> Pointers]
    /\ data \in [Nodes -> Values \cup {NoValue}]
    /\ todo \in SUBSET Values
    /\ pc \in [Threads -> PCs]
    /\ val \in [Threads -> Values \cup {NoValue}]
    /\ {in, out, nxt, own, old} \subseteq [Threads -> Pointers]
    /\ top \in [Threads -> Nodes \cup {Null}]
    /\ \A t \in Threads :
          /\ pc[t] \in {"allocNext", "allocCas"} => Node(old[t]) \in Nodes
          /\ pc[t] = "allocNext" => top[t] \in Nodes
          /\ pc[t] \in {"clear", "fill", "swing", "version", "release"} =>
                Node(own[t]) \in Nodes
          /\ pc[t] \in {"readNext", "help", "link"} => Node(in[t]) \in Nodes
          /\ pc[t] \in {"popData", "popCas"} => Node(nxt[t]) \in Nodes

\* The constructor: all nodes in the free list, the first one then allocated
\* as the dummy.
Init ==
    /\ next = [n \in Nodes |-> IF n = 0 \/ n = Max - 1 THEN NullPtr
                               ELSE <<n + 1, n + 1>>]
    /\ data = [n \in Nodes |-> NoValue]
    /\ mHead = <<1, 1>>
    /\ mId = Max - 1
    /\ mIn = <<0, 0>> /\ mOut = <<0, 0>>
    /\ todo = Values
    /\ pc = [t \in Threads |-> "idle"]
    /\ val = [t \in Threads |-> NoValue]
    /\ in = [t \in Threads |-> NullPtr]
    /\ out = [t \in Threads |-> NullPtr]
    /\ nxt = [t \in Threads |-> NullPtr]
    /\ own = [t \in Threads |-> NullPtr]
    /\ old = [t \in Threads |-> NullPtr]
    /\ top = [t \in Threads |-> Null]

Goto(t, l) == pc' = [pc EXCEPT ![t] = l]
At(t, l) == pc[t] = l

-----------------------------------------------------------------------------
(* AllocNode *)

\* Mutant: an empty free list is not told from another.
AllocReadUnchecked(t) ==
    /\ At(t, "alloc")
    /\ old' = [old EXCEPT ![t] = mHead]
    /\ Goto(t, "top")
    /\ UNCHANGED <<shared, todo, val, own, in, out, nxt, top>>

\* old_head = m_head; push fails when the free list is empty.
AllocRead(t) ==
    /\ At(t, "alloc")
    /\ old' = [old EXCEPT ![t] = mHead]
    /\ Goto(t, IF mHead = NullPtr THEN "fail" ELSE "top")
    /\ UNCHANGED <<shared, todo, val, own, in, out, nxt, top>>

\* m_head.vals[1], read a second time, is what the code follows.
AllocTop(t) ==
    /\ At(t, "top")
    /\ top' = [top EXCEPT ![t] = Node(mHead)]
    /\ Goto(t, IF Node(mHead) = Null THEN "crashed" ELSE "allocNext")
    /\ UNCHANGED <<shared, todo, val, own, in, out, nxt, old>>

AllocNext(t) ==
    /\ At(t, "allocNext")
    /\ nxt' = [nxt EXCEPT ![t] = next[top[t]]]
    /\ Goto(t, "allocCas")
    /\ UNCHANGED <<shared, todo, val, own, in, out, old, top>>

\* Mutant: m_head is stored, whatever it is by now.
AllocStore(t) ==
    /\ At(t, "allocCas")
    /\ mHead' = nxt[t]
    /\ own' = [own EXCEPT ![t] = old[t]]
    /\ Goto(t, "clear")
    /\ old' = [old EXCEPT ![t] = NullPtr]
    /\ nxt' = [nxt EXCEPT ![t] = NullPtr]
    /\ top' = [top EXCEPT ![t] = Null]
    /\ UNCHANGED <<mIn, mOut, mId, next, data, todo, val, in, out>>

AllocCas(t) ==
    /\ At(t, "allocCas")
    /\ IF mHead = old[t]
       THEN /\ mHead' = nxt[t]
            /\ own' = [own EXCEPT ![t] = old[t]]
            /\ Goto(t, "clear")
       ELSE Goto(t, "alloc") /\ UNCHANGED <<mHead, own>>
    /\ old' = [old EXCEPT ![t] = NullPtr]
    /\ nxt' = [nxt EXCEPT ![t] = NullPtr]
    /\ top' = [top EXCEPT ![t] = Null]
    /\ UNCHANGED <<mIn, mOut, mId, next, data, todo, val, in, out>>

\* ret->next = 0
AllocClear(t) ==
    /\ At(t, "clear")
    /\ next' = [next EXCEPT ![Node(own[t])] = NullPtr]
    /\ Goto(t, "fill")
    /\ UNCHANGED <<mIn, mOut, mHead, mId, data, todo, locals>>

-----------------------------------------------------------------------------
(* push *)

PushCall(t, v) ==
    /\ t \in Producers /\ At(t, "idle") /\ v \in todo
    /\ todo' = todo \ {v}
    /\ val' = [val EXCEPT ![t] = v]
    /\ Goto(t, "alloc")
    /\ UNCHANGED <<shared, own, in, out, nxt, old, top>>

\* The node's data and next, and the version it is linked under.
Fill(t) ==
    /\ At(t, "fill")
    /\ data' = [data EXCEPT ![Node(own[t])] = val[t]]
    /\ next' = [next EXCEPT ![Node(own[t])] = NullPtr]
    /\ mId' = mId + 1
    /\ own' = [own EXCEPT ![t] = <<mId, Node(@)>>]
    /\ Goto(t, "readIn")
    /\ UNCHANGED <<mIn, mOut, mHead, todo, val, in, out, nxt, old, top>>

ReadIn(t) ==
    /\ At(t, "readIn")
    /\ in' = [in EXCEPT ![t] = mIn]
    /\ Goto(t, "readNext")
    /\ UNCHANGED <<shared, todo, val, own, out, nxt, old, top>>

ReadNext(t) ==
    /\ At(t, "readNext")
    /\ nxt' = [nxt EXCEPT ![t] = next[Node(in[t])]]
    /\ Goto(t, IF next[Node(in[t])] = NullPtr THEN "link" ELSE "help")
    /\ UNCHANGED <<shared, todo, val, own, in, out, old, top>>

\* The tail had a successor: move m_in on to it.
Help(t) ==
    /\ At(t, "help")
    /\ mIn' = IF mIn = in[t] THEN nxt[t] ELSE mIn
    /\ Goto(t, "link")
    /\ UNCHANGED <<mOut, mHead, mId, next, data, todo, locals>>

\* Mutant: a lost race is tried again with the same tail.
LinkAgain(t) ==
    /\ At(t, "link")
    /\ IF next[Node(in[t])] = NullPtr
       THEN /\ next' = [next EXCEPT ![Node(in[t])] = own[t]]
            /\ Goto(t, "swing")
       ELSE Goto(t, "readNext") /\ UNCHANGED next
    /\ nxt' = [nxt EXCEPT ![t] = NullPtr]
    /\ UNCHANGED <<mIn, mOut, mHead, mId, data, todo, val, own, in, out, old, top>>

\* The swap that makes the value part of the queue.
Link(t) ==
    /\ At(t, "link")
    /\ IF next[Node(in[t])] = NullPtr
       THEN /\ next' = [next EXCEPT ![Node(in[t])] = own[t]]
            /\ Goto(t, "swing")
            /\ UNCHANGED in
       ELSE /\ in' = [in EXCEPT ![t] = NullPtr]
            /\ Goto(t, "readIn")
            /\ UNCHANGED next
    /\ nxt' = [nxt EXCEPT ![t] = NullPtr]
    /\ UNCHANGED <<mIn, mOut, mHead, mId, data, todo, val, own, out, old, top>>

\* Move m_in to the new node, unless another thread has.
Swing(t) ==
    /\ At(t, "swing")
    /\ mIn' = IF mIn = in[t] THEN own[t] ELSE mIn
    /\ in' = [in EXCEPT ![t] = NullPtr]
    /\ own' = [own EXCEPT ![t] = NullPtr]
    /\ Goto(t, "done")
    /\ UNCHANGED <<mOut, mHead, mId, next, data, todo, val, out, nxt, old, top>>

PushStep(t) ==
    \/ AllocRead(t) \/ AllocTop(t) \/ AllocNext(t) \/ AllocCas(t)
    \/ AllocClear(t) \/ Fill(t) \/ ReadIn(t) \/ ReadNext(t) \/ Help(t)
    \/ Link(t) \/ Swing(t)

-----------------------------------------------------------------------------
(* pop *)

PopCall(t) ==
    /\ t \in Consumers /\ At(t, "idle")
    /\ Goto(t, "readOut")
    /\ UNCHANGED <<shared, todo, locals>>

PopReadOut(t) ==
    /\ At(t, "readOut")
    /\ out' = [out EXCEPT ![t] = mOut]
    /\ Goto(t, "popIn")
    /\ UNCHANGED <<shared, todo, val, own, in, nxt, old, top>>

PopReadIn(t) ==
    /\ At(t, "popIn")
    /\ in' = [in EXCEPT ![t] = mIn]
    /\ Goto(t, "popNext")
    /\ UNCHANGED <<shared, todo, val, own, out, nxt, old, top>>

\* A dummy without a successor is an empty queue; a tail that is the dummy
\* lags behind.
PopReadNext(t) ==
    /\ At(t, "popNext")
    /\ LET n == next[Node(out[t])]
       IN IF n = NullPtr
          THEN /\ Goto(t, "fail")
               /\ in' = [in EXCEPT ![t] = NullPtr]
               /\ out' = [out EXCEPT ![t] = NullPtr]
               /\ UNCHANGED nxt
          ELSE /\ nxt' = [nxt EXCEPT ![t] = n]
               /\ Goto(t, IF in[t] = out[t] THEN "popHelp" ELSE "popData")
               /\ UNCHANGED <<in, out>>
    /\ UNCHANGED <<shared, todo, val, own, old, top>>

PopHelp(t) ==
    /\ At(t, "popHelp")
    /\ mIn' = IF mIn = in[t] THEN nxt[t] ELSE mIn
    /\ in' = [in EXCEPT ![t] = NullPtr]
    /\ out' = [out EXCEPT ![t] = NullPtr]
    /\ nxt' = [nxt EXCEPT ![t] = NullPtr]
    /\ Goto(t, "readOut")
    /\ UNCHANGED <<mOut, mHead, mId, next, data, todo, val, own, old, top>>

\* Mutant: the value is read from the dummy.
DatumOfDummy(t) == data[Node(out[t])]
Datum(t) == data[Node(nxt[t])]

PopData(t) ==
    /\ At(t, "popData")
    /\ val' = [val EXCEPT ![t] = Datum(t)]
    /\ Goto(t, "popCas")
    /\ UNCHANGED <<shared, todo, own, in, out, nxt, old, top>>

\* Mutant: the new dummy is released and not the old one.
FreedNew(t) == nxt[t]
Freed(t) == out[t]

\* The swap that takes the value out of the queue.
PopCas(t) ==
    /\ At(t, "popCas")
    /\ IF mOut = out[t]
       THEN /\ mOut' = nxt[t]
            /\ own' = [own EXCEPT ![t] = Freed(t)]
            /\ Goto(t, "version")
            /\ UNCHANGED val
       ELSE /\ val' = [val EXCEPT ![t] = NoValue]
            /\ Goto(t, "readOut")
            /\ UNCHANGED <<mOut, own>>
    /\ in' = [in EXCEPT ![t] = NullPtr]
    /\ out' = [out EXCEPT ![t] = NullPtr]
    /\ nxt' = [nxt EXCEPT ![t] = NullPtr]
    /\ UNCHANGED <<mIn, mHead, mId, next, data, todo, old, top>>

\* ReleaseNode: a version for the node.
Version(t) ==
    /\ At(t, "version")
    /\ mId' = mId + 1
    /\ own' = [own EXCEPT ![t] = <<mId, Node(@)>>]
    /\ Goto(t, "release")
    /\ UNCHANGED <<mIn, mOut, mHead, next, data, todo, val, in, out, nxt, old, top>>

\* old_head = m_head; node->next = old_head.  Should m_head change between the
\* two, the swap fails and both are done again.
Release(t) ==
    /\ At(t, "release")
    /\ old' = [old EXCEPT ![t] = mHead]
    /\ next' = [next EXCEPT ![Node(own[t])] = mHead]
    /\ Goto(t, "releaseCas")
    /\ UNCHANGED <<mIn, mOut, mHead, mId, data, todo, val, own, in, out, nxt, top>>

ReleaseCas(t) ==
    /\ At(t, "releaseCas")
    /\ IF mHead = old[t]
       THEN /\ mHead' = own[t]
            /\ own' = [own EXCEPT ![t] = NullPtr]
            /\ Goto(t, "done")
       ELSE Goto(t, "release") /\ UNCHANGED <<mHead, own>>
    /\ old' = [old EXCEPT ![t] = NullPtr]
    /\ UNCHANGED <<mIn, mOut, mId, next, data, todo, val, in, out, nxt, top>>

PopStep(t) ==
    \/ PopReadOut(t) \/ PopReadIn(t) \/ PopReadNext(t) \/ PopHelp(t)
    \/ PopData(t) \/ PopCas(t) \/ Version(t) \/ Release(t) \/ ReleaseCas(t)

-----------------------------------------------------------------------------

\* A push or pop returns.  A push that failed may be tried again.
Return(t) ==
    /\ pc[t] \in {"done", "fail"}
    /\ todo' = IF pc[t] = "fail" THEN todo \cup ({val[t]} \cap Values) ELSE todo
    /\ val' = [val EXCEPT ![t] = NoValue]
    /\ Goto(t, "idle")
    /\ UNCHANGED <<shared, own, in, out, nxt, old, top>>

Next == \E t \in Threads :
    \/ \E v \in Values : PushCall(t, v)
    \/ PopCall(t)
    \/ PushStep(t) \/ PopStep(t) \/ Return(t)

Spec == Init /\ [][Next]_vars

\* The operating system runs every thread; nothing makes one push or pop.
FairSpec == Spec /\ \A t \in Threads : WF_vars(PushStep(t) \/ PopStep(t))

-----------------------------------------------------------------------------

\* The nodes that the pointers in tbl visit from ptr on, in order; a chain longer
\* than the array has come back to a node.
Chain(tbl, ptr) ==
    LET step[k \in 0..Max] ==
            IF k = 0 THEN ptr
            ELSE IF step[k - 1] = NullPtr THEN NullPtr
            ELSE tbl[Node(step[k - 1])]
        len == Cardinality({k \in 0..Max : step[k] # NullPtr})
    IN [k \in 1..len |-> Node(step[k - 1])]

Queued == Chain(next, next[Node(mOut)])
Free == Chain(next, mHead)
InChain(s, n) == {i \in 1..Len(s) : s[i] = n}

\* Threads that hold a node of their own: push before it links it, pop after it
\* has taken it.
Holds(t) == pc[t] \in {"clear", "fill", "readIn", "readNext", "help", "link",
                       "version", "release", "releaseCas"}

\* What the list's nodes are for: every node is at every moment the dummy, in
\* the queue, in the free list or in the hands of one thread, and in one of
\* them only: AllocNode and ReleaseNode neither lose one nor give it twice, where
\* one thread takes nodes or none puts them back (lockfreelist.h:178-206).
NodesAccounted ==
    \A n \in Nodes :
        Cardinality(InChain(Queued, n)) + Cardinality(InChain(Free, n))
        + Cardinality({t \in Threads : Holds(t) /\ Node(own[t]) = n})
        + (IF Node(mOut) = n THEN 1 ELSE 0) = 1

-----------------------------------------------------------------------------
(* Refinement *)

Calls == [t \in Threads |->
    CASE pc[t] = "idle" -> NoValue
      [] pc[t] # "idle" /\ t \in Producers -> val[t]
      [] OTHER -> "pop"]

\* A push takes effect when Link succeeds, a pop when PopCas does or when
\* PopReadNext finds no successor.
Results == [t \in Threads |->
    CASE pc[t] = "fail" -> "fail"
      [] pc[t] \in {"swing", "done"} /\ t \in Producers -> "done"
      [] pc[t] \in {"version", "release", "releaseCas", "done"}
             /\ t \in Consumers -> val[t]
      [] OTHER -> "pending"]

QueueOf == [i \in 1..Len(Queued) |-> data[Queued[i]]]

\* pop holds a dummy that is not the dummy any more.
Overtaken == {t \in Threads : At(t, "popNext") /\ mOut # out[t]}

Queue == INSTANCE Fifo WITH NoCall <- NoValue, queue <- QueueOf, call <- Calls,
                            result <- Results, overtaken <- Overtaken

\* With one producer the list is a queue, each push and pop taking effect at one
\* instant of its call, however often nodes are used again; but a pop that
\* another one overtakes may find the queue empty when it is not.
FifoSpec == Queue!Spec

-----------------------------------------------------------------------------
(* Liveness *)

\* Producers that race for the tail all return: one that loses the swap finds
\* the tail again and helps it on (lockfreelist.h:87-111).
CallsReturn == \A t \in Threads : pc[t] # "idle" ~> pc[t] \in {"done", "fail"}
=============================================================================
