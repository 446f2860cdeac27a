--------------------------------- MODULE Fifo ---------------------------------
(***************************************************************************)
(* A concurrent queue as its callers see it: between its call and its      *)
(* return each operation takes effect at one instant.                      *)
(*                                                                         *)
(*   queue   the values in it                                              *)
(*   call    what a thread is doing: NoCall, "pop", or the value it pushes *)
(*   result  "pending" until the operation took effect, then "done" for a  *)
(*           push, the value of a pop, or "fail"                           *)
(*                                                                         *)
(*   overtaken  threads that pop while another pop has taken the value    *)
(*           they were about to take                                       *)
(*                                                                         *)
(* A push may fail for want of memory.  A pop fails on an empty queue, and *)
(* may fail if it was overtaken.  Of overtaken the specification says no   *)
(* more than that.                                                         *)
(***************************************************************************)
EXTENDS Sequences

CONSTANTS Threads, Values, NoCall

VARIABLES queue, call, result, overtaken
vars == <<queue, call, result>>

Init ==
    /\ queue = <<>>
    /\ call = [t \in Threads |-> NoCall]
    /\ result = [t \in Threads |-> "pending"]

Call(t, c) ==
    /\ call[t] = NoCall
    /\ call' = [call EXCEPT ![t] = c]
    /\ UNCHANGED <<queue, result>>

Yields(t, res) ==
    /\ result[t] = "pending"
    /\ result' = [result EXCEPT ![t] = res]
    /\ UNCHANGED call

Push(t) ==
    /\ call[t] \in Values
    /\ \/ queue' = Append(queue, call[t]) /\ Yields(t, "done")
       \/ UNCHANGED queue /\ Yields(t, "fail")

Pop(t) ==
    /\ call[t] = "pop"
    /\ \/ /\ queue # <<>>
          /\ queue' = Tail(queue)
          /\ Yields(t, Head(queue))
       \/ /\ queue = <<>> \/ t \in overtaken
          /\ Yields(t, "fail")
          /\ UNCHANGED queue

Return(t) ==
    /\ call[t] # NoCall /\ result[t] # "pending"
    /\ call' = [call EXCEPT ![t] = NoCall]
    /\ result' = [result EXCEPT ![t] = "pending"]
    /\ UNCHANGED queue

Next == \E t \in Threads :
    \/ \E c \in Values \cup {"pop"} : Call(t, c)
    \/ Push(t) \/ Pop(t) \/ Return(t)

Spec == Init /\ [][Next]_vars
=============================================================================
