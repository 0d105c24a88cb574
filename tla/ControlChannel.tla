---------------------------- MODULE ControlChannel ----------------------------
(***************************************************************************)
(* What the control connection of an L2TP tunnel promises: two ends write  *)
(* messages to each other, numbered from 0, and each end handles those of  *)
(* the other in the order in which they were written, each once.  An end   *)
(* may handle a message and write its answer in one step.  Module          *)
(* L2tpControl implements it.                                              *)
(***************************************************************************)
EXTENDS Integers, Sequences

CONSTANT End, Other(_)

VARIABLES
  written,   \* how many messages each end has written
  handled    \* the numbers of the messages each end has handled, in that order

Write(e)  == written' = [written EXCEPT ![e] = @ + 1]

Handle(e) == /\ Len(handled[e]) < written[Other(e)]
             /\ handled' = [handled EXCEPT ![e] = Append(@, Len(@))]

Init == /\ written = [e \in End |-> 0]
        /\ handled = [e \in End |-> <<>>]

Next == \E e \in End : /\ Write(e) \/ UNCHANGED written
                       /\ Handle(e) \/ UNCHANGED handled

Spec == Init /\ [][Next]_<<written, handled>>
=============================================================================
