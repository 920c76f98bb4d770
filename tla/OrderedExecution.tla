-------------------------- MODULE OrderedExecution --------------------------
(***************************************************************************)
(* What the replicated bank promises, with no protocol in it: transactions *)
(* are put into one append-only order, and every replica executes exactly  *)
(* the transactions of that order, from the first one on, leaving none out.*)
(* Replicas may lag behind each other, and behind the order, by any        *)
(* amount.  NormalCase is shown to implement this module.                  *)
(*                                                                         *)
(* The order may name a transaction twice: the leader of the program does  *)
(* not recognise a transaction that a client sends again.                  *)
(***************************************************************************)
EXTENDS Naturals, Sequences

CONSTANTS Node,     \* the replicas
          Tx        \* the transactions clients may submit

VARIABLES order,    \* the transactions ordered so far
          executed  \* executed[n]: the transactions n has executed, in order

vars == <<order, executed>>

Init == /\ order = <<>>
        /\ executed = [n \in Node |-> <<>>]

\* One more transaction gets its place in the order.
Choose(t) == /\ order' = Append(order, t)
             /\ UNCHANGED executed

\* Replica n executes the next transaction it has not executed.
Apply(n) ==
  /\ Len(executed[n]) < Len(order)
  /\ executed' = [executed EXCEPT ![n] = Append(@, order[Len(@) + 1])]
  /\ UNCHANGED order

Next == \/ \E t \in Tx : Choose(t)
        \/ \E n \in Node : Apply(n)

Spec == Init /\ [][Next]_vars
=============================================================================
