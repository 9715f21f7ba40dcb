--------------------------- MODULE IntrusiveStack ---------------------------
(***************************************************************************)
(* urn::intrusive_stack (urn/intrusive_stack.hpp): a LIFO linked through a *)
(* hook inside its elements.  A hook keeps its value when its element is   *)
(* popped, and nothing checks that an element is not pushed twice: "any    *)
(* given time specific hook can be used only to store element in single    *)
(* container".                                                             *)
(***************************************************************************)
EXTENDS Integers, FiniteSets, Sequences

CONSTANTS
  Nodes, \* the elements
  Null   \* nullptr

VARIABLES
  top, \* top_
  next \* next[n]: the hook of element n

Init ==
  /\ top = Null
  /\ next = [n \in Nodes |-> Null]

Empty == top = Null

\* Mutant: the hook keeps what it held when the element was popped.
PushStale(node) ==
  /\ top' = node
  /\ UNCHANGED next

Push(node) ==
  /\ next' = [next EXCEPT ![node] = top]
  /\ top' = node

\* try_pop() of a stack that is not empty returns node.
Pop(node) ==
  /\ ~Empty
  /\ node = top
  /\ top' = next[top]
  /\ UNCHANGED next

-----------------------------------------------------------------------------
\* Where k hooks lead from the top.
Walk[k \in 0 .. Cardinality(Nodes)] ==
  IF k = 0 THEN top
  ELSE IF Walk[k - 1] = Null THEN Null ELSE next[Walk[k - 1]]

Elements == {Walk[k] : k \in 0 .. Cardinality(Nodes)} \ {Null}

\* The elements from the top down, if the hooks form no cycle.
Contents == [k \in 1 .. Cardinality(Elements) |-> Walk[k - 1]]

\* The hooks lead to nullptr, and each operation adds one new element on top
\* or takes the top one: the linked elements are a LIFO of distinct elements.
IsLifo ==
  /\ Contents = <<>>
  /\ [][ /\ Walk[Cardinality(Nodes)]' = Null
         /\ \/ Contents # <<>> /\ Contents' = Tail(Contents)
            \/ \E n \in Nodes \ Elements : Contents' = <<n>> \o Contents ]_<<top, next>>
=============================================================================
