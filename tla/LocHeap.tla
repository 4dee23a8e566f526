-------------------------------- MODULE LocHeap --------------------------------
(***************************************************************************)
(* The tree that holds the timers of a container (utils/LocHeap.cpp).      *)
(*                                                                         *)
(* LocTimer takes the heap for a set with a soonest element on top; this   *)
(* is the tree behind it.  A node has the number of nodes of its subtree,  *)
(* by which a new node is sent to the smaller side; ranks do not change    *)
(* while an element is in the tree, and a search passes by the subtrees    *)
(* that the element outranks.                                              *)
(***************************************************************************)
EXTENDS Naturals, FiniteSets

CONSTANTS
  Rankables,  \* what may be in the heap
  RankOf      \* the rank of each: the lower one outranks

VARIABLES
  tree,   \* mTree
  pushed  \* history: the elements that were pushed, and not popped or removed

heapVars == <<tree, pushed>>

Nil == [size |-> 0]
Node(d) == [data |-> d, size |-> 1, left |-> Nil, right |-> Nil]

OutRanks(d, e) == RankOf[d] < RankOf[e]

-----------------------------------------------------------------------------
\* The lower one of the top and the new element goes down, to the smaller side.
RECURSIVE Push(_, _)
Push(t, d) ==
  LET upper == IF OutRanks(d, t.data) THEN d ELSE t.data
      lower == IF OutRanks(d, t.data) THEN t.data ELSE d
      side == IF t.left = Nil \/ (t.right # Nil /\ t.left.size <= t.right.size)
              THEN "left" ELSE "right" IN
  [t EXCEPT !.data = upper, !.size = @ + 1,
            ![side] = IF @ = Nil THEN Node(lower) ELSE Push(@, lower)]

\* Slip: the side that is taken is the smaller one, not the higher one.
RECURSIVE Pop_Smaller(_)
Pop_Smaller(t) ==
  IF t.left = Nil /\ t.right = Nil THEN Nil
  ELSE LET side == IF t.right = Nil \/ (t.left # Nil /\ t.left.size <= t.right.size)
                   THEN "left" ELSE "right" IN
       [t EXCEPT !.data = t[side].data, !.size = @ - 1, ![side] = Pop_Smaller(@)]

\* The higher one of the children moves up, and so on to the leaf that is taken out.
RECURSIVE Pop(_)
Pop(t) ==
  IF t.left = Nil /\ t.right = Nil THEN Nil
  ELSE LET side == IF t.right = Nil \/ (t.left # Nil /\ OutRanks(t.left.data, t.right.data))
                   THEN "left" ELSE "right" IN
       [t EXCEPT !.data = t[side].data, !.size = @ - 1, ![side] = Pop(@)]

\* The tree without the element, which is the same tree where it was not found.
RECURSIVE Remove(_, _)
Remove(t, d) ==
  IF t = Nil \/ (t.data # d /\ OutRanks(d, t.data)) THEN t
  ELSE IF t.data = d THEN Pop(t)
  ELSE LET left == Remove(t.left, d) IN
       IF left # t.left THEN [t EXCEPT !.size = @ - 1, !.left = left]
       ELSE LET right == Remove(t.right, d) IN
            IF right # t.right THEN [t EXCEPT !.size = @ - 1, !.right = right] ELSE t

-----------------------------------------------------------------------------
HeapInit == tree = Nil /\ pushed = {}

HeapPush(d) ==
  /\ d \in Rankables \ pushed
  /\ tree' = IF tree = Nil THEN Node(d) ELSE Push(tree, d)
  /\ pushed' = pushed \cup {d}

HeapPop ==
  /\ tree # Nil
  /\ tree' = Pop(tree)
  /\ pushed' = pushed \ {tree.data}

\* Of an element that is in the heap, or no longer is.
HeapRemove(d) ==
  /\ tree' = Remove(tree, d)
  /\ pushed' = pushed \ {d}

HeapNext == HeapPop \/ \E d \in Rankables : HeapPush(d) \/ HeapRemove(d)

HeapSpec == HeapInit /\ [][HeapNext]_heapVars

-----------------------------------------------------------------------------
(***************************************************************************)
(* Properties.                                                             *)
(***************************************************************************)
RECURSIVE Elements(_)
Elements(t) == IF t = Nil THEN {} ELSE {t.data} \cup Elements(t.left) \cup Elements(t.right)

\* "checks if mSize is correct, AND this node is the highest ranking of the entire subtree"
\* (LocHeap.cpp:58): a push, a pop and a removal that goes down one side keep both.
RECURSIVE CheckNodes(_)
CheckNodes(t) ==
  t = Nil \/ (/\ t.size = 1 + t.left.size + t.right.size
              /\ \A side \in {"left", "right"} :
                   t[side] # Nil => ~OutRanks(t[side].data, t.data) /\ CheckNodes(t[side]))

\* The tree is the set that LocTimer takes it for: whatever was popped or removed before,
\* each element that was pushed is found once, and none outranks the top.
TreeIsSet ==
  /\ CheckNodes(tree)
  /\ Elements(tree) = pushed /\ tree.size = Cardinality(pushed)
  /\ tree # Nil => \A d \in pushed : ~OutRanks(d, tree.data)
=============================================================================
