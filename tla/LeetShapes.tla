----------------------------- MODULE LeetShapes -----------------------------
(***************************************************************************)
(* The functions of package leet on linked lists, trees and matrices.      *)
(*                                                                         *)
(* The nodes of a linked list are numbers and Next is a function on them,  *)
(* with nil for the end; Val is a function too.  A tree is nilTree or a    *)
(* tuple <<Val, Left, Right>>.  A matrix is a sequence of rows, and a cell *)
(* <<x, y>> has the indices of the code, from 0.                           *)
(***************************************************************************)
EXTENDS Integers, Sequences, FiniteSets, SequencesExt

nil == 0

-----------------------------------------------------------------------------
(* Linked lists.                                                           *)

RECURSIVE Chase(_, _, _)
Chase(Next, fast, slow) ==
  IF Next[fast] = nil THEN nil
  ELSE IF Next[Next[fast]] = nil THEN nil
  ELSE LET f == Next[Next[fast]]
           s == Next[slow] IN
       IF f = s THEN s ELSE Chase(Next, f, s)

RECURSIVE Approach(_, _, _)
Approach(Next, pointer, slow) ==
  IF pointer = slow THEN slow ELSE Approach(Next, Next[pointer], Next[slow])

detectCycle(Next, head) ==
  IF head = nil THEN nil
  ELSE LET slow == Chase(Next, head, head) IN
       IF slow = nil THEN nil ELSE Approach(Next, head, slow)

\* Where slow is when fast has come to the end at twice its speed.
RECURSIVE Middle(_, _, _)
Middle(Next, slow, fast) ==
  IF fast = nil THEN slow
  ELSE IF Next[fast] = nil THEN slow
  ELSE Middle(Next, Next[slow], Next[Next[fast]])

\* reverse: the new Next, and the new head.
RECURSIVE reverse(_, _, _)
reverse(Next, prev, curr) ==
  IF curr = nil THEN [Next |-> Next, head |-> prev]
  ELSE reverse([Next EXCEPT ![curr] = prev], curr, Next[curr])

RECURSIVE SameVals(_, _, _, _)
SameVals(Next, Val, p1, p2) ==
  p2 = nil \/ (Val[p1] = Val[p2] /\ SameVals(Next, Val, Next[p1], Next[p2]))

\* The second half is reversed in place, so the first is read through changed links.
isPalindrome(Next, Val, head) ==
  IF head = nil THEN TRUE
  ELSE LET rev == reverse(Next, nil, Middle(Next, head, head)) IN
       SameVals(rev.Next, Val, head, rev.head)

-----------------------------------------------------------------------------
(* Trees.                                                                  *)

nilTree == <<>>

RECURSIVE invertTree(_)
invertTree(root) ==
  IF root = nilTree THEN nilTree
  ELSE <<root[1], invertTree(root[3]), invertTree(root[2])>>

-----------------------------------------------------------------------------
(* Matrices.                                                               *)

nextDirection == [Left |-> "Up", Right |-> "Down", Down |-> "Left", Up |-> "Right"]

\* The cell ahead of p.
Ahead(p) ==
  CASE p.direction = "Up" -> <<p.x - 1, p.y>>
    [] p.direction = "Down" -> <<p.x + 1, p.y>>
    [] p.direction = "Left" -> <<p.x, p.y - 1>>
    [] p.direction = "Right" -> <<p.x, p.y + 1>>

\* visited holds the visited cells of an m x n matrix.
RECURSIVE nextPoint(_, _, _, _)
nextPoint(p, visited, m, n) ==
  LET a == Ahead(p) IN
  IF a[1] \in 0 .. m - 1 /\ a[2] \in 0 .. n - 1 /\ a \notin visited
  THEN [p EXCEPT !.x = a[1], !.y = a[2]]
  ELSE nextPoint([p EXCEPT !.direction = nextDirection[@]], visited, m, n)

RECURSIVE Spiral(_, _, _, _)
Spiral(matrix, p, visited, res) ==
  LET m == Len(matrix)
      n == Len(matrix[1])
      r == Append(res, matrix[p.x + 1][p.y + 1])
      v == visited \cup {<<p.x, p.y>>} IN
  IF Len(r) >= m * n THEN r ELSE Spiral(matrix, nextPoint(p, v, m, n), v, r)

spiralOrder(matrix) ==
  IF matrix = <<>> THEN <<>>
  ELSE IF matrix[1] = <<>> THEN <<>>
  ELSE Spiral(matrix, [x |-> 0, y |-> 0, direction |-> "Right"], {}, <<>>)

\* Faulty: the first column and row are cleared first, and the notes are lost in them.
setZeroesEarly(matrix) ==
  LET rows == DOMAIN matrix
      cols == DOMAIN matrix[1]
      firstRow == \E i \in rows : matrix[i][1] = 0
      firstCol == \E j \in cols : matrix[1][j] = 0 IN
  IF matrix = <<>> THEN matrix
  ELSE [i \in rows |-> [j \in cols |->
          IF \/ firstRow \/ firstCol
             \/ \E k \in cols : matrix[i][k] = 0
             \/ \E k \in rows : matrix[k][j] = 0
          THEN 0 ELSE matrix[i][j]]]

\* The zeros of the inner cells are noted in the first row and column, the inner
\* cells are cleared by those notes, and the first column and row come last.
setZeroes(matrix) ==
  LET rows == DOMAIN matrix
      cols == DOMAIN matrix[1]
      firstRow == \E i \in rows : matrix[i][1] = 0
      firstCol == \E j \in cols : matrix[1][j] = 0
      noted == [i \in rows |-> [j \in cols |->
                 IF (j = 1 /\ i > 1 /\ \E k \in cols \ {1} : matrix[i][k] = 0)
                      \/ (i = 1 /\ j > 1 /\ \E k \in rows \ {1} : matrix[k][j] = 0)
                 THEN 0 ELSE matrix[i][j]]]
      inner == [i \in rows |-> [j \in cols |->
                 IF i > 1 /\ j > 1 /\ (noted[1][j] = 0 \/ noted[i][1] = 0) THEN 0 ELSE noted[i][j]]] IN
  IF matrix = <<>> THEN matrix
  ELSE [i \in rows |-> [j \in cols |->
          IF (firstRow /\ j = 1) \/ (firstCol /\ i = 1) THEN 0 ELSE inner[i][j]]]
=============================================================================
