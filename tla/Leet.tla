-------------------------------- MODULE Leet --------------------------------
(***************************************************************************)
(* Package leet against the problem each of its functions solves.          *)
(*                                                                         *)
(* The state is the input, a sequence of small integers that grows one by  *)
(* one, and the package's only variable that outlives a call: `result' of  *)
(* partition_range.go, which partitionLabels appends to and returns.  The  *)
(* input serves as a slice, a word, a list, a tree or a matrix.            *)
(***************************************************************************)
EXTENDS LeetArrays, LeetWords, LeetShapes

CONSTANTS
  Num,        \* the integers and letters that occur
  MaxTotal,   \* how long the input may be, with the words passed to partitionLabels
  Words,      \* the second words
  Matrices    \* matrices of zeros and ones

ASSUME LeetAssumption ==
  /\ Num \subseteq Int /\ MaxTotal \in Nat
  /\ Words \subseteq Seq(Num)

VARIABLES
  nums,    \* the input
  result,  \* the package's variable `result', and what partitionLabels returned last
  words    \* the words passed to partitionLabels, in order

vars == <<nums, result, words>>

-----------------------------------------------------------------------------
(* What the problems ask for.                                              *)

Sum(s) == FoldLeft(+, 0, s)

Product(s) == FoldLeft(LAMBDA a, x : a * x, 1, s)

Slices(s) == {SubSeq(s, i, j) : i \in DOMAIN s, j \in DOMAIN s} \ {<<>>}

SumAt(s, I) == Sum([i \in DOMAIN s |-> IF i \in I THEN s[i] ELSE 0])

NonNegative(s) == \A i \in DOMAIN s : s[i] >= 0

Positive(s) == \A i \in DOMAIN s : s[i] > 0

\* The order-preserving partial matchings of an m-letter with an n-letter word.
Matchings(m, n) ==
  {M \in SUBSET ((1 .. m) \X (1 .. n)) :
     \A p, q \in M : p # q => (p[1] < q[1] /\ p[2] < q[2]) \/ (q[1] < p[1] /\ q[2] < p[2])}

MatchingsOf == [m \in 0 .. MaxTotal, n \in {Len(w) : w \in Words} |-> Matchings(m, n)]

Matched(s, w, M) == Cardinality({p \in M : s[p[1]] = w[p[2]]})

\* A cut after position i keeps every letter in one piece.
CleanCuts(s) ==
  {i \in DOMAIN s : ToSet(SubSeq(s, 1, i)) \cap ToSet(SubSeq(s, i + 1, Len(s))) = {}}

\* The pieces of s between cuts; the last cut is at the end.
Pieces(s, C) ==
  [k \in 1 .. Cardinality(C) |->
     LET at == SetToSortSeq(C, <) IN SubSeq(s, IF k = 1 THEN 1 ELSE at[k - 1] + 1, at[k])]

PieceLengths(s) == [k \in DOMAIN Pieces(s, CleanCuts(s)) |-> Len(Pieces(s, CleanCuts(s))[k])]

-----------------------------------------------------------------------------
Init ==
  /\ nums = <<>>
  /\ result = <<>>
  /\ words = <<>>

Input(x) ==
  /\ Len(FlattenSeq(words)) + Len(nums) < MaxTotal
  /\ nums' = Append(nums, x)
  /\ UNCHANGED <<result, words>>

CallPartitionLabels ==
  /\ nums # <<>>
  /\ result' = partitionLabels(nums, result)
  /\ words' = Append(words, nums)
  /\ nums' = <<>>

Next ==
  \/ \E x \in Num : Input(x)
  \/ CallPartitionLabels

Spec == Init /\ [][Next]_vars

-----------------------------------------------------------------------------
(* Slices of integers.                                                     *)

Idx == DOMAIN nums

BestOk ==
  nums # <<>> =>
    /\ maxSubArray(nums) = Max({Sum(s) : s \in Slices(nums)})
    /\ maxProduct(nums) = Max({Product(s) : s \in Slices(nums)})
    /\ \A k \in DOMAIN nums :
         maxSlidingWindow(nums, k) =
           [i \in 1 .. Len(nums) - k + 1 |-> Max(ToSet(SubSeq(nums, i, i + k - 1)))]
    /\ \A k \in Num :
         subarraySum(nums, k) =
           Cardinality({p \in Idx \X Idx :
                          p[1] <= p[2] /\ Sum(SubSeq(nums, p[1], p[2])) = k})
    /\ NonNegative(nums) =>
         /\ rob(nums) = Max({SumAt(nums, I) : I \in {J \in SUBSET DOMAIN nums :
                                                      \A i \in J : i + 1 \notin J}})
         /\ maxArea(nums) = Max({(j - i) * Min({nums[i], nums[j]}) :
                                   <<i, j>> \in {p \in Idx \X Idx : p[1] <= p[2]}})

YesNoOk ==
  /\ nums # <<>> /\ NonNegative(nums) =>
       (canJump(nums) <=>
          \E P \in SUBSET DOMAIN nums :
            /\ {1, Len(nums)} \subseteq P
            /\ \A p \in P \ {Len(nums)} : Min({q \in P : q > p}) - p <= nums[p])
  /\ Positive(nums) =>
       (canPartition(nums) <=>
          nums # <<>> /\ \E I \in SUBSET DOMAIN nums : SumAt(nums, I) = SumAt(nums, DOMAIN nums \ I))
  /\ longestConsecutive(nums) =
       Max({Cardinality(S) : S \in {T \in SUBSET ToSet(nums) :
              \A x, y \in T : x .. y \subseteq T}})
  /\ LET n == Sum([i \in DOMAIN nums |-> nums[i] * nums[i]]) IN
     /\ numSquares(n) <= Len(SelectSeq(nums, LAMBDA x : x # 0))
     /\ n > 0 => \E j \in 1 .. n : j * j <= n /\ numSquares(n) = 1 + numSquares(n - j * j)

SearchOk ==
  LET s == Sorted(nums) IN
  \A t \in Num :
    /\ LET r == searchInsert(s, t) IN
       \/ r < Len(s) /\ s[r + 1] = t
       \/ \A i \in DOMAIN s : IF i <= r THEN s[i] < t ELSE s[i] > t
    /\ LET at == {i \in DOMAIN s : s[i] = t} IN
       searchRange(s, t) = IF at = {} THEN <<-1, -1>> ELSE <<Min(at) - 1, Max(at) - 1>>

Repeated(s) == {x \in ToSet(s) : Cardinality({i \in DOMAIN s : s[i] = x}) > 1}

RearrangeOk ==
  /\ moveZeroes(nums) = SelectSeq(nums, LAMBDA x : x # 0) \o SelectSeq(nums, LAMBDA x : x = 0)
  /\ Len(nums) > 1 /\ ToSet(nums) \subseteq 1 .. Len(nums) - 1 /\ Cardinality(Repeated(nums)) = 1 =>
       findDuplicate(nums) \in Repeated(nums)
  /\ LET found == threeSum(nums) IN
     /\ \A i, j \in DOMAIN found : Sorted(found[i]) = Sorted(found[j]) => i = j
     /\ {Sorted(found[i]) : i \in DOMAIN found} =
          {Sorted(<<nums[i], nums[j], nums[k]>>) :
             <<i, j, k>> \in {p \in Idx \X Idx \X Idx :
                               p[1] < p[2] /\ p[2] < p[3] /\ nums[p[1]] + nums[p[2]] + nums[p[3]] = 0}}

\* Intervals at even places, of different lengths; a point is covered or not.
Intervals == [i \in DOMAIN nums |-> <<2 * nums[i], 2 * nums[i] + i>>]

MergeOk ==
  LET merged == merge(Intervals)
      covered(ivs, x) == \E i \in DOMAIN ivs : 2 * ivs[i][1] <= x /\ x <= 2 * ivs[i][2] IN
  /\ \A i \in 1 .. Len(merged) - 1 : merged[i][2] < merged[i + 1][1]
  /\ \A x \in -8 .. 24 : covered(merged, x) <=> covered(Intervals, x)

\* Each function on slices of integers returns what its problem asks for, on every
\* input: its loop, which looks at the slice once from one side or from both, agrees
\* with the definition that looks at all subarrays, subsets or triples.
ArraysAgree == BestOk /\ YesNoOk /\ SearchOk /\ RearrangeOk /\ MergeOk

-----------------------------------------------------------------------------
(* Words.                                                                  *)

TwoWordsOk ==
  \A w \in Words :
    /\ findAnagrams(nums, w) =
         {i \in 0 .. Len(nums) - Len(w) : Sorted(SubSeq(nums, i + 1, i + Len(w))) = Sorted(w)}
    /\ longestCommonSubsequence(nums, w) =
         Max({Matched(nums, w, M) : M \in MatchingsOf[Len(nums), Len(w)]})
    /\ minDistance(nums, w) =
         Min({Len(nums) + Len(w) - Cardinality(M) - Matched(nums, w, M) :
                M \in MatchingsOf[Len(nums), Len(w)]})

\* Digit sequences made from some of the input's digits that read the same backwards
\* and have no leading zero.
PalindromesOf(s) ==
  {t \in UNION {[1 .. n -> ToSet(s)] : n \in 1 .. Len(s)} :
     /\ \A x \in ToSet(s) : Cardinality({i \in DOMAIN t : t[i] = x}) <= Cardinality({i \in DOMAIN s : s[i] = x})
     /\ t = Reverse(t)
     /\ t[1] = 0 => Len(t) = 1}

Number(t) == FoldLeft(LAMBDA a, d : 10 * a + d, 0, t)

OneWordOk ==
  /\ lengthOfLongestSubstring(nums) =
       Max({0} \cup {Len(s) : s \in {t \in Slices(nums) : Cardinality(ToSet(t)) = Len(t)}})
  /\ LET found == partition(nums) IN
     /\ Cardinality(ToSet(found)) = Len(found)
     /\ nums # <<>> =>
          ToSet(found) =
            {Pieces(nums, C \cup {Len(nums)}) :
               C \in {D \in SUBSET (1 .. Len(nums) - 1) :
                       \A k \in 1 .. Cardinality(D) + 1 :
                         Pieces(nums, D \cup {Len(nums)})[k] = Reverse(Pieces(nums, D \cup {Len(nums)})[k])}}
  /\ nums # <<>> /\ NonNegative(nums) =>
       Number(largestPalindromic(nums)) = Max({Number(t) : t \in PalindromesOf(nums)})

Balanced(t) ==
  LET height(n) == Cardinality({i \in 1 .. n : t[i] = "("}) - Cardinality({i \in 1 .. n : t[i] = ")"}) IN
  height(Len(t)) = 0 /\ \A n \in DOMAIN t : height(n) >= 0

ParenthesesOk ==
  \A n \in 1 .. 3 :
    /\ ToSet(generateParenthesis(n)) = {t \in [1 .. 2 * n -> {"(", ")"}] : Balanced(t)}
    /\ Cardinality(ToSet(generateParenthesis(n))) = Len(generateParenthesis(n))

Char(ch, n) == [ch |-> ch, n |-> n]

\* An encoded string that is being written, and what it stands for: one part for every
\* bracket that is open, with its number, in front of them the text outside.
Part(n, text) == [n |-> n, enc |-> text, plain |-> text]

Digits(n) == IF n < 10 THEN <<Char("digit", n)>> ELSE <<Char("digit", n \div 10), Char("digit", n % 10)>>

Close(parts) ==
  LET inner == Last(parts)
      outer == Last(Front(parts)) IN
  Append(Front(Front(parts)),
         [outer EXCEPT !.enc = @ \o Digits(inner.n) \o <<Char("[", 0)>> \o inner.enc \o <<Char("]", 0)>>,
                       !.plain = @ \o FlattenSeq([k \in 1 .. inner.n |-> inner.plain])])

\* The input as such a string.  A positive number opens a bracket with a letter in it,
\* a first 3 with the number 12; a negative one closes a bracket; the others are letters.
Write(parts, i) ==
  LET x == nums[i] IN
  IF x > 0 THEN Append(parts, Part(IF i = 1 /\ x = 3 THEN 12 ELSE x, <<Char("letter", i)>>))
  ELSE IF x < 0 /\ Len(parts) > 1 THEN Close(parts)
  ELSE Append(Front(parts), [Last(parts) EXCEPT !.enc = Append(@, Char("letter", x)),
                                                !.plain = Append(@, Char("letter", x))])

RECURSIVE CloseAll(_)
CloseAll(parts) == IF Len(parts) = 1 THEN parts[1] ELSE CloseAll(Close(parts))

Written == CloseAll(FoldLeft(Write, <<Part(1, <<>>)>>, [i \in DOMAIN nums |-> i]))

\* What partitionLabels is to return for the last word: the lengths of its pieces.
LabelsOfLastWord == words # <<>> => result = PieceLengths(Last(words))

\* Each function on strings returns what its problem asks for, on every small input:
\* decodeString for brackets inside each other and side by side, partitionLabels for
\* the first word it is called with.  From the second call on it does not, since no call
\* clears the variable of the package that it returns.
WordsAgree ==
  /\ TwoWordsOk /\ OneWordOk /\ ParenthesesOk
  /\ decodeString(Written.enc) = Written.plain
  /\ Len(words) <= 1 => LabelsOfLastWord

-----------------------------------------------------------------------------
(* Lists, trees and matrices.                                              *)

\* The input as a linked list whose last node links to node `pos', or to nil.
Linked(pos) == [i \in Idx |-> IF i < Len(nums) THEN i + 1 ELSE pos]

head == IF nums = <<>> THEN nil ELSE 1

ListsOk ==
  /\ \A pos \in {nil} \cup Idx : detectCycle(Linked(pos), head) = pos
  /\ isPalindrome(Linked(nil), nums, head) <=> nums = Reverse(nums)

\* The input as a tree: the children of node i are nodes 2i and 2i + 1.
Tree[i \in 1 .. 2 * MaxTotal + 1] ==
  IF i \notin Idx THEN nilTree ELSE <<nums[i], Tree[2 * i], Tree[2 * i + 1]>>

RECURSIVE InOrder(_)
InOrder(t) == IF t = nilTree THEN <<>> ELSE InOrder(t[2]) \o <<t[1]>> \o InOrder(t[3])

TreesOk ==
  /\ InOrder(invertTree(Tree[1])) = Reverse(InOrder(Tree[1]))
  /\ invertTree(invertTree(Tree[1])) = Tree[1]

\* The input as a matrix of r rows.
Rows(r) == LET n == Len(nums) \div r IN [i \in 1 .. r |-> SubSeq(nums, (i - 1) * n + 1, i * n)]

\* The first row, and then the rest turned a quarter to the left.
RECURSIVE Peel(_)
Peel(m) ==
  IF m = <<>> THEN <<>>
  ELSE m[1] \o (IF Len(m) = 1 THEN <<>>
                ELSE Peel([i \in 1 .. Len(m[1]) |->
                             [j \in 1 .. Len(m) - 1 |-> m[j + 1][Len(m[1]) + 1 - i]]]))

ZeroesSpread(m) ==
  [i \in DOMAIN m |-> [j \in DOMAIN m[i] |->
     IF (\E k \in DOMAIN m[i] : m[i][k] = 0) \/ (\E k \in DOMAIN m : m[k][j] = 0) THEN 0 ELSE m[i][j]]]

SmallMatricesOk ==
  \A m \in Matrices :
    /\ setZeroes(m) = ZeroesSpread(m)
    /\ LET numbered == [i \in DOMAIN m |-> [j \in DOMAIN m[i] |-> <<i, j>>]] IN
       spiralOrder(numbered) = Peel(numbered)

MatricesOk ==
  /\ SmallMatricesOk
  /\ \A r \in Idx : Len(nums) % r = 0 =>
       /\ spiralOrder(Rows(r)) = Peel(Rows(r))
       /\ setZeroes(Rows(r)) = ZeroesSpread(Rows(r))

\* The functions that work in place on links or on a matrix, using parts of it for
\* their notes, leave what their problem asks for: the start of a cycle is found, a
\* list is compared with its reversal while half of its links are turned, a matrix
\* whose first row and column hold the notes gets exactly the right zeros.
ShapesAgree == ListsOk /\ TreesOk /\ MatricesOk
=============================================================================
