----------------------------- MODULE LeetArrays -----------------------------
(***************************************************************************)
(* The functions of package leet on slices of integers.                    *)
(*                                                                         *)
(* A slice is a sequence, so nums[i] of the code is nums[i + 1] here; an   *)
(* index that is returned is counted from 0, as in the code.  A loop over  *)
(* a slice is a fold, other loops are recursive operators whose parameters *)
(* are the variables of the loop.                                          *)
(***************************************************************************)
EXTENDS Integers, Sequences, FiniteSets, FiniteSetsExt, SequencesExt

LOCAL MaxOf(x, y) == IF x > y THEN x ELSE y

LOCAL MinOf(x, y) == IF x < y THEN x ELSE y

Sorted(s) == SortSeq(s, <)

-----------------------------------------------------------------------------
(* Best subarray, and the like.                                            *)

\* Faulty: the sum never starts afresh.
maxSubArrayWhole(nums) ==
  LET step(a, x) == [sum |-> a.sum + x, best |-> MaxOf(a.best, a.sum + x)] IN
  FoldLeft(step, [sum |-> nums[1], best |-> nums[1]], Tail(nums)).best

maxSubArray(nums) ==
  LET step(a, x) ==
        LET d == MaxOf(a.dp + x, x) IN [dp |-> d, best |-> MaxOf(a.best, d)] IN
  IF nums = <<>> THEN 0
  ELSE FoldLeft(step, [dp |-> nums[1], best |-> nums[1]], Tail(nums)).best

maxProduct(nums) ==
  LET step(a, x) ==
        LET lo == MinOf((IF x <= 0 THEN a.max ELSE a.min) * x, x)
            hi == MaxOf((IF x <= 0 THEN a.min ELSE a.max) * x, x) IN
        [min |-> lo, max |-> hi, best |-> MaxOf(a.best, hi)] IN
  IF nums = <<>> THEN 0
  ELSE FoldLeft(step, [min |-> nums[1], max |-> nums[1], best |-> nums[1]], Tail(nums)).best

rob(nums) ==
  LET dp[i \in 1 .. Len(nums)] ==
        CASE i = 1 -> nums[1]
          [] i = 2 -> MaxOf(nums[1], nums[2])
          [] OTHER -> MaxOf(dp[i - 1], dp[i - 2] + nums[i]) IN
  IF nums = <<>> THEN 0 ELSE dp[Len(nums)]

RECURSIVE Area(_, _, _, _)
Area(height, lp, rp, best) ==
  IF lp >= rp THEN best
  ELSE IF height[lp] < height[rp]
       THEN Area(height, lp + 1, rp, MaxOf(best, (rp - lp) * height[lp]))
       ELSE Area(height, lp, rp - 1, MaxOf(best, (rp - lp) * height[rp]))

maxArea(height) == Area(height, 1, Len(height), 0)

\* container/heap: the item on top is one of those with the greatest Val.
Peek(h) == CHOOSE it \in h : \A o \in h : o.Val <= it.Val

RECURSIVE PopBefore(_, _)
PopBefore(h, i) == IF h # {} /\ Peek(h).Index < i THEN PopBefore(h \ {Peek(h)}, i) ELSE h

maxSlidingWindow(nums, k) ==
  LET item(i) == [Val |-> nums[i + 1], Index |-> i]
      heapAt[i \in 0 .. Len(nums) - k] ==
        IF i = 0 THEN {item(j) : j \in 0 .. k - 1}
        ELSE PopBefore(heapAt[i - 1] \cup {item(i + k - 1)}, i) IN
  [i \in 1 .. Len(nums) - k + 1 |-> Peek(heapAt[i - 1]).Val]

\* `store' counts the prefixes by their sum.
subarraySum(nums, k) ==
  LET inc(f, x) == [y \in DOMAIN f \cup {x} |-> (IF y \in DOMAIN f THEN f[y] ELSE 0)
                                                + (IF y = x THEN 1 ELSE 0)]
      step(a, x) ==
        LET t == a.total + x IN
        [total |-> t, store |-> inc(a.store, t),
         result |-> a.result + (IF t - k \in DOMAIN a.store THEN a.store[t - k] ELSE 0)] IN
  FoldLeft(step, [total |-> 0, store |-> [y \in {0} |-> 1], result |-> 0], nums).result

-----------------------------------------------------------------------------
(* Yes or no, and counting.                                                *)

RECURSIVE Jump(_, _, _)
Jump(nums, maxIndex, i) ==
  LET m == MaxOf(maxIndex, i + nums[i + 1]) IN
  /\ m > i
  /\ i + 1 >= Len(nums) - 1 \/ Jump(nums, m, i + 1)

canJump(nums) == Len(nums) = 1 \/ Jump(nums, 0, 0)

\* dp is filled downwards, so dp[j - num] is still that of the numbers before.
canPartition(nums) ==
  LET total == FoldLeft(+, 0, nums)
      target == total \div 2
      step(a, num) ==
        LET dp == [j \in 0 .. target |-> IF j >= num THEN MaxOf(a.dp[j], a.dp[j - num] + num)
                                                     ELSE a.dp[j]] IN
        IF a.found THEN a ELSE [dp |-> dp, found |-> dp[target] = target] IN
  /\ Len(nums) >= 2
  /\ total % 2 = 0
  /\ FoldLeft(step, [dp |-> [j \in 0 .. target |-> 0], found |-> FALSE], nums).found

RECURSIVE Run(_, _)
Run(seen, cur) == IF cur \in seen THEN 1 + Run(seen, cur + 1) ELSE 0

longestConsecutive(nums) ==
  LET seen == ToSet(nums) IN
  IF nums = <<>> THEN 0 ELSE Max({1 + Run(seen, v + 1) : v \in {w \in seen : w - 1 \notin seen}})

numSquares(n) ==
  LET dp[i \in 0 .. n] == Min({i} \cup {dp[i - j * j] + 1 : j \in {k \in 2 .. i : k * k <= i}}) IN
  dp[n]

-----------------------------------------------------------------------------
(* Searching and rearranging.                                              *)

RECURSIVE search(_, _, _, _)
search(nums, target, left, right) ==
  LET mid == (left + right) \div 2 IN
  IF left > right THEN left
  ELSE IF nums[mid + 1] = target THEN mid
  ELSE IF target < nums[mid + 1] THEN search(nums, target, left, mid - 1)
  ELSE search(nums, target, mid + 1, right)

searchInsert(nums, target) == search(nums, target, 0, Len(nums) - 1)

RECURSIVE binarySearch(_, _, _, _)
binarySearch(nums, target, from, to) ==
  LET none == <<-1, -1>>
      mid == (from + to) \div 2 IN
  IF from > to \/ nums[from + 1] > target \/ nums[to + 1] < target THEN none
  ELSE IF from = to THEN IF nums[from + 1] = target THEN <<from, from>> ELSE none
  ELSE IF nums[mid + 1] < target THEN binarySearch(nums, target, mid + 1, to)
  ELSE IF nums[mid + 1] > target THEN binarySearch(nums, target, from, mid)
  ELSE LET left == binarySearch(nums, target, from, mid)
           right == binarySearch(nums, target, mid + 1, to) IN
       <<IF left = none THEN mid ELSE left[1], IF right = none THEN mid ELSE right[2]>>

searchRange(nums, target) == binarySearch(nums, target, 0, Len(nums) - 1)

\* The two pointers of Floyd's search, from slow and fast on.
RECURSIVE Meet(_, _, _)
Meet(nums, slow, fast) ==
  LET s == nums[slow + 1]
      f == nums[nums[fast + 1] + 1] IN
  IF s = f THEN s ELSE Meet(nums, s, f)

RECURSIVE Walk(_, _, _)
Walk(nums, head, slow) ==
  IF head = slow THEN slow ELSE Walk(nums, nums[head + 1], nums[slow + 1])

findDuplicate(nums) == IF nums = <<>> THEN -1 ELSE Walk(nums, 0, Meet(nums, 0, 0))

\* The slice is written while it is read, but never ahead of the reader.
moveZeroes(nums) ==
  LET step(a, i) == IF a.nums[i] # 0
                    THEN [nums |-> [a.nums EXCEPT ![a.j] = a.nums[i]], j |-> a.j + 1] ELSE a
      end == FoldLeft(step, [nums |-> nums, j |-> 1], [i \in 1 .. Len(nums) |-> i]) IN
  [i \in 1 .. Len(nums) |-> IF i >= end.j THEN 0 ELSE end.nums[i]]

\* The search for the two others, with the same skips over equal numbers.
RECURSIVE Pairs(_, _, _, _)
Pairs(nums, i, lp, rp) ==
  LET sum == nums[i] + nums[lp] + nums[rp] IN
  IF lp >= rp THEN <<>>
  ELSE IF rp < Len(nums) /\ nums[rp] = nums[rp + 1] THEN Pairs(nums, i, lp, rp - 1)
  ELSE IF lp > i + 1 /\ nums[lp] = nums[lp - 1] THEN Pairs(nums, i, lp + 1, rp)
  ELSE IF sum = 0 THEN <<<<nums[lp], nums[rp], nums[i]>>>> \o Pairs(nums, i, lp + 1, rp - 1)
  ELSE IF sum < 0 THEN Pairs(nums, i, lp + 1, rp)
  ELSE Pairs(nums, i, lp, rp - 1)

threeSum(unsorted) ==
  LET nums == Sorted(unsorted)
      step(a, i) ==
        IF nums[i] > 0 \/ (i > 1 /\ nums[i] = nums[i - 1]) THEN a
        ELSE a \o Pairs(nums, i, i + 1, Len(nums)) IN
  FoldLeft(step, <<>>, [i \in 1 .. Len(nums) |-> i])

\* The linked list of the code is the sequence built here; its tail is the last element.
merge(intervals) ==
  LET step(a, iv) ==
        IF a = <<>> \/ iv[1] > Last(a)[2] THEN Append(a, iv)
        ELSE [a EXCEPT ![Len(a)][2] = MaxOf(@, iv[2])] IN
  FoldLeft(step, <<>>, SortSeq(intervals, LAMBDA p, q : p[1] < q[1]))
=============================================================================
