----------------------------- MODULE LeetWords ------------------------------
(***************************************************************************)
(* The functions of package leet on strings.                               *)
(*                                                                         *)
(* A string is a sequence of letters, which are numbers; indices that are  *)
(* returned count from 0, as in the code.                                  *)
(***************************************************************************)
EXTENDS Integers, Sequences, FiniteSets, FiniteSetsExt, SequencesExt

LOCAL Count(s, x) == Cardinality({i \in DOMAIN s : s[i] = x})

-----------------------------------------------------------------------------
(* Two words.                                                              *)

\* sCount and pCount, on the letters that occur.
findAnagrams(s, p) ==
  LET letters == ToSet(s) \cup ToSet(p)
      pCount == [x \in letters |-> Count(p, x)]
      sCount[i \in Len(p) .. Len(s)] ==
        IF i = Len(p) THEN [x \in letters |-> Count(SubSeq(s, 1, i), x)]
        ELSE [[sCount[i - 1] EXCEPT ![s[i]] = @ + 1] EXCEPT ![s[i - Len(p)]] = @ - 1] IN
  IF Len(s) < Len(p) THEN {} ELSE {i - Len(p) : i \in {j \in Len(p) .. Len(s) : sCount[j] = pCount}}

longestCommonSubsequence(text1, text2) ==
  LET dp[i \in 0 .. Len(text1), j \in 0 .. Len(text2)] ==
        IF i = 0 \/ j = 0 THEN 0
        ELSE IF text1[i] = text2[j] THEN dp[i - 1, j - 1] + 1
        ELSE Max({dp[i - 1, j], dp[i, j - 1]}) IN
  dp[Len(text1), Len(text2)]

minDistance(word1, word2) ==
  LET dp[i \in 0 .. Len(word1), j \in 0 .. Len(word2)] ==
        IF i = 0 THEN j ELSE IF j = 0 THEN i
        ELSE IF word1[i] = word2[j] THEN dp[i - 1, j - 1]
        ELSE Min({dp[i - 1, j - 1], dp[i - 1, j], dp[i, j - 1]}) + 1 IN
  dp[Len(word1), Len(word2)]

-----------------------------------------------------------------------------
(* One word.                                                               *)

\* The window s[lp .. rp); store holds its letters, each once.
RECURSIVE Window(_, _, _, _, _)
Window(s, store, lp, rp, maxLength) ==
  IF rp > Len(s) THEN maxLength
  ELSE IF s[rp] \in store THEN Window(s, store \ {s[lp]}, lp + 1, rp, maxLength)
  ELSE Window(s, store \cup {s[rp]}, lp, rp + 1, Max({maxLength, rp - lp + 1}))

lengthOfLongestSubstring(s) == IF s = <<>> THEN 0 ELSE Window(s, {s[1]}, 1, 2, 1)

\* dp[i, j]: s[i .. j] is a palindrome.
PalindromeTable(s) ==
  LET dp[i \in 1 .. Len(s), j \in 1 .. Len(s)] ==
        \/ i = j
        \/ i < j /\ s[i] = s[j] /\ (j - i < 2 \/ dp[i + 1, j - 1]) IN
  dp

\* dfs: all ways to cut s from i on, in the order in which they are found.
RECURSIVE Splits(_, _, _)
Splits(s, dp, i) ==
  IF i > Len(s) THEN <<<<>>>>
  ELSE FoldLeft(LAMBDA a, j : IF dp[i, j]
                              THEN a \o [n \in DOMAIN Splits(s, dp, j + 1) |->
                                           <<SubSeq(s, i, j)>> \o Splits(s, dp, j + 1)[n]]
                              ELSE a,
                <<>>, [n \in 1 .. Len(s) - i + 1 |-> i + n - 1])

partition(s) == Splits(s, PalindromeTable(s), 1)

RECURSIVE Labels(_, _, _, _, _)
Labels(s, lp, rp, end, result) ==
  IF lp > Len(s) \/ rp > Len(s) THEN result
  ELSE LET last == Max({i \in DOMAIN s : s[i] = s[rp]})
           e == Max({last, end}) IN
       IF e = rp THEN Labels(s, e + 1, e + 1, e, Append(result, rp - lp + 1))
       ELSE Labels(s, lp, rp + 1, e, result)

\* Faulty: a piece ends where its first letter occurs last.
partitionLabelsFirst(s, result) ==
  LET last(i) == Max({j \in DOMAIN s : s[j] = s[i]})
      cut[i \in 1 .. Len(s) + 1] ==
        IF i > Len(s) THEN <<>> ELSE <<last(i) - i + 1>> \o cut[last(i) + 1] IN
  result \o cut[1]

\* The pieces are appended to the package's variable `result', which is returned.
partitionLabels(s, result) == Labels(s, 1, 1, 1, result)

\* A digit is its number; the digits go down from the greatest that occurs.
largestPalindromic(num) ==
  LET digits == [n \in 1 .. 10 |-> 10 - n]
      left == FoldLeft(LAMBDA a, d : IF d = 0 /\ a = <<>> THEN a
                                     ELSE a \o [n \in 1 .. Count(num, d) \div 2 |-> d],
                       <<>>, digits)
      rest == {d \in 0 .. 9 : Count(num, d) > 2 * Count(left, d)}
      mid == IF rest = {} THEN <<>> ELSE <<Max(rest)>> IN
  IF left \o mid = <<>> THEN <<0>> ELSE left \o mid \o Reverse(left)

RECURSIVE add(_, _, _, _)
add(str, lb, rb, target) ==
  IF Len(str) = 2 * target THEN <<str>>
  ELSE (IF target - lb > 0 THEN add(Append(str, "("), lb + 1, rb, target) ELSE <<>>)
         \o (IF rb < lb THEN add(Append(str, ")"), lb, rb + 1, target) ELSE <<>>)

generateParenthesis(n) == add(<<>>, 0, 0, n)

-----------------------------------------------------------------------------
(* decodeString.  A character is a record: ch is "[", "]", "digit" or       *)
(* "letter" and n says which digit or letter.  The brackets match.          *)

\* The digits right before position i, and the number they make.
RECURSIVE CountBefore(_, _)
CountBefore(s, j) ==
  IF j = 0 \/ s[j].ch # "digit" THEN [num |-> 0, count |-> 0]
  ELSE LET r == CountBefore(s, j - 1) IN
       [num |-> r.num + 1, count |-> 10 * r.count + s[j].n]

\* The bracket that closes the one whose inside begins at index.
RECURSIVE Closing(_, _, _)
Closing(s, index, depth) ==
  LET d == depth + (CASE s[index].ch = "[" -> 1 [] s[index].ch = "]" -> -1 [] OTHER -> 0) IN
  IF d = 0 THEN index ELSE Closing(s, index + 1, d)

RECURSIVE Times(_, _)
Times(k, s) == IF k = 0 THEN <<>> ELSE s \o Times(k - 1, s)

\* A "]" is always skipped with the "[" it closes; for another one the loop has no case
\* and does not end.
RECURSIVE decode(_, _, _, _)
decode(s, i, rp, res) ==
  CASE i > rp -> res
    [] i <= rp /\ s[i].ch \in {"letter", "digit"} -> decode(s, i + 1, rp, Append(res, s[i]))
    [] i <= rp /\ s[i].ch = "[" ->
       LET before == CountBefore(s, i - 1)
           index == Closing(s, i + 1, 1)
           kept == SubSeq(res, 1, Len(res) - before.num) IN
       decode(s, index + 1, rp, kept \o Times(before.count, decode(s, i + 1, index - 1, <<>>)))

decodeString(s) == decode(s, 1, Len(s), <<>>)
=============================================================================
