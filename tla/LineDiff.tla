------------------------------ MODULE LineDiff ------------------------------
(***************************************************************************)
(* computeLineDiff of ResourceDetail.tsx: the two columns of a diff, from  *)
(* a longest common subsequence of the lines before and after.             *)
(***************************************************************************)
EXTENDS Naturals, Sequences, FiniteSets

\* dp: the length of a longest common subsequence of the first i lines of a and
\* the first j lines of b.
Common(a, b) ==
  LET dp[i \in 0 .. Len(a), j \in 0 .. Len(b)] ==
        IF i = 0 \/ j = 0 THEN 0
        ELSE IF a[i] = b[j] THEN dp[i - 1, j - 1] + 1
        ELSE IF dp[i - 1, j] > dp[i, j - 1] THEN dp[i - 1, j] ELSE dp[i, j - 1]
  IN  dp

Row(left, right) == [left |-> left, right |-> right]
Empty == [type |-> "empty"]
Shown(type, line) == [type |-> type, line |-> line]

\* The rows of the two columns, built from the last one up.
ComputeLineDiff(a, b) ==
  LET dp == Common(a, b)
      rows[i \in 0 .. Len(a), j \in 0 .. Len(b)] ==
        IF i = 0 /\ j = 0 THEN <<>>
        ELSE IF i > 0 /\ j > 0 /\ a[i] = b[j]
        THEN Append(rows[i - 1, j - 1], Row(Shown("equal", a[i]), Shown("equal", b[j])))
        ELSE IF j > 0 /\ (i = 0 \/ dp[i, j - 1] >= dp[i - 1, j])
        THEN Append(rows[i, j - 1], Row(Empty, Shown("add", b[j])))
        ELSE Append(rows[i - 1, j], Row(Shown("remove", a[i]), Empty))
  IN  rows[Len(a), Len(b)]

-----------------------------------------------------------------------------
\* Reference: the columns without their gaps.
Column(rows, side) ==
  LET cells == [k \in DOMAIN rows |-> rows[k][side]]
      filled == SelectSeq(cells, LAMBDA c : c # Empty)
  IN  [k \in DOMAIN filled |-> filled[k].line]

IsSubsequence(s, t) ==
  \E f \in [DOMAIN s -> DOMAIN t] :
    /\ \A m, n \in DOMAIN s : m < n => f[m] < f[n]
    /\ \A m \in DOMAIN s : s[m] = t[f[m]]

\* The columns read the two versions, a row has equal lines or one line, and no
\* way to line the versions up has more equal lines.
LineDiffIsRight(a, b, lines) ==
  LET rows == ComputeLineDiff(a, b)
      equal == {k \in DOMAIN rows : rows[k].left # Empty /\ rows[k].right # Empty}
  IN  /\ Column(rows, "left") = a /\ Column(rows, "right") = b
      /\ \A k \in equal : rows[k].left = rows[k].right /\ rows[k].left.type = "equal"
      /\ \A n \in 0 .. Len(a) : \A s \in [1 .. n -> lines] :
           IsSubsequence(s, a) /\ IsSubsequence(s, b) => n <= Cardinality(equal)
=============================================================================
