---------------------------- MODULE GlobOverlap ----------------------------
(***************************************************************************)
(* overlaps(left, right), the only glob matcher of the system: it decides  *)
(* whether two write sets conflict (both operands are globs) and whether a *)
(* changed file is inside a write set (the right operand is a file).       *)
(*                                                                         *)
(* A glob is a sequence of segments. "t*" stands for the segments that mix *)
(* text and a wildcard, as in src/cli/task*; "ta" and "tb" are names it    *)
(* matches and "u" one it does not. A live segment holds a character other *)
(* than . and * that regular expressions interpret, as [id].ts, a+b, (app: *)
(* the left glob becomes an expression without escaping it.                *)
(***************************************************************************)
EXTENDS Naturals, Sequences, SequencesExt

CONSTANTS
  MaxDepth,       \* bound: segments of a glob and of a file
  LiveSegments,   \* segments with a live character; "t*" matches none of them
  Expression      \* the texts that each glob with a live segment matches, for
                  \* those that are regular expressions at all

Names == {"ta", "tb", "u"}
Wildcards == {"*", "**"}
Segments == Names \cup Wildcards \cup {"t*"} \cup LiveSegments

ASSUME MaxDepthAssumption == MaxDepth \in Nat \ {0}
ASSUME LiveSegmentsAssumption == LiveSegments \cap (Names \cup Wildcards \cup {"t*"}) = {}
ASSUME ExpressionAssumption ==
  \A g \in DOMAIN Expression : {g} \cup Expression[g] \subseteq Seq(Segments)

VARIABLES left, right
globVars == <<left, right>>

\* Removal of a trailing "/*" or "/**"; a lone "**" has no slash to remove.
withoutWildcardSuffix(g) ==
  IF Len(g) > 1 /\ Last(g) \in Wildcards THEN Front(g) ELSE g

\* The prefixes are compared as text: a wildcard inside them is a character.
comparable_oneWay(l, r) ==   \* mutant: forgets that right may contain left
  IsPrefix(withoutWildcardSuffix(l), withoutWildcardSuffix(r))
comparable(l, r) ==
  LET lp == withoutWildcardSuffix(l)  rp == withoutWildcardSuffix(r) IN
  IsPrefix(lp, rp) \/ IsPrefix(rp, lp)

hasLive(g) == \E i \in 1..Len(g) : g[i] \in LiveSegments

\* Each * becomes [^/]*, so ** matches one segment as well, and the text it is
\* matched against may itself hold wildcard characters.
segmentMatches(s, text) ==
  \/ s = text
  \/ s \in Wildcards
  \/ s = "t*" /\ text \in {"ta", "tb"}

\* What a live segment matches is up to its expression, which need not match the
\* segment itself nor keep to the segments of the text.
patternMatches(l, r) ==
  IF hasLive(l)
  THEN r \in Expression[l]
  ELSE Len(l) = Len(r) /\ \A i \in 1..Len(l) : segmentMatches(l[i], r[i])

\* The constructor of the expression throws, if the prefixes do not decide first.
throws(l, r) == ~comparable(l, r) /\ hasLive(l) /\ l \notin DOMAIN Expression

overlaps(l, r) == comparable(l, r) \/ (~throws(l, r) /\ patternMatches(l, r))
----------------------------------------------------------------------------
GlobInit == \E a, b \in Segments : left = <<a>> /\ right = <<b>>

DeepenLeft ==
  /\ Len(left) < MaxDepth
  /\ \E s \in Segments : left' = Append(left, s)
  /\ UNCHANGED right

DeepenRight ==
  /\ Len(right) < MaxDepth
  /\ \E s \in Segments : right' = Append(right, s)
  /\ UNCHANGED left

GlobNext == DeepenLeft \/ DeepenRight

GlobSpec == GlobInit /\ [][GlobNext]_globVars
----------------------------------------------------------------------------
\* A live segment is the name of a file as good as any other.
FileNames == Names \cup LiveSegments
Paths == UNION {[1..n -> FileNames] : n \in 1..MaxDepth}

\* The files gateReview lets a packet with this glob change. A path the glob
\* names as one of its own directories is not a file.
permits(g, f) == overlaps(g, f) /\ ~IsStrictPrefix(f, withoutWildcardSuffix(g))

shareFile == \E f \in Paths : permits(left, f) /\ permits(right, f)

\* Names, possibly with a wildcard as the last segment: src/a.ts, src/[id].ts,
\* src/a/**. A plain glob has no live name.
isSpelled(g) ==
  \A i \in 1..Len(g) : g[i] \in FileNames \/ (i = Len(g) /\ i > 1 /\ g[i] \in Wildcards)
isPlain(g) == isSpelled(g) /\ ~hasLive(g)

\* For a packet whose globs are plain the conflict check answers, and it refuses the
\* packet only for a file that both packets could change. If the other packet's globs
\* are plain too it refuses it for every such file, and the order of the operands is
\* irrelevant. Nothing keeps other globs out of a write set: of those with a live
\* name or a wildcard inside, neither is true.
PlainGlobsExact ==
  isPlain(left) =>
    /\ ~throws(left, right)
    /\ isSpelled(right) /\ overlaps(left, right) => shareFile
    /\ isPlain(right) => /\ shareFile => overlaps(left, right)
                         /\ overlaps(left, right) <=> overlaps(right, left)
=============================================================================
