------------------------------ MODULE TextDiff ------------------------------
(***************************************************************************)
(* The byte delta of src/ThinkingSpace: makeTextDiff keeps the longest     *)
(* common prefix and, in what is left, the longest common suffix of two    *)
(* texts, and stores the two differing middles; apply replays the delta on *)
(* a base that still has the removed middle at the same place.             *)
(* A text is a sequence; what a byte is does not matter here.              *)
(***************************************************************************)
EXTENDS Integers, Sequences, FiniteSetsExt

PrefixAgrees(before, after, n) == \A i \in 1..n : before[i] = after[i]

SuffixAgrees(before, after, n) ==
  \A i \in 0..n-1 : before[Len(before) - i] = after[Len(after) - i]

sharedLimit(before, after) ==
  IF Len(before) <= Len(after) THEN Len(before) ELSE Len(after)

commonPrefixBytes(before, after) ==
  Max({n \in 0..sharedLimit(before, after) : PrefixAgrees(before, after, n)})

\* Mutant: the suffix may overlap the prefix (suffixLimit not reduced).
OverlappingSuffixBytes(before, after, prefix) ==
  Max({n \in 0..sharedLimit(before, after) : SuffixAgrees(before, after, n)})

commonSuffixBytes(before, after, prefix) ==
  Max({n \in 0..(sharedLimit(before, after) - prefix) :
         SuffixAgrees(before, after, n)})

makeTextDiff(before, after) ==
  LET prefix == commonPrefixBytes(before, after)
      suffix == commonSuffixBytes(before, after, prefix)
  IN [commonPrefixBytes |-> prefix,
      commonSuffixBytes |-> suffix,
      removedText  |-> SubSeq(before, prefix + 1, Len(before) - suffix),
      insertedText |-> SubSeq(after, prefix + 1, Len(after) - suffix)]

(* ThinkingSpaceTextDiff::apply returns nullopt unless this holds. *)
TextDiffApplies(diff, base) ==
  /\ diff.commonPrefixBytes + diff.commonSuffixBytes <= Len(base)
  /\ SubSeq(base, diff.commonPrefixBytes + 1, Len(base) - diff.commonSuffixBytes)
       = diff.removedText

(* The text ThinkingSpaceTextDiff::apply returns when it applies. *)
TextDiffResult(diff, base) ==
  SubSeq(base, 1, diff.commonPrefixBytes)
    \o diff.insertedText
    \o SubSeq(base, Len(base) - diff.commonSuffixBytes + 1, Len(base))

(* The delta read backwards: what is removed is inserted and vice versa.   *)
Inverted(diff) ==
  [diff EXCEPT !.removedText = diff.insertedText,
               !.insertedText = diff.removedText]
=============================================================================
