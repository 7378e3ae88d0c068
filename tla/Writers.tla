------------------------------- MODULE Writers -------------------------------
(***************************************************************************)
(* The two visitors that write a tree, over the same trees: the walk of    *)
(* the docutils backend, and when it is over the text of the serializer.   *)
(***************************************************************************)
EXTENDS DocutilsRenderer, TextShape

\* Reading what was written gives the structure that was written, as long as the
\* five things hold that the text cannot tell.
ReadsBack ==
  calls = <<>> /\ BlocksApart /\ FencesApart /\ ListsInItems /\ AttachedLast
  /\ NothingOnAdmonitions
    => Read(Written[1]) = Shape[1]

\* "Supports lossless round-trip serialization for all core AsciiDoc block and
\* inline node types, preserving structural boundaries" (serializer.py:11).
Lossless == calls = <<>> => Read(Written[1]) = Shape[1]
=============================================================================
