--------------------------- MODULE MCDocumentBody ---------------------------
(***************************************************************************)
(* Every body of up to six sections and leaves, and every body of up to    *)
(* five lists and other blocks.                                            *)
(***************************************************************************)
EXTENDS DocumentBody

Upto(S, n) == UNION {[1 .. m -> S] : m \in 0 .. n}

Section(l) == [kind |-> "section", level |-> l]
Plain(k)   == [kind |-> k]
List(v, m) == [kind |-> "list", variant |-> v, meta |-> m]

SectionBodies == Upto({Section(l) : l \in Levels} \cup {Plain("leaf")}, 6)
ListBodies ==
  Upto({List(v, FALSE) : v \in Variants} \cup {List("ordered", TRUE)}
         \cup {Plain("leaf"), Plain("token")}, 5)
AllBodies == SectionBodies \cup ListBodies
=============================================================================
