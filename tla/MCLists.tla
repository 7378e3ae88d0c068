------------------------------ MODULE MCLists ------------------------------
(***************************************************************************)
(* Every sequence of up to six blocks over short lists of two kinds, "+"   *)
(* and others; every list of up to five items on three levels; paragraphs  *)
(* of up to five lines with "+" lines in them.                             *)
(***************************************************************************)
EXTENDS Lists

CONSTANTS m1, m2

UpTo(S, n) == UNION {[1 .. m -> S] : m \in 1 .. n}

AList(m, h, ls) == [kind |-> "list", marker |-> m, meta |-> h, levels |-> ls]
Plus  == [kind |-> "plus"]
Other == [kind |-> "other"]
Joint(ls) == [kind |-> "joint", lines |-> ls]

\* _merge_consecutive_lists has joined the neighbours that it could.
Merged(bs) == \A n \in 1 .. Len(bs) - 1 :
  bs[n].kind = "list" /\ bs[n + 1].kind = "list" =>
    bs[n + 1].meta \/ bs[n].marker # bs[n + 1].marker

Short == {AList(m1, FALSE, <<1, 2>>), AList(m1, TRUE, <<1>>), AList(m2, FALSE, <<2, 1>>),
          Plus, Other}

Bodies == {bs \in UpTo(Short, 6) : Merged(bs)}
Deep   == {<<AList(m1, FALSE, ls)>> \o rest :
             ls \in UpTo(1 .. 3, 5), rest \in {<<>>, <<Plus, Other>>}}
Written == {<<AList(m1, FALSE, <<1, 2>>), Joint(ls)>> \o rest :
              ls \in UpTo({"text", "plus"}, 5), rest \in {<<>>, <<Other>>, <<Plus, Other>>}}

AllSources == Bodies \cup Deep \cup Written
=============================================================================
