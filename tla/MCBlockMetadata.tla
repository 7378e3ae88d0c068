-------------------------- MODULE MCBlockMetadata --------------------------
(***************************************************************************)
(* Every class of block under every sequence of up to three entries, and   *)
(* tables of up to three cells, with spans and multipliers, on two lines.  *)
(***************************************************************************)
EXTENDS AttributedBlock

Given1 == {[key |-> k, value |-> n] : k \in {"title", "id", "role"}, n \in Names}
Given2 == {[key |-> "style", value |-> s] : s \in Styles}
Given3 == {[key |-> "options", value |-> o] :
             o \in {{"collapsible"}, {"reversed", "header"}, {}}}
Given4 == {[key |-> k, value |-> v] : k \in {"start", "level"}, v \in {0, 7, Invalid}}
Given5 == {[key |-> "reversed", value |-> ""], [key |-> "positional", value |-> None]}
Given6 == {[key |-> k, value |-> CHOOSE n \in Names : TRUE] : k \in {"attribution", "positional"}}
Some   == UNION {Given1, Given2, Given3, Given4, Given5, Given6}

UpTo(S, n) == UNION {[1 .. m -> S] : m \in 0 .. n}

ThreeEntries == (Given \ {"Table"}) \X UpTo(Some, 3)

Spec1(f, k) == <<[form |-> f, n |-> k]>>
AllSpecs == {Spec1("width", 3), Spec1("times", 2), Spec1("timesStyled", 2), Spec1("styled", 1),
             Spec1("blank", 1), Spec1("width", 2) \o Spec1("blank", 1),
             Spec1("width", 1) \o Spec1("styled", 1), Spec1("times", 2) \o Spec1("width", 1),
             Spec1("width", 1) \o Spec1("times", 2),
             Spec1("styled", 1) \o Spec1("styled", 1) \o Spec1("width", 2)}
Cols == {[key |-> "cols", value |-> s] : s \in AllSpecs}
TableEntries == {<<>>} \cup {<<c>> : c \in Cols}

\* .Title, [note] or [source], and an example.
TitledExamples ==
  {"Example"} \X {<<[key |-> "title", value |-> n], [key |-> "style", value |-> s]>> :
                   n \in Names, s \in {"note", "source"}}

AllInputs == ThreeEntries \cup {"Table"} \X TableEntries

Raw(l, m, c, r) == [line |-> l, mult |-> m, colspan |-> c, rowspan |-> r]
RawCells == {Raw(l, 1, c, r) : l \in 1 .. 2, c \in 1 .. 2, r \in 1 .. 2}
            \cup {Raw(l, m, 1, 1) : l \in 1 .. 2, m \in {2, 3}}
            \cup {Raw(l, 1, 3, 1) : l \in 1 .. 2}
SmallTables == {t \in UpTo(RawCells, 3) :
                  \A i, j \in DOMAIN t : i < j => t[i].line <= t[j].line}
=============================================================================
