--------------------------- MODULE MCPreprocessor ---------------------------
(***************************************************************************)
(* Finite sets of document trees for Preprocessor.  Each is every tree     *)
(* over a small alphabet of lines, chosen for one of the questions.        *)
(***************************************************************************)
EXTENDS Preprocessor, Functions

CONSTANTS a, b, x, y, Dash, Dots, Bars, Eqs

Upto(S, n) == UNION {[1 .. m -> S] : m \in 0 .. n}

Is(n)   == {{[name |-> n, negated |-> FALSE]}}
Not(n)  == {{[name |-> n, negated |-> TRUE]}}
Either  == Is(x) \cup Not(y)
Both    == {{[name |-> x, negated |-> FALSE], [name |-> y, negated |-> FALSE]}}

Plain(k)     == [kind |-> k, nl |-> TRUE]
Cut          == [kind |-> "text", nl |-> FALSE]
Attr(k, n)   == [kind |-> k, name |-> n, nl |-> TRUE]
If(k, c, s)  == [kind |-> k, cond |-> c, short |-> s, nl |-> TRUE]
On(k, c)     == [kind |-> k, cond |-> c, nl |-> TRUE]
Delim(d)     == [kind |-> "delimiter", delim |-> d, nl |-> TRUE]
Inc(f, pick) == [kind |-> "include", target |-> f, pick |-> pick, nl |-> TRUE]

\* Only the last line of a file lacks its newline.
CutsAtEnd(t) == \A f \in Files : \A i \in DOMAIN t[f] : ~t[f][i].nl => i = Len(t[f])

Tree(root, files) == [d \in Documents |-> IF d = Root THEN root ELSE files[d]]

\* Files that include each other, themselves, missing files and parts of files.
RootIncludes == Upto({Inc(a, All), Inc(b, All), Plain("text")}, 2) \ {<<>>}
FileLines == {Plain("text"), Plain("tag"), Cut} \cup {Inc(f, All) : f \in Files \cup {Missing}}
\* Tag lines stand in one of the files.
IncludeTrees ==
  {t \in {Tree(r, fs) : r \in RootIncludes, fs \in [Files -> Upto(FileLines, 2)]} :
     CutsAtEnd(t) /\ \A f \in Files \ {a} : Plain("tag") \notin Range(t[f])}

\* Conditional regions, attributes and verbatim blocks, some of them reaching
\* over the end of an included file.
CondLines ==
  {If("ifdef", Is(x), FALSE), If("ifndef", Either, FALSE), If("ifdef", Both, TRUE),
   On("ifeval", Not(x)), On("endif", {}), On("endif", Is(x)),
   Attr("define", x), Attr("undefine", x), Delim(Dash), Plain("text"), Inc(a, All)}
CondTrees ==
  {Tree(r, [f \in Files |-> l]) :
     r \in Upto(CondLines, 4),
     l \in {<<If("ifdef", Is(x), FALSE), Plain("text")>>, <<Attr("define", x)>>,
            <<Delim(Dash), On("endif", {})>>, <<If("ifndef", Is(x), TRUE)>>}}

\* Includes that leave out lines of a file, or are refused, after which nothing
\* is read.
Includes == {Inc(a, {1}), Inc(a, {2}), Inc(a, All), Plain("text")}
Refusals == {Inc(a, Malformed), Inc(Escaping, All), Inc(Missing, All)}
FilterTrees ==
  {Tree(r, [f \in Files |-> l]) :
     r \in Upto(Includes, 3) \cup {Append(s, refused) : s \in Upto(Includes, 2),
                                                      refused \in Refusals},
     l \in Upto({Plain("text"), Plain("tag"), Inc(a, All)}, 2)}

StrictTrees == FilterTrees \cup CondTrees

\* Blocks opened, closed and nested in each other, in tables and over includes.
BlockLines == {Delim(Dash), Delim(Dots), Delim(Bars), Delim(Eqs),
               Plain("blank"), Plain("metadata"), Inc(a, All)}
\* A file that the root does not include is empty.
BlockTrees ==
  LET parts == Upto({Delim(Dash), Delim(Dots), Delim(Bars), Plain("metadata")}, 2)
      With(r, l) == Tree(r, [f \in Files |-> IF f = a THEN l ELSE <<>>])
  IN {With(r, <<>>) : r \in Upto(BlockLines \ {Inc(a, All)}, 4)}
     \cup {With(r, l) : r \in {s \in Upto(BlockLines, 4) : Inc(a, All) \in Range(s)},
                        l \in parts}

PermissiveTrees == IncludeTrees \cup BlockTrees

\* A file whose last line has no newline, and lines after the include of it.
GluedTrees ==
  {Tree(<<Inc(a, All), Plain("text"), Plain("text")>>, [f \in Files |-> l]) :
     l \in {<<Cut>>, <<Plain("text"), Cut>>}}

\* For the second call on one Preprocessor, which sees what the first left.
RepeatTrees ==
  {Tree(r, [f \in Files |-> <<Plain("text")>>]) :
     r \in Upto({Attr("define", x), If("ifdef", Is(x), TRUE), Delim(Dash),
                 Inc(Missing, All), If("ifndef", Is(x), FALSE)}, 2)}
=============================================================================
