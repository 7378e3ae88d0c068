------------------------- MODULE PreprocessorProofs -------------------------
(***************************************************************************)
(* Theorems about Preprocessor, for all files, trees, delimiters and       *)
(* options.                                                                *)
(***************************************************************************)
EXTENDS Preprocessor, SequenceTheorems, FiniteSetTheorems, WellFoundedInduction, TLAPS

\* The types alone are not inductive: the line being read is a line of the
\* file because every call has only such lines to read.
AllTrees == Trees \cup LaterTrees

TypeInv == TypeOK /\ tree \in AllTrees /\ PendingExists

LEMMA TreeType == AllTrees \subseteq [Documents -> Seq(Line)]
  BY DocumentAssumption DEF AllTrees

\* A frame with some of its fields replaced, as the actions do it.
WithLines(f, p, n) == [f EXCEPT !.pending = p, !.num = n]
WithConds(f, c)    == [f EXCEPT !.conds = c]
WithMeta(f, m)     == [f EXCEPT !.meta = m]
WithVerb(f, v, m)  == [f EXCEPT !.verb = v, !.meta = m]

SameLines(f, g) == f.file = g.file /\ f.pending = g.pending /\ f.num = g.num
SameState(f, g) == f.conds = g.conds /\ f.verb = g.verb /\ f.meta = g.meta

LEMMA FrameLines ==
  ASSUME NEW f \in Frame, NEW p \in SUBSET Nat, NEW n \in Nat
  PROVE  /\ WithLines(f, p, n) \in Frame
         /\ WithLines(f, p, n).file = f.file
         /\ WithLines(f, p, n).pending = p
         /\ WithLines(f, p, n).num = n
         /\ SameState(WithLines(f, p, n), f)
  BY Zenon DEF Frame, WithLines, SameState

LEMMA FrameConds ==
  ASSUME NEW f \in Frame, NEW c \in Seq(CondFrame)
  PROVE  /\ WithConds(f, c) \in Frame
         /\ SameLines(WithConds(f, c), f)
         /\ WithConds(f, c).conds = c
         /\ WithConds(f, c).verb = f.verb
         /\ WithConds(f, c).meta = f.meta
  BY Zenon DEF Frame, WithConds, SameLines

LEMMA FrameMeta ==
  ASSUME NEW f \in Frame, NEW m \in BOOLEAN
  PROVE  /\ WithMeta(f, m) \in Frame
         /\ SameLines(WithMeta(f, m), f)
         /\ WithMeta(f, m).conds = f.conds
         /\ WithMeta(f, m).verb = f.verb
         /\ WithMeta(f, m).meta = m
  BY Zenon DEF Frame, WithMeta, SameLines

LEMMA FrameVerb ==
  ASSUME NEW f \in Frame, NEW v \in Delims \cup {None}, NEW m \in BOOLEAN
  PROVE  /\ WithVerb(f, v, m) \in Frame
         /\ SameLines(WithVerb(f, v, m), f)
         /\ WithVerb(f, v, m).conds = f.conds
         /\ WithVerb(f, v, m).verb = v
         /\ WithVerb(f, v, m).meta = m
  BY Zenon DEF Frame, WithVerb, SameLines

\* Of the numbers that are left there is a least.
LEMMA LeastNumber ==
  ASSUME NEW S \in SUBSET Nat, S # {}
  PROVE  LET n == CHOOSE x \in S : \A y \in S : x <= y
         IN  n \in S /\ \A m \in S : n <= m
<1> DEFINE R == OpToRel(<, Nat)
<1>1. \A m, n \in Nat : m < n => <<m, n>> \in R
  BY DEF OpToRel
<1>2. IsWellFoundedOn(R, Nat)
  BY NatLessThanWellFounded
<1> HIDE DEF R
<1>3. PICK x \in S : \A y \in S : ~ (<<y, x>> \in R)
  BY <1>2, WFMin
<1>4. \A y \in S : ~ (y < x)
  BY <1>1, <1>3
<1>5. \A y \in S : x <= y
  BY <1>4
<1> QED BY <1>5

LEMMA ReadingFacts ==
  ASSUME TypeInv, Reading
  PROVE  /\ Len(stack) \in Nat \ {0}
         /\ Top \in Frame
         /\ At \in 1 .. Len(tree[Top.file])
         /\ Cur \in Line
         /\ Past \in Frame
         /\ Past.file = Top.file
         /\ At \in Top.pending /\ \A m \in Top.pending : At <= m
         /\ Past.pending = Top.pending \ {At}
         /\ Past.num = Top.num + 1
         /\ SameState(Past, Top)
         /\ Past.pending \subseteq 1 .. Len(tree[Top.file])
<1>1. Len(stack) \in Nat \ {0} /\ stack \in Seq(Frame)
  BY DEF TypeInv, TypeOK, Reading
<1>2. Top \in Frame /\ Top.pending \subseteq 1 .. Len(tree[Top.file])
  BY <1>1 DEF TypeInv, PendingExists, Top
<1>3. At \in Top.pending /\ \A m \in Top.pending : At <= m
  BY <1>2, LeastNumber DEF Reading, At, Frame
<1>4. tree \in [Documents -> Seq(Line)] /\ Top.file \in Documents
  BY <1>2, TreeType DEF TypeInv, Frame
<1>5. Cur \in Line
  BY <1>2, <1>3, <1>4 DEF Cur
<1>6. Top.pending \in SUBSET Nat /\ Top.num \in Nat
  BY <1>2 DEF Frame
<1>7. Top.pending \ {At} \in SUBSET Nat /\ Top.num + 1 \in Nat
  BY <1>6
<1> DEFINE p == Top.pending \ {At}
           n == Top.num + 1
<1>8. Past = WithLines(Top, p, n)
  BY DEF Past, WithLines
<1> HIDE DEF p, n
<1>9. p \in SUBSET Nat /\ n \in Nat
  BY <1>7 DEF p, n
<1>10. /\ Past \in Frame /\ Past.file = Top.file /\ Past.pending = p
       /\ Past.num = n /\ SameState(Past, Top)
  BY ZenonT(30), <1>2, <1>8, <1>9, FrameLines
<1> QED BY <1>1, <1>2, <1>3, <1>5, <1>10 DEF p, n

LEMMA ConsumeFacts ==
  ASSUME TypeInv, Reading, NEW frame \in Frame,
         SameLines(frame, Past), Consume(frame), tree' = tree
  PROVE  /\ stack' \in Seq(Frame) /\ stack' # <<>>
         /\ Len(stack') = Len(stack)
         /\ \A i \in 1 .. Len(stack) :
              stack'[i] = IF i = Len(stack) THEN frame ELSE stack[i]
         /\ PendingExists'
<1> USE ReadingFacts
<1>1. stack \in Seq(Frame) /\ Len(stack) \in 1 .. Len(stack)
  BY DEF TypeInv, TypeOK
<1>2. stack' \in Seq(Frame) /\ Len(stack') = Len(stack) /\ stack' # <<>>
  BY <1>1 DEF Consume
<1>3. \A i \in 1 .. Len(stack') : stack'[i] = IF i = Len(stack) THEN frame ELSE stack[i]
  BY <1>1, <1>2 DEF Consume
<1>4. frame.pending \subseteq 1 .. Len(tree[frame.file])
  BY DEF SameLines
<1>5. PendingExists'
  BY <1>2, <1>3, <1>4 DEF PendingExists, TypeInv
<1> QED BY <1>2, <1>3, <1>5

LEMMA WriteFacts ==
  ASSUME TypeInv, Reading, NEW kind \in {"line", "start", "end", "unresolved"},
         NEW delim \in Delims \cup {None}, NEW nl \in BOOLEAN,
         Write(kind, delim, nl)
  PROVE  output' \in Seq(Piece)
<1>1. Top.file \in Documents /\ At \in Nat
  BY ReadingFacts DEF Frame
<1>2. [from |-> <<Top.file, At>>, kind |-> kind, delim |-> delim, nl |-> nl] \in Piece
  BY <1>1 DEF Piece
<1> QED BY <1>2, AppendProperties DEF Write, TypeInv, TypeOK

LEMMA RecordFacts ==
  ASSUME TypeInv, Reading, Record PROVE lineMap' \in Seq(Documents \X Nat)
<1>1. Top.file \in Documents /\ Top.num \in Nat
  BY ReadingFacts DEF Frame
<1> QED BY <1>1, AppendProperties DEF Record, TypeInv, TypeOK

\* What every action that only consumes a line has in common.
LEMMA ConsumeType ==
  ASSUME TypeInv, Reading, NEW frame \in Frame, SameLines(frame, Past),
         Consume(frame), UNCHANGED <<calls, tree, status, parserView, crossed>>,
         attributes' \subseteq Names, delims' \in Seq(Delims),
         output' \in Seq(Piece), lineMap' \in Seq(Documents \X Nat),
         included' \subseteq Files, preprocessed' \in BOOLEAN,
         warned' \subseteq Warnings
  PROVE  TypeInv'
<1>1. stack' \in Seq(Frame) /\ stack' # <<>> /\ PendingExists'
  BY ConsumeFacts
<1> QED BY <1>1 DEF TypeInv, TypeOK, Reading, parserView

LEMMA PopType ==
  ASSUME NEW S, NEW s \in Seq(S)
  PROVE  Pop(s) \in Seq(S)
  BY SubSeqProperties DEF Pop

LEMMA EndifType == TypeInv /\ Endif => TypeInv'
<1> SUFFICES ASSUME TypeInv, Endif PROVE TypeInv'
  OBVIOUS
<1>1. CASE Raise("mismatch") /\ UNCHANGED warned
  <2>1. stack' = <<>> /\ status' = "mismatch" /\ UNCHANGED warned
    BY <1>1 DEF Raise
  <2> QED BY <2>1 DEF Endif, TypeInv, TypeOK, PendingExists, parserView, Errors
<1>2. CASE /\ Consume([Past EXCEPT !.conds = Pop(@)])
           /\ warned' \subseteq warned \cup {"mismatch"}
           /\ UNCHANGED status
  <2>1. Reading /\ Past \in Frame
    BY ReadingFacts DEF Endif
  <2>2. Pop(Past.conds) \in Seq(CondFrame)
    BY <2>1, PopType DEF Frame
  <2> DEFINE frame == WithConds(Past, Pop(Past.conds))
  <2>3. frame \in Frame /\ SameLines(frame, Past)
    BY <2>1, <2>2, FrameConds
  <2>4. Consume(frame)
    BY <1>2 DEF WithConds
  <2> HIDE DEF frame
  <2> QED BY <1>2, <2>1, <2>3, <2>4, ConsumeType
          DEF Endif, TypeInv, TypeOK, parserView, Warnings
<1> QED BY <1>1, <1>2 DEF Endif

LEMMA OpenConditionalType == TypeInv /\ OpenConditional => TypeInv'
<1> SUFFICES ASSUME TypeInv, OpenConditional PROVE TypeInv'
  OBVIOUS
<1>1. Reading /\ Past \in Frame /\ Cur \in Line
  BY ReadingFacts DEF OpenConditional
<1> DEFINE cond  == [active |-> Holds(Cur.cond) # (Cur.kind = "ifndef"),
                     name   |-> IF Cur.kind = "ifeval" THEN {} ELSE Cur.cond]
           frame == WithConds(Past, Append(Past.conds, cond))
<1>2. cond \in CondFrame
  <2>1. Cur.kind # "ifeval" => Cur.cond \in Condition
    BY <1>1 DEF OpenConditional, Line
  <2>2. {} \in Condition
    BY DEF Condition
  <2>3. cond.name \in Condition /\ cond.active \in BOOLEAN
    BY <2>1, <2>2
  <2> QED BY <2>3 DEF CondFrame
<1> HIDE DEF cond
<1>3. frame \in Frame /\ SameLines(frame, Past)
  BY <1>1, <1>2, FrameConds, AppendProperties DEF Frame
<1>4. Consume(frame)
  BY DEF OpenConditional, WithConds, cond
<1> HIDE DEF frame
<1> QED BY <1>1, <1>3, <1>4, ConsumeType
        DEF OpenConditional, TypeInv, TypeOK, parserView

LEMMA PastIsFrame ==
  ASSUME TypeInv, Reading PROVE Past \in Frame /\ SameLines(Past, Past)
  BY ReadingFacts DEF SameLines

LEMMA ShorthandType == TypeInv /\ Shorthand => TypeInv'
<1> SUFFICES ASSUME TypeInv, Shorthand PROVE TypeInv'
  OBVIOUS
<1>1. Reading /\ Cur \in Line
  BY ReadingFacts DEF Shorthand
<1>2. Cur.nl \in BOOLEAN
  BY <1>1 DEF Line
<1>3. output' \in Seq(Piece) /\ lineMap' \in Seq(Documents \X Nat)
  BY <1>1, <1>2, WriteFacts, RecordFacts DEF Shorthand, TypeInv, TypeOK
<1> QED BY <1>1, <1>3, PastIsFrame, ConsumeType
        DEF Shorthand, TypeInv, TypeOK, parserView

LEMMA SkipInactiveType == TypeInv /\ SkipInactive => TypeInv'
  BY PastIsFrame, ConsumeType DEF SkipInactive, TypeInv, TypeOK, parserView

\* Past with its metadata_pending set is what four of the actions leave.
LEMMA MetaIsFrame ==
  ASSUME TypeInv, Reading, NEW m \in BOOLEAN
  PROVE  /\ WithMeta(Past, m) \in Frame /\ SameLines(WithMeta(Past, m), Past)
         /\ Past.meta \in BOOLEAN
  BY ReadingFacts, FrameMeta DEF Frame

\* The text and the line map after a line that is written and recorded.
LEMMA LineWritten ==
  ASSUME TypeInv, Reading, NEW kind \in {"line", "start", "end", "unresolved"},
         NEW delim \in Delims \cup {None}, NEW nl \in {Cur.nl, TRUE},
         Write(kind, delim, nl), Record
  PROVE  output' \in Seq(Piece) /\ lineMap' \in Seq(Documents \X Nat)
<1>1. Cur.nl \in BOOLEAN
  BY ReadingFacts DEF Line
<1> QED BY <1>1, WriteFacts, RecordFacts

LEMMA SetAttributeType == TypeInv /\ SetAttribute => TypeInv'
<1> SUFFICES ASSUME TypeInv, SetAttribute PROVE TypeInv'
  OBVIOUS
<1>1. Reading /\ Cur \in Line
  BY ReadingFacts DEF SetAttribute, Live
<1>2. attributes' \subseteq Names
  <2>1. Cur.kind \in {"define", "undefine"} => Cur.name \in Names
    BY <1>1 DEF Line
  <2> QED BY <2>1 DEF SetAttribute, TypeInv, TypeOK
<1>3. output' \in Seq(Piece) /\ lineMap' \in Seq(Documents \X Nat)
  BY <1>1, LineWritten DEF SetAttribute
<1> QED BY <1>1, <1>2, <1>3, PastIsFrame, ConsumeType
        DEF SetAttribute, TypeInv, TypeOK, parserView

LEMMA PlainLineType == TypeInv /\ PlainLine => TypeInv'
<1> SUFFICES ASSUME TypeInv, PlainLine PROVE TypeInv'
  OBVIOUS
<1>1. Reading
  BY DEF PlainLine, Live
<1> DEFINE frame == WithMeta(Past, Past.meta /\ Cur.kind # "blank")
<1>2. frame \in Frame /\ SameLines(frame, Past)
  BY <1>1, MetaIsFrame
<1>3. Consume(frame)
  BY DEF PlainLine, WithMeta
<1>4. output' \in Seq(Piece) /\ lineMap' \in Seq(Documents \X Nat)
  BY <1>1, LineWritten DEF PlainLine
<1> HIDE DEF frame
<1> QED BY <1>1, <1>2, <1>3, <1>4, ConsumeType
        DEF PlainLine, TypeInv, TypeOK, parserView

LEMMA VerbatimLineType == TypeInv /\ VerbatimLine => TypeInv'
<1> SUFFICES ASSUME TypeInv, VerbatimLine PROVE TypeInv'
  OBVIOUS
<1>1. Reading
  BY DEF VerbatimLine, Live
<1> DEFINE frame == WithMeta(Past, Past.meta /\ Cur.kind # "blank")
<1>2. frame \in Frame /\ SameLines(frame, Past)
  BY <1>1, MetaIsFrame
<1>3. Consume(frame)
  BY DEF VerbatimLine, WithMeta
<1>4. output' \in Seq(Piece) /\ lineMap' \in Seq(Documents \X Nat)
  BY <1>1, LineWritten DEF VerbatimLine
<1> HIDE DEF frame
<1> QED BY <1>1, <1>2, <1>3, <1>4, ConsumeType
        DEF VerbatimLine, TypeInv, TypeOK, parserView

LEMMA MetadataLineType == TypeInv /\ MetadataLine => TypeInv'
<1> SUFFICES ASSUME TypeInv, MetadataLine PROVE TypeInv'
  OBVIOUS
<1>1. Reading
  BY DEF MetadataLine, Live
<1>2. Consume(WithMeta(Past, TRUE))
  BY DEF MetadataLine, WithMeta
<1>3. output' \in Seq(Piece) /\ lineMap' \in Seq(Documents \X Nat)
  BY <1>1, LineWritten DEF MetadataLine
<1> QED BY <1>1, <1>2, <1>3, MetaIsFrame, ConsumeType
        DEF MetadataLine, TypeInv, TypeOK, parserView

LEMMA BlockDelimiterType == TypeInv /\ BlockDelimiter => TypeInv'
<1> SUFFICES ASSUME TypeInv, BlockDelimiter PROVE TypeInv'
  OBVIOUS
<1>1. Reading /\ Cur \in Line /\ delims \in Seq(Delims)
  BY ReadingFacts DEF BlockDelimiter, Live, TypeInv, TypeOK
<1>2. Consume(WithMeta(Past, FALSE))
  BY DEF BlockDelimiter, WithMeta
<1>3. output' \in Seq(Piece) /\ lineMap' \in Seq(Documents \X Nat)
  BY <1>1, LineWritten DEF BlockDelimiter
<1>4. Cur.delim \in Delims
  BY <1>1 DEF BlockDelimiter, Line
<1>5. delims' \in Seq(Delims)
  BY <1>1, <1>4, PopType, AppendProperties DEF BlockDelimiter
<1> QED BY <1>1, <1>2, <1>3, <1>5, MetaIsFrame, ConsumeType
        DEF BlockDelimiter, TypeInv, TypeOK, parserView

LEMMA OpenVerbatimType == TypeInv /\ OpenVerbatim => TypeInv'
<1> SUFFICES ASSUME TypeInv, OpenVerbatim PROVE TypeInv'
  OBVIOUS
<1>1. Reading /\ Cur \in Line /\ delims \in Seq(Delims) /\ Past \in Frame
  BY ReadingFacts DEF OpenVerbatim, Live, TypeInv, TypeOK
<1>2. Cur.delim \in Delims
  BY <1>1 DEF OpenVerbatim, Line
<1>3. Consume(WithVerb(Past, Cur.delim, FALSE))
  BY DEF OpenVerbatim, WithVerb
<1>4. output' \in Seq(Piece) /\ lineMap' \in Seq(Documents \X Nat)
  BY <1>1, <1>2, LineWritten DEF OpenVerbatim
<1>5. delims' \in Seq(Delims)
  BY <1>1, <1>2, AppendProperties DEF OpenVerbatim
<1> QED BY <1>1, <1>2, <1>3, <1>4, <1>5, FrameVerb, ConsumeType
        DEF OpenVerbatim, TypeInv, TypeOK, parserView

LEMMA CloseVerbatimType == TypeInv /\ CloseVerbatim => TypeInv'
<1> SUFFICES ASSUME TypeInv, CloseVerbatim PROVE TypeInv'
  OBVIOUS
<1>1. Reading /\ Cur \in Line /\ delims \in Seq(Delims) /\ Past \in Frame
  BY ReadingFacts DEF CloseVerbatim, Live, TypeInv, TypeOK
<1>2. Cur.delim \in Delims
  BY <1>1 DEF CloseVerbatim, Closes, Line
<1>3. Consume(WithVerb(Past, None, FALSE))
  BY DEF CloseVerbatim, WithVerb
<1>4. output' \in Seq(Piece) /\ lineMap' \in Seq(Documents \X Nat)
  BY <1>1, <1>2, LineWritten DEF CloseVerbatim
<1>5. delims' \in Seq(Delims) /\ warned' \subseteq Warnings
  BY <1>1, <1>2, PopType DEF CloseVerbatim, Warnings, TypeInv, TypeOK
<1> QED BY <1>1, <1>2, <1>3, <1>4, <1>5, FrameVerb, ConsumeType
        DEF CloseVerbatim, TypeInv, TypeOK, parserView

LEMMA RaiseType ==
  ASSUME TypeInv, NEW error \in Errors, Raise(error),
         UNCHANGED <<calls, tree, attributes, delims, output, lineMap, warned,
                     parserView, crossed>>,
         included' \subseteq Files, preprocessed' \in BOOLEAN
  PROVE  TypeInv'
<1>1. stack' = <<>> /\ status' = error /\ status' # "running"
  BY DEF Raise, Errors
<1> QED BY <1>1 DEF TypeInv, TypeOK, PendingExists, parserView, Errors

LEMMA IncludeMissingType == TypeInv /\ IncludeMissing => TypeInv'
<1> SUFFICES ASSUME TypeInv, IncludeMissing PROVE TypeInv'
  OBVIOUS
<1>1. Reading /\ preprocessed' \in BOOLEAN
  BY DEF IncludeMissing, Including, Live
<1>2. CASE Strict
  BY <1>1, <1>2, RaiseType DEF IncludeMissing, Errors, TypeInv, TypeOK
<1>3. CASE ~Strict
  <2>1. output' \in Seq(Piece)
    BY <1>1, <1>3, WriteFacts DEF IncludeMissing
  <2>2. warned' \subseteq Warnings
    BY <1>3 DEF IncludeMissing, Warnings, TypeInv, TypeOK
  <2> QED BY <1>1, <1>3, <2>1, <2>2, PastIsFrame, ConsumeType
          DEF IncludeMissing, TypeInv, TypeOK, parserView
<1> QED BY <1>2, <1>3

LEMMA IncludeRefusedType == TypeInv /\ IncludeRefused => TypeInv'
<1> SUFFICES ASSUME TypeInv, IncludeRefused PROVE TypeInv'
  OBVIOUS
<1>1. PICK error \in Errors : Raise(error) /\ included' \subseteq Files
  BY DEF IncludeRefused, Errors, TypeInv, TypeOK
<1> QED BY <1>1, RaiseType DEF IncludeRefused, Including

\* The lines kept of an included file are lines of that file.
LEMMA KeptType ==
  ASSUME TypeInv, Expand
  PROVE  /\ Kept \subseteq 1 .. Len(tree[Cur.target])
         /\ Kept \in SUBSET Nat
         /\ Cur.target \in Files
<1>1. Kept \subseteq 1 .. Len(tree[Cur.target])
  BY DEF Kept
<1>2. Cur.target \in Files
  BY DEF Expand
<1>3. tree[Cur.target] \in Seq(Line)
  BY <1>2, TreeType DEF TypeInv, Documents
<1> QED BY <1>1, <1>2, <1>3

\* The stack after an include: the caller past the directive, and the new call.
LEMMA ExpandFacts ==
  ASSUME TypeInv, Expand
  PROVE  /\ NewFrame(Cur.target, Kept, Top.verb) \in Frame
         /\ stack' \in Seq(Frame) /\ Len(stack') = Len(stack) + 1
         /\ \A i \in 1 .. Len(stack) + 1 :
              stack'[i] = IF i = Len(stack) + 1
                            THEN NewFrame(Cur.target, Kept, Top.verb)
                            ELSE IF i = Len(stack) THEN Past ELSE stack[i]
<1>1. Reading /\ Top \in Frame /\ Past \in Frame
  BY ReadingFacts DEF Expand, Including, Live
<1> DEFINE new == NewFrame(Cur.target, Kept, Top.verb)
           moved == [stack EXCEPT ![Len(stack)] = Past]
<1>2. new \in Frame
  <2>1. Top.verb \in Delims \cup {None} /\ delims \in Seq(Delims)
    BY <1>1 DEF Frame, TypeInv, TypeOK
  <2> QED BY <2>1, KeptType DEF NewFrame, Frame, Documents
<1> HIDE DEF new
<1>3. stack \in Seq(Frame) /\ Len(stack) \in Nat \ {0}
  BY <1>1, ReadingFacts DEF TypeInv, TypeOK
<1>4. /\ moved \in Seq(Frame) /\ Len(moved) = Len(stack)
      /\ \A i \in 1 .. Len(stack) :
           moved[i] = IF i = Len(stack) THEN Past ELSE stack[i]
  BY <1>1, <1>3
<1> HIDE DEF moved
<1>5. stack' = Append(moved, new)
  BY DEF Expand, moved, new
<1>6. /\ stack' \in Seq(Frame) /\ Len(stack') = Len(stack) + 1
      /\ \A i \in 1 .. Len(stack) + 1 :
           stack'[i] = IF i = Len(stack) + 1 THEN new ELSE moved[i]
  BY <1>2, <1>3, <1>4, <1>5
<1>7. \A i \in 1 .. Len(stack) + 1 :
        stack'[i] = IF i = Len(stack) + 1 THEN new
                      ELSE IF i = Len(stack) THEN Past ELSE stack[i]
  BY <1>3, <1>4, <1>6
<1> QED BY <1>2, <1>6, <1>7 DEF new

LEMMA ExpandType == TypeInv /\ Expand => TypeInv'
<1> SUFFICES ASSUME TypeInv, Expand PROVE TypeInv'
  OBVIOUS
<1>1. Reading /\ Len(stack) \in Nat \ {0}
  BY ReadingFacts DEF Expand, Including, Live
<1>2. stack' \in Seq(Frame) /\ stack' # <<>>
  BY <1>1, ExpandFacts
<1>3. PendingExists'
  <2>1. Past.pending \subseteq 1 .. Len(tree[Past.file])
    BY <1>1, ReadingFacts
  <2>2. /\ NewFrame(Cur.target, Kept, Top.verb).pending = Kept
        /\ NewFrame(Cur.target, Kept, Top.verb).file = Cur.target
    BY DEF NewFrame
  <2>3. tree' = tree
    BY DEF Expand
  <2> SUFFICES ASSUME NEW i \in 1 .. Len(stack) + 1
               PROVE  stack'[i].pending \subseteq 1 .. Len(tree[stack'[i].file])
    BY <2>3, ExpandFacts DEF PendingExists
  <2>4. CASE i = Len(stack) + 1
    BY <2>2, <2>4, ExpandFacts, KeptType
  <2>5. CASE i = Len(stack)
    BY <1>1, <2>1, <2>5, ExpandFacts
  <2>6. CASE i \in 1 .. Len(stack) - 1
    <3>1. stack'[i] = stack[i] /\ i \in 1 .. Len(stack)
      BY <1>1, <2>6, ExpandFacts
    <3> QED BY <3>1 DEF TypeInv, PendingExists
  <2> QED BY <1>1, <2>4, <2>5, <2>6
<1> QED BY <1>1, <1>2, <1>3, KeptType
        DEF Expand, Including, Reading, TypeInv, TypeOK, parserView

LEMMA ReturnFacts ==
  ASSUME TypeInv, Return
  PROVE  /\ stack \in Seq(Frame) /\ Len(stack) \in Nat /\ Len(stack) > 1
         /\ stack' \in Seq(Frame) /\ Len(stack') = Len(stack) - 1
         /\ \A i \in 1 .. Len(stack) - 1 : stack'[i] = stack[i]
<1>1. stack \in Seq(Frame) /\ stack # <<>> /\ Len(stack) > 1
  BY DEF TypeInv, TypeOK, Return
<1>2. stack' = SubSeq(stack, 1, Len(stack) - 1)
  BY <1>1 DEF Return, Pop
<1> QED BY <1>1, <1>2

LEMMA ReturnType == TypeInv /\ Return => TypeInv'
<1> SUFFICES ASSUME TypeInv, Return PROVE TypeInv'
  OBVIOUS
<1>1. stack' # <<>> /\ PendingExists'
  <2>1. stack' # <<>>
    BY ReturnFacts
  <2>2. tree' = tree
    BY DEF Return
  <2> SUFFICES ASSUME NEW i \in 1 .. Len(stack')
               PROVE  stack'[i].pending \subseteq 1 .. Len(tree[stack'[i].file])
    BY <2>1, <2>2 DEF PendingExists
  <2>3. stack'[i] = stack[i] /\ i \in 1 .. Len(stack)
    BY ReturnFacts
  <2> QED BY <2>3 DEF TypeInv, PendingExists
<1>2. warned' \subseteq Warnings /\ crossed' \in BOOLEAN
  BY DEF Return, Warnings, TypeInv, TypeOK
<1> QED BY <1>1, <1>2, ReturnFacts DEF Return, TypeInv, TypeOK, parserView

LEMMA FinishType == TypeInv /\ Finish => TypeInv'
<1> SUFFICES ASSUME TypeInv, Finish PROVE TypeInv'
  OBVIOUS
<1>1. Top \in Frame
  BY DEF Finish, Top, TypeInv, TypeOK
<1>2. rootVerb' \in Delims \cup {None} /\ rootDelims' \in Seq(Delims)
  BY <1>1 DEF Finish, Frame, TypeInv, TypeOK
<1> QED BY <1>2 DEF Finish, TypeInv, TypeOK, PendingExists, parserView

LEMMA ProcessType == TypeInv /\ Process => TypeInv'
<1> SUFFICES ASSUME TypeInv, Process PROVE TypeInv'
  OBVIOUS
<1>1. tree' \in AllTrees /\ tree' \in [Documents -> Seq(Line)]
  BY TreeType DEF Process, TypeInv, AllTrees
<1> DEFINE lines == 1 .. Len(tree'[Root])
<1>2. lines \in SUBSET Nat
  <2>1. tree'[Root] \in Seq(Line)
    BY <1>1 DEF Documents
  <2>2. Len(tree'[Root]) \in Nat
    BY <2>1
  <2> QED BY <2>2
<1> HIDE DEF lines
<1>3. PICK f : /\ f = [file |-> Root, pending |-> lines, num |-> 0, conds |-> <<>>,
                       verb |-> None, meta |-> FALSE, base |-> <<>>]
               /\ stack' = <<f>>
  BY DEF Process, lines
<1>4. f \in Frame /\ f.file = Root /\ f.pending = lines
  BY <1>2, <1>3 DEF Frame, Documents
<1>5. stack' \in Seq(Frame) /\ stack' # <<>> /\ Len(stack') = 1 /\ stack'[1] = f
  BY <1>3, <1>4
<1>6. PendingExists'
  BY <1>2, <1>4, <1>5 DEF PendingExists, lines
<1>7. calls' \in 0 .. MaxCalls
  BY OptionAssumption DEF Process, TypeInv, TypeOK
<1>8. /\ delims' \in Seq(Delims) /\ output' \in Seq(Piece)
      /\ lineMap' \in Seq(Documents \X Nat)
  BY DEF Process
<1>9. /\ status' \in {"idle", "running", "done"} \cup Errors
      /\ included' \subseteq Files /\ preprocessed' \in BOOLEAN
      /\ warned' \subseteq Warnings /\ crossed' \in BOOLEAN
      /\ status' = "running" <=> stack' # <<>>
  BY <1>5 DEF Process
<1>10. /\ attributes' \subseteq Names
       /\ rootVerb' \in Delims \cup {None} /\ rootDelims' \in Seq(Delims)
  BY DEF Process, TypeInv, TypeOK, parserView
<1> QED BY <1>1, <1>5, <1>6, <1>7, <1>8, <1>9, <1>10 DEF TypeInv, TypeOK

LEMMA InitType == Init => TypeInv
<1> SUFFICES ASSUME Init PROVE TypeInv
  OBVIOUS
<1>1. tree \in AllTrees /\ tree \in [Documents -> Seq(Line)]
  BY TreeType DEF Init, AllTrees
<1>2. calls \in 0 .. MaxCalls /\ attributes \subseteq Names
  BY OptionAssumption DEF Init
<1>3. /\ stack \in Seq(Frame) /\ delims \in Seq(Delims) /\ output \in Seq(Piece)
      /\ lineMap \in Seq(Documents \X Nat) /\ rootDelims \in Seq(Delims)
  BY DEF Init
<1>4. PendingExists
  BY DEF Init, PendingExists
<1>5. /\ status \in {"idle", "running", "done"} \cup Errors
      /\ included \subseteq Files /\ preprocessed \in BOOLEAN /\ warned \subseteq Warnings
      /\ rootVerb \in Delims \cup {None} /\ crossed \in BOOLEAN
      /\ status = "running" <=> stack # <<>>
  BY DEF Init
<1> QED BY <1>1, <1>2, <1>3, <1>4, <1>5 DEF TypeInv, TypeOK

LEMMA NextType == TypeInv /\ [Next]_vars => TypeInv'
<1>1. TypeInv /\ UNCHANGED vars => TypeInv'
  BY DEF vars, parserView, TypeInv, TypeOK, PendingExists
<1> QED
  BY <1>1, EndifType, OpenConditionalType, ShorthandType, SkipInactiveType,
     SetAttributeType, PlainLineType, MetadataLineType, OpenVerbatimType,
     BlockDelimiterType, CloseVerbatimType, VerbatimLineType, IncludeMissingType,
     IncludeRefusedType, ExpandType, ReturnType, FinishType, ProcessType
  DEF Next, Step

\* The state keeps its types, and no call of _process_source ever asks for a
\* line that its file does not have.
THEOREM TypeCorrect == Spec => [](TypeOK /\ PendingExists)
<1>1. TypeInv => TypeOK /\ PendingExists BY DEF TypeInv
<1> QED BY <1>1, InitType, NextType, PTL DEF Spec

-----------------------------------------------------------------------------
(* Conditional regions and verbatim blocks                                 *)

LocalsInv == ActiveWhereItMatters /\ NoSameLengthWarning

\* The frame of a call is settled for a verbatim block.
Settled(f) == f.verb # None => Active(f) /\ ~f.meta

\* A line is consumed by the call on top.
Moves(frame) == /\ frame \in Frame /\ SameLines(frame, Past) /\ Settled(frame)
                /\ Top.verb # None => frame.conds = Top.conds
                /\ Consume(frame) /\ Reading /\ UNCHANGED status

\* What any step of the loop does to the stack.
StackStep == \/ \E frame : Moves(frame)
             \/ Expand /\ Active(Top)
             \/ Return
             \/ status = "running" /\ stack' = <<>>

LEMMA TopSettled ==
  ASSUME TypeInv, LocalsInv, Reading
  PROVE  /\ Settled(Top) /\ Settled(Past)
         /\ Active(Past) = Active(Top) /\ Past.conds = Top.conds
         /\ Past.verb = Top.verb /\ Past.meta = Top.meta
<1>1. SameState(Past, Top) /\ Len(stack) \in 1 .. Len(stack)
  BY ReadingFacts
<1>2. Settled(Top)
  BY <1>1 DEF LocalsInv, ActiveWhereItMatters, NoSameLengthWarning, Settled, Top
<1> QED BY <1>1, <1>2 DEF SameState, Settled, Active

LEMMA MovesPast ==
  ASSUME TypeInv, LocalsInv, Reading, Consume(Past), UNCHANGED status
  PROVE  StackStep
  BY TopSettled, PastIsFrame DEF Moves, StackStep

LEMMA MovesMeta ==
  ASSUME TypeInv, LocalsInv, Reading, NEW m \in BOOLEAN,
         Top.verb = None \/ ~m,
         Consume(WithMeta(Past, m)), UNCHANGED status
  PROVE  StackStep
<1>1. Past \in Frame
  BY ReadingFacts
<1>2. Settled(WithMeta(Past, m)) /\ WithMeta(Past, m).conds = Top.conds
  BY <1>1, FrameMeta, TopSettled DEF Settled, Active
<1> QED BY <1>2, MetaIsFrame DEF Moves, StackStep

LEMMA MovesVerb ==
  ASSUME TypeInv, LocalsInv, Reading, Active(Top), NEW v \in Delims \cup {None},
         Consume(WithVerb(Past, v, FALSE)), UNCHANGED status
  PROVE  StackStep
<1>1. Past \in Frame
  BY ReadingFacts
<1>2. Settled(WithVerb(Past, v, FALSE)) /\ WithVerb(Past, v, FALSE).conds = Top.conds
  BY <1>1, FrameVerb, TopSettled DEF Settled, Active
<1> QED BY <1>1, <1>2, FrameVerb DEF Moves, StackStep

LEMMA MovesConds ==
  ASSUME TypeInv, LocalsInv, Reading, Top.verb = None, NEW c \in Seq(CondFrame),
         Consume(WithConds(Past, c)), UNCHANGED status
  PROVE  StackStep
<1>1. Past \in Frame
  BY ReadingFacts
<1>2. Settled(WithConds(Past, c))
  BY <1>1, FrameConds, TopSettled DEF Settled
<1> QED BY <1>1, <1>2, FrameConds DEF Moves, StackStep

LEMMA StepStack == TypeInv /\ LocalsInv /\ Step => StackStep
<1> SUFFICES ASSUME TypeInv, LocalsInv, Step PROVE StackStep
  OBVIOUS
<1>1. CASE Endif
  <2>1. Reading /\ Top.verb = None /\ Past \in Frame
    BY <1>1, ReadingFacts DEF Endif
  <2>2. Pop(Past.conds) \in Seq(CondFrame)
    BY <2>1, PopType DEF Frame
  <2>3. CASE Raise("mismatch")
    BY <2>1, <2>3 DEF Raise, StackStep, Reading
  <2>4. CASE Consume([Past EXCEPT !.conds = Pop(@)]) /\ UNCHANGED status
    <3>1. Consume(WithConds(Past, Pop(Past.conds)))
      BY <2>4 DEF WithConds
    <3> QED BY <2>1, <2>2, <2>4, <3>1, MovesConds
  <2> QED BY <1>1, <2>3, <2>4 DEF Endif
<1>2. CASE OpenConditional
  <2> DEFINE cond == [active |-> Holds(Cur.cond) # (Cur.kind = "ifndef"),
                      name   |-> IF Cur.kind = "ifeval" THEN {} ELSE Cur.cond]
  <2>1. Reading /\ Top.verb = None /\ Past \in Frame /\ Cur \in Line /\ UNCHANGED status
    BY <1>2, ReadingFacts DEF OpenConditional
  <2>2. Cur.kind # "ifeval" => Cur.cond \in Condition
    BY <1>2, <2>1 DEF OpenConditional, Line
  <2>3. cond.name \in Condition /\ cond.active \in BOOLEAN
    BY <2>2 DEF Condition
  <2>4. cond \in CondFrame
    BY <2>3 DEF CondFrame
  <2>5. Consume(WithConds(Past, Append(Past.conds, cond)))
    BY <1>2 DEF OpenConditional, WithConds
  <2> HIDE DEF cond
  <2>6. Append(Past.conds, cond) \in Seq(CondFrame)
    BY <2>1, <2>4, AppendProperties DEF Frame
  <2> QED BY <2>1, <2>5, <2>6, MovesConds
<1>3. CASE Shorthand
  BY <1>3, MovesPast DEF Shorthand
<1>4. CASE SkipInactive
  BY <1>4, MovesPast DEF SkipInactive
<1>5. CASE SetAttribute
  BY <1>5, MovesPast DEF SetAttribute, Live
<1>6. CASE PlainLine \/ VerbatimLine
  <2>1. /\ Reading /\ UNCHANGED status
        /\ Consume(WithMeta(Past, Past.meta /\ Cur.kind # "blank"))
    BY <1>6 DEF PlainLine, VerbatimLine, Live, WithMeta
  <2>2. Top.verb # None => ~Past.meta
    BY <2>1, TopSettled DEF Settled
  <2> QED BY <2>1, <2>2, MetaIsFrame, MovesMeta
<1>7. CASE MetadataLine
  <2>1. /\ Reading /\ UNCHANGED status /\ Top.verb = None
        /\ Consume(WithMeta(Past, TRUE))
    BY <1>7 DEF MetadataLine, Live, WithMeta
  <2> QED BY <2>1, MovesMeta
<1>8. CASE BlockDelimiter
  <2>1. /\ Reading /\ UNCHANGED status /\ Top.verb = None
        /\ Consume(WithMeta(Past, FALSE))
    BY <1>8 DEF BlockDelimiter, Live, WithMeta
  <2> QED BY <2>1, MovesMeta
<1>9. CASE OpenVerbatim
  <2>1. /\ Reading /\ Active(Top) /\ UNCHANGED status
        /\ Consume(WithVerb(Past, Cur.delim, FALSE))
    BY <1>9 DEF OpenVerbatim, Live, WithVerb
  <2>2. Cur.delim \in Delims
    BY <1>9, DelimAssumption DEF OpenVerbatim
  <2> QED BY <2>1, <2>2, MovesVerb
<1>10. CASE CloseVerbatim
  <2>1. /\ Reading /\ Active(Top) /\ UNCHANGED status
        /\ Consume(WithVerb(Past, None, FALSE))
    BY <1>10 DEF CloseVerbatim, Live, WithVerb
  <2> QED BY <2>1, MovesVerb
<1>11. CASE IncludeMissing
  <2>1. Reading
    BY <1>11 DEF IncludeMissing, Including, Live
  <2>2. CASE Strict
    BY <1>11, <2>1, <2>2 DEF IncludeMissing, Raise, StackStep, Reading
  <2>3. CASE ~Strict
    BY <1>11, <2>1, <2>3, MovesPast DEF IncludeMissing
  <2> QED BY <2>2, <2>3
<1>12. CASE IncludeRefused
  BY <1>12 DEF IncludeRefused, Including, Live, Reading, Raise, StackStep
<1>13. CASE Expand
  BY <1>13 DEF Expand, Including, Live, StackStep
<1>14. CASE Return
  BY <1>14 DEF StackStep
<1>15. CASE Finish
  BY <1>15 DEF Finish, StackStep
<1> QED BY <1>1, <1>2, <1>3, <1>4, <1>5, <1>6, <1>7, <1>8, <1>9, <1>10, <1>11,
           <1>12, <1>13, <1>14, <1>15 DEF Step

LEMMA NoWarning == TypeInv /\ LocalsInv /\ Step => "same-length" \notin warned'
<1> SUFFICES ASSUME TypeInv, LocalsInv, Step PROVE "same-length" \notin warned'
  OBVIOUS
<1>1. "same-length" \notin warned
  BY DEF LocalsInv, NoSameLengthWarning
<1>2. CASE CloseVerbatim
  <2>1. ~Top.meta
    BY <1>2, TopSettled DEF CloseVerbatim, Live, Settled
  <2> QED BY <1>1, <1>2, <2>1 DEF CloseVerbatim
<1>3. CASE Endif
  BY <1>1, <1>3 DEF Endif
<1>4. CASE IncludeMissing
  <2>1. UNCHANGED warned \/ warned' = warned \cup {"missing"}
    BY <1>4 DEF IncludeMissing
  <2>2. "same-length" # "missing"
    OBVIOUS
  <2> QED BY <1>1, <2>1, <2>2
<1>5. CASE Return
  BY <1>1, <1>5 DEF Return
<1>6. CASE UNCHANGED warned
  BY <1>1, <1>6
<1>7. \/ CloseVerbatim \/ Endif \/ IncludeMissing \/ Return
      \/ UNCHANGED warned
  BY DEF Step, OpenConditional, Shorthand, SkipInactive, SetAttribute, PlainLine,
         MetadataLine, OpenVerbatim, BlockDelimiter, VerbatimLine, IncludeRefused,
         Expand, Finish
<1> QED BY <1>2, <1>3, <1>4, <1>5, <1>6, <1>7

\* In terms of frames: those that wait are active, and all are settled.
LEMMA LocalsByFrame ==
  ActiveWhereItMatters /\ NoSameLengthWarning <=>
    /\ "same-length" \notin warned
    /\ \A i \in 1 .. Len(stack) - 1 : Active(stack[i])
    /\ \A i \in 1 .. Len(stack) : Settled(stack[i])
  BY DEF ActiveWhereItMatters, NoSameLengthWarning, Settled

LEMMA StepLocals == TypeInv /\ LocalsInv /\ Step => LocalsInv'
<1> SUFFICES ASSUME TypeInv, LocalsInv, Step
             PROVE  /\ \A i \in 1 .. Len(stack') - 1 : Active(stack'[i])
                    /\ \A i \in 1 .. Len(stack') : Settled(stack'[i])
  BY NoWarning DEF LocalsInv, ActiveWhereItMatters, NoSameLengthWarning, Settled, Active
<1>1. /\ \A i \in 1 .. Len(stack) - 1 : Active(stack[i])
      /\ \A i \in 1 .. Len(stack) : Settled(stack[i])
  BY LocalsByFrame DEF LocalsInv
<1>2. ASSUME NEW frame, Moves(frame)
      PROVE  /\ \A i \in 1 .. Len(stack') - 1 : Active(stack'[i])
             /\ \A i \in 1 .. Len(stack') : Settled(stack'[i])
  <2>1. Len(stack) \in Nat /\ stack \in Seq(Frame)
    BY DEF TypeInv, TypeOK
  <2>2. /\ Len(stack') = Len(stack)
        /\ \A i \in 1 .. Len(stack) :
             stack'[i] = IF i = Len(stack) THEN frame ELSE stack[i]
    BY <1>2, <2>1 DEF Moves, Consume
  <2>3. Settled(frame)
    BY <1>2 DEF Moves
  <2> QED BY <1>1, <2>1, <2>2, <2>3
<1>3. CASE Expand /\ Active(Top)
  <2>1. Reading /\ Len(stack) \in Nat \ {0}
    BY <1>3, ReadingFacts DEF Expand, Including, Live
  <2>2. Active(Past) /\ Settled(Past) /\ Settled(Top)
    BY <1>3, <2>1, TopSettled
  <2> DEFINE new == NewFrame(Cur.target, Kept, Top.verb)
  <2>3. Settled(new)
    BY DEF NewFrame, Settled, Active
  <2> HIDE DEF new
  <2>4. /\ Len(stack') = Len(stack) + 1
        /\ \A i \in 1 .. Len(stack) + 1 :
             stack'[i] = IF i = Len(stack) + 1 THEN new
                           ELSE IF i = Len(stack) THEN Past ELSE stack[i]
    BY <1>3, ExpandFacts DEF new
  <2> QED BY <1>1, <2>1, <2>2, <2>3, <2>4
<1>4. CASE Return
  BY <1>1, <1>4, ReturnFacts
<1>5. CASE stack' = <<>>
  BY <1>5
<1> QED BY <1>2, <1>3, <1>4, <1>5, StepStack DEF StackStep

LEMMA NextLocals == TypeInv /\ LocalsInv /\ [Next]_vars => LocalsInv'
<1> SUFFICES ASSUME TypeInv, LocalsInv, [Next]_vars PROVE LocalsInv'
  OBVIOUS
<1>1. CASE Process
  <2>1. PICK f : f.verb = None /\ stack' = <<f>> /\ warned' = {}
    BY <1>1 DEF Process
  <2> QED BY <2>1 DEF LocalsInv, ActiveWhereItMatters, NoSameLengthWarning
<1>2. CASE Step
  BY <1>2, StepLocals
<1>3. CASE UNCHANGED vars
  BY <1>3 DEF vars, LocalsInv, ActiveWhereItMatters, NoSameLengthWarning, Active
<1> QED BY <1>1, <1>2, <1>3 DEF Next

LEMMA InitLocals == Init => LocalsInv
  BY DEF Init, LocalsInv, ActiveWhereItMatters, NoSameLengthWarning

LEMMA Invariance == Spec => [](TypeInv /\ LocalsInv)
<1>1. Init => TypeInv /\ LocalsInv
  BY InitType, InitLocals
<1>2. TypeInv /\ LocalsInv /\ [Next]_vars => (TypeInv /\ LocalsInv)'
  BY NextType, NextLocals
<1> QED BY <1>1, <1>2, PTL DEF Spec

\* While a verbatim block is open in a call, no step changes its conditionals.
LEMMA StepKeepsRegions ==
  ASSUME TypeInv, LocalsInv, Next, NEW i \in 1 .. Len(stack),
         stack[i].verb # None, i <= Len(stack')
  PROVE  stack'[i].conds = stack[i].conds
<1>0. stack \in Seq(Frame) /\ Len(stack) \in Nat
  BY DEF TypeInv, TypeOK
<1>1. CASE Process
  BY <1>1 DEF Process, TypeInv, TypeOK
<1>2. ASSUME NEW frame, Moves(frame) PROVE stack'[i].conds = stack[i].conds
  <2>1. stack'[i] = IF i = Len(stack) THEN frame ELSE stack[i]
    BY <1>0, <1>2 DEF Moves, Consume
  <2>2. i = Len(stack) => frame.conds = stack[i].conds
    BY <1>2 DEF Moves, Top
  <2> QED BY <2>1, <2>2
<1>3. CASE Expand
  <2>1. Reading /\ Past.conds = Top.conds
    BY <1>3, TopSettled DEF Expand, Including, Live
  <2>2. stack'[i] = IF i = Len(stack) THEN Past ELSE stack[i]
    BY <1>0, <1>3, ExpandFacts
  <2> QED BY <2>1, <2>2 DEF Top
<1>4. CASE Return
  BY <1>0, <1>4, ReturnFacts
<1>5. CASE stack' = <<>>
  BY <1>0, <1>5
<1> QED BY <1>1, <1>2, <1>3, <1>4, <1>5, StepStack DEF Next, StackStep

\* Conditional regions never begin or end while a verbatim block is open, and
\* files are only ever included from active regions.
THEOREM RegionsCorrect == Spec => RegionsMeetBlocks
<1> DEFINE A == \A i \in 1 .. Len(stack) :
                  stack[i].verb # None /\ i <= Len(stack') =>
                    stack'[i].conds = stack[i].conds
<1>1. LocalsInv => ActiveWhereItMatters BY DEF LocalsInv
<1>2. TypeInv /\ LocalsInv /\ [Next]_vars => [A]_vars
  BY StepKeepsRegions
<1> QED BY <1>1, <1>2, Invariance, PTL DEF Spec, RegionsMeetBlocks

\* The warning about same-length nesting is never issued.
THEOREM NeverSameLength == Spec => []NoSameLengthWarning
<1>1. LocalsInv => NoSameLengthWarning BY DEF LocalsInv
<1> QED BY <1>1, Invariance, PTL

\* Text comes from active regions only, of all the files open at the time.
THEOREM TextIsActive == Spec => OnlyActiveText
<1> DEFINE A == output' # output /\ status = "running" =>
                  \A i \in 1 .. Len(stack) : Active(stack[i])
<1>1. TypeInv /\ LocalsInv /\ [Next]_vars => [A]_vars
  <2> SUFFICES ASSUME TypeInv, LocalsInv, Next, output' # output, status = "running",
                      NEW i \in 1 .. Len(stack)
               PROVE  Active(stack[i])
    OBVIOUS
  <2>1. Step
    BY DEF Next, Process
  <2>2. Active(Top)
    BY <2>1 DEF Step, Endif, OpenConditional, Shorthand, SkipInactive, SetAttribute,
       PlainLine, MetadataLine, OpenVerbatim, BlockDelimiter, CloseVerbatim,
       VerbatimLine, IncludeMissing, IncludeRefused, Expand, Return, Finish,
       Including, Live
  <2>3. Len(stack) \in Nat
    BY DEF TypeInv, TypeOK
  <2> QED BY <2>2, <2>3 DEF Top, LocalsInv, ActiveWhereItMatters
<1> QED BY <1>1, Invariance, PTL DEF Spec, OnlyActiveText

-----------------------------------------------------------------------------
(* The text and the line map                                               *)

\* A piece of text that comes from the line being read.
Read(p) == p \in Piece /\ p.from = <<Top.file, At>>

Wrote(kind, delim) == \E p : /\ Read(p) /\ output' = Append(output, p)
                             /\ p.kind = kind /\ p.delim = delim

LEMMA WrittenPiece ==
  ASSUME TypeInv, Reading, NEW kind \in {"line", "start", "end", "unresolved"},
         NEW delim \in Delims \cup {None}, NEW nl \in {Cur.nl, TRUE, FALSE},
         Write(kind, delim, nl)
  PROVE  Wrote(kind, delim)
<1>0. Cur.nl \in BOOLEAN
  BY ReadingFacts DEF Line
<1>1. Top.file \in Documents /\ At \in Nat
  BY ReadingFacts DEF Frame
<1> DEFINE p == [from |-> <<Top.file, At>>, kind |-> kind, delim |-> delim, nl |-> nl]
<1>2. Read(p)
  BY <1>0, <1>1 DEF Read, Piece
<1>3. output' = Append(output, p)
  BY DEF Write
<1>4. p.kind = kind /\ p.delim = delim
  OBVIOUS
<1> QED BY <1>2, <1>3, <1>4 DEF Wrote

\* What a step does to the text: nothing, a piece that is recorded, or the one
\* that stands for a missing file.
Untouched == UNCHANGED <<output, lineMap>>
Recorded  == Reading /\ Record /\ \E p : Read(p) /\ output' = Append(output, p)
Replaced  == \E p : /\ Read(p) /\ output' = Append(output, p)
                    /\ p.kind = "unresolved"

LEMMA WriteRecorded ==
  ASSUME TypeInv, Reading, NEW kind \in {"line", "start", "end"},
         NEW delim \in Delims \cup {None}, NEW nl \in {Cur.nl, TRUE, FALSE},
         Write(kind, delim, nl), Record
  PROVE  Recorded
  BY WrittenPiece DEF Recorded, Wrote

LEMMA StepText == TypeInv /\ Step => Untouched \/ Recorded \/ Replaced
<1> SUFFICES ASSUME TypeInv, Step PROVE Untouched \/ Recorded \/ Replaced
  OBVIOUS
<1>1. CASE \/ Endif \/ OpenConditional \/ SkipInactive \/ IncludeRefused
           \/ Expand \/ Return \/ Finish
  BY <1>1 DEF Endif, OpenConditional, SkipInactive, IncludeRefused, Expand, Return,
              Finish, Untouched
<1>2. CASE Shorthand
  BY <1>2, WriteRecorded DEF Shorthand, Untouched
<1>3. CASE SetAttribute \/ PlainLine \/ MetadataLine \/ BlockDelimiter \/ VerbatimLine
  <2>1. Reading /\ Record /\ Write("line", None, Cur.nl)
    BY <1>3 DEF SetAttribute, PlainLine, MetadataLine, BlockDelimiter, VerbatimLine, Live
  <2> QED BY <2>1, WriteRecorded
<1>4. CASE OpenVerbatim \/ CloseVerbatim
  <2>1. Reading /\ Record /\ (Write("start", Cur.delim, TRUE) \/ Write("end", Cur.delim, TRUE))
    BY <1>4 DEF OpenVerbatim, CloseVerbatim, Live
  <2>2. Cur \in Line /\ Cur.kind = "delimiter"
    BY <1>4, <2>1, ReadingFacts DEF OpenVerbatim, CloseVerbatim, Closes
  <2>3. Cur.delim \in Delims
    BY <2>2 DEF Line
  <2> QED BY <2>1, <2>3, WriteRecorded
<1>5. CASE IncludeMissing
  <2>1. Reading
    BY <1>5 DEF IncludeMissing, Including, Live
  <2>2. CASE UNCHANGED output
    BY <1>5, <2>2 DEF IncludeMissing, Untouched
  <2>3. CASE Write("unresolved", None, FALSE)
    BY <2>1, <2>3, WrittenPiece DEF Replaced, Wrote
  <2> QED BY <1>5, <2>2, <2>3 DEF IncludeMissing
<1> QED BY <1>1, <1>2, <1>3, <1>4, <1>5 DEF Step

LEMMA SameTree == Step => tree' = tree
<1>1. Endif \/ OpenConditional \/ Shorthand \/ SkipInactive => tree' = tree
  BY DEF Endif, OpenConditional, Shorthand, SkipInactive
<1>2. SetAttribute \/ PlainLine \/ MetadataLine \/ OpenVerbatim => tree' = tree
  BY DEF SetAttribute, PlainLine, MetadataLine, OpenVerbatim
<1>3. BlockDelimiter \/ CloseVerbatim \/ VerbatimLine => tree' = tree
  BY DEF BlockDelimiter, CloseVerbatim, VerbatimLine
<1>4. IncludeMissing \/ IncludeRefused \/ Expand \/ Return \/ Finish => tree' = tree
  BY DEF IncludeMissing, IncludeRefused, Expand, Return, Finish
<1> QED BY <1>1, <1>2, <1>3, <1>4 DEF Step

\* The lines that a call still has to read lie beyond the number of lines it
\* has read, and are all those beyond where no line was left out.
Ascends(f) ==
  /\ \A n \in f.pending : f.num < n
  /\ Unfiltered => f.pending = f.num + 1 .. Len(tree[f.file])

\* As long as every piece ends its line the map has one entry for each piece,
\* with its file and a number that is not too large.
Traced ==
  Terminated =>
    /\ Len(lineMap) = Len(output)
    /\ \A k \in 1 .. Len(output) :
         /\ lineMap[k][1] = output[k].from[1]
         /\ lineMap[k][2] \in 1 .. output[k].from[2]
         /\ Unfiltered => lineMap[k][2] = output[k].from[2]

TraceInv == Traced /\ \A i \in 1 .. Len(stack) : Ascends(stack[i])

LEMMA PastAscends ==
  ASSUME TypeInv, Reading, Ascends(Top)
  PROVE  /\ Ascends(Past)
         /\ Top.num + 1 \in 1 .. At
         /\ Unfiltered => Top.num + 1 = At
<1>1. /\ Top.pending \in SUBSET Nat /\ Top.num \in Nat
      /\ At \in Top.pending /\ \A m \in Top.pending : At <= m
      /\ Past.pending = Top.pending \ {At} /\ Past.num = Top.num + 1
      /\ Past.file = Top.file
  BY ReadingFacts DEF Frame
<1>2. Top.num < At
  BY <1>1 DEF Ascends
<1>3. \A n \in Past.pending : Past.num < n
  <2> SUFFICES ASSUME NEW n \in Past.pending PROVE Past.num < n
    OBVIOUS
  <2>1. n \in Nat /\ At \in Nat /\ At <= n /\ At # n
    BY <1>1
  <2> QED BY <1>1, <1>2, <2>1
<1>4. ASSUME Unfiltered
      PROVE  Top.num + 1 = At /\ Past.pending = Past.num + 1 .. Len(tree[Past.file])
  <2>1. Top.pending = Top.num + 1 .. Len(tree[Top.file])
    BY <1>4 DEF Ascends
  <2>2. Len(tree[Top.file]) \in Nat
    BY ReadingFacts, TreeType DEF TypeInv, Frame
  <2>3. Top.num + 1 = At
    BY <1>1, <1>2, <2>1, <2>2
  <2> QED BY <1>1, <2>1, <2>2, <2>3
<1> QED BY <1>1, <1>2, <1>3, <1>4 DEF Ascends

LEMMA NewAscends ==
  ASSUME TypeInv, Expand
  PROVE  Ascends(NewFrame(Cur.target, Kept, Top.verb))
<1>1. /\ Kept \subseteq 1 .. Len(tree[Cur.target]) /\ Cur.target \in Files
      /\ NewFrame(Cur.target, Kept, Top.verb).pending = Kept
      /\ NewFrame(Cur.target, Kept, Top.verb).num = 0
      /\ NewFrame(Cur.target, Kept, Top.verb).file = Cur.target
  BY KeptType DEF NewFrame
<1>2. /\ Cur.kind = "include" /\ Reading
      /\ Top.file \in Documents /\ At \in 1 .. Len(tree[Top.file])
      /\ tree[Cur.target] \in Seq(Line)
  BY <1>1, ReadingFacts, TreeType
     DEF Expand, Including, Live, TypeInv, Frame, Documents
<1>3. \A n \in Kept : 0 < n
  BY <1>1, <1>2
<1>4. ASSUME Unfiltered PROVE Kept = 0 + 1 .. Len(tree[Cur.target])
  <2>1. /\ Cur.pick = All
        /\ \A n \in 1 .. Len(tree[Cur.target]) : tree[Cur.target][n].kind # "tag"
    BY <1>1, <1>2, <1>4 DEF Unfiltered, Cur
  <2> QED BY <2>1 DEF Kept
<1> QED BY <1>1, <1>3, <1>4 DEF Ascends

LEMMA StepTraced == TypeInv /\ TraceInv /\ Step => Traced'
<1> SUFFICES ASSUME TypeInv, TraceInv, Step PROVE Traced'
  OBVIOUS
<1>0. /\ output \in Seq(Piece) /\ lineMap \in Seq(Documents \X Nat)
      /\ (Unfiltered' <=> Unfiltered)
  <2>1. tree' = tree
    BY SameTree
  <2> QED BY <2>1 DEF Unfiltered, TypeInv, TypeOK
<1>1. CASE Untouched
  BY <1>0, <1>1 DEF Untouched, Traced, TraceInv, Terminated
<1>2. CASE Replaced
  <2>1. PICK p : p \in Piece /\ output' = Append(output, p) /\ p.kind = "unresolved"
    BY <1>2 DEF Replaced, Read
  <2>2. Len(output) + 1 \in 1 .. Len(output') /\ output'[Len(output) + 1] = p
    BY <1>0, <2>1
  <2> QED BY <2>1, <2>2 DEF Traced, Terminated
<1>3. CASE Recorded
  <2>1. PICK p : Read(p) /\ output' = Append(output, p)
    BY <1>3 DEF Recorded
  <2>2. Reading /\ lineMap' = Append(lineMap, <<Top.file, Top.num + 1>>)
    BY <1>3 DEF Recorded, Record
  <2>3. p \in Piece /\ p.from[1] = Top.file /\ p.from[2] = At
    BY <2>1 DEF Read
  <2>4. Top.num + 1 \in 1 .. At /\ (Unfiltered => Top.num + 1 = At)
    <3>1. Ascends(Top)
      BY <2>2, ReadingFacts DEF TraceInv, Top
    <3> QED BY <2>2, <3>1, PastAscends
  <2>5. <<Top.file, Top.num + 1>> \in Documents \X Nat
    BY <2>2, ReadingFacts DEF Frame
  <2> DEFINE entry == <<Top.file, Top.num + 1>>
  <2>6. entry[1] = p.from[1] /\ entry[2] \in 1 .. p.from[2]
        /\ (Unfiltered => entry[2] = p.from[2])
    BY <2>3, <2>4
  <2> HIDE DEF entry
  <2>7. /\ Len(output') = Len(output) + 1 /\ Len(output) \in Nat
        /\ \A k \in 1 .. Len(output) + 1 :
             output'[k] = IF k = Len(output) + 1 THEN p ELSE output[k]
    BY <1>0, <2>1, <2>3
  <2>8. /\ Len(lineMap') = Len(lineMap) + 1 /\ Len(lineMap) \in Nat
        /\ \A k \in 1 .. Len(lineMap) + 1 :
             lineMap'[k] = IF k = Len(lineMap) + 1 THEN entry ELSE lineMap[k]
    BY <1>0, <2>2, <2>5 DEF entry
  <2>9. Terminated' => Terminated
    BY <2>7 DEF Terminated
  <2> SUFFICES ASSUME Terminated'
               PROVE  /\ Len(lineMap') = Len(output')
                      /\ \A k \in 1 .. Len(output') :
                           /\ lineMap'[k][1] = output'[k].from[1]
                           /\ lineMap'[k][2] \in 1 .. output'[k].from[2]
                           /\ Unfiltered => lineMap'[k][2] = output'[k].from[2]
    BY <1>0 DEF Traced
  <2>10. /\ Len(lineMap) = Len(output)
         /\ \A k \in 1 .. Len(output) :
              /\ lineMap[k][1] = output[k].from[1]
              /\ lineMap[k][2] \in 1 .. output[k].from[2]
              /\ Unfiltered => lineMap[k][2] = output[k].from[2]
    BY <2>9 DEF Traced, TraceInv
  <2> QED BY <2>6, <2>7, <2>8, <2>10
<1> QED BY <1>1, <1>2, <1>3, StepText

LEMMA StepAscends ==
  TypeInv /\ LocalsInv /\ TraceInv /\ Step => (\A i \in 1 .. Len(stack) : Ascends(stack[i]))'
<1> SUFFICES ASSUME TypeInv, LocalsInv, TraceInv, Step
             PROVE  (\A i \in 1 .. Len(stack) : Ascends(stack[i]))'
  OBVIOUS
<1>0. (Unfiltered' <=> Unfiltered) /\ tree' = tree
  BY SameTree DEF Unfiltered
<1> SUFFICES ASSUME NEW i \in 1 .. Len(stack') PROVE Ascends(stack'[i])
  BY <1>0 DEF Ascends
<1>1. stack \in Seq(Frame) /\ \A j \in 1 .. Len(stack) : Ascends(stack[j])
  BY DEF TypeInv, TypeOK, TraceInv
<1>2. ASSUME NEW frame, Moves(frame) PROVE Ascends(stack'[i])
  <2>1. /\ Len(stack') = Len(stack)
        /\ \A j \in 1 .. Len(stack) :
             stack'[j] = IF j = Len(stack) THEN frame ELSE stack[j]
    BY <1>1, <1>2 DEF Moves, Consume
  <2>2. Ascends(Past)
    BY <1>1, <1>2, ReadingFacts, PastAscends DEF Moves, Top
  <2>3. Ascends(frame)
    BY <1>2, <2>2 DEF Ascends, Moves, SameLines
  <2> QED BY <1>1, <2>1, <2>3
<1>3. CASE Expand
  <2>1. Reading /\ Len(stack) \in Nat \ {0}
    BY <1>3, ReadingFacts DEF Expand, Including, Live
  <2>2. Ascends(Past)
    BY <1>1, <2>1, PastAscends DEF Top
  <2>3. Ascends(NewFrame(Cur.target, Kept, Top.verb))
    BY <1>3, NewAscends
  <2> QED BY <1>1, <1>3, <2>1, <2>2, <2>3, ExpandFacts
<1>4. CASE Return
  BY <1>1, <1>4, ReturnFacts
<1>5. CASE stack' = <<>>
  BY <1>5
<1> QED BY <1>2, <1>3, <1>4, <1>5, StepStack DEF StackStep

LEMMA NextTrace == TypeInv /\ LocalsInv /\ TraceInv /\ [Next]_vars => TraceInv'
<1> SUFFICES ASSUME TypeInv, LocalsInv, TraceInv, [Next]_vars PROVE TraceInv'
  OBVIOUS
<1>1. CASE Process
  <2>4. PICK f : /\ f.file = Root /\ f.pending = 1 .. Len(tree'[Root]) /\ f.num = 0
                 /\ stack' = <<f>>
    BY <1>1 DEF Process
  <2>5. Ascends(f)'
    BY <2>4 DEF Ascends
  <2>6. output' = <<>> /\ lineMap' = <<>>
    BY <1>1 DEF Process
  <2>7. Traced'
    BY <2>6 DEF Traced
  <2>8. \A i \in 1 .. Len(stack') : stack'[i] = f
    BY <2>4
  <2> QED BY <2>5, <2>7, <2>8 DEF TraceInv
<1>2. CASE Step
  BY <1>2, StepTraced, StepAscends DEF TraceInv
<1>3. CASE UNCHANGED vars
  <2>1. UNCHANGED <<tree, stack, output, lineMap>>
    BY <1>3 DEF vars
  <2>2. (Unfiltered' <=> Unfiltered) /\ (Terminated' <=> Terminated)
    BY <2>1 DEF Unfiltered, Terminated
  <2> QED BY <2>1, <2>2 DEF TraceInv, Traced, Ascends
<1> QED BY <1>1, <1>2, <1>3 DEF Next

LEMMA InitTrace == Init => TraceInv
  BY DEF Init, TraceInv, Traced

LEMMA TraceInvariance == Spec => [](TypeInv /\ TraceInv)
<1>1. TypeInv /\ LocalsInv /\ TraceInv /\ [Next]_vars => TraceInv'
  BY NextTrace
<1> QED BY <1>1, InitTrace, Invariance, PTL DEF Spec

\* Where every piece ends its line, the n-th line is the n-th piece.
LEMMA LinesArePieces ==
  ASSUME TypeInv, Terminated, NEW k \in 1 .. Len(output)
  PROVE  LineOf(k) = k
<1>1. Len(output) \in Nat
  BY DEF TypeInv, TypeOK
<1>2. LineStarts = 1 .. Len(output)
  BY <1>1 DEF LineStarts, Terminated
<1>3. {j \in LineStarts : j <= k} = 1 .. k
  BY <1>1, <1>2
<1>4. 1 \in Int /\ k \in Int /\ k \in Nat
  BY <1>1
<1>5. Cardinality(1 .. k) = k
  BY <1>4, FS_Interval
<1> QED BY <1>3, <1>5 DEF LineOf

\* The line map is exact as long as every piece but the last ends its line,
\* nothing unresolved is put in and no include leaves out a line of its file,
\* be it for a filter or for being a tag line.
THEOREM MapIsExact == Spec => []LineMapExact
<1>1. TypeInv /\ TraceInv => LineMapExact
  <2> SUFFICES ASSUME TypeInv, TraceInv, Terminated, Unfiltered, NEW k \in LineStarts
               PROVE  LineOf(k) <= Len(lineMap) /\ lineMap[LineOf(k)] = output[k].from
    BY DEF LineMapExact, LineMapTrue
  <2>1. /\ output \in Seq(Piece) /\ lineMap \in Seq(Documents \X Nat)
        /\ k \in 1 .. Len(output) /\ Len(output) \in Nat
    BY DEF TypeInv, TypeOK, LineStarts
  <2>2. LineOf(k) = k
    BY <2>1, LinesArePieces
  <2>3. /\ Len(lineMap) = Len(output)
        /\ lineMap[k][1] = output[k].from[1] /\ lineMap[k][2] = output[k].from[2]
    BY <2>1 DEF TraceInv, Traced
  <2>4. lineMap[k] \in Documents \X Nat /\ output[k].from \in Documents \X Nat
    <3>1. lineMap[k] \in Documents \X Nat /\ output[k] \in Piece
      BY <2>1, <2>3
    <3> QED BY <3>1 DEF Piece
  <2>5. lineMap[k] = output[k].from
    BY <2>3, <2>4
  <2> QED BY <2>1, <2>2, <2>3, <2>5
<1> QED BY <1>1, TraceInvariance, PTL

\* With lines left out the recorded file is still right, and the recorded number is a
\* line of it that is not beyond the true one.
THEOREM MapIsNearby == Spec => []LineMapNearby
<1>1. TypeInv /\ TraceInv => LineMapNearby
  <2> SUFFICES ASSUME TypeInv, TraceInv, Terminated, NEW k \in LineStarts
               PROVE  /\ LineOf(k) <= Len(lineMap)
                      /\ lineMap[LineOf(k)][1] = output[k].from[1]
                      /\ lineMap[LineOf(k)][2] \in 1 .. output[k].from[2]
    BY DEF LineMapNearby
  <2>1. k \in 1 .. Len(output) /\ Len(output) \in Nat
    BY DEF TypeInv, TypeOK, LineStarts
  <2>2. LineOf(k) = k
    BY <2>1, LinesArePieces
  <2> QED BY <2>1, <2>2 DEF TraceInv, Traced
<1> QED BY <1>1, TraceInvariance, PTL

-----------------------------------------------------------------------------
(* Blocks, delimiters and tags                                             *)

\* An open verbatim block has its closer on top of the delimiters.
Closer(verb, open) == verb # None => open # <<>> /\ open[Len(open)] = verb

\* BlocksInStep while a call of process() runs.
InStep == Closer(Top.verb, delims) /\ Balanced(output, Top.verb)

LEMMA InStepRunning ==
  ASSUME status = "running" PROVE BlocksInStep <=> (~crossed => InStep)
  BY DEF BlocksInStep, TopIsCloser, TagsBalanced, OpenBlock, InStep, Closer

LEMMA UnclosedWritten ==
  ASSUME NEW s \in Seq(Piece), NEW p \in Piece
  PROVE  Unclosed(Append(s, p)) = IF p.kind = "start" THEN {p.delim}
                                  ELSE IF p.kind = "end" THEN {} ELSE Unclosed(s)
<1> DEFINE t == Append(s, p)
<1>1. /\ Len(s) \in Nat /\ Len(t) = Len(s) + 1
      /\ \A m \in 1 .. Len(s) + 1 : t[m] = IF m = Len(s) + 1 THEN p ELSE s[m]
  OBVIOUS
<1> HIDE DEF t
<1>2. CASE p.kind = "start"
  <2>1. \A m \in 1 .. Len(s) : Len(s) + 1 \in m + 1 .. Len(t) /\ t[Len(s) + 1].kind = "start"
    BY <1>1, <1>2
  <2>2. {n \in 1 .. Len(t) :
           /\ t[n].kind = "start"
           /\ \A l \in n + 1 .. Len(t) : t[l].kind \notin {"start", "end"}} = {Len(s) + 1}
    BY <1>1, <1>2, <2>1
  <2>3. Unclosed(t) = {t[Len(s) + 1].delim}
    BY <2>2 DEF Unclosed
  <2> QED BY <1>1, <1>2, <2>3 DEF t
<1>3. CASE p.kind = "end"
  <2>1. \A m \in 1 .. Len(s) : Len(s) + 1 \in m + 1 .. Len(t) /\ t[Len(s) + 1].kind = "end"
    BY <1>1, <1>3
  <2>2. t[Len(s) + 1].kind # "start"
    BY <1>1, <1>3
  <2>3. {n \in 1 .. Len(t) :
           /\ t[n].kind = "start"
           /\ \A l \in n + 1 .. Len(t) : t[l].kind \notin {"start", "end"}} = {}
    BY <1>1, <2>1, <2>2
  <2>4. Unclosed(t) = {}
    BY <2>3 DEF Unclosed
  <2> QED BY <1>3, <2>4 DEF t
<1>4. CASE p.kind \notin {"start", "end"}
  <2> DEFINE Open(text) == {n \in 1 .. Len(text) :
               /\ text[n].kind = "start"
               /\ \A l \in n + 1 .. Len(text) : text[l].kind \notin {"start", "end"}}
  <2>1. Open(t) = Open(s)
    <3>1. ASSUME NEW n \in Open(t) PROVE n \in Open(s)
      <4>1. n \in 1 .. Len(s) + 1 /\ n # Len(s) + 1 /\ t[n].kind = "start"
        BY <1>1, <1>4
      <4>2. \A l \in n + 1 .. Len(s) : l \in n + 1 .. Len(t) /\ t[l] = s[l]
        BY <1>1, <4>1
      <4> QED BY <1>1, <4>1, <4>2
    <3>2. ASSUME NEW n \in Open(s) PROVE n \in Open(t)
      <4>1. \A l \in n + 1 .. Len(t) : l \in n + 1 .. Len(s) \/ t[l] = p
        BY <1>1
      <4>2. \A l \in n + 1 .. Len(s) : t[l] = s[l]
        BY <1>1
      <4> QED BY <1>1, <1>4, <4>1, <4>2
    <3> QED BY <3>1, <3>2
  <2>2. \A n \in Open(s) : t[n] = s[n]
    BY <1>1
  <2>3. Unclosed(t) = {t[n].delim : n \in Open(t)} /\ Unclosed(s) = {s[n].delim : n \in Open(s)}
    BY DEF Unclosed
  <2> HIDE DEF Open
  <2>4. Unclosed(t) = Unclosed(s)
    BY <2>1, <2>2, <2>3
  <2> QED BY <1>4, <2>4 DEF t
<1> QED BY <1>2, <1>3, <1>4 DEF t

\* A piece that opens a block where none is open, one that closes the block
\* that is, and any other.
LEMMA BalancedWritten ==
  ASSUME NEW s \in Seq(Piece), NEW p \in Piece, NEW before, NEW after,
         Balanced(s, before),
         \/ p.kind = "start" /\ before = None /\ after = p.delim /\ after # None
         \/ p.kind = "end" /\ before = p.delim /\ before # None /\ after = None
         \/ p.kind \notin {"start", "end"} /\ after = before
  PROVE  Balanced(Append(s, p), after)
<1> DEFINE t == Append(s, p)
<1>1. /\ Len(s) \in Nat /\ Len(t) = Len(s) + 1
      /\ \A m \in 1 .. Len(s) + 1 : t[m] = IF m = Len(s) + 1 THEN p ELSE s[m]
  OBVIOUS
<1>2. \A n \in 1 .. Len(s) + 1 : SubSeq(t, 1, n - 1) = SubSeq(s, 1, n - 1)
  OBVIOUS
<1>3. SubSeq(s, 1, (Len(s) + 1) - 1) = s
  OBVIOUS
<1>4. Unclosed(t) = {after} \ {None}
  BY UnclosedWritten DEF Balanced
<1> HIDE DEF t
<1>5. ASSUME NEW n \in 1 .. Len(t)
      PROVE  /\ t[n].kind = "start" => Unclosed(SubSeq(t, 1, n - 1)) = {}
             /\ t[n].kind = "end"   => Unclosed(SubSeq(t, 1, n - 1)) = {t[n].delim}
  <2>1. CASE n = Len(s) + 1
    <3>1. SubSeq(t, 1, n - 1) = s /\ t[n] = p
      BY <1>1, <1>2, <1>3, <2>1
    <3>2. Unclosed(s) = {before} \ {None}
      BY DEF Balanced
    <3> QED BY <3>1, <3>2
  <2>2. CASE n # Len(s) + 1
    <3>1. n \in 1 .. Len(s) /\ t[n] = s[n] /\ SubSeq(t, 1, n - 1) = SubSeq(s, 1, n - 1)
      BY <1>1, <1>2, <2>2
    <3> QED BY <3>1 DEF Balanced
  <2> QED BY <2>1, <2>2
<1> QED BY <1>4, <1>5 DEF Balanced, t

LEMMA EmptyBalanced == Balanced(<<>>, None)
  BY DEF Balanced, Unclosed

\* The call on top goes on as "frame".
LEMMA ConsumedTop ==
  ASSUME TypeInv, Reading, NEW frame \in Frame, Consume(frame)
  PROVE  Top' = frame
<1>1. stack \in Seq(Frame) /\ Len(stack) \in 1 .. Len(stack)
  BY ReadingFacts DEF TypeInv, TypeOK
<1>2. Len(stack') = Len(stack) /\ stack'[Len(stack)] = frame
  BY <1>1 DEF Consume
<1> QED BY <1>2 DEF Top

\* The text as it is, or with one more piece that is no tag.
NoTag == output' = output
         \/ \E p \in Piece : output' = Append(output, p) /\ p.kind \notin {"start", "end"}

LEMMA NoTagBalanced ==
  ASSUME TypeInv, NEW block, Balanced(output, block), NoTag
  PROVE  Balanced(output', block)
  BY BalancedWritten DEF NoTag, TypeInv, TypeOK

\* A line that neither opens nor closes a verbatim block.
LEMMA OrdinaryInStep ==
  ASSUME TypeInv, BlocksInStep, Reading, NEW frame \in Frame, frame.verb = Top.verb,
         Consume(frame), status' = status, crossed' = crossed,
         Top.verb = None \/ delims' = delims, NoTag
  PROVE  BlocksInStep'
<1>1. status = "running" /\ status' = "running" /\ Top' = frame
  BY ConsumedTop DEF Reading
<1>2. SUFFICES ASSUME ~crossed, InStep PROVE InStep'
  BY <1>1, InStepRunning DEF BlocksInStep, TopIsCloser, TagsBalanced, OpenBlock,
                             InStep, Closer
<1>3. Balanced(output', frame.verb)
  BY <1>2, NoTagBalanced DEF InStep
<1> QED BY <1>1, <1>2, <1>3 DEF InStep, Closer

LEMMA LineIsNoTag ==
  ASSUME TypeInv, Reading, NEW kind \in {"line", "unresolved"},
         NEW nl \in {Cur.nl, TRUE, FALSE}, Write(kind, None, nl)
  PROVE  NoTag
<1>1. Wrote(kind, None)
  BY WrittenPiece
<1>2. PICK p : Read(p) /\ output' = Append(output, p) /\ p.kind = kind
  BY <1>1 DEF Wrote
<1> QED BY <1>2 DEF NoTag, Read

LEMMA StepInStep == TypeInv /\ BlocksInStep /\ Step => BlocksInStep'
<1> SUFFICES ASSUME TypeInv, BlocksInStep, Step PROVE BlocksInStep'
  OBVIOUS
<1>0. ASSUME Reading PROVE Past \in Frame /\ Past.verb = Top.verb
  BY <1>0, ReadingFacts DEF SameState
<1>1. CASE stack' = <<>> /\ status' \in Errors
  BY <1>1 DEF BlocksInStep, TopIsCloser, TagsBalanced, Errors
<1>2. CASE Endif
  <2>1. Reading /\ UNCHANGED <<delims, output, crossed>> /\ NoTag
    BY <1>2 DEF Endif, NoTag
  <2>2. CASE Raise("mismatch")
    BY <1>1, <2>2 DEF Raise, Errors
  <2>3. CASE Consume([Past EXCEPT !.conds = Pop(@)]) /\ UNCHANGED status
    <3>1. Pop(Past.conds) \in Seq(CondFrame)
      BY <1>0, <2>1, PopType DEF Frame
    <3>2. /\ WithConds(Past, Pop(Past.conds)) \in Frame
          /\ WithConds(Past, Pop(Past.conds)).verb = Top.verb
          /\ Consume(WithConds(Past, Pop(Past.conds)))
      BY <1>0, <2>1, <2>3, <3>1, FrameConds DEF WithConds
    <3> QED BY <2>1, <2>3, <3>2, OrdinaryInStep
  <2> QED BY <1>2, <2>2, <2>3 DEF Endif
<1>3. CASE OpenConditional
  <2> DEFINE cond == [active |-> Holds(Cur.cond) # (Cur.kind = "ifndef"),
                      name   |-> IF Cur.kind = "ifeval" THEN {} ELSE Cur.cond]
  <2>1. Reading /\ UNCHANGED <<status, delims, output, crossed>> /\ NoTag /\ Cur \in Line
    BY <1>3, ReadingFacts DEF OpenConditional, NoTag
  <2>2. Cur.kind # "ifeval" => Cur.cond \in Condition
    BY <1>3, <2>1 DEF OpenConditional, Line
  <2>3. cond.name \in Condition /\ cond.active \in BOOLEAN
    BY <2>2 DEF Condition
  <2>4. cond \in CondFrame
    BY <2>3 DEF CondFrame
  <2> DEFINE frame == WithConds(Past, Append(Past.conds, cond))
  <2>5. Consume(frame)
    BY <1>3 DEF OpenConditional, WithConds
  <2> HIDE DEF cond
  <2>6. Append(Past.conds, cond) \in Seq(CondFrame)
    BY <1>0, <2>1, <2>4, AppendProperties DEF Frame
  <2>7. frame \in Frame /\ frame.verb = Top.verb
    BY <1>0, <2>1, <2>6, FrameConds
  <2> HIDE DEF frame
  <2> QED BY <2>1, <2>5, <2>7, OrdinaryInStep
<1>4. CASE Shorthand
  <2>1. Reading /\ UNCHANGED <<status, delims, crossed>> /\ Consume(Past)
    BY <1>4 DEF Shorthand
  <2>2. NoTag
    BY <1>4, <2>1, LineIsNoTag DEF Shorthand, NoTag
  <2> QED BY <1>0, <2>1, <2>2, OrdinaryInStep
<1>5. CASE SkipInactive
  BY <1>0, <1>5, OrdinaryInStep DEF SkipInactive, NoTag
<1>6. CASE SetAttribute
  <2>1. Reading /\ UNCHANGED <<status, delims, crossed>> /\ Consume(Past)
        /\ Write("line", None, Cur.nl)
    BY <1>6 DEF SetAttribute, Live
  <2> QED BY <1>0, <2>1, LineIsNoTag, OrdinaryInStep
<1>7. CASE PlainLine \/ VerbatimLine \/ MetadataLine \/ BlockDelimiter
  <2>1. /\ Reading /\ UNCHANGED <<status, crossed>> /\ Write("line", None, Cur.nl)
        /\ Top.verb = None \/ delims' = delims
    BY <1>7 DEF PlainLine, VerbatimLine, MetadataLine, BlockDelimiter, Live
  <2>2. PICK m \in BOOLEAN : Consume(WithMeta(Past, m))
    <3>1. CASE PlainLine \/ VerbatimLine
      <4>1. Consume(WithMeta(Past, Past.meta /\ Cur.kind # "blank"))
        BY <3>1 DEF PlainLine, VerbatimLine, WithMeta
      <4>2. (Past.meta /\ Cur.kind # "blank") \in BOOLEAN
        OBVIOUS
      <4> QED BY <4>1, <4>2
    <3>2. CASE MetadataLine
      BY <3>2 DEF MetadataLine, WithMeta
    <3>3. CASE BlockDelimiter
      BY <3>3 DEF BlockDelimiter, WithMeta
    <3> QED BY <1>7, <3>1, <3>2, <3>3
  <2>3. WithMeta(Past, m) \in Frame /\ WithMeta(Past, m).verb = Top.verb
    BY <1>0, <2>1, FrameMeta
  <2> QED BY <2>1, <2>2, <2>3, LineIsNoTag, OrdinaryInStep
<1>8. CASE OpenVerbatim
  <2>1. /\ Reading /\ UNCHANGED <<status, crossed>> /\ Top.verb = None
        /\ Consume(WithVerb(Past, Cur.delim, FALSE)) /\ Cur.delim \in Delims
        /\ delims' = Append(delims, Cur.delim) /\ Write("start", Cur.delim, TRUE)
    BY <1>8, DelimAssumption DEF OpenVerbatim, Live, WithVerb
  <2>2. /\ WithVerb(Past, Cur.delim, FALSE) \in Frame
        /\ WithVerb(Past, Cur.delim, FALSE).verb = Cur.delim
    BY <1>0, <2>1, FrameVerb
  <2>3. Top'.verb = Cur.delim
    BY <2>1, <2>2, ConsumedTop
  <2>4. PICK p : Read(p) /\ output' = Append(output, p) /\ p.kind = "start" /\ p.delim = Cur.delim
    <3>1. Wrote("start", Cur.delim)
      BY <2>1, WrittenPiece
    <3> QED BY <3>1 DEF Wrote
  <2>5. status = "running" /\ status' = "running" /\ Cur.delim # None
    BY <2>1, DelimAssumption DEF Reading
  <2>6. SUFFICES ASSUME ~crossed, InStep PROVE InStep'
    BY <2>1, <2>5, InStepRunning DEF BlocksInStep, TopIsCloser, TagsBalanced, OpenBlock,
                                     InStep, Closer
  <2>7. Balanced(output, None)
    BY <2>1, <2>6 DEF InStep
  <2>8. Balanced(output', Cur.delim)
    BY <2>4, <2>5, <2>7, BalancedWritten DEF Read, TypeInv, TypeOK
  <2>9. Closer(Cur.delim, delims')
    <3>1. delims \in Seq(Delims)
      BY DEF TypeInv, TypeOK
    <3>2. delims' = Append(delims, Cur.delim) /\ Cur.delim \in Delims
      BY <2>1
    <3>3. Len(delims') = Len(delims) + 1 /\ delims'[Len(delims) + 1] = Cur.delim
      BY <3>1, <3>2
    <3>4. delims' # <<>> /\ delims'[Len(delims')] = Cur.delim
      BY <3>1, <3>3
    <3> QED BY <3>4 DEF Closer
  <2> QED BY <2>3, <2>8, <2>9 DEF InStep
<1>9. CASE CloseVerbatim
  <2>1. /\ Reading /\ UNCHANGED <<status, crossed>> /\ Top.verb # None
        /\ Consume(WithVerb(Past, None, FALSE)) /\ Cur.delim = Top.verb
        /\ Write("end", Cur.delim, TRUE)
    BY <1>9 DEF CloseVerbatim, Closes, Live, WithVerb
  <2>2. /\ WithVerb(Past, None, FALSE) \in Frame
        /\ WithVerb(Past, None, FALSE).verb = None
    BY <1>0, <2>1, FrameVerb
  <2>3. Top'.verb = None
    BY <2>1, <2>2, ConsumedTop
  <2>4. Cur.delim \in Delims \cup {None}
    BY <2>1, ReadingFacts DEF Frame
  <2>5. PICK p : Read(p) /\ output' = Append(output, p) /\ p.kind = "end" /\ p.delim = Cur.delim
    <3>1. Wrote("end", Cur.delim)
      BY <2>1, <2>4, WrittenPiece
    <3> QED BY <3>1 DEF Wrote
  <2>6. status = "running" /\ status' = "running"
    BY <2>1 DEF Reading
  <2>7. SUFFICES ASSUME ~crossed, InStep PROVE InStep'
    BY <2>1, <2>6, InStepRunning DEF BlocksInStep, TopIsCloser, TagsBalanced, OpenBlock,
                                     InStep, Closer
  <2>8. Balanced(output, Cur.delim)
    BY <2>1, <2>7 DEF InStep
  <2>9. Balanced(output', None)
    BY <2>1, <2>5, <2>8, BalancedWritten DEF Read, TypeInv, TypeOK
  <2> QED BY <2>3, <2>9 DEF InStep, Closer
<1>10. CASE IncludeMissing
  <2>1. Reading /\ UNCHANGED <<delims, crossed>>
    BY <1>10 DEF IncludeMissing, Including, Live
  <2>2. CASE Strict
    BY <1>1, <1>10, <2>2 DEF IncludeMissing, Raise, Errors
  <2>3. CASE ~Strict
    <3>1. Consume(Past) /\ Write("unresolved", None, FALSE) /\ UNCHANGED status
      BY <1>10, <2>3 DEF IncludeMissing
    <3> QED BY <1>0, <2>1, <3>1, LineIsNoTag, OrdinaryInStep
  <2> QED BY <2>2, <2>3
<1>11. CASE IncludeRefused
  BY <1>1, <1>11 DEF IncludeRefused, Raise, Errors
<1>12. CASE Expand
  <2>1. status = "running" /\ UNCHANGED <<status, crossed, delims, output>>
    BY <1>12 DEF Expand, Including, Live, Reading
  <2>2. Top'.verb = Top.verb
    <3>1. Top' = NewFrame(Cur.target, Kept, Top.verb)
      BY SMTT(30), <1>12, ExpandFacts, ReadingFacts DEF Top, Expand, Including, Live
    <3> QED BY <3>1 DEF NewFrame
  <2> QED BY <2>1, <2>2 DEF BlocksInStep, TopIsCloser, TagsBalanced, OpenBlock
<1>13. CASE Return
  <2>1. status = "running" /\ UNCHANGED <<status, delims, output>>
    BY <1>13 DEF Return
  <2>2. Top' = stack[Len(stack) - 1]
    BY <1>13, ReturnFacts DEF Top
  <2>3. ~crossed' => ~crossed /\ Top'.verb = Top.verb
    BY <1>13, <2>2 DEF Return
  <2> QED BY <2>1, <2>3 DEF BlocksInStep, TopIsCloser, TagsBalanced, OpenBlock
<1>14. CASE Finish
  BY <1>14 DEF Finish, BlocksInStep, TopIsCloser, TagsBalanced, OpenBlock
<1> QED BY <1>2, <1>3, <1>4, <1>5, <1>6, <1>7, <1>8, <1>9, <1>10, <1>11, <1>12,
           <1>13, <1>14 DEF Step

\* The synthetic tags are START and END in turn and of the same delimiter, and
\* the delimiter stack has the closer of the open block on top, as long as no
\* include has left another block open than it found.
THEOREM TagsAndDelimiters == Spec => []BlocksInStep
<1>1. Init => BlocksInStep
  BY DEF Init, BlocksInStep, TopIsCloser, TagsBalanced
<1>2. TypeInv /\ BlocksInStep /\ [Next]_vars => BlocksInStep'
  <2> SUFFICES ASSUME TypeInv, BlocksInStep, [Next]_vars PROVE BlocksInStep'
    OBVIOUS
  <2>1. CASE Process
    <3>1. PICK f : f.verb = None /\ stack' = <<f>>
      BY <2>1 DEF Process
    <3>2. Top' = f /\ status' = "running" /\ output' = <<>>
      BY <2>1, <3>1 DEF Process, Top
    <3> QED BY <3>1, <3>2, EmptyBalanced
            DEF BlocksInStep, TopIsCloser, TagsBalanced, OpenBlock
  <2>2. CASE Step
    BY <2>2, StepInStep
  <2>3. CASE UNCHANGED vars
    BY <2>3 DEF vars, parserView, BlocksInStep, TopIsCloser, TagsBalanced, OpenBlock, Top
  <2> QED BY <2>1, <2>2, <2>3 DEF Next
<1> QED BY <1>1, <1>2, Invariance, PTL DEF Spec

-----------------------------------------------------------------------------
(* The include chain                                                       *)

FilesOf(s) == [i \in 1 .. Len(s) |-> s[i].file]

LEMMA FilesOfSeq ==
  ASSUME NEW s \in Seq(Frame)
  PROVE  FilesOf(s) \in Seq(Documents) /\ Len(FilesOf(s)) = Len(s) /\ Len(s) \in Nat
<1>1. ASSUME NEW i \in 1 .. Len(s) PROVE s[i].file \in Documents
  <2>1. s[i] \in Frame
    OBVIOUS
  <2> QED BY <2>1 DEF Frame
<1>2. Len(s) \in Nat
  OBVIOUS
<1> QED BY <1>1, <1>2 DEF FilesOf

LEMMA ChainOfStack ==
  ASSUME TypeInv
  PROVE  /\ Len(stack) \in Nat /\ Chain \in Seq(Documents) /\ Len(Chain) = Len(stack)
         /\ \A i \in 1 .. Len(stack) : Chain[i] = stack[i].file
<1>1. stack \in Seq(Frame) /\ Chain = FilesOf(stack)
  BY DEF TypeInv, TypeOK, Chain, FilesOf
<1>2. \A i \in 1 .. Len(stack) : Chain[i] = stack[i].file
  BY DEF Chain
<1> QED BY <1>1, <1>2, FilesOfSeq

\* Every step of the detailed loop is a step of the walk or leaves it alone.
LEMMA StepWalks == TypeInv /\ LocalsInv /\ [Next]_vars => [Walk!Next]_Chain
<1> SUFFICES ASSUME TypeInv, LocalsInv, [Next]_vars PROVE [Walk!Next]_Chain
  OBVIOUS
<1>0. TypeInv'
  BY NextType
<1>1. CASE UNCHANGED stack
  BY <1>1 DEF Chain
<1>2. CASE Process
  <2>1. stack = <<>>
    BY <1>2 DEF Process, TypeInv, TypeOK
  <2>2. PICK f : f.file = Root /\ stack' = <<f>>
    BY <1>2 DEF Process
  <2>3. Chain = <<>> /\ Chain' = <<Root>>
    BY <2>1, <2>2 DEF Chain
  <2> QED BY <2>3 DEF Walk!Next, Walk!Begin
<1>3. ASSUME NEW frame, Moves(frame) PROVE UNCHANGED Chain
  <2>1. Reading /\ SameLines(frame, Past) /\ Consume(frame)
    BY <1>3 DEF Moves
  <2>2. frame.file = stack[Len(stack)].file
    BY <2>1, ReadingFacts DEF SameLines, Top
  <2>3. /\ Len(stack') = Len(stack)
        /\ \A i \in 1 .. Len(stack) : stack'[i].file = stack[i].file
    BY <2>1, <2>2, ChainOfStack DEF Consume, TypeInv, TypeOK
  <2> QED BY <2>3 DEF Chain
<1>4. CASE Expand
  <2>1. Reading /\ Len(stack) \in Nat \ {0} /\ Top.file = Past.file
    BY <1>4, ReadingFacts DEF Expand, Including, Live
  <2>2. Cur.target \in Files /\ Cur.target \notin Ancestors
    BY <1>4 DEF Expand
  <2>3. NewFrame(Cur.target, Kept, Top.verb).file = Cur.target
    BY DEF NewFrame
  <2>4. /\ Len(stack') = Len(stack) + 1
        /\ \A i \in 1 .. Len(stack) + 1 :
             stack'[i].file = IF i = Len(stack) + 1 THEN Cur.target ELSE stack[i].file
    BY <1>4, <2>1, <2>3, ExpandFacts DEF Top
  <2>5. /\ Chain' \in Seq(Documents) /\ Len(Chain') = Len(stack')
        /\ \A i \in 1 .. Len(stack') : Chain'[i] = stack'[i].file
    <3>1. stack' \in Seq(Frame) /\ Chain' = FilesOf(stack')
      BY <1>0 DEF TypeInv, TypeOK, Chain, FilesOf
    <3>2. \A i \in 1 .. Len(stack') : Chain'[i] = stack'[i].file
      BY DEF Chain
    <3> QED BY <3>1, <3>2, FilesOfSeq
  <2>6. Chain' = Append(Chain, Cur.target)
    BY <2>1, <2>2, <2>4, <2>5, ChainOfStack DEF Documents
  <2>7. Chain # <<>> /\ Cur.target \notin Walk!Ancestors
    BY <2>1, <2>2, ChainOfStack DEF Ancestors, Walk!Ancestors
  <2> QED BY <2>2, <2>6, <2>7 DEF Walk!Next, Walk!Descend
<1>5. CASE Return
  <2>1. Chain' = SubSeq(Chain, 1, Len(Chain) - 1)
    BY <1>5, ReturnFacts, ChainOfStack DEF Chain
  <2> QED BY <1>5, <2>1, ReturnFacts, ChainOfStack DEF Walk!Next, Walk!Return
<1>6. CASE status = "running" /\ stack' = <<>>
  <2>1. stack # <<>> /\ stack \in Seq(Frame)
    BY <1>6 DEF TypeInv, TypeOK
  <2>2. Chain # <<>> /\ Chain' = <<>>
    BY <1>6, <2>1, ChainOfStack DEF Chain
  <2> QED BY <2>2 DEF Walk!Next, Walk!Stop
<1> QED BY <1>1, <1>2, <1>3, <1>4, <1>5, <1>6, StepStack DEF Next, StackStep, vars

\* The preprocessor implements the walk of IncludeWalk.
THEOREM ImplementsWalk == Spec => WalkSpec
<1>1. Init => Walk!Init
  BY DEF Init, Walk!Init, Chain
<1> QED BY <1>1, StepWalks, Invariance, PTL DEF Spec, WalkSpec, Walk!Spec

\* What the walk promises of its chain; inductive as it stands, as the only
\* step that lengthens the chain adds a file that is none of the ancestors.
WalkInv == Walk!TypeOK /\ Walk!NoCycleOpen /\ Walk!RootOnlyFirst

LEMMA WalkStep ==
  ASSUME Root \notin Files, WalkInv, [Walk!Next]_Chain
  PROVE  WalkInv'
<1> USE DEF WalkInv, Walk!TypeOK, Walk!NoCycleOpen, Walk!RootOnlyFirst, Walk!Documents
<1>1. CASE Walk!Begin
  BY <1>1 DEF Walk!Begin
<1>2. ASSUME NEW f \in Files, Walk!Descend(f) PROVE WalkInv'
  BY <1>2 DEF Walk!Descend, Walk!Ancestors
<1>3. CASE Walk!Return
  BY <1>3 DEF Walk!Return
<1>4. CASE Walk!Stop
  BY <1>4 DEF Walk!Stop
<1>5. CASE UNCHANGED Chain
  BY <1>5
<1> QED BY <1>1, <1>2, <1>3, <1>4, <1>5 DEF Walk!Next

\* Whatever walks as IncludeWalk says keeps its chain free of cycles: a file is
\* open twice only directly below itself, and the root text only once.
THEOREM WalkNoCycle == WalkSpec => [](Walk!NoCycleOpen /\ Walk!RootOnlyFirst)
<1>1. Walk!Init => WalkInv
  BY DEF Walk!Init, WalkInv, Walk!TypeOK, Walk!NoCycleOpen, Walk!RootOnlyFirst, Walk!Documents
<1>2. WalkInv /\ [Walk!Next]_Chain => WalkInv'
  BY WalkStep, DocumentAssumption
<1>3. WalkInv => Walk!NoCycleOpen /\ Walk!RootOnlyFirst BY DEF WalkInv
<1> QED BY <1>1, <1>2, <1>3, PTL DEF WalkSpec, Walk!Spec

\* The preprocessor is such a walk: no file is open twice, except directly
\* below itself.
THEOREM NoCycle == Spec => []NoCycleOpen
<1>1. TypeInv /\ Walk!NoCycleOpen => NoCycleOpen
  BY ChainOfStack DEF Walk!NoCycleOpen, NoCycleOpen
<1> QED BY <1>1, WalkNoCycle, ImplementsWalk, Invariance, PTL

-----------------------------------------------------------------------------
(* Documents whose lines all end                                            *)

\* Every line ends in "\n", but for the last of the root text, which need not.
\* Every include takes the whole of a file that has no tag lines, and the file
\* is there, unless missing files are errors (strict) or includes are not
\* obeyed at all.
WholeDocuments ==
  \A t \in AllTrees : \A d \in Documents : \A n \in 1 .. Len(t[d]) :
    /\ t[d][n].nl \/ (d = Root /\ n = Len(t[d]))
    /\ t[d][n].kind = "include" =>
         /\ t[d][n].pick = All
         /\ t[d][n].target \in Files =>
              \A m \in 1 .. Len(t[t[d][n].target]) : t[t[d][n].target][m].kind # "tag"
         /\ t[d][n].target # Missing \/ Strict \/ ~PreprocessDirectives

\* Only the last piece may lack its newline, and then nothing is left to read.
WholeText ==
  \A k \in 1 .. Len(output) :
    /\ output[k].kind # "unresolved"
    /\ output[k].nl \/ (k = Len(output) /\ \A j \in 1 .. Len(stack) : stack[j].pending = {})

RootFirst == \A k \in 1 .. Len(stack) : stack[k].file = Root <=> k = 1

\* A piece that stands for the line being read ends as that line does.
Carried == \E p : /\ output' = Append(output, p) /\ p \in Piece
                  /\ p.kind # "unresolved" /\ (p.nl \/ ~Cur.nl)

LEMMA CarriedLine ==
  ASSUME TypeInv, Reading, NEW kind \in {"line", "start", "end"},
         NEW delim \in Delims \cup {None}, NEW nl \in {Cur.nl, TRUE},
         Write(kind, delim, nl)
  PROVE  Carried
<1>0. Cur.nl \in BOOLEAN
  BY ReadingFacts DEF Line
<1>1. Top.file \in Documents /\ At \in Nat
  BY ReadingFacts DEF Frame
<1> DEFINE p == [from |-> <<Top.file, At>>, kind |-> kind, delim |-> delim, nl |-> nl]
<1>2. p \in Piece
  BY <1>0, <1>1 DEF Piece
<1>3. output' = Append(output, p)
  BY DEF Write
<1>4. p.kind = kind /\ p.nl = nl /\ kind # "unresolved" /\ (nl \/ ~Cur.nl)
  BY <1>0
<1> QED BY <1>2, <1>3, <1>4 DEF Carried

LEMMA StepCarries ==
  ASSUME TypeInv, WholeDocuments, Step
  PROVE  output' = output \/ (Reading /\ Carried)
<1>1. CASE \/ Endif \/ OpenConditional \/ SkipInactive \/ IncludeRefused
           \/ Expand \/ Return \/ Finish
  BY <1>1 DEF Endif, OpenConditional, SkipInactive, IncludeRefused, Expand, Return, Finish
<1>2. CASE Shorthand
  BY <1>2, CarriedLine DEF Shorthand
<1>3. CASE SetAttribute \/ PlainLine \/ MetadataLine \/ BlockDelimiter \/ VerbatimLine
  <2>1. Reading /\ Write("line", None, Cur.nl)
    BY <1>3 DEF SetAttribute, PlainLine, MetadataLine, BlockDelimiter, VerbatimLine, Live
  <2> QED BY <2>1, CarriedLine
<1>4. CASE OpenVerbatim \/ CloseVerbatim
  <2>1. Reading /\ (Write("start", Cur.delim, TRUE) \/ Write("end", Cur.delim, TRUE))
    BY <1>4 DEF OpenVerbatim, CloseVerbatim, Live
  <2>2. Cur \in Line /\ Cur.kind = "delimiter"
    BY <1>4, <2>1, ReadingFacts DEF OpenVerbatim, CloseVerbatim, Closes
  <2>3. Cur.delim \in Delims
    BY <2>2 DEF Line
  <2> QED BY <2>1, <2>3, CarriedLine
<1>5. CASE IncludeMissing
  <2>1. Reading /\ Cur.kind = "include" /\ Cur.target = Missing /\ PreprocessDirectives
    BY <1>5 DEF IncludeMissing, Including, Live
  <2>2. tree \in AllTrees /\ Top.file \in Documents /\ At \in 1 .. Len(tree[Top.file])
    BY <2>1, ReadingFacts DEF TypeInv, Frame
  <2>3. Strict
    BY <2>1, <2>2 DEF WholeDocuments, Cur
  <2> QED BY <1>5, <2>3 DEF IncludeMissing
<1> QED BY <1>1, <1>2, <1>3, <1>4, <1>5 DEF Step

\* A line without a newline is the last that is read.
LEMMA LastIsRead ==
  ASSUME TypeInv, TraceInv, RootFirst, WholeDocuments, Reading, ~Cur.nl
  PROVE  Len(stack) = 1 /\ Past.pending = {}
<1>1. /\ tree \in AllTrees /\ Top.file \in Documents /\ At \in 1 .. Len(tree[Top.file])
      /\ Past.pending = Top.pending \ {At} /\ \A m \in Top.pending : At <= m
      /\ Past.pending \subseteq 1 .. Len(tree[Top.file])
      /\ Len(stack) \in 1 .. Len(stack)
  BY ReadingFacts DEF TypeInv, Frame
<1>2. Top.file = Root /\ At = Len(tree[Root])
  BY <1>1 DEF WholeDocuments, Cur
<1>3. Len(stack) = 1
  BY <1>1, <1>2 DEF RootFirst, Top
<1>4. Len(tree[Root]) \in Nat
  BY <1>1, <1>2, TreeType
<1>5. Past.pending = {}
  BY <1>1, <1>2, <1>4
<1> QED BY <1>3, <1>5

LEMMA StepWhole ==
  ASSUME TypeInv, LocalsInv, TraceInv, RootFirst, WholeDocuments, WholeText, Step
  PROVE  WholeText'
<1>0. output \in Seq(Piece) /\ stack \in Seq(Frame) /\ Len(output) \in Nat /\ Len(stack) \in Nat
  BY DEF TypeInv, TypeOK
<1>1. ASSUME Reading PROVE \A k \in 1 .. Len(output) : output[k].kind # "unresolved" /\ output[k].nl
  <2>1. Len(stack) \in 1 .. Len(stack) /\ stack[Len(stack)].pending # {}
    BY <1>0, <1>1, ReadingFacts DEF Reading, Top
  <2> QED BY <2>1 DEF WholeText
<1>2. CASE output' = output
  <2>1. CASE Reading
    BY <1>1, <1>2, <2>1 DEF WholeText
  <2>2. CASE ~Reading
    <3>1. \A j \in 1 .. Len(stack') : j \in 1 .. Len(stack) /\ stack'[j] = stack[j]
      <4>1. CASE Return
        BY <1>0, <4>1, ReturnFacts
      <4>2. CASE stack' = <<>>
        BY <4>2
      <4> QED BY <2>2, <4>1, <4>2, StepStack DEF StackStep, Moves, Expand, Including, Live
    <3> QED BY <1>2, <3>1 DEF WholeText
  <2> QED BY <2>1, <2>2
<1>3. CASE output' # output
  <2>1. Reading /\ Carried
    BY <1>3, StepCarries
  <2>2. PICK p : /\ output' = Append(output, p) /\ p \in Piece
                 /\ p.kind # "unresolved" /\ (p.nl \/ ~Cur.nl)
    BY <2>1 DEF Carried
  <2>3. /\ Len(output') = Len(output) + 1
        /\ \A k \in 1 .. Len(output) + 1 :
             output'[k] = IF k = Len(output) + 1 THEN p ELSE output[k]
    BY <1>0, <2>2
  <2>4. ASSUME ~Cur.nl PROVE \A j \in 1 .. Len(stack') : stack'[j].pending = {}
    <3>1. Len(stack) = 1 /\ Past.pending = {}
      BY <2>1, <2>4, LastIsRead
    <3>2. ASSUME NEW frame, Moves(frame) PROVE \A j \in 1 .. Len(stack') : stack'[j].pending = {}
      <4>1. Len(stack') = 1 /\ stack'[1] = frame
        BY <1>0, <3>1, <3>2 DEF Moves, Consume
      <4>2. frame.pending = {}
        BY <3>1, <3>2 DEF Moves, SameLines
      <4> QED BY <4>1, <4>2
    <3>3. ~Expand /\ ~Return
      BY <1>3 DEF Expand, Return
    <3>4. CASE stack' = <<>>
      BY <3>4
    <3> QED BY <3>2, <3>3, <3>4, StepStack DEF StackStep
  <2> QED BY <1>0, <1>1, <2>1, <2>2, <2>3, <2>4 DEF WholeText
<1> QED BY <1>2, <1>3

LEMMA NextWhole ==
  ASSUME WholeDocuments
  PROVE  TypeInv /\ LocalsInv /\ TraceInv /\ RootFirst /\ WholeText /\ [Next]_vars => WholeText'
<1> SUFFICES ASSUME TypeInv, LocalsInv, TraceInv, RootFirst, WholeText, [Next]_vars
             PROVE  WholeText'
  OBVIOUS
<1>1. CASE Process
  <2>1. output' = <<>>
    BY <1>1 DEF Process
  <2> QED BY <2>1 DEF WholeText
<1>2. CASE Step
  BY <1>2, StepWhole
<1>3. CASE UNCHANGED vars
  BY <1>3 DEF vars, WholeText
<1> QED BY <1>1, <1>2, <1>3 DEF Next

\* The map is true of documents whose lines all end, the last of the root text
\* excepted, and whose includes are neither filtered nor missing, nor of files
\* with tag lines.
THEOREM MapIsTrue == WholeDocuments => (Spec => []LineMapTrue)
<1> SUFFICES ASSUME WholeDocuments PROVE Spec => []LineMapTrue
  OBVIOUS
<1>1. Spec => []RootFirst
  <2>1. TypeInv /\ Walk!RootOnlyFirst => RootFirst
    BY ChainOfStack DEF Walk!RootOnlyFirst, RootFirst
  <2> QED BY <2>1, WalkNoCycle, ImplementsWalk, Invariance, PTL
<1>2. Init => WholeText
  BY DEF Init, WholeText
<1>3. TypeInv /\ LocalsInv /\ TraceInv /\ RootFirst /\ WholeText /\ [Next]_vars => WholeText'
  BY NextWhole
<1>4. TypeInv /\ WholeText /\ LineMapExact => LineMapTrue
  <2> SUFFICES ASSUME TypeInv, WholeText PROVE Terminated /\ Unfiltered
    BY DEF LineMapExact
  <2>1. Len(output) \in Nat /\ tree \in AllTrees
    BY DEF TypeInv, TypeOK
  <2>2. Terminated
    BY <2>1 DEF WholeText, Terminated
  <2>3. Unfiltered
    BY <2>1 DEF WholeDocuments, Unfiltered
  <2> QED BY <2>2, <2>3
<1>5. Spec => [](TypeInv /\ LocalsInv /\ TraceInv)
  BY Invariance, TraceInvariance, PTL
<1> QED BY <1>1, <1>2, <1>3, <1>4, <1>5, MapIsExact, PTL DEF Spec
=============================================================================
