---------------------------- MODULE Preprocessor ----------------------------
(***************************************************************************)
(* The Preprocessor of src/asciidoctrine/preprocessor.py, one action per   *)
(* branch of the loop of _process_source over the lines of one file, with  *)
(* the nested calls made for include:: directives as an explicit stack.    *)
(*                                                                         *)
(* Lines are abstract: a line is the kind the code's regular expressions   *)
(* sort it into, and the parts of it that a later decision reads.  "nl"    *)
(* says whether the line, as str.splitlines(True) cuts it, ends in "\n":   *)
(* the last line of an included file may not, nor does a line cut at a     *)
(* form feed or another of the separators splitlines knows.  A "tag" is a  *)
(* comment "// tag::name[]" or "// end::name[]": every include drops those *)
(* of its file, filtered or not, and elsewhere they are metadata.          *)
(*                                                                         *)
(* The parent appends the text of an include to its own lines, and nothing *)
(* reorders them, so the text returned in the end is the one append-only   *)
(* sequence "output".  Each piece of it keeps the file and the line it     *)
(* really came from, which line_map is to be compared with.                *)
(***************************************************************************)
EXTENDS Naturals, Sequences, FiniteSets

CONSTANTS
  Files,               \* the files that a directive can resolve to
  Root,                \* "<root>", the text handed to process()
  Names,               \* attribute names
  Delims,              \* block delimiter lines, as stripped strings
  VerbatimDelims,      \* those of them that open verbatim: ---- .... ++++ ////
  Table,               \* |===
  None,                \* Python's None
  All,                 \* an include without tag=, tags= or lines=
  Missing,             \* a path that is not a file
  Escaping,            \* a path resolve_path refuses with PermissionError
  Malformed,           \* a lines= or leveloffset= value that int() refuses
  Trees,               \* the document trees: functions from documents to lines
  LaterTrees,          \* bound: those of the calls after the first
  InitialAttributes,   \* attributes given to the constructor
  Strict,              \* the constructor's strict flag
  PreprocessDirectives,\* the constructor's preprocess_directives flag
  MaxCalls             \* bound: calls of process() on one Preprocessor

Documents == Files \cup {Root}

\* A condition is an OR of ANDs of (possibly negated) names; the empty
\* condition, that of "ifdef::[]", is the empty OR.  It also stands for the
\* text of the condition, which is the name of its frame.
Literal   == [name : Names, negated : BOOLEAN]
Condition == SUBSET SUBSET Literal

Line ==
       [kind : {"text", "blank", "metadata", "tag"}, nl : BOOLEAN]
  \cup [kind : {"define", "undefine"}, name : Names, nl : BOOLEAN]
  \cup [kind : {"ifdef", "ifndef"}, cond : Condition, short : BOOLEAN, nl : BOOLEAN]
  \cup [kind : {"ifeval", "endif"}, cond : Condition, nl : BOOLEAN]
  \cup [kind : {"delimiter"}, delim : Delims, nl : BOOLEAN]
  \cup [kind : {"include"}, target : Files \cup {Missing, Escaping},
        pick : {All, Malformed} \cup SUBSET Nat, nl : BOOLEAN]

ASSUME DocumentAssumption ==
  /\ Root \notin Files
  /\ Missing \notin Files /\ Escaping \notin Files
  /\ Trees \subseteq [Documents -> Seq(Line)]
  /\ LaterTrees \subseteq [Documents -> Seq(Line)]
ASSUME DelimAssumption ==
  /\ VerbatimDelims \subseteq Delims
  /\ Table \in Delims \ VerbatimDelims
  /\ None \notin Delims
ASSUME OptionAssumption ==
  /\ InitialAttributes \subseteq Names
  /\ Strict \in BOOLEAN
  /\ PreprocessDirectives \in BOOLEAN
  /\ All # Malformed
  /\ MaxCalls \in Nat

VARIABLES
  calls,        \* how often process() was called
  tree,         \* the document tree of the current call
  status,       \* "idle", "running", "done" or the error raised
  stack,        \* the calls of _process_source, the outermost first
  attributes,   \* self.attributes: the names defined
  delims,       \* delimiter_stack, shared by all the calls
  output,       \* the pieces of text appended so far
  lineMap,      \* self.line_map; its length is _global_line_counter - 1
  included,     \* self.included_files_set
  preprocessed, \* self.is_preprocessed
  warned,       \* the kinds of PreprocessorWarning issued in this call
  rootVerb,     \* self.root_in_verbatim
  rootDelims,   \* self.root_delimiter_stack
  crossed       \* history: an include left other delimiters or another
                \* verbatim block open than it was entered with

parserView == <<rootVerb, rootDelims>>
vars == <<calls, tree, status, stack, attributes, delims, output, lineMap,
          included, preprocessed, warned, parserView, crossed>>

Errors   == {"mismatch", "missing", "escaping", "circular", "malformed"}
Warnings == {"mismatch", "missing", "unbalanced", "same-length"}

\* A ConditionalFrame, and the locals of one call of _process_source.
CondFrame == [active : BOOLEAN, name : Condition]
Frame == [file    : Documents,
          pending : SUBSET Nat,           \* the line numbers still to be read
          num     : Nat,                  \* line_num of the line read last
          conds   : Seq(CondFrame),       \* conditional_stack
          verb    : Delims \cup {None},   \* in_verbatim with expected_closer
          meta    : BOOLEAN,              \* metadata_pending
          base    : Seq(Delims)]          \* delims when the call was made

Piece == [from : Documents \X Nat, kind : {"line", "start", "end", "unresolved"},
          delim : Delims \cup {None}, nl : BOOLEAN]

-----------------------------------------------------------------------------
(* Conditions                                                              *)

\* _evaluate_condition; _evaluate_ifeval_condition reads the attributes in
\* the same way, as far as being defined decides its comparison.
Holds(cond) == \E conj \in cond : \A lit \in conj :
                  (lit.name \in attributes) # lit.negated

\* ConditionalStack.is_active
Active(frame) == \A i \in DOMAIN frame.conds : frame.conds[i].active

\* ConditionalStack.pop refuses a name that is not that of the top frame.
Mismatched(conds, name) == /\ conds # <<>>
                           /\ name # {} /\ conds[Len(conds)].name # {}
                           /\ conds[Len(conds)].name # name

Pop(s) == IF s = <<>> THEN s ELSE SubSeq(s, 1, Len(s) - 1)

-----------------------------------------------------------------------------
(* The call on top of the stack                                            *)

Top == stack[Len(stack)]
\* The true number of the line being read: lines are read in their order.
At  == CHOOSE n \in Top.pending : \A m \in Top.pending : n <= m
Cur == tree[Top.file][At]

Reading == status = "running" /\ Top.pending # {}

\* The frame of the call once the line being read is dealt with.
Past == [Top EXCEPT !.pending = @ \ {At}, !.num = @ + 1]

Consume(frame) == stack' = [stack EXCEPT ![Len(stack)] = frame]

\* Mutation of Record: the number of the line in the output is recorded.
Record_Global == lineMap' = Append(lineMap, <<Top.file, Len(lineMap) + 1>>)

\* _record_line
Record == lineMap' = Append(lineMap, <<Top.file, Top.num + 1>>)

\* processed_lines.append
Write(kind, delim, nl) ==
  output' = Append(output, [from |-> <<Top.file, At>>, kind |-> kind,
                            delim |-> delim, nl |-> nl])

\* Mutation of Raise: the error does not unwind the calls.
Raise_KeepsStack(error) == status' = error /\ UNCHANGED stack

Raise(error) == status' = error /\ stack' = <<>>

Conditional == {"ifdef", "ifndef", "ifeval", "endif"}

\* The line goes beyond the conditional directives, to the tests that follow.
Live == /\ Reading
        /\ Active(Top)
        /\ Top.verb = None => Cur.kind \notin Conditional

InTable == \E i \in DOMAIN delims : delims[i] = Table

NewFrame(file, pending, verb) ==
  [file |-> file, pending |-> pending, num |-> 0, conds |-> <<>>,
   verb |-> verb, meta |-> FALSE, base |-> delims]

\* The lines of the file of an include that its text is made of: those that
\* tag=, tags= and lines= select, and never a tag line.
Kept ==
  LET lines == tree[Cur.target]
  IN  {n \in 1 .. Len(lines) :
         (Cur.pick = All \/ n \in Cur.pick) /\ lines[n].kind # "tag"}

-----------------------------------------------------------------------------
(* Conditional directives                                                  *)

\* endif::[] and endif::cond[]
Endif ==
  /\ Reading /\ Top.verb = None /\ Cur.kind = "endif"
  /\ IF Mismatched(Top.conds, Cur.cond) /\ Strict
       THEN Raise("mismatch") /\ UNCHANGED warned
       ELSE /\ Consume([Past EXCEPT !.conds = Pop(@)])
            /\ warned' = warned \cup
                 {w \in {"mismatch"} : Mismatched(Top.conds, Cur.cond)}
            /\ UNCHANGED status
  /\ UNCHANGED <<calls, tree, attributes, delims, output, lineMap, included,
                 preprocessed, parserView, crossed>>

\* Mutation of OpenConditional: directives are obeyed inside verbatim blocks.
OpenConditional_InVerbatim ==
  /\ Reading
  /\ \/ Cur.kind \in {"ifdef", "ifndef"} /\ ~Cur.short
     \/ Cur.kind = "ifeval"
  /\ LET frame == [active |-> Holds(Cur.cond) # (Cur.kind = "ifndef"), name |-> {}]
     IN  Consume([Past EXCEPT !.conds = Append(@, frame)])
  /\ UNCHANGED <<calls, tree, status, attributes, delims, output, lineMap,
                 included, preprocessed, warned, parserView, crossed>>

\* ifdef::cond[], ifndef::cond[] and ifeval::[cond]: a frame is pushed even
\* where the enclosing frames are inactive.
OpenConditional ==
  /\ Reading /\ Top.verb = None
  /\ \/ Cur.kind \in {"ifdef", "ifndef"} /\ ~Cur.short
     \/ Cur.kind = "ifeval"
  /\ LET frame == [active |-> Holds(Cur.cond) # (Cur.kind = "ifndef"),
                   name   |-> IF Cur.kind = "ifeval" THEN {} ELSE Cur.cond]
     IN  Consume([Past EXCEPT !.conds = Append(@, frame)])
  /\ UNCHANGED <<calls, tree, status, attributes, delims, output, lineMap,
                 included, preprocessed, warned, parserView, crossed>>

\* Mutation of Shorthand: the enclosing regions are not asked.
Shorthand_Unguarded ==
  /\ Reading /\ Top.verb = None
  /\ Cur.kind \in {"ifdef", "ifndef"} /\ Cur.short
  /\ Consume(Past)
  /\ IF Holds(Cur.cond) # (Cur.kind = "ifndef")
       THEN Record /\ Write("line", None, Cur.nl)
       ELSE UNCHANGED <<lineMap, output>>
  /\ UNCHANGED <<calls, tree, status, attributes, delims, included,
                 preprocessed, warned, parserView, crossed>>

\* ifdef::cond[body] and ifndef::cond[body]
Shorthand ==
  /\ Reading /\ Top.verb = None
  /\ Cur.kind \in {"ifdef", "ifndef"} /\ Cur.short
  /\ Consume(Past)
  /\ IF Active(Top) /\ Holds(Cur.cond) # (Cur.kind = "ifndef")
       THEN Record /\ Write("line", None, Cur.nl)
       ELSE UNCHANGED <<lineMap, output>>
  /\ UNCHANGED <<calls, tree, status, attributes, delims, included,
                 preprocessed, warned, parserView, crossed>>

\* Any other line of an inactive region.
SkipInactive ==
  /\ Reading
  /\ ~Active(Top)
  /\ Top.verb = None => Cur.kind \notin Conditional
  /\ Consume(Past)
  /\ UNCHANGED <<calls, tree, status, attributes, delims, output, lineMap,
                 included, preprocessed, warned, parserView, crossed>>

-----------------------------------------------------------------------------
(* Lines outside a verbatim block                                          *)

\* :name: value, :!name: and :name!: take effect and stay in the text.
SetAttribute ==
  /\ Live /\ Top.verb = None
  /\ \/ Cur.kind = "define"   /\ attributes' = attributes \cup {Cur.name}
     \/ Cur.kind = "undefine" /\ attributes' = attributes \ {Cur.name}
  /\ Consume(Past) /\ Record /\ Write("line", None, Cur.nl)
  /\ UNCHANGED <<calls, tree, status, delims, included, preprocessed, warned,
                 parserView, crossed>>

\* A blank line ends the metadata of a block, a text line does not.  With
\* directives switched off an include line is text.
PlainLine ==
  /\ Live /\ Top.verb = None
  /\ \/ Cur.kind \in {"text", "blank"}
     \/ Cur.kind = "include" /\ ~PreprocessDirectives
  /\ Consume([Past EXCEPT !.meta = @ /\ Cur.kind # "blank"])
  /\ Record /\ Write("line", None, Cur.nl)
  /\ UNCHANGED <<calls, tree, status, attributes, delims, included,
                 preprocessed, warned, parserView, crossed>>

MetadataLine ==
  /\ Live /\ Top.verb = None /\ Cur.kind \in {"metadata", "tag"}
  /\ Consume([Past EXCEPT !.meta = TRUE])
  /\ Record /\ Write("line", None, Cur.nl)
  /\ UNCHANGED <<calls, tree, status, attributes, delims, included,
                 preprocessed, warned, parserView, crossed>>

\* Mutation of OpenVerbatim: the metadata of the block stays pending.
OpenVerbatim_KeepsMeta ==
  /\ Live /\ Top.verb = None /\ Cur.kind = "delimiter"
  /\ Cur.delim \in VerbatimDelims /\ ~InTable
  /\ Consume([Past EXCEPT !.verb = Cur.delim])
  /\ delims' = Append(delims, Cur.delim)
  /\ Record /\ Write("start", Cur.delim, TRUE)
  /\ UNCHANGED <<calls, tree, status, attributes, included, preprocessed,
                 warned, parserView, crossed>>

\* A delimiter line becomes a START tag, except in a table.
OpenVerbatim ==
  /\ Live /\ Top.verb = None /\ Cur.kind = "delimiter"
  /\ Cur.delim \in VerbatimDelims /\ ~InTable
  /\ Consume([Past EXCEPT !.verb = Cur.delim, !.meta = FALSE])
  /\ delims' = Append(delims, Cur.delim)
  /\ Record /\ Write("start", Cur.delim, TRUE)
  /\ UNCHANGED <<calls, tree, status, attributes, included, preprocessed,
                 warned, parserView, crossed>>

\* _update_delimiter_stack
BlockDelimiter ==
  /\ Live /\ Top.verb = None /\ Cur.kind = "delimiter"
  /\ Cur.delim \notin VerbatimDelims \/ InTable
  /\ Consume([Past EXCEPT !.meta = FALSE])
  /\ delims' = IF delims # <<>> /\ delims[Len(delims)] = Cur.delim
                 THEN Pop(delims) ELSE Append(delims, Cur.delim)
  /\ Record /\ Write("line", None, Cur.nl)
  /\ UNCHANGED <<calls, tree, status, attributes, included, preprocessed,
                 warned, parserView, crossed>>

-----------------------------------------------------------------------------
(* Lines inside a verbatim block                                           *)

\* Mutation of Closes: any verbatim delimiter ends the block.
Closes_Any == Cur.kind = "delimiter" /\ Cur.delim \in VerbatimDelims

Closes == Cur.kind = "delimiter" /\ Cur.delim = Top.verb

CloseVerbatim ==
  /\ Live /\ Top.verb # None /\ Closes
  /\ Consume([Past EXCEPT !.verb = None, !.meta = FALSE])
  /\ delims' = IF delims # <<>> /\ delims[Len(delims)] = Cur.delim
                 THEN Pop(delims) ELSE delims
  /\ warned' = warned \cup {w \in {"same-length"} : Top.meta}
  /\ Record /\ Write("end", Cur.delim, TRUE)
  /\ UNCHANGED <<calls, tree, status, attributes, included, preprocessed,
                 parserView, crossed>>

VerbatimLine ==
  /\ Live /\ Top.verb # None /\ ~Closes
  /\ Cur.kind = "include" => ~PreprocessDirectives
  /\ Consume([Past EXCEPT !.meta = @ /\ Cur.kind # "blank"])
  /\ Record /\ Write("line", None, Cur.nl)
  /\ UNCHANGED <<calls, tree, status, attributes, delims, included,
                 preprocessed, warned, parserView, crossed>>

-----------------------------------------------------------------------------
(* Include directives, inside a verbatim block and outside                 *)

Including == /\ Live /\ Cur.kind = "include" /\ PreprocessDirectives
             /\ preprocessed' = TRUE

\* Mutation of Ancestors: the caller is left out as well.
Ancestors_ButCaller == {stack[i].file : i \in 1 .. Len(stack) - 2}

\* The files of include_stack: those that wait for an include, not the
\* current one.
Ancestors == {stack[i].file : i \in 1 .. Len(stack) - 1}

\* A file that is not there: an error, or a text put in its place that has
\* no newline and is not recorded.
IncludeMissing ==
  /\ Including /\ Cur.target = Missing
  /\ IF Strict
       THEN Raise("missing") /\ UNCHANGED <<output, warned>>
       ELSE /\ Consume(Past)
            /\ Write("unresolved", None, FALSE)
            /\ warned' = warned \cup {"missing"}
            /\ UNCHANGED status
  /\ UNCHANGED <<calls, tree, attributes, delims, lineMap, included,
                 parserView, crossed>>

\* The directives that raise in either mode.  The file joins the set of
\* included files before its tag, line and offset attributes are parsed.
IncludeRefused ==
  /\ Including
  /\ \/ /\ Cur.target = Escaping
        /\ Raise("escaping") /\ UNCHANGED included
     \/ /\ Cur.target \in Ancestors
        /\ Raise("circular") /\ UNCHANGED included
     \/ /\ Cur.target \in Files \ Ancestors /\ Cur.pick = Malformed
        /\ included' = included \cup {Cur.target}
        /\ Raise("malformed")
  /\ UNCHANGED <<calls, tree, attributes, delims, output, lineMap, warned,
                 parserView, crossed>>

\* Mutation of Expand: the directive is recorded though it leaves no text.
Expand_Records ==
  /\ Including /\ Cur.target \in Files \ Ancestors /\ Cur.pick # Malformed
  /\ included' = included \cup {Cur.target}
  /\ stack' = Append([stack EXCEPT ![Len(stack)] = Past],
                     NewFrame(Cur.target, Kept, Top.verb))
  /\ Record
  /\ UNCHANGED <<calls, tree, status, attributes, delims, output, warned,
                 parserView, crossed>>

\* Mutation of Expand: the caller does not go past the directive.
Expand_Again ==
  /\ Including /\ Cur.target \in Files \ Ancestors /\ Cur.pick # Malformed
  /\ included' = included \cup {Cur.target}
  /\ stack' = Append(stack, NewFrame(Cur.target, Kept, Top.verb))
  /\ UNCHANGED <<calls, tree, status, attributes, delims, output, lineMap,
                 warned, parserView, crossed>>

\* The lines that are kept are processed by a nested call, which
\* starts with the verbatim state of the caller and without its conditionals.
Expand ==
  /\ Including /\ Cur.target \in Files \ Ancestors /\ Cur.pick # Malformed
  /\ included' = included \cup {Cur.target}
  /\ stack' = Append([stack EXCEPT ![Len(stack)] = Past],
                     NewFrame(Cur.target, Kept, Top.verb))
  /\ UNCHANGED <<calls, tree, status, attributes, delims, output, lineMap,
                 warned, parserView, crossed>>

\* The nested call returns; only a change of depth is warned of.
Return ==
  /\ status = "running" /\ Top.pending = {} /\ Len(stack) > 1
  /\ stack' = Pop(stack)
  /\ warned' = warned \cup
       {w \in {"unbalanced"} : Len(delims) # Len(Top.base)}
  /\ crossed' = \/ crossed
                \/ delims # Top.base
                \/ Top.verb # stack[Len(stack) - 1].verb
  /\ UNCHANGED <<calls, tree, status, attributes, delims, output, lineMap,
                 included, preprocessed, parserView>>

-----------------------------------------------------------------------------
(* process()                                                               *)

Init ==
  /\ calls = 0 /\ tree \in Trees /\ status = "idle" /\ stack = <<>>
  /\ attributes = InitialAttributes
  /\ delims = <<>> /\ output = <<>> /\ lineMap = <<>>
  /\ included = {} /\ preprocessed = FALSE /\ warned = {}
  /\ rootVerb = None /\ rootDelims = <<>> /\ crossed = FALSE

\* Mutation of Process: line_map is not emptied.
Process_KeepsMap ==
  /\ status # "running" /\ calls < MaxCalls
  /\ calls' = calls + 1
  /\ tree' \in (IF calls = 0 THEN {tree} ELSE LaterTrees)
  /\ status' = "running"
  /\ stack' = <<[file |-> Root, pending |-> 1 .. Len(tree'[Root]), num |-> 0,
                 conds |-> <<>>, verb |-> None, meta |-> FALSE, base |-> <<>>]>>
  /\ delims' = <<>> /\ output' = <<>> /\ UNCHANGED lineMap
  /\ included' = {} /\ preprocessed' = FALSE /\ warned' = {}
  /\ crossed' = FALSE
  /\ UNCHANGED <<attributes, parserView>>

\* Everything starts afresh but the attributes, and what an earlier call left
\* in root_in_verbatim and root_delimiter_stack.
Process ==
  /\ status # "running" /\ calls < MaxCalls
  /\ calls' = calls + 1
  /\ tree' \in (IF calls = 0 THEN {tree} ELSE LaterTrees)
  /\ status' = "running"
  /\ stack' = <<[file |-> Root, pending |-> 1 .. Len(tree'[Root]), num |-> 0,
                 conds |-> <<>>, verb |-> None, meta |-> FALSE, base |-> <<>>]>>
  /\ delims' = <<>> /\ output' = <<>> /\ lineMap' = <<>>
  /\ included' = {} /\ preprocessed' = FALSE /\ warned' = {}
  /\ crossed' = FALSE
  /\ UNCHANGED <<attributes, parserView>>

\* The root text is exhausted.
Finish ==
  /\ status = "running" /\ Len(stack) = 1 /\ Top.pending = {}
  /\ status' = "done" /\ stack' = <<>>
  /\ rootVerb' = Top.verb /\ rootDelims' = delims
  /\ UNCHANGED <<calls, tree, attributes, delims, output, lineMap, included,
                 preprocessed, warned, crossed>>

Step ==
  \/ Endif \/ OpenConditional \/ Shorthand \/ SkipInactive
  \/ SetAttribute \/ PlainLine \/ MetadataLine
  \/ OpenVerbatim \/ BlockDelimiter \/ CloseVerbatim \/ VerbatimLine
  \/ IncludeMissing \/ IncludeRefused \/ Expand \/ Return \/ Finish

Next == Process \/ Step

\* A call of process() runs to its end in one thread; nobody has to call it.
Spec == Init /\ [][Next]_vars /\ WF_vars(Step)

-----------------------------------------------------------------------------
(* Properties                                                              *)

\* The types of the state.
TypeOK ==
  /\ calls \in 0 .. MaxCalls
  /\ tree \in [Documents -> Seq(Line)]
  /\ status \in {"idle", "running", "done"} \cup Errors
  /\ stack \in Seq(Frame)
  /\ attributes \subseteq Names
  /\ delims \in Seq(Delims)
  /\ output \in Seq(Piece)
  /\ lineMap \in Seq(Documents \X Nat)
  /\ included \subseteq Files
  /\ preprocessed \in BOOLEAN
  /\ warned \subseteq Warnings
  /\ rootVerb \in Delims \cup {None}
  /\ rootDelims \in Seq(Delims)
  /\ crossed \in BOOLEAN
  /\ status = "running" <=> stack # <<>>

\* Every call of _process_source has only lines of its own file left to read.
PendingExists ==
  \A i \in 1 .. Len(stack) :
    stack[i].pending \subseteq 1 .. Len(tree[stack[i].file])

\* The nested calls are a walk over the files that refuses ancestors: the
\* detailed loop, errors and restarts included, implements IncludeWalk.
Chain == [i \in 1 .. Len(stack) |-> stack[i].file]
Walk  == INSTANCE IncludeWalk WITH chain <- Chain
WalkSpec == Walk!Spec

\* However the files include each other, a file is open twice at most, and
\* then directly below itself: the cycle test of _handle_include_directive
\* is late by one call for self-inclusion and for nothing else.
NoCycleOpen ==
  \A i, j \in 1 .. Len(stack) :
    i < j /\ stack[i].file = stack[j].file => j = i + 1

\* A file whose include is being expanded, and a verbatim block that is open,
\* stand in an active region.
ActiveWhereItMatters ==
  /\ \A i \in 1 .. Len(stack) - 1 : Active(stack[i])
  /\ \A i \in 1 .. Len(stack) : stack[i].verb # None => Active(stack[i])

\* Moreover no conditional region begins or ends while a verbatim block is
\* open, neither in the file of the block nor, while it waits for an include
\* inside the block, in that of a caller: its open conditionals are the same
\* at the END tag as at the START tag.  So no line of a nested call needs to
\* ask the conditionals of its callers, and no text of a listing or a literal
\* block is ever lost to a directive quoted in it.
RegionsMeetBlocks ==
  /\ []ActiveWhereItMatters
  /\ [][\A i \in 1 .. Len(stack) :
          stack[i].verb # None /\ i <= Len(stack') =>
            stack'[i].conds = stack[i].conds]_vars

\* No text is ever produced from a region that some open file has switched off.
OnlyActiveText ==
  [][output' # output /\ status = "running" =>
       \A i \in 1 .. Len(stack) : Active(stack[i])]_vars

\* The warning about same-length nesting is never a false alarm about content
\* that merely looks like metadata (CHANGELOG, issue #98): once a verbatim
\* block is open its metadata is settled, in callers and nested calls alike.
NoSameLengthWarning ==
  /\ "same-length" \notin warned
  /\ \A i \in 1 .. Len(stack) : stack[i].verb # None => ~stack[i].meta

\* As long as no include has left another block open than it found, the top of
\* delimiter_stack is the closer of the open verbatim block (so that closing
\* the block also pops it, and the strict checks of parse_to_ast agree).
TopIsCloser ==
  ~crossed =>
    /\ status = "running" /\ Top.verb # None =>
         delims # <<>> /\ delims[Len(delims)] = Top.verb
    /\ status = "done" /\ rootVerb # None =>
         rootDelims # <<>> /\ rootDelims[Len(rootDelims)] = rootVerb

\* And the synthetic tags in the text are START and END in turn, of the same
\* delimiter, with a START left over exactly when a block is still open.
Unclosed(text) ==
  {text[m].delim : m \in {n \in 1 .. Len(text) :
     /\ text[n].kind = "start"
     /\ \A l \in n + 1 .. Len(text) : text[l].kind \notin {"start", "end"}}}
Balanced(text, block) ==
  /\ \A n \in 1 .. Len(text) :
       LET before == Unclosed(SubSeq(text, 1, n - 1))
       IN  /\ text[n].kind = "start" => before = {}
           /\ text[n].kind = "end"   => before = {text[n].delim}
  /\ Unclosed(text) = {block} \ {None}
OpenBlock == IF status = "running" THEN Top.verb ELSE rootVerb
TagsBalanced ==
  ~crossed /\ status \in {"running", "done"} => Balanced(output, OpenBlock)

\* Delimiters and synthetic tags are in step with the blocks that are open
\* (preprocessor.py:745-850).
BlocksInStep == TopIsCloser /\ TagsBalanced

\* The lines of the text returned: each begins at a piece that follows a "\n".
LineStarts == {k \in 1 .. Len(output) : k = 1 \/ output[k - 1].nl}
LineOf(k)  == Cardinality({j \in LineStarts : j <= k})

\* What docs/architecture.adoc:105 says of line_map: every line of the text
\* is mapped to the file and line it came from.
LineMapTrue ==
  status = "done" =>
    \A k \in LineStarts : /\ LineOf(k) <= Len(lineMap)
                          /\ lineMap[LineOf(k)] = output[k].from

\* It is so when every piece but the last ends its line, nothing unresolved
\* was put in, and no include leaves out a line of its file: it has no filter,
\* and its file has no tag line.
Terminated == \A k \in 1 .. Len(output) :
                /\ output[k].kind # "unresolved"
                /\ k < Len(output) => output[k].nl
Unfiltered == \A d \in Documents : \A i \in 1 .. Len(tree[d]) :
                tree[d][i].kind = "include" =>
                  /\ tree[d][i].pick = All
                  /\ tree[d][i].target \in Files =>
                       \A n \in 1 .. Len(tree[tree[d][i].target]) :
                         tree[tree[d][i].target][n].kind # "tag"
LineMapExact == Terminated /\ Unfiltered => LineMapTrue

\* A line left out makes the recorded number too small at worst, and the recorded
\* file is right, as long as every piece ends its line.
LineMapNearby ==
  Terminated /\ status = "done" =>
    \A k \in LineStarts :
      /\ LineOf(k) <= Len(lineMap)
      /\ lineMap[LineOf(k)][1] = output[k].from[1]
      /\ lineMap[LineOf(k)][2] \in 1 .. output[k].from[2]

\* Whatever the files include, a call of process() ends.
Terminates == status = "running" ~> status # "running"
=============================================================================
