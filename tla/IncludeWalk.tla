---------------------------- MODULE IncludeWalk ----------------------------
(***************************************************************************)
(* What the preprocessor promises about include:: expansion, without lines,*)
(* conditionals or output: a depth-first walk over the files, seen only as *)
(* the chain of files that are open at the moment (the nested calls of     *)
(* _process_source, the outermost first).  Descending into a file is       *)
(* refused when the file is already an ancestor of the file being read.    *)
(* The file being read is not its own ancestor, so a file that includes    *)
(* itself is entered a second time before the walk is refused.             *)
(***************************************************************************)
EXTENDS Naturals, Sequences

CONSTANTS Files,   \* every file that an include directive can reach
          Root     \* the source text handed to process(), known as "<root>",
                   \* which is not a path and so not among the files

VARIABLE chain     \* the open files, the outermost first; <<>> when idle

Documents == Files \cup {Root}

TypeOK == chain \in Seq(Documents)

Init == chain = <<>>

\* process() starts on the root text.
Begin == /\ chain = <<>>
         /\ chain' = <<Root>>

\* The files whose processing waits for an include: all but the last.
Ancestors == {chain[i] : i \in 1 .. Len(chain) - 1}

\* An include of f is expanded.
Descend(f) == /\ chain # <<>>
              /\ f \notin Ancestors
              /\ chain' = Append(chain, f)

\* The file being read is exhausted and its parent goes on.
Return == /\ Len(chain) > 1
          /\ chain' = SubSeq(chain, 1, Len(chain) - 1)

\* process() returns, or any nested call raises and the whole stack unwinds.
Stop == /\ chain # <<>>
        /\ chain' = <<>>

Next == \/ Begin
        \/ \E f \in Files : Descend(f)
        \/ Return
        \/ Stop

Spec == Init /\ [][Next]_chain

-----------------------------------------------------------------------------
\* No file is open twice, except that a file may be open once more directly
\* below itself: a cycle of include directives is cut as soon as it closes,
\* a self-inclusion one call later (the ancestor test of
\* _handle_include_directive does not look at current_file).
NoCycleOpen ==
  \A i, j \in 1 .. Len(chain) : i < j /\ chain[i] = chain[j] => j = i + 1

\* The root text is never entered again: "<root>" is not a path.
RootOnlyFirst == \A i \in 1 .. Len(chain) : chain[i] = Root <=> i = 1
=============================================================================
