# asciidoctrine in TLA+

A verification project for asciidoctrine, a Python library that parses
AsciiDoc into a typed syntax tree, resolves it, and renders it as docutils
nodes or as AsciiDoc again. Source paths are relative to
`src/src/asciidoctrine/` unless they start with `src/`.

The library starts no threads and holds no locks. Most of what makes it hard to
get right, and hard to test, is not interleaving: it is long chains of small
decisions over a stream of lines or over a tree, where a piece of state set by
one line, file, document or call (a stack of delimiters, a line counter, the
table of attributes, a counter of footnotes, the element at hand) is used many
steps later under assumptions that something in between has broken. For these
the models enumerate *sequences of inputs* (every small tree of files, every
small sequence of blocks, every small tree), and the properties relate what is
in the result to where it came from. The exception is what `parse_to_ast`
shares between calls: two caches at module level, which callers in several
threads and writers of files do meet at any moment. `Session` models these as a
concurrent system and shows that it implements a service without caches.

## 1. Inventory

### The pipeline

    source text
      -> Preprocessor.process          text with includes expanded, line_map
      -> Lark Earley parser            parse tree (grammar.lark, external)
      -> AsciiDocTransformer           blocks; lists merged and nested on the way
      -> _finalize_document_blocks     sections nested by level
      -> resolve_list_continuations    "+" attaches blocks to list items
      -> auditors                      unclosed blocks, skipped levels
      -> Document AST
            -> ASGResolver             xrefs, footnotes, attributes resolved
            -> WorkspaceBuilder        many documents, one catalog of anchors
            -> DocutilsRenderer        docutils nodes
            -> Serializer              AsciiDoc text

`parse_to_ast` (`lark_parser.py:1683`) runs the first seven steps, behind a
cache when the call uses no options; `table_cell`
(`transformers/block_transformer.py:1172`) and `parse_inlines` re-enter it for
nested content. The parts call each other synchronously and return trees; the
shared mutable state is the attribute dictionary of the preprocessor, the
module-level caches and the catalog of a workspace.

### Components

| component | state it keeps | operations | what makes it correct |
|---|---|---|---|
| Preprocessor (`preprocessor.py`) | attributes, `delimiter_stack` shared by reference with nested calls, `in_verbatim` passed to them by value, one conditional stack per file, `line_map` and its counter, set of included files, what was left open at the end of the root | one step per line: conditional directives, attribute entries, delimiters, verbatim content, includes; nested calls; errors that unwind them | recursion ends and cycles are cut; no text from a region that is off; synthetic verbatim tags alternate; every line mapped to its origin |
| Section nesting (`lark_parser.py:288-312`) | a stack of open sections | one step per block of the flat list | no block lost or reordered, sections nested by level |
| List continuations (`lark_parser.py:1203-1358`) | `last_active_item` while the blocks of a container are rebuilt | one step per block: remember a list, split a `+` paragraph, attach, merge lists | a block goes to the item the author meant; nothing is dropped |
| List merging and nesting (`transformers/block_transformer.py:45-213`) | a stack of open lists | one step per list item | marker levels, order of the items |
| Tables and callouts (`block_transformer.py:568-648, 1087-1207`) | occupancy grid, callout counter | one step per cell, per callout | cells neither overlap nor vanish |
| Parser pipeline (`lark_parser.py:1479-1764`) | the arguments of one call | preprocessing, parsing, audits, errors | whatever is raised is a fault of the text that the mode refuses; strict mode answers for a text without faults only |
| Parser caches (`lark_parser.py:1650-1876`) | lru_cache of trees, dictionaries of parsers keyed by grammar path, mtime and schemes | parse, clear, a file written between calls or during one, from several threads | an answer is no older than the last clearing, and belongs to the caller alone |
| ASG resolver (`resolver.py:85-633`) | footnote counter and table, attributes, titles, current document, the document it indexed | one visit per node; one document after another | each footnote one number, numbers in reading order; an xref points to the nearest anchor in three tiers; one document leaves nothing for the next |
| Workspace (`resolver.py:26-82, 636-772`) | catalog of anchors, raw documents, graphs | build over files, rebuild | catalog and graphs agree with the documents of the last build |
| Docutils backend (`docutils_backend.py`) | `current_node`, the style of the table cell, footnote counter and tables | one visit per node | every node has its element once, under the element of the node above it and in order |
| Serializer (`serializer.py`) | the text written so far | one visitor per node | what is written reads as the same tree |
| Loaders (`loader.py`) | MemoryLoader's dictionary | resolve, read, list | no path outside the base directory |
| Attribute lists and columns (`attributes.py`, `columns.py`) | none | string parsers | distribution of columns |
| Nodes, visitors (`nodes.py`) | the tree itself | constructors, to_dict, visitors | shape of a node |
| Grammar (`grammar.lark`) | none | Earley parse | not stated outside the grammar |

The hazards of this code that a test would hardly reach are listed, each at
its line, under `hazards` in `PROJECT.json`, with the properties that watch
them.

## 2. Modules

| module | models | extends or instantiates |
|---|---|---|
| `IncludeWalk` | abstract: the chain of files open while includes are expanded | |
| `Preprocessor` | `preprocessor.py`, the loop over lines with nested calls | refines `IncludeWalk` |
| `DocumentBody` | `_finalize_document_blocks`: merging of lists, nesting of sections | |
| `BlockMetadata` | `attributed_block`: titles and attributes above a block | |
| `TableGrid` | the loop that groups the cells of a table into rows | |
| `AttributedBlock` | a block, tables included, under its attributes; the columns of its ASG | composes `BlockMetadata` and `TableGrid` |
| `Lists` | `_nest_list_items`, then `resolve_list_continuations` | |
| `FootnoteText` | what a walk over a document meets of its footnotes | |
| `ResolverFootnotes` | the footnote half of `ASGResolver.visit_ref` | `FootnoteText` |
| `DocutilsFootnotes` | the footnote half of `DocutilsRenderer.visit_ref` | `FootnoteText` |
| `Footnotes` | both walks over one document | composes the two |
| `Workspace` | `WorkspaceCatalog`, `WorkspaceBuilder`, the tiers of `visit_ref` | |
| `AstTree` | trees of `nodes.py` as visitors walk them: kinds, parts, what the grammar allows in each | |
| `DocutilsRenderer` | the visitors of `docutils_backend.py` | `AstTree` |
| `Serializer` | the visitors of `serializer.py` | `AstTree` |
| `TextShape` | which blocks the lines of a text make, and which a tree has | `Serializer` |
| `Writers` | both visitors over one tree | composes `DocutilsRenderer` and `TextShape` |
| `ParseService` | abstract: answers to callers, and how old they may be | |
| `Session` | `parse_to_ast`, its caches and its callers; `resolve` and `resolve_to_ast` across documents | refines `ParseService` |
| `MC...` | the sets of inputs and the symmetry for TLC | the module named |
| `...Proofs` | theorems | the module named, and `TLAPS` |

Definitions whose comment begins with "Mutation of" are variants of the
definition below them with a fault such as an edit of the code could bring in.
No specification uses them; they are there to see that each property notices
one.

### Preprocessor

The state is that of a `Preprocessor` object (`attributes`, `line_map`,
`included_files_set`, `is_preprocessed`, `root_in_verbatim`,
`root_delimiter_stack`), the locals of every call of `_process_source` under
way as the sequence `stack`, and the list `delimiter_stack` that all these
calls share, as `delims`. The text returned is `output`, a sequence of pieces;
a parent appends what a nested call returns to its own lines and nothing
reorders them, so one append-only sequence stands for all the lists of lines. A
piece carries the file and line it came from, which the code does not know and
the properties compare `line_map` with.

A line is abstract: its kind, as the regular expressions sort it, and what a
later decision reads of it (the condition, the attribute, the delimiter, the
target). Which lines `tag=`, `tags=` and `lines=` select is part of the input;
`Kept` takes away the lines `// tag::` and `// end::`, as every include does of
its file, filtered or not (`preprocessor.py:455-487`).
One action is one way through the body of the loop (`preprocessor.py:678-855`),
in the order of its tests: `Endif`, `OpenConditional`, `Shorthand`,
`SkipInactive`, `SetAttribute`, `MetadataLine`, `CloseVerbatim`,
`VerbatimLine`, `OpenVerbatim`, `BlockDelimiter`, `PlainLine`; `Expand`,
`IncludeMissing` and `IncludeRefused` are `_handle_include_directive`;
`Return` ends a nested call, `Finish` the outermost, `Process` begins one, and
`Raise` is the error that unwinds all of them. `crossed` remembers that an
include left a block open, or closed one, that it did not open: after that the
code's own invariants are off, and two properties say so.

The tree of files is chosen when a call begins (that of a later call from
`LaterTrees`, a bound) and stays what it is during the call. `preprocessor.py` reads each file once per directive; that a file changes
between two directives of a call is not modelled.

### DocumentBody

`Drop`, `Join`, `Keep` are one round of the loop of
`_merge_consecutive_lists`, `Close` and `Nest` of `_nest_sections`. The trees
are not built: `owner` says which merged block an input block became part of,
`parent` which section a block was appended to. The children of a block are
data, and never touched.

### BlockMetadata

One action per entry of the attribute lines and titles above a block. A style
can replace the block by one of another class; `since` remembers up to which
entry the entries went to the block that was given up, and `wrapped` is a
paragraph that became the content of a quote or verse. Of the blocks that no
style converts, `"Listing"` stands for all. `[NOTE]` alone above an example block
is not a style: the grammar has it, with the block, as an admonition.

### TableGrid, AttributedBlock

`Place` is one round of the loop over cells, which the code has twice: in the
table callback (`block_transformer.py:1087-1163`), with a number of columns
inferred from the cells on the first line, and in `attributed_block`
(`lark_parser.py:535-612`), with the number the attributes declare. `Regroup`
is what lies between: the rows become the sequence of cells again. A slot is a
row and a column; the first free one takes the next cell; `left` holds the cells
still to be read, by their place in what is read, which is the text the first
time and the rows of the first grid the second time.

`AttributedBlock` runs the callback (`Group`), then `BlockMetadata!Next`
(`Apply`), then `GroupAgain` when the finished attributes declare columns, then
`ResolveColumns`, which is `visit_table` of the resolver. Line 0 is a cell
without a location, as those a multiplier makes. A value of `cols` is a sequence
of specifications, each of a form (a width, `n*`, `n*` with a style, another
style, nothing) and a number; `Declared` is how `lark_parser.py` reads it and
`Parsed` how `columns.py` does. `ColumnsOf` falls back on the widest row, as
`parse_cols` does for a value that names no column.

### Lists

`next[1] <= Len(doc)` is the first phase: `NestItem` is one item of
`_nest_list_items` with the stack it works on, `PassOver` a block that is no
list. The second is `resolve_list_continuations` for one collection of blocks:
`Continue`, `Join` and `Keep` are the ways through its loop, and
`split_continuation_paragraphs` has been applied to the blocks before, as in the
code. `kids` is the tree. The lists that hang under an item are not nodes: an
item's children are its sub-items and what is attached to it. What
`resolve_block_internals` does inside a block is the same loop over another
collection, and no state passes from one to the other, so one collection is
modelled.

### FootnoteText, ResolverFootnotes, DocutilsFootnotes, Footnotes

A text is a sequence of tokens: a footnote macro begins, one ends, a reference
by id; and `within` says where a macro stands, in the flow of the text, in a title
or in what is raw. The resolver visits what `get_child_collections` names, and
that is not the title of a document, a section, a sidebar or a collapsible block
(`nodes.py:246`, `589`), but that of a discrete heading, which counts as flow.
The renderer renders titles, and takes as text what is in a paragraph made a stem
block (`docutils_backend.py:637`) and in the entries of a toctree, when Sphinx is
there (`visit_open`). `SkipTitle` and `SkipRaw` pass over those macros. The two walks are visitors that recurse into the text of a footnote:
what the resolver does happens at the end of a macro (`generic_visit` comes
first, `resolver.py:511`), what the renderer does partly at its beginning
(number, `current_node`) and partly at its end (body, reference). In the code
one walk follows the other; they share nothing they write, so `Footnotes`
makes them take each token together: both number it (`InFlow`), or only the
renderer does (`InTitle`), or only the resolver (`InRaw`). An id that is a numeral is that number,
because `fn-2` is the name of a footnote with the id 2 as well as of an
anonymous footnote with the label 2.

### Workspace

`Discover`, `Parse`, `NextPass`, `Index`, `Resolve` are the rounds of the three
loops of `build()`, `Fail` is an exception out of the first one, `Edit` is
whoever else writes the files. A document is its anchors and the build that
parsed it, and a node of the tree is known by file, anchor and build, so a
reference to a node of a tree that has been replaced can be told from one to
the tree in use. The order of the files is left open, although the code sorts
them: that nothing depends on it is part of what is checked. Paths are taken as
resolved; `_get_file_id` and `normpath` are not modelled.

### AstTree, DocutilsRenderer, Serializer, TextShape, Writers

A tree is a sequence of nodes in the order of a walk: kind, node above, part of
that node, and what a visitor reads of it (the length of a delimiter, the style
of a cell). It is chosen while it is walked, one node at each call of a visitor,
so that the behaviours of the model are the walks over all trees. `Fits`,
`Fills`, `Closable` and `Made` leave only trees that the parser makes of some
text: which blocks the grammar has inside of which, that the first row of a
table tells the columns, that a delimiter cannot stand inside a block that began
with its like. What they leave is a little more: an item of a list in an item may
come after an attached block, which only a program that builds the tree can do.

`Enter` is the first half of a visitor of `docutils_backend.py`, `Leave` the
second, `NextPart` what it does between two parts (a title and the blocks),
`VisitLeaf` a visitor that visits nothing, `Finish` the end of
`visit_document`. `calls` are the visitors under way with what each saved; `out`
is what was hung under what, in that order. What is current while a part is
visited is an operator for each visitor (`InSection`, `InItem`, ...), what is
hung when the part is over is `Done`, and where the node itself goes `Above`:
`visit_descriptionlistterm` is the one visitor that does not hang its element
under what is current.

`Written` is the serializer: the lines of a node from the lines of its children,
as its visitor puts them together. It keeps no state but the text, so it is a
function. A line is what a reader can tell of it: a fence, an item of some
level, the `+`, an empty line, text. `Read` folds such lines into the structure
they make, from the grammar's delimiters and what `resolve_list_continuations` does
with a `+`; `Shape` is that of the tree.

### ParseService, Session

`ParseService` has callers, files with versions, and one number for each file:
`floor`, the oldest version that a remembered answer may be made of. A call that
may be remembered gets an answer no older than the floor at its beginning,
any other one no older than its beginning; `Forget` (`clear_ast_cache`) raises
the floor to now, or to the beginning of the oldest call under way, which will
store what it read after the clearing. What a caller holds changes by that
caller's doing alone. An answer says of each of its table cells which grammar it
was parsed with, none older than that of the whole, or that it is a raw
paragraph.

`Session` is the code. A step is what a thread does between two looks at what
threads share: `Begin` (the look-up in the lru_cache), `Preprocess` (the include
is read), `Stat` (the time of the grammar file and the look-up under it),
`Fetch` (the second look-up), `Open` (the grammar is read), `Compile` (the
parser is stored), `Parse` and `ParseCell` (Lark, callbacks, auditors), `Keep`
(the lru_cache stores), `Copy`. The callback of a table cell calls `parse_to_ast`
for what the cell holds (`transformers/block_transformer.py:1187-1195`), strict
whatever the outer call is, without schemes and without the lru_cache: a text
with *n* cells has *n* + 1 passes over `Stat`, `Fetch`, `Open`, `Compile`. While a
call is at a cell, `main` is the grammar of the whole and `cells` what became of
the cells before. The callback makes a raw paragraph (0) of the cell for any
exception, the `KeyError` of a cleared cache among them. `CellsOf` says of each
cell whether it can be parsed; an empty cell, for which nothing is called, and a
cell that the preprocessor of the nested call refuses, which looks at nothing
shared, are not counted. `Transform` is what comes between two looks: the next
cell, an exception of another callback, or, when no cell is left, the auditor. Each is atomic in CPython: one call into a dictionary or
into the lru_cache, which is written in C; `Stat` is two looks in one step, as
nothing but a clearing between them could be told apart, and that can come
before the step as well. A file is its version, and the time of the grammar
file is its version too: two writes within one tick of the clock of the file
system, or a write that sets the time back, are not modelled, nor is a grammar
file that is not there. A text has the faults that the version of its include
gives it, and each stage refuses its own.

`heap` holds the trees by identity, so that sharing shows: the cached tree, the
copies handed out, and the tree that the catalog of a kept resolver still has.
A tree nobody refers to any longer is collected, and its identity used again.
`ResolveToAst` and `Resolve` are the two entries of the resolver, with one made
for the call (as the module functions do) or one that the caller keeps.
`floor` and the fields `cleared` and `lost` are history, read by properties only.

## 3. Runs

| run | instance | checks |
|---|---|---|
| `preprocessor_permissive` | every root text of up to 2 lines and two files of up to 2 lines, over plain lines, tag lines in one of the files, a last line without newline, includes of both files and of a missing one; and every root text of up to 4 lines over four delimiters, blank, metadata and an include of every file of up to 2 such lines; then a second call on the same object, over a small text | `TypeOK`, `NoCycleOpen`, `LineMapExact`, `NoSameLengthWarning`, `BlocksInStep`, refinement `WalkSpec`, liveness `Terminates` |
| `preprocessor_strict` | every root text of up to 4 lines over conditionals, attributes, a delimiter and an include of one of four files; and includes, of files with tag lines too, that filter, escape, are malformed or missing; strict; then a second call on the same object | `RegionsMeetBlocks`, `OnlyActiveText`, `LineMapNearby` |
| `line_map_glued` | an include of a file whose last line has no newline, and two lines after it | `LineMapTrue` is violated |
| `document_body` | every body of up to 6 sections (4 levels) and leaves, and of up to 5 lists and others | `TypeOK`, `MergedExactly`, `NearestOuter`, `ReadingOrder` |
| `attributed_block` | every class of block under every sequence of up to 3 entries, both modes; tables of up to 3 cells with spans and multipliers on two lines, without `cols` and with values of every form, a blank one among them | `TypeOK`, `MetadataKept`, `CellsInOrder`, `ColumnsFit` |
| `titled_admonition` | a title, `[note]` or `[source]`, and an example block | `TitleAttached` is violated |
| `lists` | every sequence of up to 6 blocks over three lists of two markers (one with metadata), `+` and others; every list of up to 5 items on three levels; every paragraph of up to 5 lines, `+` lines among them, after a list and before a block, a `+` and a block, or nothing | `TypeOK`, `NestedUnderNearest`, `AttachedInOrder` |
| `footnotes` | every text of up to 6 tokens over two ids, one of them a numeral, in the flow, in titles and in what is raw; any number of documents one after the other | `TypeOK`, `CatalogOfTheText`, `ReferencesLeadHome`, `AgreeWhenFlat` |
| `workspace` | 3 files with one anchor, 2 builds, any edits before and during them | `TypeOK`, `GraphsFit`, `LiveFirst`, `WarnedThisBuild` |
| `writers` | every tree of nine families: sections (6 nodes), named blocks (5), blocks in blocks (5), tables (7), an index term in a styled cell (7), lists (7), definitions and callouts (6), lists in the items of other lists (7), leaves and inlines (4) | `TypeOK`, `UnderItsParent`, `RenderedAsWritten`, `StyleOfNearestCell`, `ReadsBack` |
| `lossless` | paragraphs and sidebars, 4 nodes | `Lossless` is violated |
| `session` | 2 threads, 2 calls of 5 requests over 3 texts with up to 2 table cells, 2 events (a write, a clearing or a resolution), a cache of 1 tree | `TypeOK`, `CachePristine`, `OutcomesExplained`, refinement `ImplementsService`, action property `OwnUnlessKept` |

### Why the bounds are enough

* Preprocessor: the state that one line hands to the next is the two stacks,
  one conditional stack per file, one block, one flag. Two files that can
  include each other, themselves and a missing one give every shape of cycle up
  to the depth at which the walk refuses (5 open files for 2); four lines are
  enough to open a region, open a block in it, and close the two in either
  order, with an include at any place between; files of up to two lines can
  leave anything open that the caller must live with. `Trees` always holds all
  trees over the alphabet, none picked by hand. What a call hands to the next is
  the attributes and the two fields for the parser, so short texts that read the
  former, include a missing file or open a block are enough for it. A run with
  `preprocess_directives` off would add nothing: an include line is then a line of
  text like any other (the theorems cover it).
* Bodies: a level is compared with those on the stack only; four levels and six
  blocks contain every pattern of three open sections being closed by a fourth.
  The theorems remove the bound.
* Block metadata: three entries allow one before, at and after a conversion.
* Tables: three cells allow a span from the row above, a cell beside it and one
  that must pass both; `CellsInOrder` is proved without the bound.
* Lists: an item is compared with what is on the stack only, and three levels
  contain every jump down over a level and back. A continuation needs a list, a
  block between, a `+` and a block; what one leaves to the next is
  `last_active_item` alone, and the sequences are long enough for two.
* Footnotes: six tokens allow three levels of nesting, or a definition between
  two references after one in a title. One resolver and one renderer serve any number of
  documents.
* Workspace: two builds give a complete one after a complete one, after a
  failed one, and a failed one after a complete one. Three files are what an
  ambiguous anchor needs: two that have it and one that refers to it. Every
  document refers to every target, as references do not affect each other.
  TLC uses the symmetry of the files; no action looks at a name.
* Writers: what one visitor leaves to the next is the element at hand and the
  style of the cell, both saved and put back by each visitor. Each family is
  large enough for two nodes side by side inside two others, for two blocks in
  one cell, for a second row, for an item in an item and a block after that.
  There is no table in a cell: its delimiter ends the table around it. A kind of node meets those of its own family only; what a
  visitor saves and puts back does not depend on which kinds the others are.
* Session: two threads and two calls allow one call that is overtaken at any
  step by another one, and a call that gets what the one before it left behind;
  two events allow a clearing and a write during one call, in either order, at
  any of its looks at a parser, those for a cell included. One tree in the cache
  makes the second text push the first out. The theorems remove these bounds. TLC uses the symmetry of
  the threads, which nothing tells apart; the properties quantify over all of
  them, and none is a liveness property.

`CHECK_DEADLOCK FALSE` stands where the system stops: when the text or the tree,
or the calls that the bound allows, are used up. `footnotes` goes on with the next
document and is checked for deadlock.

### Fairness

Only `Preprocessor` needs it. `WF_vars(Step)` says that a call of `process()`
that can go on does: it runs in the caller's thread, waits for nothing, and is
never interrupted by the library. Nobody is obliged to call it: `Process` is
not under fairness. `Terminates` then says that no files whatever make it run
forever, which rests on the test of ancestors cutting every cycle.

## 4. Proofs

TLAPS proves the theorems below for all values of the constants that satisfy
the named assumptions of the modules; TLC evaluates these in every run.

| theorem | says | argument |
|---|---|---|
| `PreprocessorProofs!WalkNoCycle` | in whatever walks as `IncludeWalk` says, no file is open twice, but directly below itself, and the root once | inductive as it stands: the only step that lengthens the chain adds a file that is no ancestor |
| `PreprocessorProofs!TypeCorrect` | types, and no call reads past its file | `TypeInv`: types, the tree is one of `AllTrees`, pending line numbers exist |
| `PreprocessorProofs!RegionsCorrect`, `NeverSameLength` | no step opens or closes a region of a file that has a verbatim block open, and open blocks and waiting files stand in active regions; the same-length warning is never issued | `LocalsInv`, inductive on top of `TypeInv`: about every call on the stack, not only the top one, since a nested call inherits `in_verbatim` and not the conditionals. `StackStep` and `Moves` say what a step can do to the stack: a call with a block open keeps its conditionals |
| `PreprocessorProofs!TextIsActive` | no step adds text while a region of any open file is off | from `LocalsInv`: callers are active, and the actions that write ask the top |
| `PreprocessorProofs!ImplementsWalk`, `NoCycle` | every step of the preprocessor is a step of `IncludeWalk` or leaves the chain alone; so `NoCycleOpen` carries over | refinement mapping `Chain`, the files of the stack |
| `DocumentBodyProofs!TypeCorrect` | types, and as many blocks are placed as were looked at | inductive as it stands |
| `DocumentBodyProofs!ListsMergedExactly` | lists merge exactly when they are neighbours of one variant and the second has no metadata | `MergeInv`: with `OwnerInv`, which ties `owner` to `heads` (every merged block begins at its head, the last one owned is the last one made) |
| `DocumentBodyProofs!SectionsNearest` | every block is under the nearest section that can contain it, whatever the levels | `NestInv`: the stack ascends, holds sections, and every section closed is covered by an open one (or by the block at hand) of no higher level, so that a closed one can never be the nearest |
| `DocumentBodyProofs!TreeInOrder` | the tree read from top to bottom is the flat list | from `NestInv`: the parent of a block is on the stack when the blocks after it are placed |
| `AttributedBlockProofs!GridKeepsOrder` | however often cells are grouped, in however many columns and with whatever spans, none is lost and the rows keep their order | `GridInv`: what is left is in order and comes after all that is held (`LeftInOrder`), no slot before a held cell is free (`Filled`), so the first free slot comes after every cell and a span from it covers none; what a held cell covers of the grid is taken (`Reach`), so that the next cell of the row begins after it |
| `AttributedBlockProofs!BlocksAreTyped` | types of a block under any sequence of lines, in either mode | part of `BlockInv` below |
| `AttributedBlockProofs!LinesAboveAreKept` | a block has the title, the id and the roles of the lines since a style last made another block of it, and no more; a paragraph that a style wraps keeps those before; a list that was given anything that counts is not joined with its neighbour | `BlockInv`: the block tells the entries from `since` to `pos` (`Tells`, `Window`), the wrapped paragraph those before its conversion (`WrappedTells`); no style makes a list, so a list still has all its entries before it (`AsGiven`), and each of them shows on it, put there by `_apply_list_attributes` or by the loop that leaves out what that has applied (`ListShows`) |
| `AttributedBlockProofs!TablesKeepOrder` | what `GridKeepsOrder` says, of the tables of `AttributedBlock`, which implements that grid | `TableInv`: every step of `ASpec` is a step of the grid or leaves it alone |
| `AttributedBlockProofs!RowsHaveColumns` | in a row each cell begins where the ones before it have ended; the columns of the ASG hold every row, where both readings of `cols` agree and no cell is over the edge | `RowsFit` from `GridInv`. `RegroupedInv`: when the block is finished its cells have been grouped in the columns it declares, and the grid stays so until `visit_table` counts. Cells side by side, none over the edge, add up to no more than the columns (`SideBySide`) |
| `RendererProofs!TypeCorrect` | types of the walk of the docutils backend; no visit reads past the parts of its node | `TreeInv`, `CallsInv` below |
| `RendererProofs!EveryElementUnderItsParent` | every element hangs under an element of the node above its own, in trees of any size | `RInv`: each visit under way is of a child of the node of the visit below it (`VisitInv`), and `current_node`, like every `old_parent` saved, is an element of one of the visits around: of that very visit, unless its visitor makes no element or is at the terms of a definition (`Suits`), which only terms see, and these take their parent from the tree |
| `RendererProofs!Rendered` | every node that has a visitor gets its element, once; each element hangs where the tree has its node, and what is under one element is in the order of the text | `WInv`: what a visit under way saved is what the tree has around its node (`FrameInv`), and what is current is what the tree has around the next child, but for terms (`TopInv`). `HInv`: a node has its element exactly when its visit is over (`HungInv`). `OInv`: what was hung leaves room for what the visits under way are still to hang (`Ahead`): nothing has ended their elements, nothing but their first part hangs there while they are at it, and what is in their nodes hangs no further up |
| `RendererProofs!StyleOfNearest` | a paragraph is set in the style of the nearest cell around it, however deep tables and cells are in one another | `cell_style` is that of the node at hand (`TopInv`), and a paragraph has an element of that style once its visit is over (`HungInv`) |
| `PreprocessorProofs!MapIsExact`, `MapIsNearby` | `line_map` names the file and line of every line of the text as long as no piece runs into the next one and no include leaves out a line; where lines are left out the file, and a number not beyond the true one | `TraceInv`: while each piece has ended its line, the entries of `line_map` and the pieces of the text are in step (`Traced`), and the lines that an open call has before it lie beyond the count of those it has read, and are all of these where none was left out (`Ascends`). That the line read is the least of them needs that numbers have a least (`LeastNumber`) |
| `PreprocessorProofs!MapIsTrue` | documents whose lines all end, the last of the root text excepted, and whose includes are whole files that are there and have no tag lines, or errors, or not obeyed at all (`WholeDocuments`): the map is true of every line, through any number of calls on one object | `WholeText`: a piece without newline is the last one, and nothing is left to read, since a call that reads an included file never has such a line, and the least of the lines left is the last line of the file only when it is alone (`LastIsRead`). So each piece has ended its line, and `MapIsExact` applies. `line_map_glued` shows that the hypothesis is needed |
| `PreprocessorProofs!TagsAndDelimiters` | the synthetic tags of the text are balanced against the block that is open, and that block's closer is on top of the delimiter stack, until an include crosses a block | inductive on top of the two invariants above: a tag added to a balanced text leaves one that is balanced against the new block |
| `ListsProofs!NestedCorrectly` | an item is under the nearest item before it with a lower level, and under no item if there is none, whatever the levels and whatever is attached and joined afterwards | `NestInv`: the open lists ascend in level and in place (`OpenLists`); every item so far has one on the stack that is not before it and not deeper (`Covered`), so that the item on top of what stays open is the nearest; the steps of the second phase move no item under or from under another |
| `ListsProofs!TypeCorrect` | types of the lists: every node is a block or an item, nothing hangs under what is no list, the last active item is an item | part of `ListInv` below |
| `ListsProofs!AttachedToLast` | a block attached by a `+` hangs, from then on, under the very last item of the last list before it that is not attached itself | `ListInv`: the lists still to come are as `_nest_list_items` left them (`Fresh`), children come after what they are under (`KidsAfter`), blocks that are no lists hold nothing (`Bare`). In such a list the last child of an item that all later ones are below is again such an item (`TipGoesOn`), so going down last children from the list ends at its last item (`DeepestOfList`). Hence the last active item is the last one of the last list of those before `i` (`ActiveIsLast`), and there is none only while there was no list: then the last block of the result has no item either (`ContinuedIs`) |
| `ListsProofs!TextInOrder`, `ListsInOrder` | nothing is lost but a `+` that attached a block, nothing is there twice, and the text is read in the order it was written, but for what a `+` carries back over blocks kept since; with `AttachedToLast` this is all of `AttachedInOrder` | `ShapeInv`, on top of `ListInv`: a child is an item under the nearest above it, an item of a list that was joined with nothing kept between, or a carried block (`KidsFit`); children and result are in the order of writing (`KidsAscend`, `ResultAscends`); every item and block is somewhere (`ItemsThere`, `BlocksThere`). From a node are read only items after it that are deeper, lists joined to it and what was attached to either (`Within`, `WithinKid`), and all this comes before the next child (`WithinBefore`) and before the next block of the result, if that is a list (`BlocksFollow`). What is in no place in the text has a first node, which would be under one that is not in it (`NoneLost`) |
| `FootnotesProofs!TypeCorrect` | types of both walks; one call of `visit_ref` for every open macro that is rendered | parts of `ResInv` and `RenInv` below |
| `FootnotesProofs!CatalogIsOfTheText` | for texts of any length and nesting: the catalog is numbered without gaps, an id and a number of the macros visited belong together, an entry has the text that ended first | `TextInv`: of the open macros more have begun than ended at every place after them (`Ongoing`), each of the others has an end (`Over`), so `EndOf` is what its definition says and stays. `ResInv`: every place has the number of an entry of its id (`PlacesNumbered`), the entry of an id is the one listed, which some place has met (`IdsListed`), and it has the earliest end so far (`FirstTexts`), since a macro that ends now ends after all others |
| `FootnotesProofs!ReferencesArrive` | no reference dangles, each label is on one body, a reference stands where its macro stood | `RenInv`: ids and labels in use are on a body or awaited by a call under way (`Arriving`), which loses nothing when a call returns; the labels of bodies and calls are those given (`LabelsGiven`); each call saves the macro before it, and no call is under way in what is passed over (`CallsOfOpen`, `Aside`). Around a reference are the open macros, and what is around it never changes (`AroundStays`) |
| `FootnotesProofs!OutputsAgree` | up to the first macro in a title or in what is raw, both outputs number a flat text alike if no id is defined late | `AgreeInv`: as long as the text is so (`AllFlow`), both counters differ by the calls under way, and both tables have the same numbers but for the id of the open macro (`Together`). An id that is known when a macro ends was met before it, which makes it late, or inside it, which makes the text not flat. After the first macro of another kind nothing joins the ones that are compared, and they keep their numbers (`CommonAside`, by `Inherited`) |
| `WorkspaceProofs!TypeCorrect` | types, and every file listed for an anchor has it in the catalog | part of `WInv` |
| `WorkspaceProofs!GraphsOfOneBuild`, `LiveAnchorsFirst`, `WarningsOfOneBuild` | between builds, failed ones among them, a reference leads to the tree that the graph of its file was made of; anchors that are gone hide none that is there; the warnings are those of the last build | `WInv`: the catalog has every key of the documents indexed so far (`CatalogInv`); a graph is what resolving its document with the catalog of now would give, except between the first pass that changes the catalog and the last (`GraphsInv`); the warnings are those of the graphs made so far (`WarningsInv`) |
| `SessionProofs!TypeCorrect`, `CopiesArePristine`, `OutcomesHaveReasons` | for any number of threads, calls, writes and clearings: what is referred to is there; nobody ever holds a cached tree or one that is about to be copied; each outcome has its reason in what the call read, each raw cell included | `SInv`: `UseInv` (a tree is in the heap exactly while something refers to it), `CleanInv` and `OwnInv` (cached trees and those in the making are as parsed, and nobody's; two callers never share one), `CacheInv` (the key of each entry, and that its tree is no older than the floor), `CallsInv` (what a call has read by each of its steps, and between which times), `CellsInv` (each cell of a tree is of a grammar between that of the whole and the one of now, or raw with a reason). That there is room for a new tree is a count of what callers and the cache can refer to (a pigeonhole argument) |
| `SessionProofs!ResolvesItsOwn` | `resolve_to_ast` with a resolver made for the call binds references in its own tree and sets its own docinfo | action property, from `SInv` |
| `SessionProofs!ImplementsTheService` | `parse_to_ast` and its caches implement `ParseService` | the mapping of `Session`: what a caller holds, and what was asked; `SInv` says that every tree in a cache or in the making was read between the floor and now. A clearing raises the floor to the beginning of the oldest call under way, a least element of a finite set of calls |

The assumptions: `DocumentAssumption`, `DelimAssumption`, `OptionAssumption`
(the marker values differ from files and delimiters),
`BodyAssumption` (levels are numbers, bodies are sequences of blocks),
`SourceAssumption` (so are the documents of `Lists`, divided paragraphs
included), `GridAssumption` (the mark of a spanned slot is no cell, spans are
positive), `InputAssumption` (what the lines above a block can be; that a value is
missing or invalid can be told from the values), `FootnoteAssumption` (having no id is
neither an id nor a number), `WorkspaceAssumption` (the root of a document is no anchor, a missing
or broken file no text), `SessionAssumption` and `NoneAssumption` (there are
finitely many callers, the cache has room for a tree, texts have faults of the
kinds listed and a sequence of cells, and the absence of something is not one of the things). The walk
needs that the root text is not a path. The renderer needs nothing: its theorems
hold for every set of families.

Two functions of the renderer's properties, `StyleAround` and `Around`, recurse
up the tree, and the prover cannot do induction over data. What can be had is a
least number: `Least` (and `Largest` of the lists) follow from
well-foundedness. `Inherited` shows with it that a value handed down a tree in
which every node is above its own children is a function, and `SameInheritance`
that there is one such function, so that `StyleAround` and `Around` are what
their definitions say and stay what they are while the tree grows. In the same way
`DeepestIs` shows that the function of `find_deepest_active_list_item`, which
recurses down the last children, exists and does what it says, since these come
after what they are under (`LastNode`); and `JoiningIs` and `ReadIs` show the
same of `FlattenSeq`, which joins sequences, and of the function by which
`OrderKept` reads the tree, of which `FlattenFacts` and `AllTold` say what they
give. `Nearest` finds the visit whose element is current in the same way, and `TotalSums` says
that the sum of a sequence, `Total`, exists and adds up.

Only model-checked:

* `Terminates`: liveness is out of the prover's reach;
* `ReadsBack`: that what the serializer writes of a tree reads as that tree again.
  It is about what three functions compute of every tree, `Written`, `Shape` and
  the fold `Read`. A proof would have to say of the lines of every kind of node
  what they do to a reader in any state, and put that together for a tree of any
  depth, which is induction over data. Nor would it hold of all the constants:
  five kinds of trees that the text cannot tell apart are excepted because TLC
  found them in the families of the run, and other families may have others.

## 5. What the runs show about the code

Three statements of the documentation that the runs refute:

* `line_map_glued`: `docs/architecture.adoc:105` says every line of the
  preprocessed text is mapped to its origin. The last line of an included file
  that has no newline runs together with the line after the include, which has
  an entry of its own all the same: the next line of the text is mapped to the
  one before it, and so are all that follow. (The text put in for a missing
  include has neither a newline nor an entry: the line it begins is mapped to
  what it runs into, and the lines after are right. Lines left out of an include
  are a third cause: numbers count the lines kept. `LineMapNearby` is what
  remains true then: the file is right and the number not too large.)
  `LineMapExact` says when the statement is true.
* `lossless`: `serializer.py:11` promises a lossless round trip. Blocks inside
  a delimited block are written without an empty line between them, and two
  paragraphs come back as one. `ReadsBack` says when the text does read as the
  tree: no two such blocks next to each other, no fence inside its like, nothing
  written above an admonition, no list of definitions in an item (each is
  written with `::`, so that the inner one goes on with the outer) and no list
  beside other blocks of a definition, which takes the lists after it, and nothing
  attached to an item of a list in an item unless it is the last, since
  `resolve_list_continuations` goes on with the outermost list only.

* `titled_admonition`: `CHANGELOG.adoc:79` says `.Title` lines are attached to the
  block that follows, admonitions and examples among others. A title above `[note]`
  (or `[NOTE,role=x]`, or `[quote]` and `[verse]` where they convert) is put on the
  example block that the style then throws away, and an id or a role above the
  style goes the same way. `MetadataKept` says exactly what survives: what is below the last
  such style, what a section that becomes a discrete heading was given, and what
  is on a paragraph that is put into a quote or verse.

Others that the properties which hold had to make room for:

* `docs/feature-matrix.adoc:193` says footnotes are collected in the catalog of
  the document. Those in titles get a number and a body from docutils, but none
  in the ASG; those in stem paragraphs an entry in the ASG, but none in docutils.
  From the first of them on the labels of one do not match the numbers of the other.
* A footnote defined after a reference to it, or twice, has two labels and two
  bodies of one id in the docutils tree, and one number in the ASG.
  `AgreeWhenFlat` says when the two outputs agree.
* `docs/feature-matrix.adoc:332` promises a warning for unresolved targets.
  `xref:missing.adoc[]` falls through to the second tier with an empty anchor
  and is bound to the referring document.
* `docs/superpowers/plans/2026-08-24-parser-engine-caching.md:7` calls the
  dictionaries of parsers thread-safe. A key is looked for and then fetched, and
  `clear_parser_cache` in between makes a call for a good text end in `KeyError`.
  Where the call is the one for a table cell, the error is swallowed, the cell
  becomes a raw paragraph, and the lru_cache keeps that answer for later callers.
  `OutcomesExplained` says that these are the only two effects. A grammar written
  during a call can also make one tree of two grammars.
* `resolve()` says it leaves its input alone and sets `docinfo` on it. A resolver
  that is kept indexes the first document only: references of the next one go
  into the first, or are not resolved at all; and `resolve()` keeps the
  attributes of the first, docinfo included. `OwnUnlessKept` says that a
  resolver made for the call, as the module functions have it, does neither.
* `clear_ast_cache` does not reach calls under way: what they read before it
  they store after it. `ImplementsService` says how old an answer can be.

And some things that no document promises, and a reader might still expect: a
file may include itself once before the cycle is noticed; an anchor that moved
from one file to another makes references to it ambiguous in a rebuilt
workspace, and deleted files keep their graphs, as the catalog and
`raw_documents` only grow; bodies of nested docutils footnotes are collected
inner ones first; a `+` after a paragraph that follows a list carries the next
block back over the paragraph to the list; a row all of whose slots are spanned
from above is dropped; an attribute line keeps a list apart from its
neighbour, but `options=""`, or a `start` that is no number, does not
(`MetadataKept` leaves these out); a table whose first cell has a multiplier is taken for
one of a single column unless `cols` says otherwise; `cols="3"` and
`cols="2*,1"` make three and two columns in the AST, one and three in the ASG
(`ColumnsFit` is about the values that both read alike); the docutils backend
has no visitor for example blocks, whose blocks go to the element around them,
nor for literal ones, whose words do (`docs/feature-matrix.adoc` calls such
support partial); and the permissive auditor warns of a bulleted term alone,
where the strict one refuses seven other things as well.

## 6. Not modelled

Left out for good:

* the grammar and Lark's Earley parser: what they accept is stated nowhere but
  in the grammar. `TextShape` has the part of it that the serializer's lines
  need;
* string parsing and formatting: attribute lists, escaping, the words of
  messages, substitution of attributes, and the inline transformer and the
  loaders, which keep no state and look at one match or one path at a time;
* the numbers of callouts (`block_transformer.py:568-648`, `nodes.py:1311-1351`):
  one fold with one counter. An automatic number is above all before it; an
  author who writes a number after it may repeat it;
* the cache of inline parsers, which has the form of the one modelled and
  shares nothing with it; `_get_cache_dir`, which nothing uses;
* which docinfo files are read, and how their texts are joined;
* an exception out of a visitor of the docutils backend: the renderer is made
  for one document and dropped with it;
* developer tools and tests.

`PROJECT.json` names every part with its reason.
