------------------------------ MODULE Session ------------------------------
(***************************************************************************)
(* parse_to_ast called by several threads, with the two caches it keeps    *)
(* (compiled parsers by modification time, trees by source and schemes),   *)
(* writes to the grammar and to an included file, clear_parser_cache and   *)
(* clear_ast_cache at any moment, and callers who resolve what they got.   *)
(* A step is what one thread does between two looks at shared state.       *)
(***************************************************************************)
EXTENDS Naturals, Sequences, SequencesExt, FiniteSets, Functions

CONSTANTS
  Callers,          \* threads
  Requests,         \* [text, schemes, strict, ordinary, use_cache]
  FaultsOf,         \* [text -> [version of the include -> faults of the whole]]
  Anchored,         \* texts that refer to an anchor of their own
  CellsOf,          \* [text -> [version of the include -> may each table cell be parsed]]
  Attributed,       \* texts that set attributes
  WantsDocinfo,     \* texts whose attributes name a docinfo file that is there
  NoSchemes,        \* the schemes of a call that names none
  MaxEntries,       \* maxsize of the lru_cache
  MaxCalls,         \* bound: calls begun
  MaxEvents,        \* bound: writes, clears and resolutions
  None

Texts == {r.text : r \in Requests}

(***************************************************************************)
(* What the strict auditor raises for, by the kind of node it looks at.    *)
(* The permissive auditor warns of the first kind and passes the others.   *)
(***************************************************************************)
InDescriptionLists == {"bulleted_term"}
InParagraphs == {"brackets", "macro_text", "no_term", "anchor", "footnote"}
InCells == {"cell_spec"}
InMacros == {"macro"}
Anomalies == InDescriptionLists \cup InParagraphs \cup InCells \cup InMacros

\* What a text may have: a missing include, a block left open, text the
\* grammar refuses, a level out of range, any other exception of a callback.
Faults == {"missing", "unclosed", "syntax", "level", "crash"} \cup Anomalies

ASSUME SessionAssumption ==
  /\ IsFiniteSet(Callers)
  /\ \A r \in Requests : {r.strict, r.ordinary, r.use_cache} \subseteq BOOLEAN
  /\ \A t \in Texts : \A v \in 0 .. MaxEvents :
       FaultsOf[t][v] \subseteq Faults /\ CellsOf[t][v] \in Seq(BOOLEAN)
  /\ Anchored \cup Attributed \cup WantsDocinfo \subseteq Texts
  /\ WantsDocinfo \subseteq Attributed
  /\ {MaxEntries, MaxCalls, MaxEvents} \subseteq Nat
  /\ MaxEntries > 0

VARIABLES
  files,      \* [include, grammar]: the version of each; that of the grammar is its mtime
  compiled,   \* _DOCUMENT_PARSERS: <<mtime, schemes>> -> the grammar compiled under it
  cache,      \* the lru_cache: [key, tree], the last used one last
  heap,       \* the trees by identity, None where none is
  call,       \* what each thread is at
  resolver,   \* the ASGResolver that each caller keeps
  floor,      \* history: see ParseService
  count       \* how much of each bound is used

vars == <<files, compiled, cache, heap, call, resolver, floor, count>>

Trees == DOMAIN heap

\* What a caller sees of a tree: not the history in it.
Shown(tree) ==
  [is |-> tree.is, text |-> tree.text, schemes |-> tree.schemes, include |-> tree.include,
   grammar |-> tree.grammar, cells |-> tree.cells, refs |-> tree.refs, docinfo |-> tree.docinfo]

\* Two for each caller (one in the making), one for its resolver, the cached ones, one new.
MaxTrees == 3 * Cardinality(Callers) + MaxEntries + 1

Asked ==
  [c \in Callers |-> IF call[c].pc = "idle" THEN None
                     ELSE [req |-> call[c].req, then |-> call[c].then, low |-> call[c].low]]

Service == INSTANCE ParseService WITH
  Errors <- Faults \cup {"KeyError"},
  asked <- Asked,
  held <- [c \in Callers |->
             IF call[c].error # None THEN [is |-> "error", error |-> call[c].error]
             ELSE IF call[c].answer = 0 THEN [is |-> "nothing"]
             ELSE Shown(heap[call[c].answer])]

\* Mutation of Cacheable: permissive calls are looked up and stored too.
Cacheable_AnyMode(r) == r.use_cache /\ r.ordinary

Cacheable(r) == r.use_cache /\ r.ordinary /\ r.strict

KeyOf(r) == <<r.text, r.schemes>>

---------------------------------------------------------------------------
(***************************************************************************)
(* The trees in use: cached, handed out, in the making, or kept alive by   *)
(* the catalog of a resolver.  A new one takes an identity nobody uses.    *)
(***************************************************************************)

InUse(ch, cl, rs) ==
  {ch[i].tree : i \in DOMAIN ch} \cup {cl[c].tree : c \in Callers}
  \cup {cl[c].answer : c \in Callers} \cup {rs[c].indexed : c \in Callers}

Collected(h, ch, cl, rs) ==
  [t \in Trees |-> IF t \in InUse(ch, cl, rs) THEN h[t] ELSE None]

NewTree == CHOOSE t \in Trees : heap[t] = None /\ \A u \in 1 .. t - 1 : heap[u] # None

Idle == [pc |-> "idle", req |-> None, then |-> None, low |-> None, include |-> 0,
         parser |-> 0, stamp |-> 0, main |-> 0, cells |-> <<>>, tree |-> 0, answer |-> 0,
         error |-> None, cleared |-> FALSE, warned |-> FALSE]

\* A call ends; what it was at is forgotten, its outcome is not.
Ended(c, t, e, w) ==
  [Idle EXCEPT !.answer = t, !.error = e, !.warned = w,
               !.req = call[c].req, !.include = call[c].include,
               !.cleared = e # None /\ call[c].cleared]

\* Mutation of Raise: the error is noted and the call goes on.
Raise_GoesOn(c, e) ==
  /\ call' = [call EXCEPT ![c].error = e, ![c].pc = "parse"]
  /\ UNCHANGED <<files, compiled, cache, heap, resolver, floor, count>>

Raise(c, e) ==
  /\ call' = [call EXCEPT ![c] = Ended(c, 0, e, FALSE)]
  /\ heap' = Collected(heap, cache, call', resolver)
  /\ UNCHANGED <<files, compiled, cache, resolver, floor, count>>

FaultsSeen(c) == FaultsOf[call[c].req.text][call[c].include]
CellsSeen(c) == CellsOf[call[c].req.text][call[c].include]

\* The text is parsed (with the grammar `main`) and its transformer is at work: what
\* the call is at is a nested call of parse_to_ast, for the next of its table cells.
Nested(c) == call[c].main # 0

---------------------------------------------------------------------------
Init ==
  /\ files = [include |-> 0, grammar |-> 1]
  /\ compiled = <<>>
  /\ cache = <<>>
  /\ heap = [t \in 1 .. MaxTrees |-> None]
  /\ call = [c \in Callers |-> Idle]
  /\ resolver = [c \in Callers |-> [attributes |-> None, indexed |-> 0]]
  /\ floor = files
  /\ count = [calls |-> 0, events |-> 0]

Begun == count.calls < MaxCalls /\ count' = [count EXCEPT !.calls = @ + 1]
Happens == count.events < MaxEvents /\ count' = [count EXCEPT !.events = @ + 1]

(***************************************************************************)
(* parse_to_ast looks for the key in the lru_cache, which moves a hit to   *)
(* the end; a call that may not use the cache goes on to parse.            *)
(***************************************************************************)
Entry(r) == {i \in DOMAIN cache : cache[i].key = KeyOf(r)}

Begin(c, r) ==
  LET hit == IF Cacheable(r) THEN Entry(r) ELSE {}
      start == [Idle EXCEPT !.pc = "preprocess", !.req = r, !.then = files, !.low = floor]
  IN /\ call[c].pc = "idle"
     /\ Begun
     /\ \/ /\ hit = {}
           /\ call' = [call EXCEPT ![c] = start]
           /\ UNCHANGED cache
        \/ \E i \in hit :
             /\ call' = [call EXCEPT ![c] =
                           [start EXCEPT !.pc = "copy", !.tree = cache[i].tree,
                                         !.include = heap[cache[i].tree].include]]
             /\ cache' = Append(RemoveAt(cache, i), cache[i])
     /\ heap' = Collected(heap, cache', call', resolver)
     /\ UNCHANGED <<files, compiled, resolver, floor>>

(***************************************************************************)
(* _parse_to_ast_impl: the preprocessor reads the include; in strict mode  *)
(* it raises for a missing file, and what it leaves open is refused.       *)
(***************************************************************************)
Preprocess(c) ==
  LET faults == FaultsOf[call[c].req.text][files.include]
      strict == call[c].req.strict
      refused == IF "missing" \in faults THEN "missing" ELSE "unclosed"
  IN /\ call[c].pc = "preprocess"
     /\ call' = [call EXCEPT ![c] =
          IF strict /\ faults \cap {"missing", "unclosed"} # {}
            THEN [Ended(c, 0, refused, FALSE) EXCEPT !.include = files.include]
            ELSE [@ EXCEPT !.pc = "stat", !.include = files.include]]
     /\ heap' = Collected(heap, cache, call', resolver)
     /\ UNCHANGED <<files, compiled, cache, resolver, floor, count>>

(***************************************************************************)
(* get_document_parser: the time of the grammar file, the look-up under    *)
(* it, and either the entry (a second look-up) or a new parser, compiled   *)
(* from what the file holds by then and stored under the time read before. *)
(* The nested call for a table cell does the same, without schemes.        *)
(***************************************************************************)
Schemes(c) == IF Nested(c) THEN NoSchemes ELSE call[c].req.schemes

ParserKey(c) == <<call[c].stamp, Schemes(c)>>

\* Mutation of Stat: the parsers are kept by path, not by time.
Stat_NoTime(c) ==
  /\ call[c].pc = "stat"
  /\ LET key == <<1, Schemes(c)>>
     IN call' = [call EXCEPT ![c].pc = IF key \in DOMAIN compiled THEN "fetch" ELSE "open",
                             ![c].stamp = 1]
  /\ UNCHANGED <<files, compiled, cache, heap, resolver, floor, count>>

Stat(c) ==
  /\ call[c].pc = "stat"
  /\ LET key == <<files.grammar, Schemes(c)>>
     IN call' = [call EXCEPT ![c].pc = IF key \in DOMAIN compiled THEN "fetch" ELSE "open",
                             ![c].stamp = files.grammar]
  /\ UNCHANGED <<files, compiled, cache, heap, resolver, floor, count>>

\* A nested call without its entry ends with a KeyError, which table_cell catches.
Fetch(c) ==
  /\ call[c].pc = "fetch"
  /\ \/ /\ ParserKey(c) \in DOMAIN compiled \/ Nested(c)
        /\ call' = [call EXCEPT ![c].pc = "parse", ![c].stamp = 0,
                      ![c].parser = IF ParserKey(c) \in DOMAIN compiled
                                      THEN compiled[ParserKey(c)] ELSE 0]
        /\ UNCHANGED <<files, compiled, cache, heap, resolver, floor, count>>
     \/ /\ ParserKey(c) \notin DOMAIN compiled /\ ~Nested(c)
        /\ Raise(c, "KeyError")

Open(c) ==
  /\ call[c].pc = "open"
  /\ call' = [call EXCEPT ![c].pc = "compile", ![c].parser = files.grammar]
  /\ UNCHANGED <<files, compiled, cache, heap, resolver, floor, count>>

Compile(c) ==
  /\ call[c].pc = "compile"
  /\ compiled' = [k \in DOMAIN compiled \cup {ParserKey(c)} |->
                    IF k = ParserKey(c) THEN call[c].parser ELSE compiled[k]]
  /\ call' = [call EXCEPT ![c].pc = "parse", ![c].stamp = 0]
  /\ UNCHANGED <<files, cache, heap, resolver, floor, count>>

(***************************************************************************)
(* The tree is made and the auditor of the mode looks at it: the strict    *)
(* one raises for what it finds, the permissive one warns of one anomaly.  *)
(***************************************************************************)
\* The call warns, in permissive mode alone.
Warns(faults, strict) == ~strict /\ faults \cap InDescriptionLists # {}

ParsedTree(c, main, cells) ==
  [is |-> "tree", text |-> call[c].req.text, schemes |-> call[c].req.schemes,
   include |-> call[c].include, grammar |-> main, cells |-> cells,
   refs |-> "unbound", docinfo |-> None, lost |-> call[c].cleared]

Audit(c, main, cells) ==
  LET t == NewTree
      refused == IF call[c].req.strict THEN FaultsSeen(c) \cap Anomalies ELSE {}
  IN \/ \E e \in refused : Raise(c, e)
     \/ /\ refused = {}
        /\ call' = [call EXCEPT ![c] =
             IF Cacheable(@.req) THEN [@ EXCEPT !.pc = "keep", !.tree = t, !.parser = 0,
                                                !.main = 0, !.cells = <<>>]
             ELSE Ended(c, t, None, Warns(FaultsSeen(c), @.req.strict))]
        /\ heap' = Collected([heap EXCEPT ![t] = ParsedTree(c, main, cells)],
                             cache, call', resolver)
        /\ UNCHANGED <<files, compiled, cache, resolver, floor, count>>

(***************************************************************************)
(* The callbacks of the transformer.  That of a table cell calls           *)
(* parse_to_ast for what the cell holds, so the next thing the call looks  *)
(* at is a parser again.  An exception of any other callback ends the call *)
(* in both modes, a level out of range in strict mode only, before or      *)
(* after any of the cells.                                                 *)
(***************************************************************************)
CallbackErrors(c) ==
  FaultsSeen(c) \cap IF call[c].req.strict THEN {"crash", "level"} ELSE {"crash"}

Transform(c, main, cells) ==
  \/ \E e \in CallbackErrors(c) : Raise(c, e)
  \/ /\ Len(cells) < Len(CellsSeen(c))
     /\ call' = [call EXCEPT ![c].pc = "stat", ![c].parser = 0,
                             ![c].main = main, ![c].cells = cells]
     /\ UNCHANGED <<files, compiled, cache, heap, resolver, floor, count>>
  \/ /\ Len(cells) = Len(CellsSeen(c)) /\ CallbackErrors(c) = {}
     /\ Audit(c, main, cells)

\* The text is parsed: a syntax error ends the call in both modes.
Parse(c) ==
  /\ call[c].pc = "parse" /\ ~Nested(c)
  /\ \/ "syntax" \in FaultsSeen(c) /\ Raise(c, "syntax")
     \/ "syntax" \notin FaultsSeen(c) /\ Transform(c, call[c].parser, <<>>)

(***************************************************************************)
(* The nested call for a cell ends: with blocks of the grammar it parsed   *)
(* with, or with an exception of any kind, for which table_cell makes one  *)
(* raw paragraph (0) of the cell.  What happens after, without a look at   *)
(* shared state, is the rest of the transformation.                        *)
(***************************************************************************)
ParseCell(c) ==
  LET may == CellsSeen(c)[Len(call[c].cells) + 1]
  IN /\ call[c].pc = "parse" /\ Nested(c)
     /\ Transform(c, call[c].main,
                  Append(call[c].cells, IF may THEN call[c].parser ELSE 0))

(***************************************************************************)
(* The lru_cache stores the result when nobody stored one for the key      *)
(* meanwhile, and drops the entry used longest ago when it is full.        *)
(***************************************************************************)
Keep(c) ==
  LET full == Append(cache, [key |-> KeyOf(call[c].req), tree |-> call[c].tree])
  IN /\ call[c].pc = "keep"
     /\ cache' = IF Entry(call[c].req) # {} THEN cache
                 ELSE IF Len(full) > MaxEntries THEN Tail(full) ELSE full
     /\ call' = [call EXCEPT ![c].pc = "copy"]
     /\ heap' = Collected(heap, cache', call', resolver)
     /\ UNCHANGED <<files, compiled, resolver, floor, count>>

\* Mutation of Copy: the cached tree itself is handed out.
Copy_Shared(c) ==
  /\ call[c].pc = "copy"
  /\ call' = [call EXCEPT ![c] = Ended(c, call[c].tree, None, FALSE)]
  /\ heap' = Collected(heap, cache, call', resolver)
  /\ UNCHANGED <<files, compiled, cache, resolver, floor, count>>

\* parse_to_ast hands out a deep copy of the cached tree.
Copy(c) ==
  /\ call[c].pc = "copy"
  /\ LET t == NewTree
     IN /\ call' = [call EXCEPT ![c] = Ended(c, t, None, FALSE)]
        /\ heap' = Collected([heap EXCEPT ![t] = heap[call[c].tree]], cache, call', resolver)
  /\ UNCHANGED <<files, compiled, cache, resolver, floor, count>>

---------------------------------------------------------------------------
Write(kind) ==
  /\ Happens
  /\ files' = [files EXCEPT ![kind] = @ + 1]
  /\ UNCHANGED <<compiled, cache, heap, call, resolver, floor>>

ClearParsers ==
  /\ Happens
  /\ compiled' = <<>>
  /\ call' = [c \in Callers |->
                [call[c] EXCEPT !.cleared = call[c].pc = "fetch" \/ @]]
  /\ UNCHANGED <<files, cache, heap, resolver, floor>>

ClearTrees ==
  /\ Happens
  /\ cache' = <<>>
  /\ heap' = Collected(heap, cache', call, resolver)
  /\ floor' = [include |-> Service!Oldest("include", files, Asked),
               grammar |-> Service!Oldest("grammar", files, Asked)]
  /\ UNCHANGED <<files, compiled, call, resolver>>

(***************************************************************************)
(* A caller resolves the tree it holds, with a resolver made for it or     *)
(* with the one it keeps.  resolve_to_ast works on the tree, takes its     *)
(* attributes, and indexes it unless the resolver indexed a document       *)
(* before; resolve takes its attributes only when it has none, and sets    *)
(* docinfo on the tree before it makes the copy that it works on.          *)
(***************************************************************************)
Fresh == [attributes |-> None, indexed |-> 0]

Bound(t, r) == IF heap[r.indexed].text \notin Anchored THEN "nowhere"
               ELSE IF r.indexed = t THEN "itself" ELSE "another"

AttributesOf(t) == IF heap[t].text \in Attributed THEN heap[t].text ELSE None

WithDocinfo(t, r) == IF r.attributes \in WantsDocinfo THEN r.attributes ELSE heap[t].docinfo

Resolving(c) ==
  /\ call[c].pc = "idle"
  /\ call[c].answer # 0
  /\ Happens

\* Mutation of Using: the module function has a resolver that lives on.
Using_Shared(c, kept) == resolver[c]

Using(c, kept) == IF kept THEN resolver[c] ELSE Fresh

ResolveToAst(c, kept) ==
  LET t == call[c].answer
      used == Using(c, kept)
      now == [attributes |-> AttributesOf(t),
              indexed |-> IF used.indexed = 0 THEN t ELSE used.indexed]
  IN /\ Resolving(c)
     /\ resolver' = IF kept THEN [resolver EXCEPT ![c] = now] ELSE resolver
     /\ heap' = [heap EXCEPT ![t].refs = Bound(t, now), ![t].docinfo = WithDocinfo(t, now)]
     /\ UNCHANGED <<files, compiled, cache, call, floor>>

Resolve(c, kept) ==
  LET t == call[c].answer
      used == Using(c, kept)
      now == [used EXCEPT !.attributes = IF @ = None THEN AttributesOf(t) ELSE @]
  IN /\ Resolving(c)
     /\ resolver' = IF kept THEN [resolver EXCEPT ![c] = now] ELSE resolver
     /\ heap' = [heap EXCEPT ![t].docinfo = WithDocinfo(t, now)]
     /\ UNCHANGED <<files, compiled, cache, call, floor>>

Step(c) ==
  \/ Preprocess(c) \/ Stat(c) \/ Fetch(c) \/ Open(c) \/ Compile(c)
  \/ Parse(c) \/ ParseCell(c) \/ Keep(c) \/ Copy(c)

Next ==
  \/ \E c \in Callers :
       \/ \E r \in Requests : Begin(c, r)
       \/ Step(c)
       \/ \E kept \in BOOLEAN : ResolveToAst(c, kept) \/ Resolve(c, kept)
  \/ \E kind \in {"include", "grammar"} : Write(kind)
  \/ ClearParsers
  \/ ClearTrees

Spec == Init /\ [][Next]_vars

---------------------------------------------------------------------------
Versions == [include : 0 .. MaxEvents, grammar : 1 .. MaxEvents + 1]

TreeSet ==
  [is : {"tree"}, text : Texts, schemes : {r.schemes : r \in Requests},
   include : 0 .. MaxEvents, grammar : 1 .. MaxEvents + 1, cells : Seq(0 .. MaxEvents + 1),
   refs : {"unbound", "itself", "another", "nowhere"}, docinfo : WantsDocinfo \cup {None},
   lost : BOOLEAN]

\* None is the absence of a tree, of an error and of a call.
ASSUME NoneAssumption ==
  /\ None \notin TreeSet
  /\ None \notin Faults \cup {"KeyError"}
  /\ None \notin [req : Requests, then : Versions, low : Versions]

\* Every variable has its type, and what is referred to is there.
TypeOK ==
  /\ files \in Versions /\ floor \in Versions
  /\ \A k \in DOMAIN compiled : compiled[k] \in 1 .. files.grammar
  /\ \A t \in Trees : heap[t] \in TreeSet \cup {None}
  /\ \A t \in InUse(cache, call, resolver) \ {0} : heap[t] \in TreeSet
  /\ \A c \in Callers :
       /\ call[c].pc \in {"idle", "preprocess", "stat", "fetch", "open", "compile",
                          "parse", "keep", "copy"}
       /\ call[c].pc \in {"keep", "copy"} <=> call[c].tree # 0
       /\ call[c].error # None => call[c].answer = 0 /\ call[c].pc = "idle"
       /\ resolver[c].attributes \in Attributed \cup {None}

(***************************************************************************)
(* Whatever the threads do, parse_to_ast looks like one service without    *)
(* caches: an answer is made of files no older than the call, or, where a  *)
(* cache may be used, than the last clear_ast_cache and the calls that     *)
(* were under way at it; no cell of it was parsed with an older grammar    *)
(* than the whole; and it changes by its caller's doing alone.             *)
(***************************************************************************)
ImplementsService == Service!Spec

(***************************************************************************)
(* The copies made of a cached tree are as good as the tree was parsed: no *)
(* cached tree, and none about to be copied, is in the hands of a caller,  *)
(* was resolved, is of a text with a fault of the whole, or answers for    *)
(* another key; and the cache holds a key once and no more than maxsize    *)
(* keys.  (How good the cells of a tree are is OutcomesExplained's.)       *)
(***************************************************************************)
CachePristine ==
  LET cached == {cache[i].tree : i \in DOMAIN cache}
      copied == {call[c].tree : c \in {d \in Callers : call[d].pc = "copy"}}
  IN /\ Len(cache) <= MaxEntries
     /\ \A i, j \in DOMAIN cache : cache[i].key = cache[j].key => i = j
     /\ \A i \in DOMAIN cache :
          cache[i].key = <<heap[cache[i].tree].text, heap[cache[i].tree].schemes>>
     /\ \A t \in cached \cup copied :
          /\ heap[t].refs = "unbound" /\ heap[t].docinfo = None
          /\ FaultsOf[heap[t].text][heap[t].include] = {}
          /\ \A c \in Callers : call[c].answer # t /\ resolver[c].indexed # t
     /\ \A c, d \in Callers : call[c].answer = call[d].answer => c = d \/ call[c].answer = 0

(***************************************************************************)
(* Every outcome has its reason in what was read, however the cache was    *)
(* used.  A strict call answers for a text without a fault of the whole, a *)
(* permissive one for a text that can be parsed, and the latter warns of a *)
(* bulleted term and of nothing else that the strict one refuses.  Each    *)
(* table cell is in the answer, a raw paragraph where it cannot be parsed. *)
(* An error is a fault of the text that the mode refuses.  What has no     *)
(* reason in the text comes of a clear_parser_cache between the two        *)
(* look-ups of a parser: the KeyError of a call, and a raw paragraph for a *)
(* cell that can be parsed, in the answer of the call or in a copy of it.  *)
(***************************************************************************)
OutcomesExplained ==
  \A c \in Callers :
    LET faults == FaultsSeen(c)
        strict == call[c].req.strict
        tree == heap[call[c].answer]
        may == CellsOf[tree.text][tree.include]
    IN /\ call[c].answer # 0 =>
            /\ strict => faults = {}
            /\ ~strict => faults \cap {"syntax", "crash"} = {}
            /\ call[c].warned <=> (~strict /\ faults \cap InDescriptionLists # {})
            /\ Len(tree.cells) = Len(may)
            /\ \A n \in DOMAIN may : tree.cells[n] = 0 => ~may[n] \/ tree.lost
       /\ call[c].error # None =>
            \/ call[c].error \in faults /\ (strict \/ call[c].error \in {"syntax", "crash"})
            \/ call[c].error = "KeyError" /\ call[c].cleared

(***************************************************************************)
(* The module function resolve_to_ast depends on nothing but its tree:     *)
(* references are bound in it and docinfo is its own, whatever was         *)
(* resolved before.  With a resolver that is kept, references go to the    *)
(* document it indexed first and docinfo may be that of another text.      *)
(***************************************************************************)
OwnUnlessKept ==
  [][\A c \in Callers :
       LET t == call[c].answer IN
       ResolveToAst(c, FALSE) =>
         /\ heap'[t].refs = IF heap[t].text \in Anchored THEN "itself" ELSE "nowhere"
         /\ heap'[t].text \in WantsDocinfo => heap'[t].docinfo = heap[t].text]_vars
=============================================================================
