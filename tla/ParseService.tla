---------------------------- MODULE ParseService ----------------------------
(***************************************************************************)
(* What parse_to_ast promises to callers that ask at the same time, while  *)
(* the files it reads are written and the caches it keeps are cleared: how *)
(* old an answer may be, and that an answer belongs to the caller alone.   *)
(* Session implements it; no cache appears here.                           *)
(***************************************************************************)
EXTENDS Naturals, FiniteSets, Sequences

CONSTANTS
  Callers,        \* threads that call the package
  Requests,       \* [text, schemes, strict, ordinary, use_cache]
  CellsOf,        \* [text -> [version of the include -> may each table cell be parsed]]
  Errors,         \* what a call may end with instead of a tree
  None

VARIABLES
  files,          \* [include, grammar]: the version of each file now
  floor,          \* the oldest versions that a remembered tree may be made of
  asked,          \* the call of each caller: its request and the versions of then
  held            \* what each caller got last

vars == <<files, floor, asked, held>>

(***************************************************************************)
(* A tree is remembered only for a strict call that leaves every option    *)
(* but the schemes alone and has a short text.                             *)
(***************************************************************************)
Cacheable(r) == r.use_cache /\ r.ordinary /\ r.strict

\* What an answer says of how it was made, and what was done to it since.
Made(r, include, grammar, cells) ==
  [is |-> "tree", text |-> r.text, schemes |-> r.schemes, include |-> include,
   grammar |-> grammar, cells |-> cells, refs |-> "unbound", docinfo |-> None]

Nothing == [is |-> "nothing"]
Raised(e) == [is |-> "error", error |-> e]

Init ==
  /\ files = [include |-> 0, grammar |-> 1]
  /\ floor = files
  /\ asked = [c \in Callers |-> None]
  /\ held = [c \in Callers |-> Nothing]

Write(kind) ==
  /\ files' = [files EXCEPT ![kind] = @ + 1]
  /\ UNCHANGED <<floor, asked, held>>

Ask(c, r) ==
  /\ asked[c] = None
  /\ asked' = [asked EXCEPT ![c] = [req |-> r, then |-> files, low |-> floor]]
  /\ held' = [held EXCEPT ![c] = Nothing]
  /\ UNCHANGED <<files, floor>>

\* A call that may be answered from memory gets nothing older than the floor
\* of when it asked, any other nothing older than the files of when it asked.
Lowest(a) == IF Cacheable(a.req) THEN a.low ELSE a.then

(***************************************************************************)
(* A table cell is parsed by itself, with the grammar of the whole or a    *)
(* newer one.  One that cannot be parsed is a raw paragraph (0); one that  *)
(* can may be a raw paragraph all the same.                                *)
(***************************************************************************)
Cells(may, oldest, newest) ==
  {cells \in [DOMAIN may -> {0} \cup oldest .. newest] :
     \A n \in DOMAIN may : ~may[n] => cells[n] = 0}

Answer(c) ==
  /\ asked[c] # None
  /\ \E i \in Lowest(asked[c]).include .. files.include,
        g \in Lowest(asked[c]).grammar .. files.grammar :
     \E cells \in Cells(CellsOf[asked[c].req.text][i], g, files.grammar) :
       held' = [held EXCEPT ![c] = Made(asked[c].req, i, g, cells)]
  /\ asked' = [asked EXCEPT ![c] = None]
  /\ UNCHANGED <<files, floor>>

Fail(c) ==
  /\ asked[c] # None
  /\ \E e \in Errors : held' = [held EXCEPT ![c] = Raised(e)]
  /\ asked' = [asked EXCEPT ![c] = None]
  /\ UNCHANGED <<files, floor>>

(***************************************************************************)
(* After clear_ast_cache nothing older than the files of now is remembered, *)
(* except for what the calls under way read before: they store it after.   *)
(***************************************************************************)
UnderWay(a) ==
  {a[c].then : c \in {d \in Callers : a[d] # None /\ Cacheable(a[d].req)}}

Oldest(field, now, a) ==
  CHOOSE n \in {v[field] : v \in UnderWay(a) \cup {now}} :
    \A v \in UnderWay(a) \cup {now} : n <= v[field]

Forget ==
  /\ floor' = [include |-> Oldest("include", files, asked),
               grammar |-> Oldest("grammar", files, asked)]
  /\ UNCHANGED <<files, asked, held>>

\* Only the caller that holds a tree does anything to it.
Resolve(c) ==
  /\ held[c].is = "tree"
  /\ \E r \in {"unbound", "itself", "another", "nowhere"},
        d \in {q.text : q \in Requests} \cup {None} :
       held' = [held EXCEPT ![c].refs = r, ![c].docinfo = d]
  /\ UNCHANGED <<files, floor, asked>>

Next ==
  \/ \E kind \in {"include", "grammar"} : Write(kind)
  \/ \E c \in Callers :
       (\E r \in Requests : Ask(c, r)) \/ Answer(c) \/ Fail(c) \/ Resolve(c)
  \/ Forget

Spec == Init /\ [][Next]_vars
=============================================================================
