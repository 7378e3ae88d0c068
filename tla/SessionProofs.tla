--------------------------- MODULE SessionProofs ---------------------------
(***************************************************************************)
(* For any number of threads, requests, cache entries, writes and clears:  *)
(* what parse_to_ast hands out, keeps in its caches and raises, and that   *)
(* all of it looks to its callers like the service of ParseService.        *)
(***************************************************************************)
EXTENDS Session, FiniteSetTheorems, SequenceTheorems, WellFoundedInduction, TLAPS

Pcs == {"idle", "preprocess", "stat", "fetch", "open", "compile", "parse", "keep", "copy"}

CallSet ==
  [pc : Pcs, req : Requests \cup {None}, then : Versions \cup {None},
   low : Versions \cup {None}, include : 0 .. MaxEvents, parser : 0 .. MaxEvents + 1,
   stamp : 0 .. MaxEvents + 1, main : 0 .. MaxEvents + 1, cells : Seq(0 .. MaxEvents + 1),
   tree : 0 .. MaxTrees, answer : 0 .. MaxTrees,
   error : Faults \cup {"KeyError", None}, cleared : BOOLEAN, warned : BOOLEAN]

EntrySet == [key : Texts \X {r.schemes : r \in Requests}, tree : 1 .. MaxTrees]
ResolverSet == [attributes : Attributed \cup {None}, indexed : 0 .. MaxTrees]
HeapSet == [1 .. MaxTrees -> TreeSet \cup {None}]

Older(v, w) == v.include <= w.include /\ v.grammar <= w.grammar

\* The types; a version is written by an event, and a parser is no older than
\* the time of the grammar that it is kept under.
TypeInv ==
  /\ files \in Versions /\ floor \in Versions /\ Older(floor, files)
  /\ count \in [calls : Nat, events : 0 .. MaxEvents]
  /\ files.include + files.grammar <= count.events + 1
  /\ \A k \in DOMAIN compiled : /\ compiled[k] \in 1 .. files.grammar
                                /\ k[1] <= compiled[k]
  /\ heap \in HeapSet
  /\ cache \in Seq(EntrySet)
  /\ call \in [Callers -> CallSet]
  /\ resolver \in [Callers -> ResolverSet]

Used == InUse(cache, call, resolver)
Cached == {cache[i].tree : i \in DOMAIN cache}
Making == {call[c].tree : c \in Callers} \ {0}

\* A tree is there as long as somebody has it.
UseInv == \A t \in 1 .. MaxTrees : heap[t] # None <=> t \in Used

\* As Audit makes a tree of a text without a fault.
Clean(t) ==
  /\ heap[t].refs = "unbound" /\ heap[t].docinfo = None
  /\ FaultsOf[heap[t].text][heap[t].include] = {}

\* What is cached or in the making is clean, and nobody else has it.
CleanInv ==
  \A t \in Cached \cup Making :
    /\ Clean(t)
    /\ \A c \in Callers : call[c].answer # t /\ resolver[c].indexed # t

\* Two callers never hold one tree.
OwnInv == \A c, d \in Callers : call[c].answer = call[d].answer => c = d \/ call[c].answer = 0

\* Cached trees answer for their keys, and are made of files no older than the floor.
CacheInv ==
  /\ Len(cache) <= MaxEntries
  /\ \A i, j \in DOMAIN cache : cache[i].key = cache[j].key => i = j
  /\ \A i \in DOMAIN cache :
       /\ cache[i].key = <<heap[cache[i].tree].text, heap[cache[i].tree].schemes>>
       /\ Older(floor, heap[cache[i].tree]) /\ Older(heap[cache[i].tree], files)

\* What the cells of a text became so far: raw paragraphs, or parsed with a grammar
\* between g and the newest; a cell that may be parsed is raw when its parser was lost.
CellsMade(cells, may, g, newest, lost) ==
  /\ Len(cells) <= Len(may)
  /\ \A n \in 1 .. Len(cells) :
       \/ cells[n] = 0 /\ (may[n] => lost)
       \/ g <= cells[n] /\ cells[n] <= newest /\ may[n]

TreeCells(tree, newest) ==
  LET may == CellsOf[tree.text][tree.include]
  IN  Len(tree.cells) = Len(may) /\ CellsMade(tree.cells, may, tree.grammar, newest, tree.lost)

CellsInv == \A t \in 1 .. MaxTrees : heap[t] # None => TreeCells(heap[t], files.grammar)

-----------------------------------------------------------------------------
(* What a call under way has read by each of its steps                     *)

Begins(k) ==
  k.pc # "idle" =>
    /\ k.req \in Requests /\ k.then \in Versions /\ k.low \in Versions
    /\ k.answer = 0 /\ k.error = None
    /\ Older(k.low, k.then) /\ Older(k.then, files) /\ Older(k.low, floor)
    /\ Cacheable(k.req) => Older(floor, k.then)

HasRead(k) ==
  k.pc \in {"stat", "fetch", "open", "compile", "parse", "keep"} =>
    /\ k.then.include <= k.include /\ k.include <= files.include
    /\ k.req.strict => FaultsOf[k.req.text][k.include] \cap {"missing", "unclosed"} = {}

SchemesAt(k) == IF k.main # 0 THEN NoSchemes ELSE k.req.schemes

HasParser(k) ==
  /\ k.pc \in {"fetch", "open", "compile"} =>
       k.then.grammar <= k.stamp /\ k.main <= k.stamp /\ k.stamp <= files.grammar
  /\ k.pc = "fetch" => <<k.stamp, SchemesAt(k)>> \in DOMAIN compiled \/ k.cleared
  /\ k.pc = "compile" => k.stamp <= k.parser
  /\ k.pc \in {"compile", "parse"} =>
       \/ k.then.grammar <= k.parser /\ k.main <= k.parser /\ k.parser <= files.grammar
       \/ k.pc = "parse" /\ k.main # 0 /\ k.parser = 0 /\ k.cleared

\* In the callback of a table cell.
HasCells(k) ==
  k.main # 0 =>
    LET may == CellsOf[k.req.text][k.include]
    IN  /\ k.pc \in {"stat", "fetch", "open", "compile", "parse"}
        /\ k.then.grammar <= k.main /\ k.main <= files.grammar
        /\ Len(k.cells) < Len(may) /\ CellsMade(k.cells, may, k.main, files.grammar, k.cleared)
        /\ "syntax" \notin FaultsOf[k.req.text][k.include]

HasTree(k) ==
  /\ k.pc \in {"keep", "copy"} <=> k.tree # 0
  /\ k.tree # 0 =>
       /\ Cacheable(k.req)
       /\ heap[k.tree].text = k.req.text /\ heap[k.tree].schemes = k.req.schemes
       /\ heap[k.tree].include = k.include
       /\ Older(k.low, heap[k.tree]) /\ Older(heap[k.tree], files)
  /\ k.pc = "keep" => Older(k.then, heap[k.tree])

CallInv(k) ==
  /\ Begins(k) /\ HasRead(k) /\ HasParser(k) /\ HasCells(k) /\ HasTree(k)
  /\ k.error # None => k.answer = 0

CallsInv == \A c \in Callers : CallInv(call[c])

\* The outcome of one call has its reason.
Explained(k) ==
  LET faults == FaultsOf[k.req.text][k.include]
  IN  /\ k.answer # 0 =>
           /\ k.req.strict => faults = {}
           /\ ~k.req.strict => faults \cap {"syntax", "crash"} = {}
           /\ k.warned <=> (~k.req.strict /\ faults \cap InDescriptionLists # {})
      /\ k.error # None =>
           \/ k.error \in faults /\ (k.req.strict \/ k.error \in {"syntax", "crash"})
           \/ k.error = "KeyError" /\ k.cleared

Outcomes == \A c \in Callers : Explained(call[c])

SInv ==
  /\ TypeInv /\ UseInv /\ CleanInv /\ OwnInv /\ CacheInv /\ CallsInv /\ Outcomes /\ CellsInv

-----------------------------------------------------------------------------
(* Least elements, and the identity of a new tree                          *)

LEMMA Bounds ==
  /\ IsFiniteSet(Callers) /\ Cardinality(Callers) \in Nat
  /\ MaxEntries \in Nat \ {0} /\ MaxEvents \in Nat
  /\ MaxTrees \in Nat /\ MaxTrees = 3 * Cardinality(Callers) + MaxEntries + 1
BY SessionAssumption, FS_CardinalityType DEF MaxTrees

LEMMA Least ==
  ASSUME NEW S \in SUBSET Nat, S # {}
  PROVE  \E n \in S : \A m \in S : n <= m
<1> DEFINE R == OpToRel(<, Nat)
<1>1. IsWellFoundedOn(R, Nat)
  BY NatLessThanWellFounded
<1>2. \A m, n \in Nat : m < n => <<m, n>> \in R
  BY DEF OpToRel
<1> HIDE DEF R
<1>3. PICK n \in S : \A m \in S : ~ (<<m, n>> \in R)
  BY <1>1, WFMin
<1>4. \A m \in S : ~ (m < n)
  BY <1>2, <1>3
<1> QED BY <1>3, <1>4

\* A function has no more values than arguments.
LEMMA ImageSize ==
  ASSUME NEW S, IsFiniteSet(S), NEW T, NEW f \in [S -> T],
         \A y \in T : \E x \in S : f[x] = y
  PROVE  IsFiniteSet(T) /\ Cardinality(T) \in Nat /\ Cardinality(T) <= Cardinality(S)
<1>1. f \in Surjection(S, T)
  BY DEF Surjection
<1> QED BY <1>1, FS_Surjection, FS_CardinalityType

LEMMA UnionSize ==
  ASSUME NEW S, IsFiniteSet(S), NEW T, IsFiniteSet(T)
  PROVE  /\ IsFiniteSet(S \cup T)
         /\ Cardinality(S \cup T) \in Nat
         /\ Cardinality(S \cup T) <= Cardinality(S) + Cardinality(T)
<1>1. IsFiniteSet(S \cap T) /\ Cardinality(S \cap T) \in Nat
  BY FS_Subset, FS_CardinalityType
<1>2. Cardinality(S) \in Nat /\ Cardinality(T) \in Nat
  BY FS_CardinalityType
<1>3. /\ IsFiniteSet(S \cup T)
      /\ Cardinality(S \cup T) = Cardinality(S) + Cardinality(T) - Cardinality(S \cap T)
  BY FS_Union
<1>4. Cardinality(S \cup T) \in Nat
  BY <1>3, FS_CardinalityType
<1> QED BY <1>1, <1>2, <1>3, <1>4

LEMMA IntervalSize ==
  ASSUME NEW n \in Nat PROVE IsFiniteSet(1 .. n) /\ Cardinality(1 .. n) = n
<1>1. 1 \in Int /\ n \in Int
  OBVIOUS
<1>2. /\ IsFiniteSet(1 .. n)
      /\ Cardinality(1 .. n) = IF 1 > n THEN 0 ELSE n - 1 + 1
  BY <1>1, FS_Interval
<1> QED BY <1>2

\* Fewer trees are in use than there are identities.
LEMMA UsedSize ==
  ASSUME TypeInv, Len(cache) <= MaxEntries
  PROVE  IsFiniteSet(Used) /\ Cardinality(Used) < MaxTrees
<1> PICK A : A = {cache[i].tree : i \in DOMAIN cache}
  OBVIOUS
<1> PICK B : B = {call[c].tree : c \in Callers}
  OBVIOUS
<1> PICK C : C = {call[c].answer : c \in Callers}
  OBVIOUS
<1> PICK D : D = {resolver[c].indexed : c \in Callers}
  OBVIOUS
<1>1. IsFiniteSet(A) /\ Cardinality(A) \in Nat /\ Cardinality(A) <= MaxEntries
  <2> PICK f : f = [i \in DOMAIN cache |-> cache[i].tree]
    OBVIOUS
  <2>1. DOMAIN cache = 1 .. Len(cache) /\ Len(cache) \in Nat
    BY DEF TypeInv
  <2>2. IsFiniteSet(DOMAIN cache) /\ Cardinality(DOMAIN cache) <= MaxEntries
    <3> PICK n \in Nat : n = Len(cache)
      BY <2>1
    <3>1. IsFiniteSet(1 .. n) /\ Cardinality(1 .. n) = n
      BY IntervalSize
    <3>2. n <= MaxEntries /\ MaxEntries \in Nat
      BY Bounds
    <3> QED BY <2>1, <3>1, <3>2
  <2>3. f \in [DOMAIN cache -> A] /\ \A y \in A : \E x \in DOMAIN cache : f[x] = y
    OBVIOUS
  <2>4. IsFiniteSet(A) /\ Cardinality(A) \in Nat /\ Cardinality(A) <= Cardinality(DOMAIN cache)
    BY <2>2, <2>3, ImageSize
  <2>5. Cardinality(DOMAIN cache) \in Nat
    BY <2>2, FS_CardinalityType
  <2> QED BY <2>2, <2>4, <2>5, Bounds
<1>2. IsFiniteSet(B) /\ Cardinality(B) \in Nat /\ Cardinality(B) <= Cardinality(Callers)
  <2> PICK f : f = [c \in Callers |-> call[c].tree]
    OBVIOUS
  <2>1. f \in [Callers -> B] /\ \A y \in B : \E x \in Callers : f[x] = y
    OBVIOUS
  <2> QED BY <2>1, ImageSize, Bounds
<1>3. IsFiniteSet(C) /\ Cardinality(C) \in Nat /\ Cardinality(C) <= Cardinality(Callers)
  <2> PICK f : f = [c \in Callers |-> call[c].answer]
    OBVIOUS
  <2>1. f \in [Callers -> C] /\ \A y \in C : \E x \in Callers : f[x] = y
    OBVIOUS
  <2> QED BY <2>1, ImageSize, Bounds
<1>4. IsFiniteSet(D) /\ Cardinality(D) \in Nat /\ Cardinality(D) <= Cardinality(Callers)
  <2> PICK f : f = [c \in Callers |-> resolver[c].indexed]
    OBVIOUS
  <2>1. f \in [Callers -> D] /\ \A y \in D : \E x \in Callers : f[x] = y
    OBVIOUS
  <2> QED BY <2>1, ImageSize, Bounds
<1>5. Used = ((A \cup B) \cup C) \cup D
  BY DEF Used, InUse
<1>6. /\ IsFiniteSet(A \cup B) /\ Cardinality(A \cup B) \in Nat
      /\ Cardinality(A \cup B) <= Cardinality(A) + Cardinality(B)
  BY <1>1, <1>2, UnionSize
<1>7. /\ IsFiniteSet((A \cup B) \cup C) /\ Cardinality((A \cup B) \cup C) \in Nat
      /\ Cardinality((A \cup B) \cup C) <= Cardinality(A \cup B) + Cardinality(C)
  BY <1>3, <1>6, UnionSize
<1>8. /\ IsFiniteSet(((A \cup B) \cup C) \cup D) /\ Cardinality(((A \cup B) \cup C) \cup D) \in Nat
      /\ Cardinality(((A \cup B) \cup C) \cup D) <= Cardinality((A \cup B) \cup C) + Cardinality(D)
  BY <1>4, <1>7, UnionSize
<1> QED BY SMTT(30), <1>1, <1>2, <1>3, <1>4, <1>5, <1>6, <1>7, <1>8, Bounds

LEMMA NewTreeFacts ==
  ASSUME TypeInv, UseInv, Len(cache) <= MaxEntries
  PROVE  NewTree \in 1 .. MaxTrees /\ NewTree \notin Used
<1> DEFINE S == {t \in 1 .. MaxTrees : heap[t] = None}
<1>1. Trees = 1 .. MaxTrees
  BY DEF TypeInv, HeapSet, Trees
<1>2. S # {}
  <2> SUFFICES ASSUME S = {} PROVE FALSE
    OBVIOUS
  <2>1. 1 .. MaxTrees \in SUBSET Used
    BY DEF UseInv
  <2>2. Cardinality(1 .. MaxTrees) <= Cardinality(Used)
    BY <2>1, UsedSize, FS_Subset
  <2>3. Cardinality(1 .. MaxTrees) = MaxTrees
    BY Bounds, IntervalSize
  <2> QED BY <2>2, <2>3, UsedSize, FS_CardinalityType, Bounds
<1>3. PICK n \in S : \A m \in S : n <= m
  <2>1. S \in SUBSET Nat
    BY Bounds
  <2> HIDE DEF S
  <2> QED BY <1>2, <2>1, Least
<1>4. heap[n] = None /\ \A u \in 1 .. n - 1 : heap[u] # None
  BY <1>3, Bounds
<1>5. NewTree \in Trees /\ heap[NewTree] = None
  BY <1>1, <1>3, <1>4 DEF NewTree
<1> QED BY <1>1, <1>5 DEF UseInv

-----------------------------------------------------------------------------
(* The calls as the service sees them                                      *)

LEMMA AskedFacts ==
  ASSUME TypeInv, CallsInv, NEW c \in Callers
  PROVE  /\ Asked[c] = None <=> call[c].pc = "idle"
         /\ call[c].pc # "idle" =>
              /\ Asked[c].req = call[c].req /\ Asked[c].then = call[c].then
              /\ Asked[c].low = call[c].low
<1>1. CASE call[c].pc = "idle"
  BY <1>1 DEF Asked
<1>2. CASE call[c].pc # "idle"
  <2> PICK a : a = [req |-> call[c].req, then |-> call[c].then, low |-> call[c].low]
    OBVIOUS
  <2>1. call[c].req \in Requests /\ call[c].then \in Versions /\ call[c].low \in Versions
    BY <1>2 DEF CallsInv, CallInv, Begins
  <2>2. a \in [req : Requests, then : Versions, low : Versions]
    BY <2>1
  <2>3. a # None
    BY <2>2, NoneAssumption
  <2>4. Asked[c] = a
    BY <1>2 DEF Asked
  <2> QED BY <1>2, <2>3, <2>4
<1> QED BY <1>1, <1>2

\* The floor of clear_ast_cache is older than what any call under way will store.
LEMMA FloorFacts ==
  ASSUME TypeInv, CallsInv, ClearTrees
  PROVE  /\ floor' \in Versions /\ Older(floor, floor') /\ Older(floor', files)
         /\ \A c \in Callers : call[c].pc # "idle" /\ Cacheable(call[c].req) =>
                                 Older(floor', call[c].then)
<1> PICK U : U = Service!UnderWay(Asked) \cup {files}
  OBVIOUS
<1>1. \A v \in U : v \in Versions /\ Older(floor, v)
  <2> SUFFICES ASSUME NEW v \in Service!UnderWay(Asked) PROVE v \in Versions /\ Older(floor, v)
    BY DEF TypeInv
  <2>1. PICK c \in Callers : /\ Asked[c] # None /\ Service!Cacheable(Asked[c].req)
                             /\ v = Asked[c].then
    BY DEF Service!UnderWay
  <2>2. call[c].pc # "idle" /\ v = call[c].then /\ Cacheable(call[c].req)
    BY <2>1, AskedFacts DEF Service!Cacheable, Cacheable
  <2> QED BY <2>2 DEF CallsInv, CallInv, Begins
<1>2. files \in U /\ \A c \in Callers : call[c].pc # "idle" /\ Cacheable(call[c].req) =>
                                          call[c].then \in U
  <2> SUFFICES ASSUME NEW c \in Callers, call[c].pc # "idle", Cacheable(call[c].req)
               PROVE  call[c].then \in Service!UnderWay(Asked)
    OBVIOUS
  <2>1. /\ Asked[c] # None /\ Asked[c].then = call[c].then
        /\ Service!Cacheable(Asked[c].req)
    BY AskedFacts DEF Service!Cacheable, Cacheable
  <2> QED BY <2>1 DEF Service!UnderWay
<1>3. ASSUME NEW field \in {"include", "grammar"}
      PROVE  /\ \E v \in U : Service!Oldest(field, files, Asked) = v[field]
             /\ \A v \in U : Service!Oldest(field, files, Asked) <= v[field]
  <2> PICK S : S = {v[field] : v \in U}
    OBVIOUS
  <2>1. \A v \in U : v[field] \in Nat
    BY <1>1, Bounds DEF Versions
  <2>2. S \in SUBSET Nat /\ S # {}
    BY <1>2, <2>1
  <2>3. PICK n \in S : \A m \in S : n <= m
    BY <2>2, Least
  <2>4. \A v \in U : n <= v[field]
    BY <2>3
  <2>5. Service!Oldest(field, files, Asked) = CHOOSE k \in S : \A v \in U : k <= v[field]
    BY DEF Service!Oldest
  <2> QED BY <2>3, <2>4, <2>5
<1>4. /\ floor' = [include |-> Service!Oldest("include", files, Asked),
                   grammar |-> Service!Oldest("grammar", files, Asked)]
  BY DEF ClearTrees
<1>5. PICK o, p : /\ o = Service!Oldest("include", files, Asked)
                  /\ p = Service!Oldest("grammar", files, Asked)
  OBVIOUS
<1>6. PICK v \in U : o = v.include
  BY <1>3, <1>5
<1>7. PICK w \in U : p = w.grammar
  BY <1>3, <1>5
<1>8. \A u \in U : o <= u.include /\ p <= u.grammar
  BY <1>3, <1>5
<1>9. floor' = [include |-> o, grammar |-> p]
  BY <1>4, <1>5
<1>10. floor' \in Versions /\ Older(floor, floor')
  BY <1>1, <1>6, <1>7, <1>9 DEF Versions, Older
<1> QED BY <1>2, <1>8, <1>9, <1>10 DEF Older

-----------------------------------------------------------------------------
(* What a step does to a call                                              *)

LEMMA IdleFacts ==
  /\ Idle \in CallSet
  /\ Idle.pc = "idle" /\ Idle.tree = 0 /\ Idle.answer = 0 /\ Idle.error = None
  /\ Idle.main = 0
<1>1. <<>> \in Seq(0 .. MaxEvents + 1)
  OBVIOUS
<1> QED BY <1>1, Bounds DEF Idle, CallSet, Pcs

\* Call m of caller c has come to its end.
Ends(m, c, t, e, w) ==
  /\ m \in CallSet /\ m.pc = "idle" /\ m.tree = 0 /\ m.answer = t /\ m.error = e
  /\ m.warned = w /\ m.req = call[c].req /\ m.include = call[c].include
  /\ m.main = 0 /\ m.cleared = (e # None /\ call[c].cleared)

LEMMA EndedFacts ==
  ASSUME TypeInv, NEW c \in Callers, NEW t \in 0 .. MaxTrees,
         NEW e \in Faults \cup {"KeyError", None}, NEW w \in BOOLEAN
  PROVE  Ends(Ended(c, t, e, w), c, t, e, w)
<1> PICK k \in CallSet : k = call[c]
  BY DEF TypeInv
<1>1. /\ k.req \in Requests \cup {None} /\ k.include \in 0 .. MaxEvents
      /\ k.cleared \in BOOLEAN
  BY DEF CallSet
<1> PICK i \in CallSet : i = Idle
  BY IdleFacts
<1>2. PICK j : j = [i EXCEPT !.answer = t, !.error = e, !.warned = w]
  OBVIOUS
<1>3. /\ j \in CallSet /\ j.pc = i.pc /\ j.tree = i.tree /\ j.main = i.main
      /\ j.answer = t /\ j.error = e /\ j.warned = w
  BY <1>2 DEF CallSet
<1> PICK b \in BOOLEAN : b = (e # None /\ k.cleared)
  OBVIOUS
<1>4. PICK m : m = [j EXCEPT !.req = k.req, !.include = k.include, !.cleared = b]
  OBVIOUS
<1>5. /\ m \in CallSet /\ m.pc = j.pc /\ m.tree = j.tree /\ m.main = j.main
      /\ m.answer = j.answer /\ m.error = j.error /\ m.warned = j.warned
      /\ m.req = k.req /\ m.include = k.include /\ m.cleared = b
  <2>1. m \in CallSet
    BY ZenonT(60), <1>1, <1>3, <1>4 DEF CallSet
  <2>2. DOMAIN j = DOMAIN i
    BY <1>2
  <2> QED BY <1>3, <1>4, <2>1 DEF CallSet
<1>6. Ended(c, t, e, w) = m
  BY <1>2, <1>4 DEF Ended
<1> QED BY <1>3, <1>5, <1>6, IdleFacts DEF Ends

LEMMA FailedFacts ==
  ASSUME TypeInv, NEW c \in Callers, NEW e \in Faults \cup {"KeyError"}
  PROVE  Ends(Ended(c, 0, e, FALSE), c, 0, e, FALSE)
<1>1. 0 \in 0 .. MaxTrees /\ e \in Faults \cup {"KeyError", None}
  BY Bounds
<1>2. PICK w \in BOOLEAN : w = FALSE
  OBVIOUS
<1>3. Ends(Ended(c, 0, e, w), c, 0, e, w)
  BY <1>1, EndedFacts, Zenon
<1>4. Ended(c, 0, e, FALSE) = Ended(c, 0, e, w)
  BY <1>2 DEF Ended
<1> QED BY <1>2, <1>3, <1>4

LEMMA BegunFacts ==
  ASSUME TypeInv, NEW r \in Requests
  PROVE  LET start == [Idle EXCEPT !.pc = "preprocess", !.req = r, !.then = files, !.low = floor]
         IN  /\ start \in CallSet
             /\ start.pc = "preprocess" /\ start.tree = 0 /\ start.answer = 0 /\ start.main = 0
             /\ start.error = None /\ start.req = r /\ start.then = files /\ start.low = floor
<1> PICK i \in CallSet : i = Idle
  BY IdleFacts
<1>1. files \in Versions /\ floor \in Versions
  BY DEF TypeInv
<1>2. PICK j : j = [i EXCEPT !.pc = "preprocess", !.req = r, !.then = files, !.low = floor]
  OBVIOUS
<1>3. /\ j \in CallSet /\ j.pc = "preprocess" /\ j.tree = i.tree /\ j.answer = i.answer
      /\ j.main = i.main
      /\ j.error = i.error /\ j.req = r /\ j.then = files /\ j.low = floor
  BY <1>1, <1>2 DEF CallSet, Pcs
<1> QED BY <1>2, <1>3, IdleFacts

\* One call changes.
Changed(c, k) == /\ call' \in [Callers -> CallSet] /\ call'[c] = k
                 /\ \A d \in Callers : d # c => call'[d] = call[d]

LEMMA CallChanged ==
  ASSUME TypeInv, NEW c \in Callers, NEW k \in CallSet, call' = [call EXCEPT ![c] = k]
  PROVE  Changed(c, k)
BY DEF TypeInv, Changed

-----------------------------------------------------------------------------
(* What becomes of the trees                                               *)

LEMMA CollectedFacts ==
  ASSUME TypeInv, NEW h \in HeapSet, heap' = Collected(h, cache', call', resolver')
  PROVE  /\ heap' \in HeapSet
         /\ \A t \in 1 .. MaxTrees : heap'[t] = IF t \in Used' THEN h[t] ELSE None
<1>1. Trees = 1 .. MaxTrees
  BY DEF TypeInv, HeapSet, Trees
<1> QED BY <1>1 DEF Collected, HeapSet, Used

\* Who has a tree now had it before.
FewerTrees ==
  /\ Cached' \cup Making' \subseteq Cached \cup Making
  /\ \A c \in Callers : /\ call'[c].answer \in {0, call[c].answer}
                        /\ resolver'[c].indexed = resolver[c].indexed

\* The trees that are used stay as they are.
TreesStay ==
  /\ heap' \in HeapSet
  /\ \A t \in 1 .. MaxTrees : heap'[t] = IF t \in Used' THEN heap[t] ELSE None

LEMMA UsedFacts ==
  ASSUME NEW ch \in Seq(EntrySet), NEW cl \in [Callers -> CallSet],
         NEW rs \in [Callers -> ResolverSet]
  PROVE  /\ InUse(ch, cl, rs) \subseteq 0 .. MaxTrees
         /\ {ch[i].tree : i \in DOMAIN ch} \cup ({cl[c].tree : c \in Callers} \ {0})
              \subseteq 1 .. MaxTrees
<1>1. \A i \in DOMAIN ch : ch[i] \in EntrySet
  OBVIOUS
<1>2. \A i \in DOMAIN ch : ch[i].tree \in 1 .. MaxTrees
  BY <1>1 DEF EntrySet
<1>3. \A c \in Callers : cl[c] \in CallSet /\ rs[c] \in ResolverSet
  OBVIOUS
<1>4. \A c \in Callers : /\ cl[c].tree \in 0 .. MaxTrees /\ cl[c].answer \in 0 .. MaxTrees
                         /\ rs[c].indexed \in 0 .. MaxTrees
  BY <1>3 DEF CallSet, ResolverSet
<1> QED BY <1>2, <1>4, Bounds DEF InUse

LEMMA Numbers ==
  ASSUME NEW v \in Versions \cup TreeSet
  PROVE  v.include \in Nat /\ v.grammar \in Nat \ {0}
BY Bounds DEF Versions, TreeSet

LEMMA OlderFacts ==
  /\ \A v \in Versions \cup TreeSet : Older(v, v)
  /\ \A u, v, w \in Versions \cup TreeSet : Older(u, v) /\ Older(v, w) => Older(u, w)
<1>1. \A v \in Versions \cup TreeSet : v.include \in Nat /\ v.grammar \in Nat
  BY Numbers
<1> QED BY <1>1 DEF Older

LEMMA CellNumbers ==
  ASSUME NEW s \in Seq(0 .. MaxEvents + 1)
  PROVE  Len(s) \in Nat /\ \A n \in 1 .. Len(s) : s[n] \in 0 .. MaxEvents + 1 /\ s[n] \in Nat
<1>1. Len(s) \in Nat /\ \A n \in 1 .. Len(s) : s[n] \in 0 .. MaxEvents + 1
  <2> PICK T : T = 0 .. MaxEvents + 1
    OBVIOUS
  <2>1. s \in Seq(T)
    OBVIOUS
  <2> QED BY <2>1, ElementOfSeq, LenProperties
<1>2. \A m \in 0 .. MaxEvents + 1 : m \in Nat
  BY Bounds
<1> QED BY <1>1, <1>2

\* What was made of the newest grammar of then is made of that of now.
LEMMA CellsKept ==
  ASSUME NEW s \in Seq(0 .. MaxEvents + 1), NEW may, NEW g, NEW lost,
         NEW m \in Nat, NEW n \in Nat, m <= n, CellsMade(s, may, g, m, lost)
  PROVE  CellsMade(s, may, g, n, lost)
<1>1. \A i \in 1 .. Len(s) : s[i] \in Nat
  BY CellNumbers
<1>2. \A i \in 1 .. Len(s) : s[i] <= m => s[i] <= n
  BY <1>1
<1> QED BY <1>2 DEF CellsMade

LEMMA CellsStay ==
  ASSUME TypeInv, TypeInv', CellsInv, Older(files, files'),
         \A t \in 1 .. MaxTrees : heap'[t] # None => heap'[t] = heap[t]
  PROVE  CellsInv'
<1> SUFFICES ASSUME NEW t \in 1 .. MaxTrees, heap'[t] # None
             PROVE  TreeCells(heap'[t], files'.grammar)
  BY DEF CellsInv
<1> PICK tree \in TreeSet : tree = heap[t] /\ tree = heap'[t]
  BY DEF TypeInv, HeapSet
<1>1. TreeCells(tree, files.grammar)
  BY DEF CellsInv
<1>2. files.grammar <= files'.grammar /\ files.grammar \in Nat /\ files'.grammar \in Nat
  BY Numbers DEF TypeInv, Older
<1>3. tree.cells \in Seq(0 .. MaxEvents + 1)
  BY DEF TreeSet
<1> QED BY <1>1, <1>2, <1>3, CellsKept DEF TreeCells

LEMMA NoNewTree ==
  ASSUME TypeInv, UseInv, CleanInv, OwnInv, CellsInv, TypeInv', FewerTrees, TreesStay,
         Older(files, files')
  PROVE  /\ UseInv' /\ CleanInv' /\ OwnInv' /\ CellsInv'
         /\ \A t \in Used' \ {0} : t \in Used /\ heap'[t] = heap[t]
         /\ \A t \in Cached' \cup Making' : heap'[t] = heap[t]
<1>1. \A t \in Used' \ {0} : t \in Used /\ t \in 1 .. MaxTrees
  <2>1. Used' \subseteq 0 .. MaxTrees
    BY UsedFacts DEF TypeInv, Used
  <2>2. Used' \cup {0} = Cached' \cup Making' \cup {call'[c].answer : c \in Callers}
                           \cup {resolver'[c].indexed : c \in Callers} \cup {0}
    BY DEF Used, InUse, Cached, Making
  <2>3. Used \cup {0} = Cached \cup Making \cup {call[c].answer : c \in Callers}
                          \cup {resolver[c].indexed : c \in Callers} \cup {0}
    BY DEF Used, InUse, Cached, Making
  <2>4. {call'[c].answer : c \in Callers} \subseteq {call[c].answer : c \in Callers} \cup {0}
    BY DEF FewerTrees
  <2>5. {resolver'[c].indexed : c \in Callers} \subseteq {resolver[c].indexed : c \in Callers}
    BY DEF FewerTrees
  <2>6. Cached' \cup Making' \subseteq Cached \cup Making
    BY DEF FewerTrees
  <2>7. \A t \in 0 .. MaxTrees : t # 0 => t \in 1 .. MaxTrees
    BY Bounds
  <2> QED BY <2>1, <2>2, <2>3, <2>4, <2>5, <2>6, <2>7
<1>2. \A t \in Used' \ {0} : heap'[t] = heap[t]
  BY <1>1 DEF TreesStay
<1>3. UseInv'
  <2>1. \A t \in 1 .. MaxTrees : heap'[t] # None <=> t \in Used'
    BY <1>1, NoneAssumption DEF TreesStay, UseInv
  <2> QED BY <2>1 DEF UseInv
<1>4. \A t \in Cached' \cup Making' : t \in Used' \ {0}
  <2>1. Cached' \cup Making' \subseteq 1 .. MaxTrees
    BY UsedFacts DEF TypeInv, Cached, Making
  <2>2. Cached' \cup Making' \subseteq Used' \cup {0}
    BY DEF Used, InUse, Cached, Making
  <2> QED BY <2>1, <2>2, Bounds
<1>5. CleanInv'
  <2> SUFFICES ASSUME NEW t \in Cached' \cup Making'
               PROVE  /\ Clean(t)'
                      /\ \A c \in Callers : call'[c].answer # t /\ resolver'[c].indexed # t
    BY DEF CleanInv
  <2>1. t \in Cached \cup Making /\ t # 0 /\ heap'[t] = heap[t]
    BY <1>2, <1>4 DEF FewerTrees
  <2>2. Clean(t) /\ \A c \in Callers : call[c].answer # t /\ resolver[c].indexed # t
    BY <2>1 DEF CleanInv
  <2>3. Clean(t)'
    BY <2>1, <2>2 DEF Clean
  <2> QED BY <2>1, <2>2, <2>3 DEF FewerTrees
<1>6. OwnInv'
  <2>1. \A c, d \in Callers :
          call'[c].answer = call'[d].answer => c = d \/ call'[c].answer = 0
    BY DEF FewerTrees, OwnInv
  <2> QED BY <2>1 DEF OwnInv
<1>7. CellsInv'
  BY CellsStay DEF TreesStay
<1> QED BY <1>1, <1>2, <1>3, <1>4, <1>5, <1>6, <1>7

\* Caller c gets a new tree n, to be kept or to be handed out.
NewTreeFor(c, n, tree) ==
  /\ n \in 1 .. MaxTrees /\ n \notin Used /\ tree \in TreeSet
  /\ cache' = cache /\ resolver' = resolver
  /\ \A d \in Callers : d # c => call'[d] = call[d]
  /\ heap' \in HeapSet
  /\ \A t \in 1 .. MaxTrees :
       heap'[t] = IF t \in Used' THEN (IF t = n THEN tree ELSE heap[t]) ELSE None
  /\ \/ call'[c].tree = n /\ call'[c].answer = 0
     \/ call'[c].tree = 0 /\ call'[c].answer = n

LEMMA OneNewTree ==
  ASSUME TypeInv, UseInv, CleanInv, OwnInv, CellsInv, TypeInv', NEW c \in Callers, NEW n,
         NEW tree, NewTreeFor(c, n, tree), files' = files, TreeCells(tree, files.grammar),
         call'[c].tree = n => /\ tree.refs = "unbound" /\ tree.docinfo = None
                              /\ FaultsOf[tree.text][tree.include] = {}
  PROVE  /\ UseInv' /\ CleanInv' /\ OwnInv' /\ CellsInv'
         /\ heap'[n] = tree
         /\ \A t \in Used' \ {0, n} : t \in Used /\ heap'[t] = heap[t]
<1>1. n \in Used' /\ heap'[n] = tree /\ n # 0
  <2>1. n \in Used'
    BY DEF NewTreeFor, Used, InUse
  <2> QED BY <2>1, Bounds DEF NewTreeFor
<1>2. /\ \A d \in Callers : /\ call'[d].tree \in {call[d].tree, 0, n}
                            /\ call'[d].answer \in {call[d].answer, 0, n}
                            /\ call[d].tree # n /\ call[d].answer # n
                            /\ resolver[d].indexed # n
      /\ n \notin Cached
  BY DEF NewTreeFor, Used, InUse, Cached
<1>3. \A t \in Used' \ {0, n} : t \in 1 .. MaxTrees /\ t \in Used
  <2>1. Used' \subseteq 0 .. MaxTrees
    BY UsedFacts DEF TypeInv, Used
  <2>2. ASSUME NEW t \in Used', t # 0, t # n
        PROVE  t \in Used
    <3>1. \/ t \in Cached' \/ \E d \in Callers : t = call'[d].tree
          \/ \E d \in Callers : t = call'[d].answer
          \/ \E d \in Callers : t = resolver'[d].indexed
      BY DEF Used, InUse, Cached
    <3>2. Cached' = Cached /\ resolver' = resolver
      BY DEF NewTreeFor, Cached
    <3>3. \/ t \in Cached \/ \E d \in Callers : t = call[d].tree
          \/ \E d \in Callers : t = call[d].answer
          \/ \E d \in Callers : t = resolver[d].indexed
      BY <1>2, <2>2, <3>1, <3>2
    <3> QED BY <3>3 DEF Used, InUse, Cached
  <2>3. \A t \in 0 .. MaxTrees : t # 0 => t \in 1 .. MaxTrees
    BY Bounds
  <2> QED BY <2>1, <2>2, <2>3
<1>4. \A t \in Used' \ {0, n} : heap'[t] = heap[t]
  BY <1>3 DEF NewTreeFor
<1>5. UseInv'
  <2> SUFFICES ASSUME NEW t \in 1 .. MaxTrees
               PROVE  heap'[t] # None <=> t \in Used'
    BY DEF UseInv
  <2>1. CASE t \notin Used'
    BY <2>1 DEF NewTreeFor
  <2>2. CASE t = n
    BY <1>1, <2>2, NoneAssumption DEF NewTreeFor
  <2>3. CASE t \in Used' /\ t # n
    <3>1. t # 0
      BY Bounds
    <3> QED BY <1>3, <1>4, <2>3, <3>1 DEF UseInv
  <2> QED BY <2>1, <2>2, <2>3
<1>6. CleanInv'
  <2> SUFFICES ASSUME NEW t \in Cached' \cup Making'
               PROVE  /\ Clean(t)'
                      /\ \A d \in Callers : call'[d].answer # t /\ resolver'[d].indexed # t
    BY DEF CleanInv
  <2>1. Cached' = Cached /\ resolver' = resolver
    BY DEF NewTreeFor, Cached
  <2>2. t \in Used' /\ t # 0
    <3>1. Cached' \cup Making' \subseteq 1 .. MaxTrees
      BY UsedFacts DEF TypeInv, Cached, Making
    <3> QED BY <3>1, Bounds DEF Used, InUse, Cached, Making
  <2>3. CASE t = n
    <3>1. call'[c].tree = n /\ call'[c].answer = 0
      BY <1>1, <1>2, <2>1, <2>3 DEF NewTreeFor, Making
    <3>2. \A d \in Callers : call'[d].answer # n
      BY <1>1, <1>2, <3>1 DEF NewTreeFor
    <3>3. Clean(t)'
      BY <1>1, <2>3, <3>1 DEF Clean
    <3> QED BY <1>2, <2>1, <2>3, <3>2, <3>3
  <2>4. CASE t # n
    <3>1. t \in Cached \cup Making
      BY <1>2, <2>1, <2>2, <2>4 DEF Making
    <3>2. Clean(t) /\ \A d \in Callers : call[d].answer # t /\ resolver[d].indexed # t
      BY <3>1 DEF CleanInv
    <3>3. heap'[t] = heap[t]
      BY <1>4, <2>2, <2>4
    <3>4. Clean(t)'
      BY <3>2, <3>3 DEF Clean
    <3> QED BY <1>2, <2>1, <2>2, <2>4, <3>2, <3>4
  <2> QED BY <2>3, <2>4
<1>7. OwnInv'
  <2>1. \A d, e \in Callers :
          call'[d].answer = call'[e].answer => d = e \/ call'[d].answer = 0
    BY <1>1, <1>2 DEF NewTreeFor, OwnInv
  <2> QED BY <2>1 DEF OwnInv
<1>8. CellsInv'
  <2> SUFFICES ASSUME NEW t \in 1 .. MaxTrees, heap'[t] # None
               PROVE  TreeCells(heap'[t], files'.grammar)
    BY DEF CellsInv
  <2> QED BY <1>1, <1>5 DEF UseInv, CellsInv, NewTreeFor
<1> QED BY <1>1, <1>3, <1>4, <1>5, <1>6, <1>7, <1>8

-----------------------------------------------------------------------------
(* What a step leaves alone                                                *)

\* The trees of the cache and of the calls are trees.
LEMMA MadeTrees ==
  ASSUME TypeInv, UseInv
  PROVE  \A t \in Cached \cup Making : t \in 1 .. MaxTrees /\ t \in Used /\ heap[t] \in TreeSet
<1>1. Cached \cup Making \subseteq 1 .. MaxTrees
  BY UsedFacts DEF TypeInv, Cached, Making
<1>2. Cached \cup Making \subseteq Used
  BY DEF Cached, Making, Used, InUse
<1> QED BY <1>1, <1>2 DEF TypeInv, HeapSet, UseInv

LEMMA CallNumbers ==
  ASSUME NEW k \in CallSet
  PROVE  k.include \in Nat /\ k.parser \in Nat /\ k.stamp \in Nat /\ k.main \in Nat
<1>1. /\ k.include \in 0 .. MaxEvents /\ k.parser \in 0 .. MaxEvents + 1
      /\ k.stamp \in 0 .. MaxEvents + 1 /\ k.main \in 0 .. MaxEvents + 1
  BY DEF CallSet
<1> QED BY <1>1, Bounds

LEMMA OtherCall ==
  ASSUME TypeInv, TypeInv', NEW k \in CallSet, CallInv(k),
         Older(files, files'), Older(floor, floor'),
         k.pc # "idle" /\ Cacheable(k.req) => Older(floor', k.then),
         k.tree # 0 => heap[k.tree] \in TreeSet /\ heap'[k.tree] = heap[k.tree],
         DOMAIN compiled \subseteq DOMAIN compiled'
  PROVE  CallInv(k)'
<1>1. /\ files \in Versions /\ files' \in Versions /\ floor \in Versions /\ floor' \in Versions
  BY DEF TypeInv
<1>2. Begins(k)'
  BY <1>1, Bounds DEF CallInv, Begins, Older, Versions
<1>3. /\ files.include \in Nat /\ files'.include \in Nat
      /\ files.grammar \in Nat /\ files'.grammar \in Nat
      /\ files.include <= files'.include /\ files.grammar <= files'.grammar
  BY <1>1, Numbers DEF Older
<1>4. k.include \in Nat /\ k.parser \in Nat /\ k.stamp \in Nat /\ k.main \in Nat
  BY CallNumbers
<1>5. HasRead(k)'
  <2>1. HasRead(k)
    BY DEF CallInv
  <2>2. k.include <= files.include => k.include <= files'.include
    BY <1>3, <1>4
  <2> QED BY <2>1, <2>2 DEF HasRead
<1>6. HasParser(k)'
  <2>1. HasParser(k)
    BY DEF CallInv
  <2>2. /\ k.stamp <= files.grammar => k.stamp <= files'.grammar
        /\ k.parser <= files.grammar => k.parser <= files'.grammar
    BY <1>3, <1>4
  <2> QED BY <2>1, <2>2 DEF HasParser
<1>7. HasTree(k)'
  <2>1. HasTree(k)
    BY DEF CallInv
  <2>2. k.tree # 0 /\ Older(heap[k.tree], files) => Older(heap[k.tree], files')
    BY <1>1, OlderFacts
  <2> QED BY <2>1, <2>2 DEF HasTree
<1>8. HasCells(k)'
  <2>1. HasCells(k)
    BY DEF CallInv
  <2>2. k.main <= files.grammar => k.main <= files'.grammar
    BY <1>3, <1>4
  <2>3. k.cells \in Seq(0 .. MaxEvents + 1)
    BY DEF CallSet
  <2>4. \A may : CellsMade(k.cells, may, k.main, files.grammar, k.cleared) =>
                 CellsMade(k.cells, may, k.main, files'.grammar, k.cleared)
    BY <1>3, <2>3, CellsKept
  <2> QED BY <2>1, <2>2, <2>4 DEF HasCells
<1> QED BY <1>2, <1>5, <1>6, <1>7, <1>8 DEF CallInv

\* One call takes a step, the files are not written.
LEMMA OneCaller ==
  ASSUME SInv, TypeInv', NEW c \in Callers, NEW k, Changed(c, k), UNCHANGED <<files, floor>>,
         DOMAIN compiled \subseteq DOMAIN compiled',
         \A d \in Callers : d # c /\ call[d].tree # 0 =>
                              heap'[call[d].tree] = heap[call[d].tree],
         CallInv(k)', Explained(k)
  PROVE  CallsInv' /\ Outcomes'
<1>1. ASSUME NEW d \in Callers, d # c
      PROVE  \E m : call'[d] = m /\ CallInv(m)' /\ Explained(m)
  <2> PICK m \in CallSet : m = call[d]
    BY DEF SInv, TypeInv
  <2>1. CallInv(m) /\ Explained(m) /\ call'[d] = m
    BY <1>1 DEF SInv, CallsInv, Outcomes, Changed
  <2>2. m.tree # 0 => heap[m.tree] \in TreeSet /\ heap'[m.tree] = heap[m.tree]
    BY <1>1, MadeTrees DEF SInv, Making
  <2>3. Older(files, files') /\ Older(floor, floor')
    BY OlderFacts DEF SInv, TypeInv
  <2>4. m.pc # "idle" /\ Cacheable(m.req) => Older(floor', m.then)
    BY <2>1 DEF CallInv, Begins
  <2>5. CallInv(m)'
    BY <2>1, <2>2, <2>3, <2>4, OtherCall DEF SInv
  <2> QED BY <2>1, <2>5
<1>2. \A d \in Callers : \E m : call'[d] = m /\ CallInv(m)' /\ Explained(m)
  BY <1>1 DEF Changed
<1>3. CallsInv'
  <2> SUFFICES ASSUME NEW d \in Callers PROVE CallInv(call[d])'
    BY DEF CallsInv
  <2>1. PICK m : call'[d] = m /\ CallInv(m)' /\ Explained(m)
    BY <1>2
  <2> QED BY <2>1 DEF CallInv, Begins, HasRead, HasParser, HasCells, HasTree
<1>4. Outcomes'
  BY <1>2 DEF Outcomes
<1> QED BY <1>3, <1>4

LEMMA CacheStays ==
  ASSUME TypeInv, TypeInv', UseInv, CacheInv, cache' = cache, floor' = floor, Older(files, files'),
         \A t \in Cached : heap'[t] = heap[t]
  PROVE  CacheInv'
<1>1. ASSUME NEW i \in DOMAIN cache
      PROVE  /\ cache[i].key = <<heap'[cache[i].tree].text, heap'[cache[i].tree].schemes>>
             /\ Older(floor, heap'[cache[i].tree]) /\ Older(heap'[cache[i].tree], files')
  <2> PICK t : t = cache[i].tree
    OBVIOUS
  <2>1. t \in Cached
    BY DEF Cached
  <2>2. heap[t] \in TreeSet /\ heap'[t] = heap[t]
    BY <2>1, MadeTrees
  <2>3. /\ cache[i].key = <<heap[t].text, heap[t].schemes>>
        /\ Older(floor, heap[t]) /\ Older(heap[t], files)
    BY DEF CacheInv
  <2>4. Older(heap[t], files')
    BY <2>2, <2>3, OlderFacts DEF TypeInv
  <2> QED BY <2>2, <2>3, <2>4
<1> QED BY <1>1 DEF CacheInv

-----------------------------------------------------------------------------
(* Steps that look up, compile or store a parser                           *)

LEMMA QuietTrees ==
  ASSUME SInv, TypeInv', UNCHANGED <<cache, heap, resolver>>, Older(files, files'),
         \A c \in Callers : call'[c].tree = call[c].tree /\ call'[c].answer = call[c].answer
  PROVE  UseInv' /\ CleanInv' /\ OwnInv' /\ CellsInv'
<1>1. Used' = Used /\ Cached' = Cached /\ Making' = Making
  BY DEF Used, InUse, Cached, Making
<1>2. FewerTrees
  BY <1>1 DEF FewerTrees
<1>3. TreesStay
  BY <1>1 DEF TreesStay, SInv, TypeInv, UseInv
<1> QED BY <1>2, <1>3, NoNewTree DEF SInv

LEMMA QuietStep ==
  ASSUME SInv, TypeInv', NEW c \in Callers, NEW k, Changed(c, k),
         UNCHANGED <<files, cache, heap, resolver, floor>>,
         DOMAIN compiled \subseteq DOMAIN compiled',
         k.tree = call[c].tree, k.answer = call[c].answer, CallInv(k)', Explained(k)
  PROVE  SInv'
<1>3. Older(files, files')
  BY OlderFacts DEF SInv, TypeInv
<1>1. UseInv' /\ CleanInv' /\ OwnInv' /\ CellsInv'
  BY <1>3, QuietTrees DEF Changed
<1>2. CallsInv' /\ Outcomes'
  BY OneCaller
<1>4. CacheInv'
  BY <1>3, CacheStays DEF SInv
<1> QED BY <1>1, <1>2, <1>4 DEF SInv

\* Types, when nothing but the call is another.
LEMMA CallTyped ==
  ASSUME TypeInv, NEW c \in Callers, NEW k, Changed(c, k),
         UNCHANGED <<files, compiled, cache, heap, resolver, floor, count>>
  PROVE  TypeInv'
BY DEF TypeInv, Changed, HeapSet

LEMMA KeySchemes ==
  ASSUME NEW c \in Callers PROVE Schemes(c) = SchemesAt(call[c])
BY DEF Schemes, SchemesAt, Nested

LEMMA StatStep == ASSUME SInv, NEW c \in Callers, Stat(c) PROVE SInv'
<1> PICK k \in CallSet : k = call[c]
  BY DEF SInv, TypeInv
<1>1. PICK p \in {"fetch", "open"} :
        p = IF <<files.grammar, SchemesAt(k)>> \in DOMAIN compiled THEN "fetch" ELSE "open"
  OBVIOUS
<1>2. PICK j : j = [k EXCEPT !.pc = p, !.stamp = files.grammar]
  OBVIOUS
<1>3. k.pc = "stat" /\ UNCHANGED <<files, compiled, cache, heap, resolver, floor, count>>
  BY DEF Stat
<1>4. call' = [call EXCEPT ![c] = j]
  BY <1>1, <1>2, KeySchemes DEF Stat, SInv, TypeInv
<1>5. files \in Versions /\ files.grammar \in 0 .. MaxEvents + 1
  BY Bounds DEF SInv, TypeInv, Versions
<1>6. /\ j \in CallSet /\ j.pc = p /\ j.stamp = files.grammar /\ j.req = k.req
      /\ j.then = k.then /\ j.low = k.low /\ j.include = k.include /\ j.tree = k.tree
      /\ j.answer = k.answer /\ j.error = k.error /\ j.cleared = k.cleared
      /\ j.warned = k.warned /\ j.main = k.main /\ j.cells = k.cells
  BY <1>2, <1>5 DEF CallSet, Pcs
<1>7. Changed(c, j)
  BY <1>4, <1>6, CallChanged DEF SInv
<1>8. TypeInv'
  BY <1>3, <1>7, CallTyped DEF SInv
<1>9. CallInv(k) /\ Explained(k)
  BY DEF SInv, CallsInv, Outcomes
<1>10. k.req \in Requests /\ Older(k.then, files) /\ k.answer = 0 /\ k.error = None
  BY <1>3, <1>9 DEF CallInv, Begins
<1>11. CallInv(j)
  <2>1. Begins(j)
    BY <1>3, <1>6, <1>9 DEF CallInv, Begins
  <2>2. HasRead(j)
    BY <1>3, <1>6, <1>9 DEF CallInv, HasRead
  <2>3. HasParser(j)
    <3>1. k.main <= files.grammar
      <4>1. k.main = 0 \/ k.main <= files.grammar
        BY <1>9 DEF CallInv, HasCells
      <4> QED BY <1>5, <4>1, Bounds
    <3>2. SchemesAt(j) = SchemesAt(k)
      BY <1>6 DEF SchemesAt
    <3> QED BY <1>1, <1>5, <1>6, <1>10, <3>1, <3>2, Bounds DEF HasParser, Older, Versions
  <2>4. HasTree(j)
    BY <1>3, <1>6, <1>9 DEF CallInv, HasTree
  <2>5. HasCells(j)
    BY <1>1, <1>3, <1>6, <1>9 DEF CallInv, HasCells
  <2> QED BY <1>6, <1>10, <2>1, <2>2, <2>3, <2>4, <2>5 DEF CallInv
<1>12. CallInv(j)'
  BY <1>3, <1>11 DEF CallInv, Begins, HasRead, HasParser, HasCells, HasTree
<1>13. Explained(j)
  BY <1>6, <1>10 DEF Explained
<1> QED BY <1>3, <1>6, <1>7, <1>8, <1>12, <1>13, QuietStep

LEMMA OpenStep == ASSUME SInv, NEW c \in Callers, Open(c) PROVE SInv'
<1> PICK k \in CallSet : k = call[c]
  BY DEF SInv, TypeInv
<1>1. PICK j : j = [k EXCEPT !.pc = "compile", !.parser = files.grammar]
  OBVIOUS
<1>2. k.pc = "open" /\ UNCHANGED <<files, compiled, cache, heap, resolver, floor, count>>
  BY DEF Open
<1>3. call' = [call EXCEPT ![c] = j]
  BY <1>1 DEF Open, SInv, TypeInv
<1>4. files \in Versions /\ files.grammar \in 0 .. MaxEvents + 1
  BY Bounds DEF SInv, TypeInv, Versions
<1>5. /\ j \in CallSet /\ j.pc = "compile" /\ j.parser = files.grammar /\ j.req = k.req
      /\ j.then = k.then /\ j.low = k.low /\ j.include = k.include /\ j.tree = k.tree
      /\ j.answer = k.answer /\ j.error = k.error /\ j.stamp = k.stamp
      /\ j.cleared = k.cleared /\ j.main = k.main /\ j.cells = k.cells
  BY <1>1, <1>4 DEF CallSet, Pcs
<1>6. Changed(c, j)
  BY <1>3, <1>5, CallChanged DEF SInv
<1>7. TypeInv'
  BY <1>2, <1>6, CallTyped DEF SInv
<1>8. CallInv(k)
  BY DEF SInv, CallsInv
<1>9. k.req \in Requests /\ Older(k.then, files) /\ k.answer = 0 /\ k.error = None
  BY <1>2, <1>8 DEF CallInv, Begins
<1>10. CallInv(j)
  <2>1. Begins(j)
    BY <1>2, <1>5, <1>8 DEF CallInv, Begins
  <2>2. HasRead(j)
    BY <1>2, <1>5, <1>8 DEF CallInv, HasRead
  <2>3. HasParser(j)
    <3>1. k.then.grammar <= k.stamp /\ k.main <= k.stamp /\ k.stamp <= files.grammar
      BY <1>2, <1>8 DEF CallInv, HasParser
    <3>2. k.main \in Nat /\ k.stamp \in Nat
      BY Bounds DEF CallSet
    <3> QED BY <1>4, <1>5, <1>9, <3>1, <3>2, Bounds DEF HasParser, Older
  <2>4. HasTree(j)
    BY <1>2, <1>5, <1>8 DEF CallInv, HasTree
  <2>5. HasCells(j)
    BY <1>2, <1>5, <1>8 DEF CallInv, HasCells
  <2> QED BY <1>5, <1>9, <2>1, <2>2, <2>3, <2>4, <2>5 DEF CallInv
<1>11. CallInv(j)'
  BY <1>2, <1>10 DEF CallInv, Begins, HasRead, HasParser, HasCells, HasTree
<1>12. Explained(j)
  BY <1>5, <1>9 DEF Explained
<1> QED BY <1>2, <1>5, <1>6, <1>7, <1>11, <1>12, QuietStep

LEMMA CompileStep == ASSUME SInv, NEW c \in Callers, Compile(c) PROVE SInv'
<1> PICK k \in CallSet : k = call[c]
  BY DEF SInv, TypeInv
<1>1. PICK j : j = [k EXCEPT !.pc = "parse", !.stamp = 0]
  OBVIOUS
<1>2. k.pc = "compile" /\ UNCHANGED <<files, cache, heap, resolver, floor, count>>
  BY DEF Compile
<1>3. call' = [call EXCEPT ![c] = j]
  BY <1>1 DEF Compile, SInv, TypeInv
<1>4. /\ j \in CallSet /\ j.pc = "parse" /\ j.parser = k.parser /\ j.req = k.req
      /\ j.then = k.then /\ j.low = k.low /\ j.include = k.include /\ j.tree = k.tree
      /\ j.answer = k.answer /\ j.error = k.error
      /\ j.cleared = k.cleared /\ j.main = k.main /\ j.cells = k.cells
  <2>1. 0 \in 0 .. MaxEvents + 1
    BY Bounds
  <2> QED BY <1>1, <2>1 DEF CallSet, Pcs
<1>5. Changed(c, j)
  BY <1>3, <1>4, CallChanged DEF SInv
<1>6. CallInv(k)
  BY DEF SInv, CallsInv
<1>7. /\ k.req \in Requests /\ k.then \in Versions /\ Older(k.then, files)
      /\ k.answer = 0 /\ k.error = None
  BY <1>2, <1>6 DEF CallInv, Begins
<1>8. /\ k.stamp <= k.parser
      /\ k.then.grammar <= k.parser /\ k.main <= k.parser /\ k.parser <= files.grammar
  BY <1>2, <1>6 DEF CallInv, HasParser
<1>9. PICK q : q = ParserKey(c)
  OBVIOUS
<1>10. q[1] = k.stamp
  BY <1>9 DEF ParserKey
<1>11. compiled' = [i \in DOMAIN compiled \cup {q} |-> IF i = q THEN k.parser ELSE compiled[i]]
  BY <1>9 DEF Compile
<1>12. k.parser \in 1 .. files.grammar
  <2>1. k.parser \in Nat /\ k.then.grammar \in Nat \ {0} /\ files.grammar \in Nat
    <3>1. k.parser \in 0 .. MaxEvents + 1
      BY DEF CallSet
    <3>2. k.parser \in Nat
      BY <3>1, Bounds
    <3> QED BY <1>7, <3>2, Numbers DEF SInv, TypeInv
  <2> QED BY <1>8, <2>1
<1>13. \A i \in DOMAIN compiled' : /\ compiled'[i] \in 1 .. files.grammar
                                   /\ i[1] <= compiled'[i]
  BY <1>8, <1>10, <1>11, <1>12 DEF SInv, TypeInv
<1>14. TypeInv'
  BY <1>2, <1>5, <1>13 DEF SInv, TypeInv, Changed, HeapSet
<1>15. DOMAIN compiled \subseteq DOMAIN compiled'
  BY <1>11
<1>16. CallInv(j)
  <2>1. Begins(j)
    BY <1>2, <1>4, <1>6 DEF CallInv, Begins
  <2>2. HasRead(j)
    BY <1>2, <1>4, <1>6 DEF CallInv, HasRead
  <2>3. HasParser(j)
    BY <1>4, <1>8 DEF HasParser
  <2>4. HasTree(j)
    BY <1>2, <1>4, <1>6 DEF CallInv, HasTree
  <2>5. HasCells(j)
    BY <1>2, <1>4, <1>6 DEF CallInv, HasCells
  <2> QED BY <1>4, <1>7, <2>1, <2>2, <2>3, <2>4, <2>5 DEF CallInv
<1>17. CallInv(j)'
  BY <1>2, <1>4, <1>16 DEF CallInv, Begins, HasRead, HasParser, HasCells, HasTree
<1>18. Explained(j)
  BY <1>4, <1>7 DEF Explained
<1> QED BY <1>2, <1>4, <1>5, <1>14, <1>15, <1>17, <1>18, QuietStep

-----------------------------------------------------------------------------
(* Steps that end a call                                                   *)

\* A call that ends with nothing but its reason.
LEMMA EndsEmpty ==
  ASSUME SInv, NEW c \in Callers, NEW j \in CallSet, Changed(c, j), Explained(j),
         j.pc = "idle", j.tree = 0, j.answer = 0, j.main = 0,
         heap' = Collected(heap, cache, call', resolver),
         UNCHANGED <<files, compiled, cache, resolver, floor, count>>
  PROVE  SInv'
<1>1. heap' = Collected(heap, cache', call', resolver') /\ heap \in HeapSet
  BY DEF SInv, TypeInv
<1>2. TreesStay
  BY <1>1, CollectedFacts DEF TreesStay, SInv
<1>3. TypeInv'
  BY <1>2 DEF SInv, TypeInv, Changed, TreesStay, HeapSet
<1>4. FewerTrees
  <2>1. \A d \in Callers : /\ call'[d].tree \in {0, call[d].tree}
                           /\ call'[d].answer \in {0, call[d].answer}
    BY DEF Changed
  <2> QED BY <2>1 DEF FewerTrees, Cached, Making
<1>9. Older(files, files')
  BY OlderFacts DEF SInv, TypeInv
<1>5. /\ UseInv' /\ CleanInv' /\ OwnInv' /\ CellsInv'
      /\ \A t \in Used' \ {0} : t \in Used /\ heap'[t] = heap[t]
      /\ \A t \in Cached' \cup Making' : heap'[t] = heap[t]
  BY <1>2, <1>3, <1>4, <1>9, NoNewTree DEF SInv
<1>6. \A d \in Callers : d # c /\ call[d].tree # 0 => heap'[call[d].tree] = heap[call[d].tree]
  BY <1>5 DEF Changed, Making
<1>7. CallInv(j)'
  BY DEF CallInv, Begins, HasRead, HasParser, HasCells, HasTree
<1>8. CallsInv' /\ Outcomes'
  BY <1>3, <1>6, <1>7, OneCaller
<1>10. \A t \in Cached : heap'[t] = heap[t]
  BY <1>5 DEF Cached
<1>11. CacheInv'
  BY <1>3, <1>9, <1>10, CacheStays DEF SInv
<1> QED BY <1>3, <1>5, <1>8, <1>11 DEF SInv

LEMMA RaiseStep ==
  ASSUME SInv, NEW c \in Callers, NEW e \in Faults \cup {"KeyError"}, Raise(c, e),
         \/ e \in FaultsSeen(c) /\ (call[c].req.strict \/ e \in {"syntax", "crash"})
         \/ e = "KeyError" /\ call[c].cleared
  PROVE  SInv'
<1> PICK j : j = Ended(c, 0, e, FALSE)
  OBVIOUS
<1>1. Ends(j, c, 0, e, FALSE)
  BY FailedFacts DEF SInv
<1>2. Changed(c, j)
  BY <1>1, CallChanged DEF Ends, Raise, SInv
<1>3. Explained(j)
  <2>1. /\ j.req = call[c].req /\ j.include = call[c].include /\ j.answer = 0 /\ j.error = e
        /\ j.cleared = (e # None /\ call[c].cleared)
    BY <1>1 DEF Ends
  <2>2. e # None
    BY NoneAssumption
  <2> QED BY <2>1, <2>2 DEF Explained, FaultsSeen
<1> QED BY <1>1, <1>2, <1>3, EndsEmpty DEF Ends, Raise

LEMMA FetchStep == ASSUME SInv, NEW c \in Callers, Fetch(c) PROVE SInv'
<1> PICK k \in CallSet : k = call[c]
  BY DEF SInv, TypeInv
<1>1. CallInv(k) /\ k.pc = "fetch"
  BY DEF Fetch, SInv, CallsInv
<1>2. /\ k.req \in Requests /\ k.then \in Versions /\ Older(k.then, files)
      /\ k.answer = 0 /\ k.error = None
  BY <1>1 DEF CallInv, Begins
<1>0. ParserKey(c) = <<k.stamp, SchemesAt(k)>>
  BY KeySchemes DEF ParserKey
<1>3. ASSUME ParserKey(c) \in DOMAIN compiled \/ k.main # 0 PROVE SInv'
  <2>1. PICK p : p = IF ParserKey(c) \in DOMAIN compiled THEN compiled[ParserKey(c)] ELSE 0
    OBVIOUS
  <2>2. \/ p \in 1 .. files.grammar /\ k.stamp <= p
        \/ p = 0 /\ k.main # 0 /\ k.cleared
    <3>1. CASE ParserKey(c) \in DOMAIN compiled
      BY <2>1, <3>1 DEF SInv, TypeInv, ParserKey
    <3>2. CASE ParserKey(c) \notin DOMAIN compiled
      BY <1>0, <1>1, <1>3, <2>1, <3>2 DEF CallInv, HasParser
    <3> QED BY <3>1, <3>2
  <2>3. p \in 0 .. MaxEvents + 1
    BY SMTT(30), <2>2, Bounds DEF SInv, TypeInv, Versions
  <2>4. k.then.grammar <= k.stamp /\ k.main <= k.stamp
    BY <1>1 DEF CallInv, HasParser
  <2>5. \/ k.then.grammar <= p /\ k.main <= p /\ p <= files.grammar
        \/ p = 0 /\ k.main # 0 /\ k.cleared
    BY <1>2, <2>2, <2>4, CallNumbers, Numbers
  <2>6. PICK j : j = [k EXCEPT !.pc = "parse", !.stamp = 0, !.parser = p]
    OBVIOUS
  <2>7. /\ call' = [call EXCEPT ![c] = j]
        /\ UNCHANGED <<files, compiled, cache, heap, resolver, floor, count>>
    BY <1>3, <2>1, <2>6, Zenon DEF Fetch, Nested, Raise
  <2>8. /\ j \in CallSet /\ j.pc = "parse" /\ j.parser = p /\ j.req = k.req
        /\ j.then = k.then /\ j.low = k.low /\ j.include = k.include /\ j.tree = k.tree
        /\ j.answer = k.answer /\ j.error = k.error
        /\ j.cleared = k.cleared /\ j.main = k.main /\ j.cells = k.cells
    <3>1. 0 \in 0 .. MaxEvents + 1
      BY Bounds
    <3> QED BY <2>3, <2>6, <3>1 DEF CallSet, Pcs
  <2>9. Changed(c, j)
    BY <2>7, <2>8, CallChanged DEF SInv
  <2>10. TypeInv'
    BY <2>7, <2>9, CallTyped DEF SInv
  <2>11. CallInv(j)
    <3>1. Begins(j)
      BY <1>1, <2>8 DEF CallInv, Begins
    <3>2. HasRead(j)
      BY <1>1, <2>8 DEF CallInv, HasRead
    <3>3. HasParser(j)
      BY <2>5, <2>8 DEF HasParser
    <3>4. HasTree(j)
      BY <1>1, <2>8 DEF CallInv, HasTree
    <3>5. HasCells(j)
      BY <1>1, <2>8 DEF CallInv, HasCells
    <3> QED BY <1>2, <2>8, <3>1, <3>2, <3>3, <3>4, <3>5 DEF CallInv
  <2>12. CallInv(j)'
    BY <2>7, <2>11 DEF CallInv, Begins, HasRead, HasParser, HasCells, HasTree
  <2>13. Explained(j)
    BY <1>2, <2>8 DEF Explained
  <2> QED BY <2>7, <2>8, <2>9, <2>10, <2>12, <2>13, QuietStep
<1>4. ASSUME ParserKey(c) \notin DOMAIN compiled, k.main = 0 PROVE SInv'
  <2>1. k.cleared
    BY <1>0, <1>1, <1>4 DEF CallInv, HasParser
  <2>2. Raise(c, "KeyError")
    BY <1>4 DEF Fetch, Nested
  <2> QED BY <2>1, <2>2, RaiseStep
<1> QED BY <1>3, <1>4

-----------------------------------------------------------------------------
(* Reading the include                                                     *)

\* Where every tree that was used still is, none is collected.
LEMMA NoneCollected ==
  ASSUME SInv, Used' = Used, heap' = Collected(heap, cache', call', resolver')
  PROVE  heap' = heap
<1>1. heap \in HeapSet
  BY DEF SInv, TypeInv
<1>2. /\ heap' \in HeapSet
      /\ \A t \in 1 .. MaxTrees : heap'[t] = IF t \in Used' THEN heap[t] ELSE None
  BY <1>1, CollectedFacts DEF SInv
<1>3. \A t \in 1 .. MaxTrees : heap'[t] = heap[t]
  BY <1>2 DEF SInv, UseInv
<1>4. heap = [t \in 1 .. MaxTrees |-> heap[t]] /\ heap' = [t \in 1 .. MaxTrees |-> heap'[t]]
  BY <1>1, <1>2 DEF HeapSet
<1> QED BY <1>3, <1>4, Zenon

LEMMA PreprocessStep == ASSUME SInv, NEW c \in Callers, Preprocess(c) PROVE SInv'
<1> PICK k \in CallSet : k = call[c]
  BY DEF SInv, TypeInv
<1> PICK faults : faults = FaultsOf[k.req.text][files.include]
  OBVIOUS
<1>1. /\ k.pc = "preprocess" /\ UNCHANGED <<files, compiled, cache, resolver, floor, count>>
      /\ heap' = Collected(heap, cache, call', resolver)
  BY DEF Preprocess
<1>2. CallInv(k)
  BY DEF SInv, CallsInv
<1>3. /\ k.req \in Requests /\ k.then \in Versions /\ Older(k.then, files)
      /\ k.answer = 0 /\ k.error = None /\ k.tree = 0 /\ k.main = 0
  BY <1>1, <1>2 DEF CallInv, Begins, HasTree, HasCells
<1>4. files \in Versions /\ files.include \in 0 .. MaxEvents
  BY DEF SInv, TypeInv, Versions
<1>5. CASE k.req.strict /\ faults \cap {"missing", "unclosed"} # {}
  <2>1. PICK e \in {"missing", "unclosed"} :
          e = IF "missing" \in faults THEN "missing" ELSE "unclosed"
    OBVIOUS
  <2>2. e \in faults /\ e \in Faults \cup {"KeyError"}
    BY <1>5, <2>1 DEF Faults
  <2>3. PICK m : m = Ended(c, 0, e, FALSE)
    OBVIOUS
  <2>4. Ends(m, c, 0, e, FALSE)
    BY <2>2, <2>3, FailedFacts DEF SInv
  <2>5. PICK j : j = [m EXCEPT !.include = files.include]
    OBVIOUS
  <2>6. call' = [call EXCEPT ![c] = j]
    BY <1>5, <2>1, <2>3, <2>5 DEF Preprocess
  <2>7. /\ j \in CallSet /\ j.pc = "idle" /\ j.tree = 0 /\ j.answer = 0 /\ j.error = e
        /\ j.req = k.req /\ j.include = files.include /\ j.main = 0
    BY <1>4, <2>4, <2>5 DEF Ends, CallSet
  <2>8. Changed(c, j)
    BY <2>6, <2>7, CallChanged DEF SInv
  <2>9. Explained(j)
    BY <1>5, <2>2, <2>7 DEF Explained
  <2> QED BY <1>1, <2>7, <2>8, <2>9, EndsEmpty
<1>6. CASE ~(k.req.strict /\ faults \cap {"missing", "unclosed"} # {})
  <2>1. PICK j : j = [k EXCEPT !.pc = "stat", !.include = files.include]
    OBVIOUS
  <2>2. call' = [call EXCEPT ![c] = j]
    BY <1>6, <2>1 DEF Preprocess, SInv, TypeInv
  <2>3. /\ j \in CallSet /\ j.pc = "stat" /\ j.include = files.include /\ j.req = k.req
        /\ j.then = k.then /\ j.low = k.low /\ j.tree = k.tree
        /\ j.answer = k.answer /\ j.error = k.error /\ j.main = 0
    BY <1>3, <1>4, <2>1 DEF CallSet, Pcs
  <2>4. Changed(c, j)
    BY <2>2, <2>3, CallChanged DEF SInv
  <2>5. Used' = Used
    <3>1. \A d \in Callers : call'[d].tree = call[d].tree /\ call'[d].answer = call[d].answer
      BY <2>3, <2>4 DEF Changed
    <3> QED BY <1>1, <3>1 DEF Used, InUse
  <2>6. heap' = heap
    BY <1>1, <2>5, NoneCollected
  <2>7. TypeInv'
    BY <1>1, <2>4, <2>6, CallTyped DEF SInv
  <2>8. CallInv(j)
    <3>1. Begins(j)
      BY <1>1, <1>2, <2>3 DEF CallInv, Begins
    <3>2. HasRead(j)
      BY <1>3, <1>4, <1>6, <2>3, Numbers DEF HasRead, Older
    <3>3. HasParser(j)
      BY <2>3 DEF HasParser
    <3>4. HasTree(j)
      BY <1>3, <2>3 DEF HasTree
    <3> QED BY <1>3, <2>3, <3>1, <3>2, <3>3, <3>4 DEF CallInv, HasCells
  <2>9. CallInv(j)'
    BY <1>1, <2>6, <2>8 DEF CallInv, Begins, HasRead, HasParser, HasCells, HasTree
  <2>10. Explained(j)
    BY <1>3, <2>3 DEF Explained
  <2> QED BY <1>1, <2>3, <2>4, <2>6, <2>7, <2>9, <2>10, QuietStep
<1> QED BY <1>5, <1>6

-----------------------------------------------------------------------------
(* Steps that make a tree                                                  *)

LEMMA NewHeap ==
  ASSUME SInv, NEW c \in Callers, NEW j, Changed(c, j), NEW n, n = NewTree,
         NEW tree \in TreeSet, UNCHANGED <<cache, resolver>>,
         heap' = Collected([heap EXCEPT ![n] = tree], cache, call', resolver),
         (j.tree = n /\ j.answer = 0) \/ (j.tree = 0 /\ j.answer = n)
  PROVE  NewTreeFor(c, n, tree)
<1>1. n \in 1 .. MaxTrees /\ n \notin Used
  BY NewTreeFacts DEF SInv, CacheInv
<1> PICK h : h = [heap EXCEPT ![n] = tree]
  OBVIOUS
<1>2. h \in HeapSet /\ \A t \in 1 .. MaxTrees : h[t] = IF t = n THEN tree ELSE heap[t]
  BY <1>1 DEF SInv, TypeInv, HeapSet
<1>3. heap' = Collected(h, cache', call', resolver')
  OBVIOUS
<1>4. /\ heap' \in HeapSet
      /\ \A t \in 1 .. MaxTrees : heap'[t] = IF t \in Used' THEN h[t] ELSE None
  BY <1>2, <1>3, CollectedFacts DEF SInv
<1> QED BY <1>1, <1>2, <1>4 DEF NewTreeFor, Changed

LEMMA GetsTree ==
  ASSUME SInv, NEW c \in Callers, NEW j, Changed(c, j), NEW n, n = NewTree,
         NEW tree \in TreeSet, UNCHANGED <<files, compiled, cache, resolver, floor, count>>,
         heap' = Collected([heap EXCEPT ![n] = tree], cache, call', resolver),
         (j.tree = n /\ j.answer = 0) \/ (j.tree = 0 /\ j.answer = n),
         TreeCells(tree, files.grammar),
         j.tree = n => /\ tree.refs = "unbound" /\ tree.docinfo = None
                       /\ FaultsOf[tree.text][tree.include] = {},
         heap'[n] = tree => CallInv(j)',
         Explained(j)
  PROVE  SInv'
<1>1. NewTreeFor(c, n, tree)
  BY NewHeap
<1>2. TypeInv'
  BY <1>1 DEF SInv, TypeInv, Changed, NewTreeFor, HeapSet
<1>3. /\ UseInv' /\ CleanInv' /\ OwnInv' /\ CellsInv' /\ heap'[n] = tree
      /\ \A t \in Used' \ {0, n} : t \in Used /\ heap'[t] = heap[t]
  <2>1. call'[c].tree = n => /\ tree.refs = "unbound" /\ tree.docinfo = None
                             /\ FaultsOf[tree.text][tree.include] = {}
    BY DEF Changed
  <2>2. TypeInv /\ UseInv /\ CleanInv /\ OwnInv /\ CellsInv
    BY DEF SInv
  <2> QED BY ZenonT(30), <1>1, <1>2, <2>1, <2>2, OneNewTree
<1>4. \A t \in Cached \cup Making : t # 0 /\ t # n
  BY <1>1, MadeTrees, Bounds DEF SInv, NewTreeFor
<1>5. \A t \in Cached : heap'[t] = heap[t]
  <2>1. Cached \subseteq Used'
    BY DEF Cached, Used, InUse
  <2> QED BY <1>3, <1>4, <2>1
<1>6. \A d \in Callers : d # c /\ call[d].tree # 0 => heap'[call[d].tree] = heap[call[d].tree]
  <2> SUFFICES ASSUME NEW d \in Callers, d # c, call[d].tree # 0
               PROVE  heap'[call[d].tree] = heap[call[d].tree]
    OBVIOUS
  <2>1. call[d].tree \in Used'
    BY DEF Used, InUse, Changed
  <2>2. call[d].tree \in Making
    BY DEF Making
  <2> QED BY <1>3, <1>4, <2>1, <2>2
<1>7. CallsInv' /\ Outcomes'
  BY <1>2, <1>3, <1>6, OneCaller
<1>8. Older(files, files')
  BY OlderFacts DEF SInv, TypeInv
<1>9. CacheInv'
  BY <1>2, <1>5, <1>8, CacheStays DEF SInv
<1> QED BY <1>2, <1>3, <1>7, <1>9 DEF SInv

LEMMA SeenFacts ==
  ASSUME SInv, NEW c \in Callers, call[c].req \in Requests
  PROVE  FaultsSeen(c) \in SUBSET Faults
<1>1. call[c].include \in 0 .. MaxEvents
  BY DEF SInv, TypeInv, CallSet
<1>2. call[c].req.text \in Texts
  BY DEF Texts
<1> QED BY <1>1, <1>2, SessionAssumption DEF FaultsSeen

LEMMA CopyStep == ASSUME SInv, NEW c \in Callers, Copy(c) PROVE SInv'
<1> PICK k \in CallSet : k = call[c]
  BY DEF SInv, TypeInv
<1> PICK n : n = NewTree
  OBVIOUS
<1> PICK tree : tree = heap[k.tree]
  OBVIOUS
<1> PICK j : j = Ended(c, n, None, FALSE)
  OBVIOUS
<1>1. /\ k.pc = "copy" /\ call' = [call EXCEPT ![c] = j]
      /\ heap' = Collected([heap EXCEPT ![n] = tree], cache, call', resolver)
      /\ UNCHANGED <<files, compiled, cache, resolver, floor, count>>
  BY DEF Copy
<1>2. CallInv(k)
  BY DEF SInv, CallsInv
<1>3. /\ k.tree # 0 /\ Cacheable(k.req) /\ tree.text = k.req.text /\ tree.include = k.include
  BY <1>1, <1>2 DEF CallInv, HasTree
<1>4. k.tree \in Making
  BY <1>3 DEF Making
<1>5. tree \in TreeSet /\ FaultsOf[tree.text][tree.include] = {} /\ TreeCells(tree, files.grammar)
  <2>1. tree \in TreeSet /\ k.tree \in 1 .. MaxTrees
    BY <1>4, MadeTrees DEF SInv
  <2>2. TreeCells(heap[k.tree], files.grammar)
    BY <2>1, NoneAssumption DEF SInv, CellsInv
  <2> QED BY <1>4, <2>1, <2>2 DEF SInv, CleanInv, Clean
<1>6. Ends(j, c, n, None, FALSE)
  <2>1. n \in 0 .. MaxTrees /\ None \in Faults \cup {"KeyError", None} /\ TypeInv
    BY NewTreeFacts, Bounds DEF SInv, CacheInv
  <2>2. PICK w \in BOOLEAN : w = FALSE
    OBVIOUS
  <2>3. Ends(Ended(c, n, None, w), c, n, None, w)
    BY <2>1, EndedFacts, Zenon
  <2>4. j = Ended(c, n, None, w)
    BY <2>2 DEF Ended
  <2> QED BY <2>2, <2>3, <2>4
<1>7. Changed(c, j)
  BY <1>1, <1>6, CallChanged DEF Ends, SInv
<1>8. Explained(j)
  <2>1. j.req = k.req /\ j.include = k.include /\ j.error = None /\ j.warned = FALSE
    BY <1>6 DEF Ends
  <2>2. FaultsOf[j.req.text][j.include] = {}
    BY <1>3, <1>5, <2>1
  <2> QED BY <2>1, <2>2 DEF Explained
<1>9. CallInv(j)'
  BY <1>6 DEF Ends, CallInv, Begins, HasRead, HasParser, HasCells, HasTree
<1>10. n # 0
  BY NewTreeFacts, Bounds DEF SInv, CacheInv
<1> QED BY <1>1, <1>5, <1>6, <1>7, <1>8, <1>9, <1>10, GetsTree DEF Ends

LEMMA SeenCells ==
  ASSUME SInv, NEW c \in Callers, call[c].req \in Requests
  PROVE  CellsSeen(c) \in Seq(BOOLEAN) /\ Len(CellsSeen(c)) \in Nat
<1>1. call[c].include \in 0 .. MaxEvents
  BY DEF SInv, TypeInv, CallSet
<1>2. call[c].req.text \in Texts
  BY DEF Texts
<1>3. CellsSeen(c) \in Seq(BOOLEAN)
  BY <1>1, <1>2, SessionAssumption DEF CellsSeen
<1> QED BY <1>3, LenProperties

\* Call c has a tree of `main`, and these of its cells.
MadeSoFar(c, main, cells) ==
  /\ call[c].pc = "parse" /\ main \in 1 .. files.grammar /\ call[c].then.grammar <= main
  /\ cells \in Seq(0 .. MaxEvents + 1)
  /\ CellsMade(cells, CellsSeen(c), main, files.grammar, call[c].cleared)
  /\ "syntax" \notin FaultsSeen(c)

LEMMA AuditStep ==
  ASSUME SInv, NEW c \in Callers, NEW main, NEW cells, MadeSoFar(c, main, cells),
         Len(cells) = Len(CellsSeen(c)), CallbackErrors(c) = {}, Audit(c, main, cells)
  PROVE  SInv'
<1> PICK k \in CallSet : k = call[c]
  BY DEF SInv, TypeInv
<1> PICK n : n = NewTree
  OBVIOUS
<1> PICK tree : tree = ParsedTree(c, main, cells)
  OBVIOUS
<1> PICK faults : faults = FaultsSeen(c)
  OBVIOUS
<1> PICK refused : refused = IF k.req.strict THEN faults \cap Anomalies ELSE {}
  OBVIOUS
<1>1. CallInv(k) /\ k.pc = "parse"
  BY DEF SInv, CallsInv, MadeSoFar
<1>2. /\ k.req \in Requests /\ k.then \in Versions /\ Older(k.then, files)
      /\ k.low \in Versions /\ Older(k.low, k.then)
      /\ k.answer = 0 /\ k.error = None /\ k.tree = 0
  BY <1>1 DEF CallInv, Begins, HasTree
<1>3. /\ k.then.include <= k.include /\ k.include <= files.include
      /\ k.req.strict => faults \cap {"missing", "unclosed"} = {}
  BY <1>1 DEF CallInv, HasRead, FaultsSeen
<1>4. faults \in SUBSET Faults
  BY <1>2, SeenFacts
<1>5. /\ k.include \in 0 .. MaxEvents /\ main \in 1 .. MaxEvents + 1
      /\ k.include \in Nat /\ main \in Nat
  <2>1. k.include \in 0 .. MaxEvents
    BY DEF CallSet
  <2>2. files.grammar \in 1 .. MaxEvents + 1
    BY DEF SInv, TypeInv, Versions
  <2> QED BY <2>1, <2>2, Bounds DEF MadeSoFar
<1>6. /\ tree \in TreeSet /\ tree.refs = "unbound" /\ tree.docinfo = None
      /\ tree.text = k.req.text /\ tree.schemes = k.req.schemes
      /\ tree.include = k.include /\ tree.grammar = main
      /\ tree.cells = cells /\ tree.lost = k.cleared
  <2>1. /\ k.req.text \in Texts /\ k.req.schemes \in {r.schemes : r \in Requests}
        /\ k.cleared \in BOOLEAN /\ cells \in Seq(0 .. MaxEvents + 1)
    BY <1>2 DEF Texts, CallSet, MadeSoFar
  <2>2. tree = [is |-> "tree", text |-> k.req.text, schemes |-> k.req.schemes,
                include |-> k.include, grammar |-> main, cells |-> cells,
                refs |-> "unbound", docinfo |-> None, lost |-> k.cleared]
    BY DEF ParsedTree
  <2>3. tree \in TreeSet
    BY <1>5, <2>1, <2>2 DEF TreeSet
  <2> QED BY <2>2, <2>3
<1>7. TreeCells(tree, files.grammar)
  <2>1. CellsOf[tree.text][tree.include] = CellsSeen(c)
    BY <1>6 DEF CellsSeen
  <2> QED BY <1>6, <2>1 DEF TreeCells, MadeSoFar
<1>8. n # 0 /\ n \in 0 .. MaxTrees
  BY NewTreeFacts, Bounds DEF SInv, CacheInv
<1>9. refused = {} => /\ faults \cap {"syntax", "crash"} = {}
                      /\ k.req.strict => faults = {}
  <2>1. "crash" \notin faults /\ (k.req.strict => "level" \notin faults)
    BY DEF CallbackErrors
  <2>2. "syntax" \notin faults
    BY DEF MadeSoFar
  <2> QED BY <1>3, <1>4, <2>1, <2>2 DEF Faults
<1>10. ASSUME NEW e \in refused, Raise(c, e)
       PROVE  SInv'
  <2>1. e \in faults /\ k.req.strict
    BY <1>10
  <2>2. e \in Faults \cup {"KeyError"}
    BY <1>4, <2>1
  <2> QED BY <1>10, <2>1, <2>2, RaiseStep
<1>11. ASSUME refused = {}, Cacheable(k.req),
              call' = [call EXCEPT ![c] = [@ EXCEPT !.pc = "keep", !.tree = n, !.parser = 0,
                                                    !.main = 0, !.cells = <<>>]],
              heap' = Collected([heap EXCEPT ![n] = tree], cache, call', resolver),
              UNCHANGED <<files, compiled, cache, resolver, floor, count>>
       PROVE  SInv'
  <2>1. PICK j : j = [k EXCEPT !.pc = "keep", !.tree = n, !.parser = 0,
                               !.main = 0, !.cells = <<>>]
    OBVIOUS
  <2>2. call' = [call EXCEPT ![c] = j]
    BY <1>11, <2>1 DEF SInv, TypeInv
  <2>3. /\ j \in CallSet /\ j.pc = "keep" /\ j.tree = n /\ j.include = k.include
        /\ j.req = k.req /\ j.then = k.then /\ j.low = k.low /\ j.main = 0
        /\ j.answer = k.answer /\ j.error = k.error
    <3>1. 0 \in 0 .. MaxEvents + 1 /\ <<>> \in Seq(0 .. MaxEvents + 1)
      BY Bounds
    <3> QED BY <1>8, <2>1, <3>1 DEF CallSet, Pcs
  <2>4. Changed(c, j)
    BY <2>2, <2>3, CallChanged DEF SInv
  <2>5. k.req.strict
    BY <1>11 DEF Cacheable
  <2>6. FaultsOf[tree.text][tree.include] = {}
    <3>1. faults = {}
      BY <1>9, <1>11, <2>5
    <3> QED BY <1>6, <3>1 DEF FaultsSeen
  <2>7. Explained(j)
    BY <1>2, <2>3 DEF Explained
  <2>8. ASSUME heap'[n] = tree PROVE CallInv(j)'
    <3>1. Begins(j)'
      BY <1>1, <1>11, <2>3 DEF CallInv, Begins
    <3>2. HasRead(j)'
      BY <1>1, <1>11, <2>3 DEF CallInv, HasRead
    <3>3. HasParser(j)' /\ HasCells(j)'
      BY <2>3 DEF HasParser, HasCells
    <3>4. Older(k.then, tree) /\ Older(tree, files)
      <4>1. k.then.grammar <= main /\ main <= files.grammar
        BY Numbers DEF MadeSoFar, SInv, TypeInv
      <4> QED BY <1>3, <1>6, <4>1 DEF Older
    <3>5. Older(k.low, tree)
      BY <1>2, <1>6, <3>4, OlderFacts
    <3>6. HasTree(j)'
      BY <1>6, <1>8, <1>11, <2>3, <2>8, <3>4, <3>5 DEF HasTree
    <3> QED BY <1>2, <2>3, <3>1, <3>2, <3>3, <3>6 DEF CallInv
  <2>9. (j.tree = n /\ j.answer = 0) \/ (j.tree = 0 /\ j.answer = n)
    BY <1>2, <2>3
  <2>10. j.tree = n => /\ tree.refs = "unbound" /\ tree.docinfo = None
                       /\ FaultsOf[tree.text][tree.include] = {}
    BY <1>6, <2>6
  <2>11. tree \in TreeSet
    BY <1>6
  <2> QED BY ZenonT(60), <1>7, <1>11, <2>4, <2>7, <2>8, <2>9, <2>10, <2>11, GetsTree
<1>12. ASSUME refused = {},
              call' = [call EXCEPT ![c] = Ended(c, n, None, Warns(faults, k.req.strict))],
              heap' = Collected([heap EXCEPT ![n] = tree], cache, call', resolver),
              UNCHANGED <<files, compiled, cache, resolver, floor, count>>
       PROVE  SInv'
  <2>1. PICK w \in BOOLEAN : w = Warns(faults, k.req.strict)
    BY DEF Warns
  <2>2. PICK j : j = Ended(c, n, None, w)
    OBVIOUS
  <2>3. Ends(j, c, n, None, w)
    <3>1. None \in Faults \cup {"KeyError", None} /\ TypeInv
      BY DEF SInv
    <3>2. Ends(Ended(c, n, None, w), c, n, None, w)
      BY <1>8, <3>1, EndedFacts, Zenon
    <3> QED BY <2>2, <3>2
  <2>4. call' = [call EXCEPT ![c] = j]
    BY <1>12, <2>1, <2>2, Zenon
  <2>5. Changed(c, j)
    BY <2>3, <2>4, CallChanged DEF Ends, SInv
  <2>6. Explained(j)
    <3>1. FaultsOf[j.req.text][j.include] = faults
      BY <2>3 DEF Ends, FaultsSeen
    <3>2. /\ faults \cap {"syntax", "crash"} = {}
          /\ k.req.strict => faults = {}
      BY <1>9, <1>12
    <3>3. j.warned <=> (~k.req.strict /\ faults \cap InDescriptionLists # {})
      BY <2>1, <2>3 DEF Ends, Warns
    <3>4. j.req = k.req /\ j.error = None
      BY <2>3 DEF Ends
    <3> QED BY <3>1, <3>2, <3>3, <3>4 DEF Explained
  <2>7. CallInv(j)'
    BY <2>3 DEF Ends, CallInv, Begins, HasRead, HasParser, HasCells, HasTree
  <2> QED BY <1>6, <1>7, <1>8, <1>12, <2>3, <2>5, <2>6, <2>7, GetsTree DEF Ends
<1> QED BY <1>10, <1>11, <1>12 DEF Audit

\* The transformer goes on to the next cell.
LEMMA NextCellStep ==
  ASSUME SInv, NEW c \in Callers, NEW main, NEW cells, MadeSoFar(c, main, cells),
         Len(cells) < Len(CellsSeen(c)),
         call' = [call EXCEPT ![c].pc = "stat", ![c].parser = 0,
                              ![c].main = main, ![c].cells = cells],
         UNCHANGED <<files, compiled, cache, heap, resolver, floor, count>>
  PROVE  SInv'
<1> PICK k \in CallSet : k = call[c]
  BY DEF SInv, TypeInv
<1>1. CallInv(k) /\ k.pc = "parse"
  BY DEF SInv, CallsInv, MadeSoFar
<1>2. k.req \in Requests /\ k.answer = 0 /\ k.error = None
  BY <1>1 DEF CallInv, Begins
<1>3. main \in 0 .. MaxEvents + 1 /\ main # 0 /\ main <= files.grammar
  <2>1. files.grammar \in 1 .. MaxEvents + 1
    BY DEF SInv, TypeInv, Versions
  <2> QED BY <2>1, Bounds DEF MadeSoFar
<1>4. PICK j : j = [k EXCEPT !.pc = "stat", !.parser = 0, !.main = main, !.cells = cells]
  OBVIOUS
<1>5. call' = [call EXCEPT ![c] = j]
  BY <1>4 DEF SInv, TypeInv
<1>6. /\ j \in CallSet /\ j.pc = "stat" /\ j.main = main /\ j.cells = cells
      /\ j.include = k.include /\ j.req = k.req /\ j.then = k.then /\ j.low = k.low
      /\ j.tree = k.tree /\ j.answer = k.answer /\ j.error = k.error
      /\ j.cleared = k.cleared
  <2>1. 0 \in 0 .. MaxEvents + 1 /\ cells \in Seq(0 .. MaxEvents + 1)
    BY Bounds DEF MadeSoFar
  <2> QED BY <1>3, <1>4, <2>1 DEF CallSet, Pcs
<1>7. Changed(c, j)
  BY <1>5, <1>6, CallChanged DEF SInv
<1>8. TypeInv'
  BY <1>7, CallTyped DEF SInv
<1>9. CallInv(j)
  <2>1. Begins(j)
    BY <1>1, <1>6 DEF CallInv, Begins
  <2>2. HasRead(j)
    BY <1>1, <1>6 DEF CallInv, HasRead
  <2>3. HasParser(j)
    BY <1>6 DEF HasParser
  <2>4. HasTree(j)
    BY <1>1, <1>6 DEF CallInv, HasTree
  <2>5. HasCells(j)
    BY <1>3, <1>6 DEF HasCells, MadeSoFar, CellsSeen, FaultsSeen
  <2> QED BY <1>2, <1>6, <2>1, <2>2, <2>3, <2>4, <2>5 DEF CallInv
<1>10. CallInv(j)'
  BY <1>9 DEF CallInv, Begins, HasRead, HasParser, HasCells, HasTree
<1>11. Explained(j)
  BY <1>2, <1>6 DEF Explained
<1> QED BY <1>6, <1>7, <1>8, <1>10, <1>11, QuietStep

LEMMA TransformStep ==
  ASSUME SInv, NEW c \in Callers, NEW main, NEW cells, MadeSoFar(c, main, cells),
         Transform(c, main, cells)
  PROVE  SInv'
<1>1. call[c].req \in Requests
  BY DEF SInv, CallsInv, CallInv, Begins, MadeSoFar
<1>2. ASSUME NEW e \in CallbackErrors(c), Raise(c, e) PROVE SInv'
  <2>1. e \in FaultsSeen(c) /\ (call[c].req.strict \/ e \in {"syntax", "crash"})
    BY DEF CallbackErrors
  <2>2. e \in Faults \cup {"KeyError"}
    BY <1>1, <2>1, SeenFacts
  <2> QED BY <1>2, <2>1, <2>2, RaiseStep
<1> QED BY <1>2, AuditStep, NextCellStep DEF Transform

LEMMA TextMade ==
  ASSUME SInv, NEW c \in Callers, call[c].pc = "parse", ~Nested(c), "syntax" \notin FaultsSeen(c)
  PROVE  MadeSoFar(c, call[c].parser, <<>>)
<1> PICK k \in CallSet : k = call[c]
  BY DEF SInv, TypeInv
<1>1. CallInv(k) /\ k.pc = "parse" /\ k.main = 0
  BY DEF SInv, CallsInv, Nested
<1>2. k.req \in Requests /\ k.then \in Versions
  BY <1>1 DEF CallInv, Begins
<1>3. k.then.grammar <= k.parser /\ k.parser <= files.grammar
  BY <1>1 DEF CallInv, HasParser
<1>4. k.parser \in 1 .. files.grammar
  <2>1. k.parser \in Nat /\ k.then.grammar \in Nat \ {0} /\ files.grammar \in Nat
    BY <1>2, CallNumbers, Numbers DEF SInv, TypeInv
  <2> QED BY <1>3, <2>1
<1>5. CellsMade(<<>>, CellsSeen(c), k.parser, files.grammar, k.cleared)
  BY <1>2, SeenCells DEF CellsMade
<1>6. <<>> \in Seq(0 .. MaxEvents + 1)
  OBVIOUS
<1> QED BY <1>1, <1>3, <1>4, <1>5, <1>6 DEF MadeSoFar

LEMMA ParseStep == ASSUME SInv, NEW c \in Callers, Parse(c) PROVE SInv'
<1>1. ASSUME "syntax" \in FaultsSeen(c), Raise(c, "syntax") PROVE SInv'
  <2>1. "syntax" \in Faults \cup {"KeyError"}
    BY DEF Faults
  <2> QED BY <1>1, <2>1, RaiseStep
<1>2. ASSUME "syntax" \notin FaultsSeen(c), Transform(c, call[c].parser, <<>>) PROVE SInv'
  <2>1. MadeSoFar(c, call[c].parser, <<>>)
    BY <1>2, TextMade DEF Parse
  <2> QED BY <1>2, <2>1, TransformStep
<1> QED BY <1>1, <1>2 DEF Parse

LEMMA CellMade ==
  ASSUME SInv, NEW c \in Callers, ParseCell(c)
  PROVE  \E s : MadeSoFar(c, call[c].main, s) /\ Transform(c, call[c].main, s)
<1> PICK k \in CallSet : k = call[c]
  BY DEF SInv, TypeInv
<1> PICK may : may = CellsSeen(c)
  OBVIOUS
<1> PICK n : n = Len(k.cells) + 1
  OBVIOUS
<1> PICK p : p = IF may[n] THEN k.parser ELSE 0
  OBVIOUS
<1>1. CallInv(k) /\ k.pc = "parse" /\ k.main # 0
  BY DEF SInv, CallsInv, ParseCell, Nested
<1>2. k.req \in Requests /\ k.then \in Versions
  BY <1>1 DEF CallInv, Begins
<1>3. /\ k.then.grammar <= k.main /\ k.main <= files.grammar
      /\ Len(k.cells) < Len(may)
      /\ CellsMade(k.cells, may, k.main, files.grammar, k.cleared)
      /\ "syntax" \notin FaultsSeen(c)
  BY <1>1 DEF CallInv, HasCells, CellsSeen, FaultsSeen
<1>4. \/ k.main <= k.parser /\ k.parser <= files.grammar
      \/ k.parser = 0 /\ k.cleared
  BY <1>1 DEF CallInv, HasParser
<1>5. may \in Seq(BOOLEAN) /\ Len(may) \in Nat /\ k.cells \in Seq(0 .. MaxEvents + 1)
  BY <1>2, SeenCells DEF CallSet
<1>6. Len(k.cells) \in Nat
  BY <1>5, CellNumbers
<1>7. may[n] \in BOOLEAN
  <2>1. n \in 1 .. Len(may)
    BY <1>3, <1>5, <1>6
  <2> QED BY <1>5, <2>1, ElementOfSeq
<1>8. PICK s : s = Append(k.cells, p)
  OBVIOUS
<1>9. /\ s \in Seq(0 .. MaxEvents + 1) /\ Len(s) = n
      /\ s[n] = p /\ \A i \in 1 .. Len(k.cells) : s[i] = k.cells[i]
  <2>1. p \in 0 .. MaxEvents + 1
    BY Bounds DEF CallSet
  <2>2. PICK T : T = 0 .. MaxEvents + 1
    OBVIOUS
  <2>3. k.cells \in Seq(T) /\ p \in T
    BY <1>5, <2>1, <2>2
  <2> QED BY <1>8, <2>2, <2>3, AppendProperties
<1>10. CellsMade(s, may, k.main, files.grammar, k.cleared)
  <2>1. Len(s) <= Len(may)
    BY <1>3, <1>5, <1>6, <1>9
  <2>2. \A i \in 1 .. Len(s) : i = n \/ i \in 1 .. Len(k.cells)
    BY <1>6, <1>9
  <2>3. \/ p = 0 /\ (may[n] => k.cleared)
        \/ k.main <= p /\ p <= files.grammar /\ may[n]
    BY <1>4, <1>7
  <2> QED BY <1>3, <1>9, <2>1, <2>2, <2>3 DEF CellsMade
<1>11. k.main \in 1 .. files.grammar
  <2>1. k.main \in Nat /\ files.grammar \in Nat
    BY CallNumbers, Numbers DEF SInv, TypeInv
  <2> QED BY <1>1, <1>3, <2>1
<1>12. MadeSoFar(c, k.main, s)
  BY <1>1, <1>3, <1>9, <1>10, <1>11 DEF MadeSoFar
<1>13. Transform(c, k.main, s)
  BY <1>8 DEF ParseCell
<1> QED BY <1>12, <1>13

LEMMA ParseCellStep == ASSUME SInv, NEW c \in Callers, ParseCell(c) PROVE SInv'
<1> PICK s : MadeSoFar(c, call[c].main, s) /\ Transform(c, call[c].main, s)
  BY CellMade
<1> QED BY TransformStep

-----------------------------------------------------------------------------
(* Steps that look into the cache of trees, or add to it                   *)

\* An entry that answers for its key, with a tree no older than the floor.
Fits(entry) ==
  /\ entry.key = <<heap[entry.tree].text, heap[entry.tree].schemes>>
  /\ Older(floor, heap[entry.tree]) /\ Older(heap[entry.tree], files)

\* The cache gets another order or another entry, one caller a tree of it.
LEMMA Recached ==
  ASSUME SInv, NEW c \in Callers, NEW j \in CallSet, Changed(c, j), FewerTrees,
         cache' \in Seq(EntrySet), Len(cache') <= MaxEntries,
         \A m, n \in DOMAIN cache' : cache'[m].key = cache'[n].key => m = n,
         \A m \in DOMAIN cache' : \E e : e = cache'[m] /\ Fits(e),
         heap' = Collected(heap, cache', call', resolver),
         UNCHANGED <<files, compiled, resolver, floor>>,
         count' \in [calls : Nat, events : 0 .. MaxEvents], count'.events = count.events,
         CallInv(j), Explained(j)
  PROVE  SInv'
<1>1. heap' = Collected(heap, cache', call', resolver') /\ heap \in HeapSet
  BY DEF SInv, TypeInv
<1>2. TreesStay
  BY <1>1, CollectedFacts DEF TreesStay, SInv
<1>3. TypeInv'
  BY <1>2 DEF SInv, TypeInv, Changed, TreesStay, HeapSet
<1>11. Older(files, files')
  BY OlderFacts DEF SInv, TypeInv
<1>4. /\ UseInv' /\ CleanInv' /\ OwnInv' /\ CellsInv'
      /\ \A t \in Cached' \cup Making' : heap'[t] = heap[t]
  BY <1>2, <1>3, <1>11, NoNewTree DEF SInv
<1>5. \A d \in Callers : d # c /\ call[d].tree # 0 => heap'[call[d].tree] = heap[call[d].tree]
  BY <1>4 DEF Changed, Making
<1>6. j.tree # 0 => heap'[j.tree] = heap[j.tree]
  BY <1>4 DEF Changed, Making
<1>7. CallInv(j)'
  BY <1>6 DEF CallInv, Begins, HasRead, HasParser, HasCells, HasTree
<1>8. CallsInv' /\ Outcomes'
  BY <1>3, <1>5, <1>7, OneCaller
<1>9. ASSUME NEW m \in DOMAIN cache'
      PROVE  /\ cache'[m].key = <<heap'[cache'[m].tree].text, heap'[cache'[m].tree].schemes>>
             /\ Older(floor', heap'[cache'[m].tree]) /\ Older(heap'[cache'[m].tree], files')
  <2>1. PICK e : e = cache'[m] /\ Fits(e)
    OBVIOUS
  <2>2. heap'[e.tree] = heap[e.tree]
    BY <1>4, <2>1 DEF Cached
  <2> QED BY <2>1, <2>2 DEF Fits
<1>10. CacheInv'
  BY <1>9 DEF CacheInv
<1> QED BY <1>3, <1>4, <1>8, <1>10 DEF SInv

\* The entry at i is moved to the end.
Moved(r, q, i) ==
  /\ r = Append(RemoveAt(q, i), q[i]) /\ Len(r) = Len(q)
  /\ \A m \in 1 .. Len(q) : r[m] = q[IF m = Len(q) THEN i ELSE IF m < i THEN m ELSE m + 1]

LEMMA MovedFacts ==
  ASSUME NEW S, NEW q \in Seq(S), NEW i \in 1 .. Len(q)
  PROVE  \E r \in Seq(S) : Moved(r, q, i)
<1>0. SUFFICES \E r \in Seq(S) :
                 /\ r = Append(RemoveAt(q, i), q[i]) /\ Len(r) = Len(q)
                 /\ \A m \in 1 .. Len(q) :
                      r[m] = q[IF m = Len(q) THEN i ELSE IF m < i THEN m ELSE m + 1]
  BY DEF Moved
<1>1. PICK n \in Nat : n = Len(q)
  OBVIOUS
<1>2. i \in Nat /\ 1 <= i /\ i <= n
  BY <1>1
<1>3. PICK h \in Nat : h = i - 1
  BY <1>2
<1>4. PICK t \in Nat : t = n - i
  BY <1>2
<1>5. n = h + 1 + t /\ i = h + 1
  BY <1>2, <1>3, <1>4
<1>6. PICK a \in Seq(S) : /\ a = SubSeq(q, 1, i - 1) /\ Len(a) = h
                          /\ \A m \in 1 .. h : a[m] = q[m]
  <2>1. PICK w : w = SubSeq(q, 1, i - 1)
    OBVIOUS
  <2>2. /\ w \in Seq(S)
        /\ Len(w) = IF 1 <= i - 1 THEN i - 1 - 1 + 1 ELSE 0
        /\ \A m \in 1 .. i - 1 - 1 + 1 : w[m] = q[1 + m - 1]
    BY <1>1, <1>2, <2>1, SubSeqProperties
  <2>3. \A m \in 1 .. h : m \in 1 .. i - 1 - 1 + 1 /\ 1 + m - 1 = m
    BY <1>5
  <2>4. Len(w) = h
    BY <1>5, <2>2
  <2>5. \A m \in 1 .. h : w[m] = q[m]
    BY <2>2, <2>3
  <2> QED BY <2>1, <2>2, <2>4, <2>5
<1>7. PICK b \in Seq(S) : /\ b = SubSeq(q, i + 1, n) /\ Len(b) = t
                          /\ \A m \in 1 .. t : b[m] = q[i + m]
  <2>1. PICK w : w = SubSeq(q, i + 1, n)
    OBVIOUS
  <2>2. /\ w \in Seq(S)
        /\ Len(w) = IF i + 1 <= n THEN n - (i + 1) + 1 ELSE 0
        /\ \A m \in 1 .. n - (i + 1) + 1 : w[m] = q[i + 1 + m - 1]
    BY <1>1, <1>2, <2>1, SubSeqProperties
  <2>3. \A m \in 1 .. t : m \in 1 .. n - (i + 1) + 1 /\ i + 1 + m - 1 = i + m
    BY <1>2, <1>4
  <2>4. Len(w) = t
    BY <1>2, <1>4, <2>2
  <2>5. \A m \in 1 .. t : w[m] = q[i + m]
    BY <2>2, <2>3
  <2> QED BY <2>1, <2>2, <2>4, <2>5
<1>8. PICK d \in Seq(S) :
        /\ d = a \o b /\ Len(d) = h + t
        /\ \A m \in 1 .. h + t : d[m] = IF m <= h THEN a[m] ELSE b[m - h]
  <2>1. /\ a \o b \in Seq(S) /\ Len(a \o b) = Len(a) + Len(b)
        /\ \A m \in 1 .. Len(a) + Len(b) :
             (a \o b)[m] = IF m <= Len(a) THEN a[m] ELSE b[m - Len(a)]
    BY ConcatProperties
  <2>2. Len(a) = h /\ Len(b) = t
    BY <1>6, <1>7
  <2> QED BY <2>1, <2>2
<1>9. \A m \in 1 .. h : a[m] = q[m]
  BY <1>6
<1>10. \A m \in 1 .. t : b[m] = q[i + m]
  BY <1>7
<1>11. \A m \in 1 .. h + t : d[m] = IF m <= h THEN a[m] ELSE b[m - h]
  BY <1>8
<1>12. \A m \in 1 .. h + t : d[m] = q[IF m < i THEN m ELSE m + 1]
  <2> SUFFICES ASSUME NEW m \in 1 .. h + t PROVE d[m] = q[IF m < i THEN m ELSE m + 1]
    OBVIOUS
  <2>1. CASE m <= h
    BY SMTT(30), <1>5, <1>9, <1>11, <2>1
  <2>2. CASE ~(m <= h)
    <3>1. m - h \in 1 .. t /\ i + (m - h) = m + 1
      BY <1>5, <2>2
    <3>2. b[m - h] = q[m + 1]
      BY <1>10, <3>1
    <3> QED BY <1>5, <1>11, <2>2, <3>2
  <2> QED BY <2>1, <2>2
<1>13. PICK r \in Seq(S) : /\ r = Append(d, q[i]) /\ Len(r) = h + t + 1
                           /\ r[h + t + 1] = q[i]
                           /\ \A m \in 1 .. h + t : r[m] = d[m]
  <2>1. q[i] \in S
    BY <1>1, <1>2
  <2>2. /\ Append(d, q[i]) \in Seq(S) /\ Len(Append(d, q[i])) = Len(d) + 1
        /\ Append(d, q[i])[Len(d) + 1] = q[i]
        /\ \A m \in 1 .. Len(d) : Append(d, q[i])[m] = d[m]
    BY <2>1, AppendProperties
  <2>3. Len(d) = h + t
    BY <1>8
  <2> QED BY <2>2, <2>3
<1>14. r[h + t + 1] = q[i] /\ \A m \in 1 .. h + t : r[m] = d[m]
  BY <1>13
<1>15. \A m \in 1 .. n : m = h + t + 1 \/ m \in 1 .. h + t
  BY <1>5
<1>16. \A m \in 1 .. n : r[m] = q[IF m = n THEN i ELSE IF m < i THEN m ELSE m + 1]
  <2> SUFFICES ASSUME NEW m \in 1 .. n
               PROVE  r[m] = q[IF m = n THEN i ELSE IF m < i THEN m ELSE m + 1]
    OBVIOUS
  <2>1. CASE m = h + t + 1
    BY <1>5, <1>14, <2>1
  <2>2. CASE m \in 1 .. h + t
    BY <1>5, <1>12, <1>14, <2>2
  <2> QED BY <1>15, <2>1, <2>2
<1>17. r = Append(RemoveAt(q, i), q[i])
  BY <1>1, <1>6, <1>7, <1>8, <1>13 DEF RemoveAt
<1>18. Len(r) = Len(q)
  BY <1>1, <1>5, <1>13
<1>19. \A m \in 1 .. Len(q) :
         r[m] = q[IF m = Len(q) THEN i ELSE IF m < i THEN m ELSE m + 1]
  BY <1>1, <1>16
<1> QED BY <1>17, <1>18, <1>19

LEMMA KeepStep == ASSUME SInv, NEW c \in Callers, Keep(c) PROVE SInv'
<1> PICK k \in CallSet : k = call[c]
  BY DEF SInv, TypeInv
<1> PICK e : e = [key |-> KeyOf(k.req), tree |-> k.tree]
  OBVIOUS
<1> PICK full : full = Append(cache, e)
  OBVIOUS
<1>1. /\ k.pc = "keep"
      /\ cache' = IF Entry(k.req) # {} THEN cache
                  ELSE IF Len(full) > MaxEntries THEN Tail(full) ELSE full
      /\ heap' = Collected(heap, cache', call', resolver)
      /\ UNCHANGED <<files, compiled, resolver, floor, count>>
  BY DEF Keep
<1>2. CallInv(k)
  BY DEF SInv, CallsInv
<1>3. /\ k.req \in Requests /\ k.then \in Versions /\ k.answer = 0 /\ k.error = None
      /\ Cacheable(k.req) => Older(floor, k.then)
  BY <1>1, <1>2 DEF CallInv, Begins
<1>4. /\ k.tree # 0 /\ Cacheable(k.req)
      /\ heap[k.tree].text = k.req.text /\ heap[k.tree].schemes = k.req.schemes
      /\ Older(heap[k.tree], files) /\ Older(k.then, heap[k.tree])
  BY <1>1, <1>2 DEF CallInv, HasTree
<1>5. k.tree \in Making /\ k.tree \in 1 .. MaxTrees /\ heap[k.tree] \in TreeSet
  <2>1. k.tree \in Making
    BY <1>4 DEF Making
  <2> QED BY <2>1, MadeTrees DEF SInv
<1>6. Older(floor, heap[k.tree])
  BY <1>3, <1>4, <1>5, OlderFacts DEF SInv, TypeInv
<1>7. e \in EntrySet /\ Fits(e) /\ e.tree = k.tree /\ e.key = KeyOf(k.req)
  <2>1. e.tree = k.tree /\ e.key = KeyOf(k.req)
    OBVIOUS
  <2>2. KeyOf(k.req) \in Texts \X {r.schemes : r \in Requests}
    BY <1>3 DEF KeyOf, Texts
  <2>3. e \in EntrySet
    BY <1>5, <2>2 DEF EntrySet
  <2> QED BY <1>4, <1>6, <2>1, <2>3 DEF Fits, KeyOf
<1>8. PICK j : j = [k EXCEPT !.pc = "copy"]
  OBVIOUS
<1>9. call' = [call EXCEPT ![c] = j]
  BY <1>8 DEF Keep, SInv, TypeInv
<1>10. /\ j \in CallSet /\ j.pc = "copy" /\ j.tree = k.tree /\ j.include = k.include
       /\ j.req = k.req /\ j.then = k.then /\ j.low = k.low
       /\ j.answer = k.answer /\ j.error = k.error /\ j.main = 0
  <2>1. k.main = 0
    BY <1>1, <1>2 DEF CallInv, HasCells
  <2>2. j \in CallSet
    BY ZenonT(30), <1>8 DEF CallSet, Pcs
  <2> QED BY <1>8, <2>1, <2>2 DEF CallSet
<1>11. Changed(c, j)
  BY <1>9, <1>10, CallChanged DEF SInv
<1>12. CallInv(j)
  <2>1. Begins(j)
    BY <1>1, <1>2, <1>10 DEF CallInv, Begins
  <2>2. HasTree(j)
    BY <1>1, <1>2, <1>10 DEF CallInv, HasTree
  <2> QED BY <1>3, <1>10, <2>1, <2>2 DEF CallInv, HasRead, HasParser, HasCells
<1>13. Explained(j)
  BY <1>3, <1>10 DEF Explained
<1>14. /\ \A m \in DOMAIN cache : cache[m] \in EntrySet /\ \E x : x = cache[m] /\ Fits(x)
       /\ \A m, n \in DOMAIN cache : cache[m].key = cache[n].key => m = n
       /\ cache \in Seq(EntrySet) /\ Len(cache) <= MaxEntries
       /\ DOMAIN cache = 1 .. Len(cache) /\ Len(cache) \in Nat
  BY DEF SInv, TypeInv, CacheInv, Fits
<1>15. /\ cache' \in Seq(EntrySet) /\ Len(cache') <= MaxEntries
       /\ \A m, n \in DOMAIN cache' : cache'[m].key = cache'[n].key => m = n
       /\ \A m \in DOMAIN cache' : cache'[m] = e \/ \E l \in DOMAIN cache : cache'[m] = cache[l]
  <2>1. CASE Entry(k.req) # {}
    BY <1>1, <1>14, <2>1
  <2>2. CASE Entry(k.req) = {}
    <3>1. \A m \in DOMAIN cache : cache[m].key # e.key
      BY <1>7, <2>2 DEF Entry
    <3>2. /\ full \in Seq(EntrySet) /\ Len(full) = Len(cache) + 1 /\ full[Len(cache) + 1] = e
          /\ \A m \in 1 .. Len(cache) : full[m] = cache[m]
      BY <1>7, <1>14, AppendProperties
    <3>3. \A m, n \in 1 .. Len(full) : full[m].key = full[n].key => m = n
      BY <1>14, <3>1, <3>2
    <3>4. \A m \in 1 .. Len(full) : full[m] = e \/ \E l \in DOMAIN cache : full[m] = cache[l]
      BY <1>14, <3>2
    <3>5. CASE Len(full) > MaxEntries
      <4>1. cache' = Tail(full)
        BY <1>1, <2>2, <3>5
      <4>2. /\ cache' \in Seq(EntrySet) /\ Len(cache') = Len(cache)
            /\ \A m \in 1 .. Len(cache) : cache'[m] = full[m + 1]
        BY <1>14, <3>2, <4>1, HeadTailProperties
      <4>3. DOMAIN cache' = 1 .. Len(cache)
        BY <4>2
      <4>4. \A m \in DOMAIN cache' : m + 1 \in 1 .. Len(full) /\ cache'[m] = full[m + 1]
        BY <1>14, <3>2, <4>2, <4>3
      <4>5. \A m, n \in DOMAIN cache' : cache'[m].key = cache'[n].key => m = n
        <5> SUFFICES ASSUME NEW m \in DOMAIN cache', NEW n \in DOMAIN cache',
                            cache'[m].key = cache'[n].key
                     PROVE  m = n
          OBVIOUS
        <5>1. m + 1 = n + 1
          BY <3>3, <4>4
        <5> QED BY <1>14, <4>3, <5>1
      <4>6. \A m \in DOMAIN cache' : cache'[m] = e \/ \E l \in DOMAIN cache : cache'[m] = cache[l]
        BY <3>4, <4>4
      <4> QED BY <1>14, <4>2, <4>5, <4>6
    <3>6. CASE ~(Len(full) > MaxEntries)
      <4>1. cache' = full
        BY <1>1, <2>2, <3>6
      <4>2. DOMAIN full = 1 .. Len(full)
        BY <3>2
      <4> QED BY <1>14, <3>2, <3>3, <3>4, <3>6, <4>1, <4>2, Bounds
    <3> QED BY <3>5, <3>6
  <2> QED BY <2>1, <2>2
<1>16. \A m \in DOMAIN cache' : \E x : x = cache'[m] /\ Fits(x)
  BY <1>7, <1>14, <1>15
<1>17. FewerTrees
  <2>1. Making' = Making
    BY <1>10, <1>11 DEF Changed, Making
  <2>2. Cached' \subseteq Cached \cup Making
    BY <1>5, <1>7, <1>15 DEF Cached
  <2>3. \A d \in Callers : call'[d].answer = call[d].answer
    BY <1>10, <1>11 DEF Changed
  <2> QED BY <1>1, <2>1, <2>2, <2>3 DEF FewerTrees
<1>18. count' \in [calls : Nat, events : 0 .. MaxEvents] /\ count'.events = count.events
  BY <1>1 DEF SInv, TypeInv
<1> QED BY <1>1, <1>10, <1>11, <1>12, <1>13, <1>15, <1>16, <1>17, <1>18, Recached

LEMMA BeginStep == ASSUME SInv, NEW c \in Callers, NEW r \in Requests, Begin(c, r) PROVE SInv'
<1>0. PICK s : s = [Idle EXCEPT !.pc = "preprocess", !.req = r, !.then = files, !.low = floor]
  OBVIOUS
<1>1. /\ s \in CallSet /\ s.pc = "preprocess" /\ s.tree = 0 /\ s.answer = 0 /\ s.main = 0
      /\ s.error = None /\ s.req = r /\ s.then = files /\ s.low = floor
  BY <1>0, BegunFacts DEF SInv
<1>2. /\ heap' = Collected(heap, cache', call', resolver)
      /\ UNCHANGED <<files, compiled, resolver, floor>>
  BY DEF Begin
<1>3. count' \in [calls : Nat, events : 0 .. MaxEvents] /\ count'.events = count.events
  <2>1. count' = [count EXCEPT !.calls = @ + 1]
    BY DEF Begin, Begun
  <2>2. count \in [calls : Nat, events : 0 .. MaxEvents]
    BY DEF SInv, TypeInv
  <2> QED BY <2>1, <2>2
<1>4. files \in Versions /\ floor \in Versions /\ Older(floor, files) /\ Older(floor, floor)
  BY OlderFacts DEF SInv, TypeInv
<1>5. CallInv(s)
  <2>1. /\ Older(s.low, s.then) /\ Older(s.then, files) /\ Older(s.low, floor)
        /\ Older(floor, s.then)
    BY <1>1, <1>4, OlderFacts
  <2>2. Begins(s)
    BY <1>1, <1>4, <2>1 DEF Begins
  <2> QED BY <1>1, <2>2 DEF CallInv, HasRead, HasParser, HasCells, HasTree
<1>6. Explained(s)
  BY <1>1 DEF Explained
<1>7. /\ \A m \in DOMAIN cache : cache[m] \in EntrySet /\ \E x : x = cache[m] /\ Fits(x)
      /\ \A m, n \in DOMAIN cache : cache[m].key = cache[n].key => m = n
      /\ cache \in Seq(EntrySet) /\ Len(cache) <= MaxEntries
      /\ DOMAIN cache = 1 .. Len(cache) /\ Len(cache) \in Nat
  BY DEF SInv, TypeInv, CacheInv, Fits
<1>8. CASE /\ call' = [call EXCEPT ![c] = s]
           /\ UNCHANGED cache
  <2>1. Changed(c, s)
    BY <1>1, <1>8, CallChanged DEF SInv
  <2>2. FewerTrees
    <3>1. \A d \in Callers : /\ call'[d].tree \in {0, call[d].tree}
                             /\ call'[d].answer \in {0, call[d].answer}
      BY <1>1, <2>1 DEF Changed
    <3> QED BY <1>2, <1>8, <3>1 DEF FewerTrees, Cached, Making
  <2> QED BY <1>1, <1>2, <1>3, <1>5, <1>6, <1>7, <1>8, <2>1, <2>2, Recached
<1>9. ASSUME Cacheable(r), NEW i \in Entry(r),
             call' = [call EXCEPT ![c] = [s EXCEPT !.pc = "copy", !.tree = cache[i].tree,
                                                   !.include = heap[cache[i].tree].include]],
             cache' = Append(RemoveAt(cache, i), cache[i])
      PROVE  SInv'
  <2>1. i \in 1 .. Len(cache) /\ cache[i].key = KeyOf(r)
    BY <1>7 DEF Entry
  <2>2. PICK t : t = cache[i].tree
    OBVIOUS
  <2>3. t \in Cached
    BY <1>7, <2>1, <2>2 DEF Cached
  <2>4. heap[t] \in TreeSet /\ t \in 1 .. MaxTrees /\ heap[t].include \in 0 .. MaxEvents
    <3>1. heap[t] \in TreeSet /\ t \in 1 .. MaxTrees
      BY <2>3, MadeTrees DEF SInv
    <3> QED BY <3>1 DEF TreeSet
  <2>5. /\ heap[t].text = r.text /\ heap[t].schemes = r.schemes
        /\ Older(floor, heap[t]) /\ Older(heap[t], files)
    BY <1>7, <2>1, <2>2 DEF Fits, KeyOf
  <2>6. PICK j : j = [s EXCEPT !.pc = "copy", !.tree = t, !.include = heap[t].include]
    OBVIOUS
  <2>7. /\ j \in CallSet /\ j.pc = "copy" /\ j.tree = t /\ j.answer = 0 /\ j.error = None
        /\ j.req = r /\ j.then = files /\ j.low = floor /\ j.include = heap[t].include
        /\ j.main = 0
    <3>1. t \in 0 .. MaxTrees
      BY <2>4, Bounds
    <3> QED BY ZenonT(30), <1>1, <2>4, <2>6, <3>1 DEF CallSet, Pcs
  <2>8. Changed(c, j)
    BY <1>9, <2>2, <2>6, <2>7, CallChanged DEF SInv
  <2>9. CallInv(j)
    <3>1. Begins(j)
      <4>1. /\ Older(j.low, j.then) /\ Older(j.then, files) /\ Older(j.low, floor)
            /\ Older(floor, j.then)
        BY <1>4, <2>7, OlderFacts
      <4> QED BY <1>4, <2>7, <4>1 DEF Begins
    <3>2. HasTree(j)
      BY <1>9, <2>4, <2>5, <2>7, Bounds DEF HasTree
    <3> QED BY <2>7, <3>1, <3>2 DEF CallInv, HasRead, HasParser, HasCells
  <2>10. Explained(j)
    BY <2>7 DEF Explained
  <2>11. /\ cache' \in Seq(EntrySet) /\ Len(cache') = Len(cache)
         /\ \A m \in 1 .. Len(cache) :
              cache'[m] = cache[IF m = Len(cache) THEN i ELSE IF m < i THEN m ELSE m + 1]
    <3>1. cache \in Seq(EntrySet) /\ i \in 1 .. Len(cache)
      BY <1>7, <2>1
    <3>2. PICK x \in Seq(EntrySet) : Moved(x, cache, i)
      BY <3>1, MovedFacts, Zenon
    <3>3. x = Append(RemoveAt(cache, i), cache[i]) /\ Len(x) = Len(cache)
      BY <3>2 DEF Moved
    <3>4. \A m \in 1 .. Len(cache) :
            x[m] = cache[IF m = Len(cache) THEN i ELSE IF m < i THEN m ELSE m + 1]
      BY <3>2 DEF Moved
    <3>5. cache' = x
      BY <1>9, <3>3, Zenon
    <3> QED BY <3>3, <3>4, <3>5
  <2>12. DOMAIN cache' = 1 .. Len(cache)
    BY <2>11
  <2>13. \A m \in DOMAIN cache' : \E l \in DOMAIN cache : cache'[m] = cache[l]
    <3> SUFFICES ASSUME NEW m \in DOMAIN cache'
                 PROVE  \E l \in DOMAIN cache : cache'[m] = cache[l]
      OBVIOUS
    <3>1. PICK x : x = IF m = Len(cache) THEN i ELSE IF m < i THEN m ELSE m + 1
      OBVIOUS
    <3>2. x \in 1 .. Len(cache)
      BY <1>7, <2>1, <2>12, <3>1
    <3>3. cache'[m] = cache[x]
      BY <2>11, <2>12, <3>1
    <3> QED BY <1>7, <3>2, <3>3
  <2>14. \A m, n \in DOMAIN cache' : cache'[m].key = cache'[n].key => m = n
    <3> SUFFICES ASSUME NEW m \in DOMAIN cache', NEW n \in DOMAIN cache',
                        cache'[m].key = cache'[n].key
                 PROVE  m = n
      OBVIOUS
    <3>1. PICK x \in Nat : x = IF m = Len(cache) THEN i ELSE IF m < i THEN m ELSE m + 1
      BY <1>7, <2>1, <2>12
    <3>2. PICK y \in Nat : y = IF n = Len(cache) THEN i ELSE IF n < i THEN n ELSE n + 1
      BY <1>7, <2>1, <2>12
    <3>3. x \in 1 .. Len(cache) /\ y \in 1 .. Len(cache)
      BY <1>7, <2>1, <2>12, <3>1, <3>2
    <3>4. cache[x].key = cache[y].key
      BY <2>11, <2>12, <3>1, <3>2
    <3>5. x = y
      BY <1>7, <3>3, <3>4
    <3> QED BY <1>7, <2>1, <2>12, <3>1, <3>2, <3>5
  <2>15. \A m \in DOMAIN cache' : \E x : x = cache'[m] /\ Fits(x)
    BY <1>7, <2>13
  <2>16. FewerTrees
    <3>1. Cached' \subseteq Cached
      BY <2>13 DEF Cached
    <3>2. \A d \in Callers : /\ call'[d].tree \in {t, call[d].tree}
                             /\ call'[d].answer \in {0, call[d].answer}
      BY <2>7, <2>8 DEF Changed
    <3>3. Making' \subseteq Cached \cup Making
      BY <2>3, <3>2 DEF Making
    <3> QED BY <1>2, <3>1, <3>2, <3>3 DEF FewerTrees
  <2> QED BY <1>2, <1>3, <1>7, <2>7, <2>8, <2>9, <2>10, <2>11, <2>14, <2>15, <2>16, Recached
<1>10. CASE Cacheable(r)
  BY <1>0, <1>8, <1>9, <1>10 DEF Begin
<1>11. CASE ~Cacheable(r)
  BY <1>0, <1>8, <1>11 DEF Begin
<1> QED BY <1>10, <1>11

-----------------------------------------------------------------------------
(* What happens to files and caches, and what callers do to their trees    *)

\* No call takes a step.
LEMMA NoCaller ==
  ASSUME SInv, TypeInv', UNCHANGED call, Older(files, files'), Older(floor, floor'),
         \A c \in Callers : call[c].pc # "idle" /\ Cacheable(call[c].req) =>
                              Older(floor', call[c].then),
         \A t \in Making : heap'[t] = heap[t],
         DOMAIN compiled \subseteq DOMAIN compiled'
  PROVE  CallsInv' /\ Outcomes'
<1>1. CallsInv'
  <2> SUFFICES ASSUME NEW c \in Callers PROVE CallInv(call[c])'
    BY DEF CallsInv
  <2>1. PICK k \in CallSet : k = call[c]
    BY DEF SInv, TypeInv
  <2>2. k.tree # 0 => heap[k.tree] \in TreeSet /\ heap'[k.tree] = heap[k.tree]
    BY <2>1, MadeTrees DEF SInv, Making
  <2>3. CallInv(k)
    BY <2>1 DEF SInv, CallsInv
  <2>4. k.pc # "idle" /\ Cacheable(k.req) => Older(floor', k.then)
    BY <2>1
  <2>5. CallInv(k)'
    BY <2>2, <2>3, <2>4, OtherCall DEF SInv
  <2>6. call'[c] = k
    BY <2>1
  <2> QED BY <2>5, <2>6 DEF CallInv, Begins, HasRead, HasParser, HasCells, HasTree
<1>2. Outcomes'
  BY DEF SInv, Outcomes
<1> QED BY <1>1, <1>2

LEMMA WriteStep ==
  ASSUME SInv, NEW kind \in {"include", "grammar"}, Write(kind) PROVE SInv'
<1>1. /\ files' = [files EXCEPT ![kind] = @ + 1]
      /\ UNCHANGED <<compiled, cache, heap, call, resolver, floor>>
      /\ count.events < MaxEvents /\ count' = [count EXCEPT !.events = @ + 1]
  BY DEF Write, Happens
<1>2. /\ files \in Versions /\ floor \in Versions /\ Older(floor, files)
      /\ count \in [calls : Nat, events : 0 .. MaxEvents]
      /\ files.include + files.grammar <= count.events + 1
      /\ files.include \in Nat /\ files.grammar \in Nat \ {0} /\ count.events \in Nat
  BY Numbers, Bounds DEF SInv, TypeInv
<1>3. /\ count' \in [calls : Nat, events : 0 .. MaxEvents]
      /\ count'.events = count.events + 1
  BY <1>1, <1>2, Bounds
<1>4. /\ files' = [include |-> files'.include, grammar |-> files'.grammar]
      /\ \/ files'.include = files.include + 1 /\ files'.grammar = files.grammar
         \/ files'.include = files.include /\ files'.grammar = files.grammar + 1
  <2>1. CASE kind = "include"
    BY <1>1, <1>2, <2>1 DEF Versions
  <2>2. CASE kind = "grammar"
    BY <1>1, <1>2, <2>2 DEF Versions
  <2> QED BY <2>1, <2>2
<1>5. files' \in Versions
  <2>1. files'.include \in 0 .. MaxEvents /\ files'.grammar \in 1 .. MaxEvents + 1
    BY <1>1, <1>2, <1>4, Bounds
  <2> QED BY <1>4, <2>1 DEF Versions
<1>6. /\ Older(files, files') /\ files'.include + files'.grammar <= count'.events + 1
  BY <1>2, <1>3, <1>4 DEF Older
<1>7. Older(floor, files')
  BY <1>2, <1>5, <1>6, OlderFacts
<1>8. \A k \in DOMAIN compiled : compiled[k] \in 1 .. files'.grammar
  BY <1>2, <1>4 DEF SInv, TypeInv
<1>9. TypeInv'
  BY <1>1, <1>3, <1>5, <1>6, <1>7, <1>8 DEF SInv, TypeInv, HeapSet
<1>10. UseInv' /\ CleanInv' /\ OwnInv' /\ CellsInv'
  BY <1>1, <1>6, <1>9, QuietTrees
<1>11. Older(floor, floor')
  BY <1>1, <1>2, OlderFacts
<1>12. CallsInv' /\ Outcomes'
  <2>1. \A c \in Callers : call[c].pc # "idle" /\ Cacheable(call[c].req) =>
                             Older(floor', call[c].then)
    BY <1>1 DEF SInv, CallsInv, CallInv, Begins
  <2> QED BY <1>1, <1>6, <1>9, <1>11, <2>1, NoCaller
<1>13. CacheInv'
  BY <1>1, <1>6, <1>9, CacheStays DEF SInv
<1> QED BY <1>9, <1>10, <1>12, <1>13 DEF SInv

LEMMA ClearTreesStep == ASSUME SInv, ClearTrees PROVE SInv'
<1>1. /\ cache' = <<>> /\ heap' = Collected(heap, cache', call, resolver)
      /\ UNCHANGED <<files, compiled, call, resolver>>
      /\ count.events < MaxEvents /\ count' = [count EXCEPT !.events = @ + 1]
  BY DEF ClearTrees, Happens
<1>2. /\ floor' \in Versions /\ Older(floor, floor') /\ Older(floor', files)
      /\ \A c \in Callers : call[c].pc # "idle" /\ Cacheable(call[c].req) =>
                              Older(floor', call[c].then)
  BY FloorFacts DEF SInv
<1>3. heap' = Collected(heap, cache', call', resolver') /\ heap \in HeapSet
  BY <1>1 DEF SInv, TypeInv
<1>4. TreesStay
  BY <1>3, CollectedFacts DEF TreesStay, SInv
<1>5. /\ count' \in [calls : Nat, events : 0 .. MaxEvents]
      /\ files.include + files.grammar <= count'.events + 1
  <2>1. /\ count \in [calls : Nat, events : 0 .. MaxEvents]
        /\ files.include + files.grammar <= count.events + 1
        /\ files.include \in Nat /\ files.grammar \in Nat
    BY Numbers DEF SInv, TypeInv
  <2> QED BY SMTT(30), <1>1, <2>1, Bounds
<1>6. cache' \in Seq(EntrySet) /\ DOMAIN cache' = {} /\ Len(cache') = 0
  BY <1>1
<1>7. TypeInv'
  BY <1>1, <1>2, <1>4, <1>5, <1>6 DEF SInv, TypeInv, TreesStay, HeapSet
<1>8. FewerTrees
  BY <1>1, <1>6 DEF FewerTrees, Cached, Making
<1>10. Older(files, files')
  BY <1>1, OlderFacts DEF SInv, TypeInv
<1>9. /\ UseInv' /\ CleanInv' /\ OwnInv' /\ CellsInv'
      /\ \A t \in Cached' \cup Making' : heap'[t] = heap[t]
  BY <1>4, <1>7, <1>8, <1>10, NoNewTree DEF SInv
<1>11. CallsInv' /\ Outcomes'
  <2>1. \A t \in Making : heap'[t] = heap[t]
    BY <1>1, <1>9 DEF Making
  <2> QED BY <1>1, <1>2, <1>7, <1>10, <2>1, NoCaller
<1>12. CacheInv'
  BY <1>6, Bounds DEF CacheInv
<1> QED BY <1>7, <1>9, <1>11, <1>12 DEF SInv

LEMMA ClearParsersStep == ASSUME SInv, ClearParsers PROVE SInv'
<1>1. /\ compiled' = <<>> /\ UNCHANGED <<files, cache, heap, resolver, floor>>
      /\ call' = [c \in Callers |-> [call[c] EXCEPT !.cleared = (call[c].pc = "fetch" \/ @)]]
      /\ count.events < MaxEvents /\ count' = [count EXCEPT !.events = @ + 1]
  BY DEF ClearParsers, Happens
<1>2. ASSUME NEW c \in Callers
      PROVE  \E j \in CallSet : /\ j = call'[c] /\ CallInv(j)' /\ Explained(j)
                                /\ j.tree = call[c].tree /\ j.answer = call[c].answer
  <2>1. PICK k \in CallSet : k = call[c]
    BY DEF SInv, TypeInv
  <2>2. PICK w \in BOOLEAN : w = (k.pc = "fetch" \/ k.cleared)
    OBVIOUS
  <2>3. PICK j : j = [k EXCEPT !.cleared = w]
    OBVIOUS
  <2>4. j = call'[c]
    BY <1>1, <2>1, <2>2, <2>3
  <2>5. /\ j \in CallSet /\ j.cleared = w /\ j.pc = k.pc /\ j.req = k.req /\ j.then = k.then
        /\ j.low = k.low /\ j.include = k.include /\ j.parser = k.parser /\ j.stamp = k.stamp
        /\ j.tree = k.tree /\ j.answer = k.answer /\ j.error = k.error /\ j.warned = k.warned
        /\ j.main = k.main /\ j.cells = k.cells
    BY <2>3 DEF CallSet
  <2>6. CallInv(k) /\ Explained(k)
    BY <2>1 DEF SInv, CallsInv, Outcomes
  <2>7. Begins(j)' /\ HasRead(j)' /\ HasTree(j)'
    BY <1>1, <2>5, <2>6 DEF CallInv, Begins, HasRead, HasTree
  <2>8. HasParser(j)'
    BY <1>1, <2>2, <2>5, <2>6 DEF CallInv, HasParser
  <2>11. HasCells(j)'
    BY <1>1, <2>2, <2>5, <2>6 DEF CallInv, HasCells, CellsMade
  <2>9. CallInv(j)'
    BY <2>5, <2>6, <2>7, <2>8, <2>11 DEF CallInv
  <2>10. Explained(j)
    BY <2>2, <2>5, <2>6 DEF Explained
  <2> QED BY <2>1, <2>4, <2>5, <2>9, <2>10
<1>3. call' \in [Callers -> CallSet]
  BY <1>1, <1>2
<1>4. \A c \in Callers : call'[c].tree = call[c].tree /\ call'[c].answer = call[c].answer
  BY <1>2
<1>5. /\ count' \in [calls : Nat, events : 0 .. MaxEvents]
      /\ files.include + files.grammar <= count'.events + 1
  <2>1. /\ count \in [calls : Nat, events : 0 .. MaxEvents]
        /\ files.include + files.grammar <= count.events + 1
        /\ files.include \in Nat /\ files.grammar \in Nat
    BY Numbers DEF SInv, TypeInv
  <2>2. count.events < MaxEvents /\ count' = [count EXCEPT !.events = @ + 1]
    BY <1>1
  <2>3. files' = files
    BY <1>1
  <2> QED BY <2>1, <2>2, <2>3, Bounds
<1>6. DOMAIN compiled' = {}
  BY <1>1
<1>7. TypeInv'
  BY <1>1, <1>3, <1>5, <1>6 DEF SInv, TypeInv, HeapSet
<1>12. Older(files, files')
  BY <1>1, OlderFacts DEF SInv, TypeInv
<1>8. UseInv' /\ CleanInv' /\ OwnInv' /\ CellsInv'
  BY <1>1, <1>4, <1>7, <1>12, QuietTrees
<1>9. CallsInv'
  <2> SUFFICES ASSUME NEW c \in Callers PROVE CallInv(call[c])'
    BY DEF CallsInv
  <2>1. PICK j \in CallSet : j = call'[c] /\ CallInv(j)'
    BY <1>2
  <2> QED BY <2>1 DEF CallInv, Begins, HasRead, HasParser, HasCells, HasTree
<1>10. Outcomes'
  BY <1>2 DEF Outcomes
<1>11. CacheInv'
  BY <1>1, <1>7, <1>12, CacheStays DEF SInv
<1> QED BY <1>7, <1>8, <1>9, <1>10, <1>11 DEF SInv

-----------------------------------------------------------------------------
(* A caller resolves the tree that it holds                                *)

\* What a resolver leaves: another value of the tree, a resolver that may hold on to it.
Resolved(c, t, tree) ==
  /\ t = call[c].answer /\ t # 0
  /\ heap' = [heap EXCEPT ![t] = tree]
  /\ resolver' \in [Callers -> ResolverSet]
  /\ \A d \in Callers : /\ resolver'[d].indexed \in {resolver[d].indexed, t}
                        /\ resolver[d].indexed # 0 => resolver'[d].indexed = resolver[d].indexed
  /\ count.events < MaxEvents /\ count' = [count EXCEPT !.events = @ + 1]
  /\ UNCHANGED <<files, compiled, cache, call, floor>>

\* Who is answered holds a tree that is neither cached nor in the making.
LEMMA HeldFacts ==
  ASSUME TypeInv, UseInv, CleanInv, NEW c \in Callers, call[c].answer # 0
  PROVE  /\ call[c].answer \in 1 .. MaxTrees /\ call[c].answer \in Used
         /\ call[c].answer \notin Cached \cup Making
         /\ heap[call[c].answer] \in TreeSet
<1> PICK t : t = call[c].answer
  OBVIOUS
<1>1. t \in 0 .. MaxTrees
  BY DEF TypeInv, CallSet
<1>2. t \in 1 .. MaxTrees
  BY <1>1, Bounds
<1>3. t \in Used
  BY DEF Used, InUse
<1>4. heap[t] \in TreeSet
  BY <1>2, <1>3 DEF TypeInv, HeapSet, UseInv
<1>5. t \notin Cached \cup Making
  BY DEF CleanInv
<1> QED BY <1>2, <1>3, <1>4, <1>5

\* The tree that a resolver leaves: the same, but for its references and its docinfo.
Rebound(tree, u) ==
  /\ tree \in TreeSet
  /\ tree.text = u.text /\ tree.schemes = u.schemes /\ tree.include = u.include
  /\ tree.grammar = u.grammar /\ tree.cells = u.cells /\ tree.lost = u.lost

LEMMA ResolvedStep ==
  ASSUME SInv, NEW c \in Callers, NEW t, NEW tree \in TreeSet, Resolved(c, t, tree),
         Rebound(tree, heap[t])
  PROVE  SInv'
<1>1. /\ t \in 1 .. MaxTrees /\ t \in Used /\ t \notin Cached \cup Making
      /\ heap[t] \in TreeSet /\ t = call[c].answer
  BY HeldFacts DEF SInv, Resolved
<1>2. heap \in HeapSet /\ heap' = [heap EXCEPT ![t] = tree]
  BY DEF SInv, TypeInv, Resolved
<1>3. heap' \in HeapSet /\ heap'[t] = tree /\ \A u \in 1 .. MaxTrees : u # t => heap'[u] = heap[u]
  BY <1>1, <1>2 DEF HeapSet
<1>4. UNCHANGED <<files, compiled, cache, call, floor>> /\ resolver' \in [Callers -> ResolverSet]
  BY DEF Resolved
<1>5. /\ count' \in [calls : Nat, events : 0 .. MaxEvents]
      /\ files.include + files.grammar <= count'.events + 1
  <2>1. /\ count \in [calls : Nat, events : 0 .. MaxEvents]
        /\ files.include + files.grammar <= count.events + 1
        /\ files.include \in Nat /\ files.grammar \in Nat
    BY Numbers DEF SInv, TypeInv
  <2>2. count.events < MaxEvents /\ count' = [count EXCEPT !.events = @ + 1]
    BY DEF Resolved
  <2> QED BY <2>1, <2>2, Bounds
<1>6. TypeInv'
  BY <1>3, <1>4, <1>5 DEF SInv, TypeInv
<1>7. Cached' = Cached /\ Making' = Making
  BY <1>4 DEF Cached, Making
<1>8. \A d \in Callers : /\ resolver'[d].indexed \in {resolver[d].indexed, t}
                         /\ resolver[d].indexed # 0 => resolver'[d].indexed = resolver[d].indexed
  BY DEF Resolved
<1>9. \A u \in 1 .. MaxTrees : u \in Used' <=> u \in Used
  <2>1. \A u \in 1 .. MaxTrees : u # 0
    OBVIOUS
  <2>2. \A u : u \in Used' <=> \/ u \in Cached \cup {call[d].tree : d \in Callers}
                               \/ u \in {call[d].answer : d \in Callers}
                               \/ \E d \in Callers : u = resolver'[d].indexed
    BY <1>4 DEF Used, InUse, Cached
  <2>3. \A u : u \in Used <=> \/ u \in Cached \cup {call[d].tree : d \in Callers}
                              \/ u \in {call[d].answer : d \in Callers}
                              \/ \E d \in Callers : u = resolver[d].indexed
    BY DEF Used, InUse, Cached
  <2> QED BY <1>1, <1>8, <2>1, <2>2, <2>3
<1>10. UseInv'
  <2>1. tree # None /\ heap[t] # None
    BY <1>1, NoneAssumption
  <2> QED BY <1>1, <1>3, <1>9, <2>1 DEF SInv, UseInv
<1>11. \A u \in Cached \cup Making : heap'[u] = heap[u]
  BY <1>1, <1>3, MadeTrees DEF SInv
<1>12. CleanInv'
  <2> SUFFICES ASSUME NEW u \in Cached \cup Making
               PROVE  /\ Clean(u)'
                      /\ \A d \in Callers : call'[d].answer # u /\ resolver'[d].indexed # u
    BY <1>7 DEF CleanInv
  <2>1. Clean(u) /\ \A d \in Callers : call[d].answer # u /\ resolver[d].indexed # u
    BY DEF SInv, CleanInv
  <2>2. Clean(u)'
    BY <1>11, <2>1 DEF Clean
  <2> QED BY <1>1, <1>4, <1>8, <2>1, <2>2
<1>13. OwnInv'
  BY <1>4 DEF SInv, OwnInv
<1>14. Older(files, files') /\ Older(floor, floor')
  BY <1>4, OlderFacts DEF SInv, TypeInv
<1>15. CallsInv' /\ Outcomes'
  <2>1. \A d \in Callers : call[d].pc # "idle" /\ Cacheable(call[d].req) =>
                             Older(floor', call[d].then)
    BY <1>4 DEF SInv, CallsInv, CallInv, Begins
  <2> QED BY <1>4, <1>6, <1>11, <1>14, <2>1, NoCaller
<1>16. CacheInv'
  BY <1>4, <1>6, <1>11, <1>14, CacheStays DEF SInv
<1>17. CellsInv'
  <2> SUFFICES ASSUME NEW u \in 1 .. MaxTrees, heap'[u] # None
               PROVE  TreeCells(heap'[u], files.grammar)
    BY <1>4 DEF CellsInv
  <2>1. CASE u = t
    <3>1. TreeCells(heap[t], files.grammar)
      BY <1>1, NoneAssumption DEF SInv, CellsInv
    <3> QED BY <1>3, <2>1, <3>1 DEF TreeCells, Rebound
  <2>2. CASE u # t
    BY <1>3, <2>2 DEF SInv, CellsInv
  <2> QED BY <2>1, <2>2
<1> QED BY <1>6, <1>10, <1>12, <1>13, <1>15, <1>16, <1>17 DEF SInv

LEMMA UsingFacts ==
  ASSUME SInv, NEW c \in Callers, NEW kept \in BOOLEAN
  PROVE  \E u \in ResolverSet : /\ u = Using(c, kept) /\ Fresh \in ResolverSet
                                /\ resolver[c] \in ResolverSet
                                /\ kept => u = resolver[c]
<1>1. Fresh \in ResolverSet
  BY Bounds DEF Fresh, ResolverSet
<1>2. resolver[c] \in ResolverSet
  BY DEF SInv, TypeInv
<1> QED BY <1>1, <1>2 DEF Using

LEMMA ResolveFacts ==
  ASSUME SInv, NEW c \in Callers, NEW kept \in BOOLEAN, Resolve(c, kept)
  PROVE  \E tree \in TreeSet : /\ Resolved(c, call[c].answer, tree)
                               /\ Rebound(tree, heap[call[c].answer])
<1> PICK t : t = call[c].answer
  OBVIOUS
<1> PICK u \in ResolverSet : u = Using(c, kept) /\ (kept => u = resolver[c])
  BY UsingFacts
<1>1. /\ call[c].pc = "idle" /\ t # 0
      /\ count.events < MaxEvents /\ count' = [count EXCEPT !.events = @ + 1]
      /\ UNCHANGED <<files, compiled, cache, call, floor>>
  BY DEF Resolve, Resolving, Happens
<1>2. t \in 1 .. MaxTrees /\ heap[t] \in TreeSet
  BY <1>1, HeldFacts DEF SInv
<1>3. PICK a \in Attributed \cup {None} :
        a = IF u.attributes = None THEN AttributesOf(t) ELSE u.attributes
  <2>1. AttributesOf(t) \in Attributed \cup {None} /\ u.attributes \in Attributed \cup {None}
    BY DEF AttributesOf, ResolverSet
  <2> QED BY <2>1
<1>4. PICK now : now = [u EXCEPT !.attributes = a]
  OBVIOUS
<1>5. now \in ResolverSet /\ now.attributes = a /\ now.indexed = u.indexed
  BY <1>3, <1>4 DEF ResolverSet
<1>6. now = [u EXCEPT !.attributes = IF @ = None THEN AttributesOf(t) ELSE @]
  BY <1>3, <1>4 DEF ResolverSet
<1>7. /\ resolver' = IF kept THEN [resolver EXCEPT ![c] = now] ELSE resolver
      /\ heap' = [heap EXCEPT ![t].docinfo = WithDocinfo(t, now)]
  BY <1>6 DEF Resolve
<1>8. PICK d \in WantsDocinfo \cup {None} : d = WithDocinfo(t, now)
  BY <1>2 DEF WithDocinfo, TreeSet
<1>9. PICK h \in TreeSet : h = heap[t]
  BY <1>2
<1>10. PICK tree : tree = [h EXCEPT !.docinfo = d]
  OBVIOUS
<1>11. Rebound(tree, h)
  BY <1>8, <1>9, <1>10 DEF Rebound, TreeSet
<1>12. heap' = [heap EXCEPT ![t] = tree]
  BY <1>2, <1>7, <1>8, <1>9, <1>10 DEF SInv, TypeInv, HeapSet
<1>13. resolver \in [Callers -> ResolverSet]
  BY DEF SInv, TypeInv
<1>14. /\ resolver' \in [Callers -> ResolverSet]
       /\ \A e \in Callers : resolver'[e].indexed = resolver[e].indexed
  BY <1>5, <1>7, <1>13
<1>15. Resolved(c, t, tree)
  BY <1>1, <1>12, <1>14 DEF Resolved
<1> QED BY <1>9, <1>11, <1>15 DEF Rebound

LEMMA ResolveToAstFacts ==
  ASSUME SInv, NEW c \in Callers, NEW kept \in BOOLEAN, ResolveToAst(c, kept)
  PROVE  \E tree \in TreeSet : /\ Resolved(c, call[c].answer, tree)
                               /\ Rebound(tree, heap[call[c].answer])
<1> PICK t : t = call[c].answer
  OBVIOUS
<1> PICK u \in ResolverSet : u = Using(c, kept) /\ (kept => u = resolver[c])
  BY UsingFacts
<1>1. /\ call[c].pc = "idle" /\ t # 0
      /\ count.events < MaxEvents /\ count' = [count EXCEPT !.events = @ + 1]
      /\ UNCHANGED <<files, compiled, cache, call, floor>>
  BY DEF ResolveToAst, Resolving, Happens
<1>2. t \in 1 .. MaxTrees /\ heap[t] \in TreeSet
  BY <1>1, HeldFacts DEF SInv
<1>3. PICK a \in Attributed \cup {None} : a = AttributesOf(t)
  BY DEF AttributesOf
<1>4. PICK i \in 0 .. MaxTrees : i = IF u.indexed = 0 THEN t ELSE u.indexed
  BY <1>2 DEF ResolverSet
<1>5. PICK now : now = [attributes |-> a, indexed |-> i]
  OBVIOUS
<1>6. now \in ResolverSet /\ now.attributes = a /\ now.indexed = i
  BY <1>5 DEF ResolverSet
<1>7. /\ resolver' = IF kept THEN [resolver EXCEPT ![c] = now] ELSE resolver
      /\ heap' = [heap EXCEPT ![t].refs = Bound(t, now), ![t].docinfo = WithDocinfo(t, now)]
  BY <1>3, <1>4, <1>5 DEF ResolveToAst
<1>8. PICK b \in {"unbound", "itself", "another", "nowhere"} : b = Bound(t, now)
  BY DEF Bound
<1>9. PICK h \in TreeSet : h = heap[t]
  BY <1>2
<1>10. WithDocinfo(t, now) = IF a \in WantsDocinfo THEN a ELSE h.docinfo
  BY <1>6, <1>9 DEF WithDocinfo
<1>11. PICK d \in WantsDocinfo \cup {None} : d = WithDocinfo(t, now)
  BY <1>10 DEF TreeSet
<1>12. PICK tree : tree = [h EXCEPT !.refs = b, !.docinfo = d]
  OBVIOUS
<1>13. Rebound(tree, h)
  BY <1>8, <1>9, <1>11, <1>12 DEF Rebound, TreeSet
<1>14. heap' = [heap EXCEPT ![t].refs = b, ![t].docinfo = d]
  BY <1>7, <1>8, <1>11, Zenon
<1>15. heap' = [heap EXCEPT ![t] = tree]
  BY <1>2, <1>9, <1>12, <1>14 DEF SInv, TypeInv, HeapSet
<1>16. resolver \in [Callers -> ResolverSet]
  BY DEF SInv, TypeInv
<1>17. /\ resolver' \in [Callers -> ResolverSet]
       /\ \A e \in Callers : /\ resolver'[e].indexed \in {resolver[e].indexed, t}
                             /\ resolver[e].indexed # 0 => resolver'[e].indexed = resolver[e].indexed
  BY <1>4, <1>6, <1>7, <1>16
<1>18. Resolved(c, t, tree)
  BY <1>1, <1>15, <1>17 DEF Resolved
<1> QED BY <1>9, <1>13, <1>18 DEF Rebound

-----------------------------------------------------------------------------
(* The invariant                                                           *)

LEMMA InitInv == ASSUME Init PROVE SInv
<1>1. /\ files = [include |-> 0, grammar |-> 1] /\ floor = files
      /\ compiled = <<>> /\ cache = <<>>
      /\ heap = [t \in 1 .. MaxTrees |-> None]
      /\ call = [c \in Callers |-> Idle]
      /\ resolver = [c \in Callers |-> [attributes |-> None, indexed |-> 0]]
      /\ count = [calls |-> 0, events |-> 0]
  BY DEF Init
<1>2. files \in Versions /\ Older(floor, files)
  BY <1>1, Bounds DEF Versions, Older
<1>3. /\ count \in [calls : Nat, events : 0 .. MaxEvents]
      /\ files.include + files.grammar <= count.events + 1
  BY <1>1, Bounds
<1>4. cache \in Seq(EntrySet) /\ DOMAIN cache = {} /\ Len(cache) = 0 /\ DOMAIN compiled = {}
  BY <1>1
<1>5. heap \in HeapSet
  BY <1>1 DEF HeapSet
<1>6. call \in [Callers -> CallSet]
  BY <1>1, IdleFacts
<1>7. resolver \in [Callers -> ResolverSet]
  <2>1. 0 \in 0 .. MaxTrees
    BY Bounds
  <2> QED BY <1>1, <2>1 DEF ResolverSet
<1>8. TypeInv
  BY <1>1, <1>2, <1>3, <1>4, <1>5, <1>6, <1>7 DEF TypeInv
<1>9. \A c \in Callers : /\ call[c].pc = "idle" /\ call[c].tree = 0 /\ call[c].answer = 0
                         /\ call[c].error = None /\ resolver[c].indexed = 0
                         /\ call[c].main = 0
  BY <1>1, IdleFacts
<1>10. Cached = {} /\ Making = {} /\ \A t \in 1 .. MaxTrees : t \notin Used
  <2>1. \A t \in 1 .. MaxTrees : t # 0
    OBVIOUS
  <2> QED BY <1>4, <1>9, <2>1 DEF Cached, Making, Used, InUse
<1>11. UseInv
  BY <1>1, <1>10 DEF UseInv
<1>12. CleanInv /\ OwnInv
  BY <1>9, <1>10 DEF CleanInv, OwnInv
<1>13. CacheInv
  BY <1>4, Bounds DEF CacheInv
<1>14. CallsInv /\ Outcomes
  BY <1>9 DEF CallsInv, CallInv, Begins, HasRead, HasParser, HasCells, HasTree, Outcomes,
              Explained
<1>15. CellsInv
  BY <1>1 DEF CellsInv
<1> QED BY <1>8, <1>11, <1>12, <1>13, <1>14, <1>15 DEF SInv

LEMMA NextInv == ASSUME SInv, [Next]_vars PROVE SInv'
<1>1. ASSUME NEW c \in Callers, NEW r \in Requests, Begin(c, r) PROVE SInv'
  BY <1>1, BeginStep
<1>2. ASSUME NEW c \in Callers, Step(c) PROVE SInv'
  BY <1>2, PreprocessStep, StatStep, FetchStep, OpenStep, CompileStep, ParseStep,
     ParseCellStep, KeepStep, CopyStep DEF Step
<1>3. ASSUME NEW c \in Callers, NEW kept \in BOOLEAN, ResolveToAst(c, kept) \/ Resolve(c, kept)
      PROVE  SInv'
  <2>1. PICK tree \in TreeSet : /\ Resolved(c, call[c].answer, tree)
                                 /\ Rebound(tree, heap[call[c].answer])
    BY <1>3, ResolveToAstFacts, ResolveFacts
  <2> QED BY <2>1, ResolvedStep
<1>4. ASSUME NEW kind \in {"include", "grammar"}, Write(kind) PROVE SInv'
  BY <1>4, WriteStep
<1>5. CASE ClearParsers
  BY <1>5, ClearParsersStep
<1>6. CASE ClearTrees
  BY <1>6, ClearTreesStep
<1>7. CASE UNCHANGED vars
  <2>1. UNCHANGED <<files, compiled, cache, heap, call, resolver, floor, count>>
    BY <1>7 DEF vars
  <2>2. TypeInv'
    BY <2>1 DEF SInv, TypeInv, HeapSet
  <2>7. Older(files, files')
    BY <2>1, OlderFacts DEF SInv, TypeInv
  <2>3. UseInv' /\ CleanInv' /\ OwnInv' /\ CellsInv'
    BY <2>1, <2>2, <2>7, QuietTrees
  <2>4. CacheInv'
    BY <2>1 DEF SInv, CacheInv
  <2>5. CallsInv'
    <3>1. ASSUME NEW c \in Callers PROVE CallInv(call[c])'
      <4>1. CallInv(call[c])
        BY DEF SInv, CallsInv
      <4>2. Begins(call[c])' /\ HasRead(call[c])'
        BY <2>1, <4>1 DEF CallInv, Begins, HasRead
      <4>3. HasParser(call[c])' /\ HasTree(call[c])' /\ HasCells(call[c])'
        BY <2>1, <4>1 DEF CallInv, HasParser, HasTree, HasCells, SchemesAt
      <4> QED BY <2>1, <4>1, <4>2, <4>3 DEF CallInv
    <3> QED BY <3>1 DEF CallsInv
  <2>6. Outcomes'
    BY <2>1 DEF SInv, Outcomes
  <2> QED BY <2>2, <2>3, <2>4, <2>5, <2>6 DEF SInv
<1> QED BY <1>1, <1>2, <1>3, <1>4, <1>5, <1>6, <1>7 DEF Next

LEMMA Invariant == Spec => []SInv
<1>1. Init => SInv
  BY InitInv
<1>2. SInv /\ [Next]_vars => SInv'
  BY NextInv
<1> QED BY <1>1, <1>2, PTL DEF Spec

\* Every variable of the session has its type, whatever the threads, the writers
\* and those who clear the caches do: what a cache, a call, an outcome or a
\* resolver refers to is a tree that is there (lark_parser.py, resolver.py).
THEOREM TypeCorrect == Spec => []TypeOK
<1>1. ASSUME SInv PROVE TypeOK
  <2>1. files \in Versions /\ floor \in Versions
    BY <1>1 DEF SInv, TypeInv
  <2>2. \A k \in DOMAIN compiled : compiled[k] \in 1 .. files.grammar
    BY <1>1 DEF SInv, TypeInv
  <2>3. Trees = 1 .. MaxTrees /\ \A t \in Trees : heap[t] \in TreeSet \cup {None}
    BY <1>1 DEF SInv, TypeInv, HeapSet, Trees
  <2>4. \A t \in InUse(cache, call, resolver) \ {0} : heap[t] \in TreeSet
    <3> SUFFICES ASSUME NEW t \in Used, t # 0 PROVE heap[t] \in TreeSet
      BY DEF Used
    <3>1. t \in 0 .. MaxTrees
      BY <1>1, UsedFacts DEF SInv, TypeInv, Used
    <3>2. t \in 1 .. MaxTrees
      BY <3>1, Bounds
    <3> QED BY <1>1, <3>2 DEF SInv, TypeInv, HeapSet, UseInv
  <2>5. ASSUME NEW c \in Callers
        PROVE  /\ call[c].pc \in Pcs
               /\ call[c].pc \in {"keep", "copy"} <=> call[c].tree # 0
               /\ call[c].error # None => call[c].answer = 0 /\ call[c].pc = "idle"
               /\ resolver[c].attributes \in Attributed \cup {None}
    <3>1. call[c] \in CallSet /\ resolver[c] \in ResolverSet
      BY <1>1 DEF SInv, TypeInv
    <3>2. CallInv(call[c])
      BY <1>1 DEF SInv, CallsInv
    <3> QED BY <3>1, <3>2 DEF CallSet, ResolverSet, CallInv, Begins, HasTree
  <2> QED BY <2>1, <2>2, <2>3, <2>4, <2>5 DEF TypeOK, Pcs
<1> QED BY <1>1, Invariant, PTL

\* The copies that parse_to_ast makes of a cached tree are as good as the tree
\* was parsed: no caller and no resolver ever has a cached tree, nor one about to
\* be copied; it is unresolved, of a text without a fault of the whole, and under
\* its own key; and the lru_cache holds a key once and no more than maxsize keys
\* (lark_parser.py, _cached_parse_to_ast and the copy.deepcopy of parse_to_ast).
THEOREM CopiesArePristine == Spec => []CachePristine
<1>1. ASSUME SInv PROVE CachePristine
  <2>1. Len(cache) <= MaxEntries
    BY <1>1 DEF SInv, CacheInv
  <2>2. \A i, j \in DOMAIN cache : cache[i].key = cache[j].key => i = j
    BY <1>1 DEF SInv, CacheInv
  <2>3. \A i \in DOMAIN cache :
          cache[i].key = <<heap[cache[i].tree].text, heap[cache[i].tree].schemes>>
    BY <1>1 DEF SInv, CacheInv
  <2>4. ASSUME NEW t \in Cached \cup Making
        PROVE  /\ heap[t].refs = "unbound" /\ heap[t].docinfo = None
               /\ FaultsOf[heap[t].text][heap[t].include] = {}
               /\ \A c \in Callers : call[c].answer # t /\ resolver[c].indexed # t
    <3>1. Clean(t) /\ \A c \in Callers : call[c].answer # t /\ resolver[c].indexed # t
      BY <1>1 DEF SInv, CleanInv
    <3> QED BY <3>1 DEF Clean
  <2>5. {call[c].tree : c \in {d \in Callers : call[d].pc = "copy"}} \subseteq Making
    <3> SUFFICES ASSUME NEW c \in Callers, call[c].pc = "copy" PROVE call[c].tree \in Making
      OBVIOUS
    <3>1. call[c].tree # 0
      BY <1>1 DEF SInv, CallsInv, CallInv, HasTree
    <3> QED BY <3>1 DEF Making
  <2>6. \A c, d \in Callers : call[c].answer = call[d].answer => c = d \/ call[c].answer = 0
    BY <1>1 DEF SInv, OwnInv
  <2> QED BY <2>1, <2>2, <2>3, <2>4, <2>5, <2>6 DEF CachePristine, Cached
<1> QED BY <1>1, Invariant, PTL

\* Every outcome of parse_to_ast has its reason in what the call read: an answer
\* is for a text that its mode accepts and has all of its table cells, raw where
\* they cannot be parsed; a warning is for a bulleted term, an error for a fault
\* that the mode refuses.  The KeyError of get_document_parser, and the raw cell that
\* table_cell makes of one, need a clear_parser_cache between two look-ups.
THEOREM OutcomesHaveReasons == Spec => []OutcomesExplained
<1>1. ASSUME SInv PROVE OutcomesExplained
  <2>1. ASSUME NEW c \in Callers PROVE Explained(call[c])
    BY <1>1 DEF SInv, Outcomes
  <2>2. ASSUME NEW c \in Callers, call[c].answer # 0
        PROVE  LET tree == heap[call[c].answer]
                   may == CellsOf[tree.text][tree.include]
               IN  /\ Len(tree.cells) = Len(may)
                   /\ \A n \in DOMAIN may : tree.cells[n] = 0 => ~may[n] \/ tree.lost
    <3> PICK tree : tree = heap[call[c].answer]
      OBVIOUS
    <3> PICK may : may = CellsOf[tree.text][tree.include]
      OBVIOUS
    <3>1. call[c].answer \in 1 .. MaxTrees /\ tree \in TreeSet
      BY <1>1, <2>2, HeldFacts DEF SInv
    <3>2. TreeCells(tree, files.grammar)
      BY <1>1, <3>1, NoneAssumption DEF SInv, CellsInv
    <3>3. Len(tree.cells) = Len(may) /\ CellsMade(tree.cells, may, tree.grammar, files.grammar, tree.lost)
      BY <3>2 DEF TreeCells
    <3>4. DOMAIN may = 1 .. Len(may) /\ tree.grammar \in Nat \ {0}
      <4>1. tree.text \in Texts /\ tree.include \in 0 .. MaxEvents
        BY <3>1 DEF TreeSet
      <4>2. may \in Seq(BOOLEAN)
        BY <4>1, SessionAssumption
      <4> QED BY <3>1, <4>2, Numbers, LenProperties
    <3>5. \A n \in DOMAIN may : tree.cells[n] = 0 => ~may[n] \/ tree.lost
      <4> SUFFICES ASSUME NEW n \in DOMAIN may, tree.cells[n] = 0 PROVE ~may[n] \/ tree.lost
        OBVIOUS
      <4>1. n \in 1 .. Len(tree.cells)
        BY <3>3, <3>4
      <4>2. ~(tree.grammar <= tree.cells[n])
        BY <3>4
      <4> QED BY <3>3, <4>1, <4>2 DEF CellsMade
    <3> QED BY <3>3, <3>5
  <2> QED BY <2>1, <2>2 DEF OutcomesExplained, Explained, FaultsSeen
<1> QED BY <1>1, Invariant, PTL

\* resolve_to_ast, the module function, resolves with a resolver of its own: it
\* binds references within the tree that it is given and sets the docinfo of that
\* tree's text, whatever other callers do meanwhile and did before (resolver.py).
THEOREM ResolvesItsOwn == Spec => OwnUnlessKept
<1>1. ASSUME SInv, NEW c \in Callers, ResolveToAst(c, FALSE)
      PROVE  LET t == call[c].answer IN
               /\ heap'[t].refs = IF heap[t].text \in Anchored THEN "itself" ELSE "nowhere"
               /\ heap'[t].text \in WantsDocinfo => heap'[t].docinfo = heap[t].text
  <2> PICK t : t = call[c].answer
    OBVIOUS
  <2> PICK now : now = [attributes |-> AttributesOf(t), indexed |-> t]
    OBVIOUS
  <2>1. t \in 1 .. MaxTrees /\ heap[t] \in TreeSet
    BY <1>1, HeldFacts DEF SInv, ResolveToAst, Resolving
  <2>2. heap' = [heap EXCEPT ![t].refs = Bound(t, now), ![t].docinfo = WithDocinfo(t, now)]
    BY <1>1 DEF ResolveToAst, Using, Fresh
  <2>3. Bound(t, now) = IF heap[t].text \in Anchored THEN "itself" ELSE "nowhere"
    BY DEF Bound
  <2>4. heap[t].text \in WantsDocinfo => WithDocinfo(t, now) = heap[t].text
    BY SessionAssumption DEF WithDocinfo, AttributesOf
  <2>5. /\ heap'[t].refs = Bound(t, now) /\ heap'[t].docinfo = WithDocinfo(t, now)
        /\ heap'[t].text = heap[t].text
    BY <1>1, <2>1, <2>2 DEF SInv, TypeInv, HeapSet, TreeSet
  <2> QED BY <2>3, <2>4, <2>5
<1>2. SInv /\ [Next]_vars =>
        [\A c \in Callers :
           LET t == call[c].answer IN
           ResolveToAst(c, FALSE) =>
             /\ heap'[t].refs = IF heap[t].text \in Anchored THEN "itself" ELSE "nowhere"
             /\ heap'[t].text \in WantsDocinfo => heap'[t].docinfo = heap[t].text]_vars
  BY <1>1
<1> QED BY <1>2, Invariant, PTL DEF Spec, OwnUnlessKept

-----------------------------------------------------------------------------
(* The session implements the service                                      *)

Held ==
  [c \in Callers |->
     IF call[c].error # None THEN [is |-> "error", error |-> call[c].error]
     ELSE IF call[c].answer = 0 THEN [is |-> "nothing"]
     ELSE Shown(heap[call[c].answer])]

LEMMA OneChanges ==
  ASSUME NEW S, NEW f, f = [d \in S |-> f[d]], NEW g, g = [d \in S |-> g[d]], NEW c \in S,
         \A d \in S : d # c => g[d] = f[d]
  PROVE  g = [f EXCEPT ![c] = g[c]]
OBVIOUS

LEMMA FunctionsOfCallers ==
  /\ Asked = [d \in Callers |-> Asked[d]] /\ Asked' = [d \in Callers |-> Asked'[d]]
  /\ Held = [d \in Callers |-> Held[d]] /\ Held' = [d \in Callers |-> Held'[d]]
BY DEF Asked, Held

\* A tree that was used and still is stays what it is.
TreesKept == \A t \in 1 .. MaxTrees : t \in Used /\ t \in Used' => heap'[t] = heap[t]

LEMMA KeptWhenCollected ==
  ASSUME SInv, heap' = Collected(heap, cache', call', resolver') PROVE TreesKept
<1>1. heap \in HeapSet
  BY DEF SInv, TypeInv
<1> QED BY <1>1, CollectedFacts DEF SInv, TreesKept

LEMMA KeptWhenNew ==
  ASSUME SInv, NEW tree \in TreeSet, NEW n, n = NewTree,
         heap' = Collected([heap EXCEPT ![n] = tree], cache', call', resolver')
  PROVE  TreesKept /\ (n \in Used' => heap'[n] = tree)
<1>1. n \in 1 .. MaxTrees /\ n \notin Used
  BY NewTreeFacts DEF SInv, CacheInv
<1> PICK h : h = [heap EXCEPT ![n] = tree]
  OBVIOUS
<1>2. h \in HeapSet /\ \A t \in 1 .. MaxTrees : h[t] = IF t = n THEN tree ELSE heap[t]
  BY <1>1 DEF SInv, TypeInv, HeapSet
<1>3. heap' = Collected(h, cache', call', resolver')
  OBVIOUS
<1>4. \A t \in 1 .. MaxTrees : heap'[t] = IF t \in Used' THEN h[t] ELSE None
  BY <1>2, <1>3, CollectedFacts DEF SInv
<1> QED BY <1>1, <1>2, <1>4 DEF TreesKept

\* What the service sees of a caller depends on these alone.
LEMMA SameCaller ==
  ASSUME SInv, TreesKept, NEW d \in Callers,
         call'[d].pc = call[d].pc, call'[d].req = call[d].req, call'[d].then = call[d].then,
         call'[d].low = call[d].low, call'[d].answer = call[d].answer,
         call'[d].error = call[d].error
  PROVE  Asked'[d] = Asked[d] /\ Held'[d] = Held[d]
<1>1. Asked'[d] = Asked[d]
  BY DEF Asked
<1>2. call[d].answer # 0 => heap'[call[d].answer] = heap[call[d].answer]
  <2> SUFFICES ASSUME call[d].answer # 0 PROVE heap'[call[d].answer] = heap[call[d].answer]
    OBVIOUS
  <2>1. call[d].answer \in 1 .. MaxTrees /\ call[d].answer \in Used
    BY HeldFacts DEF SInv
  <2>2. call[d].answer \in Used'
    <3>1. call[d].answer = call'[d].answer
      OBVIOUS
    <3> QED BY <3>1 DEF Used, InUse
  <2> QED BY <2>1, <2>2 DEF TreesKept
<1>3. Held'[d] = Held[d]
  BY <1>2 DEF Held
<1> QED BY <1>1, <1>3

\* A step that the service does not see: the call goes on.
LEMMA Stutters ==
  ASSUME SInv, SInv', TreesKept, NEW c \in Callers, NEW j, Changed(c, j),
         call[c].pc # "idle", j.pc # "idle", j.req = call[c].req, j.then = call[c].then,
         j.low = call[c].low, UNCHANGED <<files, floor>>
  PROVE  UNCHANGED <<files, floor, Asked, Held>>
<1>1. ASSUME NEW d \in Callers, d # c PROVE Asked'[d] = Asked[d] /\ Held'[d] = Held[d]
  BY <1>1, SameCaller DEF Changed
<1>2. call[c].answer = 0 /\ call[c].error = None
  BY DEF SInv, CallsInv, CallInv, Begins
<1>3. call'[c].answer = 0 /\ call'[c].error = None
  <2>1. call'[c].pc # "idle"
    BY DEF Changed
  <2> QED BY <2>1 DEF SInv, CallsInv, CallInv, Begins
<1>4. Asked'[c] = Asked[c]
  BY DEF Asked, Changed
<1>5. Held'[c] = Held[c]
  BY <1>2, <1>3 DEF Held
<1>6. \A d \in Callers : Asked'[d] = Asked[d] /\ Held'[d] = Held[d]
  BY <1>1, <1>4, <1>5
<1>7. Asked' = Asked /\ Held' = Held
  BY <1>6, FunctionsOfCallers, Zenon
<1> QED BY <1>7

\* A call ends with an outcome.
LEMMA Ending ==
  ASSUME SInv, SInv', TreesKept, NEW c \in Callers, NEW j, Changed(c, j),
         call[c].pc # "idle", j.pc = "idle"
  PROVE  /\ Asked[c] # None /\ Asked' = [Asked EXCEPT ![c] = None]
         /\ Held' = [Held EXCEPT ![c] = Held'[c]]
<1>1. ASSUME NEW d \in Callers, d # c PROVE Asked'[d] = Asked[d] /\ Held'[d] = Held[d]
  BY <1>1, SameCaller DEF Changed
<1>2. Asked[c] # None
  BY AskedFacts DEF SInv
<1>3. Asked'[c] = None
  BY DEF Asked, Changed
<1>4. Asked' = [Asked EXCEPT ![c] = Asked'[c]]
  <2> PICK f, g : f = Asked /\ g = Asked'
    OBVIOUS
  <2>1. f = [d \in Callers |-> f[d]] /\ g = [d \in Callers |-> g[d]]
    BY FunctionsOfCallers
  <2>2. \A d \in Callers : d # c => g[d] = f[d]
    BY <1>1
  <2>3. g = [f EXCEPT ![c] = g[c]]
    BY <2>1, <2>2, OneChanges
  <2> QED BY <2>3
<1>5. Held' = [Held EXCEPT ![c] = Held'[c]]
  <2> PICK f, g : f = Held /\ g = Held'
    OBVIOUS
  <2>1. f = [d \in Callers |-> f[d]] /\ g = [d \in Callers |-> g[d]]
    BY FunctionsOfCallers
  <2>2. \A d \in Callers : d # c => g[d] = f[d]
    BY <1>1
  <2>3. g = [f EXCEPT ![c] = g[c]]
    BY <2>1, <2>2, OneChanges
  <2> QED BY <2>3
<1> QED BY <1>2, <1>3, <1>4, <1>5

LEMMA EndsFailing ==
  ASSUME SInv, SInv', TreesKept, NEW c \in Callers, NEW j, Changed(c, j),
         call[c].pc # "idle", j.pc = "idle", NEW e \in Faults \cup {"KeyError"}, j.error = e,
         UNCHANGED <<files, floor>>
  PROVE  Service!Fail(c)
<1>1. /\ Asked[c] # None /\ Asked' = [Asked EXCEPT ![c] = None]
      /\ Held' = [Held EXCEPT ![c] = Held'[c]]
  BY Ending
<1>2. e # None
  BY NoneAssumption
<1>3. Held'[c] = Service!Raised(e)
  BY <1>2 DEF Held, Service!Raised, Changed
<1>4. Held' = [Held EXCEPT ![c] = Service!Raised(e)]
  BY <1>1, <1>3
<1> QED BY <1>1, <1>4 DEF Service!Fail, Held

\* The cells of a tree are as the service makes them.
LEMMA CellsOfTree ==
  ASSUME SInv, NEW tree \in TreeSet, TreeCells(tree, files.grammar)
  PROVE  tree.cells \in Service!Cells(CellsOf[tree.text][tree.include], tree.grammar, files.grammar)
<1> PICK may : may = CellsOf[tree.text][tree.include]
  OBVIOUS
<1> PICK cells : cells = tree.cells
  OBVIOUS
<1>1. tree.text \in Texts /\ tree.include \in 0 .. MaxEvents /\ cells \in Seq(0 .. MaxEvents + 1)
  BY DEF TreeSet
<1>2. may \in Seq(BOOLEAN)
  BY <1>1, SessionAssumption
<1>3. Len(cells) = Len(may) /\ CellsMade(cells, may, tree.grammar, files.grammar, tree.lost)
  BY DEF TreeCells
<1>4. DOMAIN may = 1 .. Len(may) /\ DOMAIN cells = 1 .. Len(cells)
  BY <1>1, <1>2, LenProperties
<1>5. \A n \in 1 .. Len(cells) : cells[n] \in Nat
  BY <1>1, CellNumbers
<1>6. tree.grammar \in Nat \ {0} /\ files.grammar \in Nat
  BY Numbers DEF SInv, TypeInv
<1>7. \A n \in DOMAIN may : /\ cells[n] \in {0} \cup tree.grammar .. files.grammar
                            /\ ~may[n] => cells[n] = 0
  <2> SUFFICES ASSUME NEW n \in DOMAIN may
               PROVE  /\ cells[n] \in {0} \cup tree.grammar .. files.grammar
                      /\ ~may[n] => cells[n] = 0
    OBVIOUS
  <2>1. n \in 1 .. Len(cells) /\ cells[n] \in Nat
    BY <1>3, <1>4, <1>5
  <2>2. \/ cells[n] = 0
        \/ tree.grammar <= cells[n] /\ cells[n] <= files.grammar /\ may[n]
    BY <1>3, <2>1 DEF CellsMade
  <2> QED BY <1>6, <2>1, <2>2
<1>8. cells = [n \in DOMAIN may |-> cells[n]]
  <2>1. cells = [n \in DOMAIN cells |-> cells[n]]
    BY <1>1
  <2> QED BY <1>3, <1>4, <2>1
<1>9. cells \in [DOMAIN may -> {0} \cup tree.grammar .. files.grammar]
  BY <1>7, <1>8
<1> QED BY <1>7, <1>9 DEF Service!Cells

LEMMA EndsAnswering ==
  ASSUME SInv, SInv', TreesKept, NEW c \in Callers, NEW j, Changed(c, j),
         call[c].pc # "idle", j.pc = "idle", j.error = None, j.answer # 0,
         NEW tree \in TreeSet, heap'[j.answer] = tree, TreeCells(tree, files.grammar),
         tree.text = Asked[c].req.text, tree.schemes = Asked[c].req.schemes,
         tree.refs = "unbound", tree.docinfo = None,
         tree.include \in Service!Lowest(Asked[c]).include .. files.include,
         tree.grammar \in Service!Lowest(Asked[c]).grammar .. files.grammar,
         UNCHANGED <<files, floor>>
  PROVE  Service!Answer(c)
<1>1. /\ Asked[c] # None /\ Asked' = [Asked EXCEPT ![c] = None]
      /\ Held' = [Held EXCEPT ![c] = Held'[c]]
  BY Ending
<1>2. Held'[c] = Shown(tree)
  BY DEF Held, Changed
<1>3. PICK i, g, cells : i = tree.include /\ g = tree.grammar /\ cells = tree.cells
  OBVIOUS
<1>4. Shown(tree) = Service!Made(Asked[c].req, i, g, cells)
  <2>1. tree.is = "tree"
    BY DEF TreeSet
  <2> QED BY <1>3, <2>1 DEF Shown, Service!Made
<1>5. Held' = [Held EXCEPT ![c] = Service!Made(Asked[c].req, i, g, cells)]
  BY <1>1, <1>2, <1>4
<1>6. cells \in Service!Cells(CellsOf[Asked[c].req.text][i], g, files.grammar)
  BY <1>3, CellsOfTree
<1>7. /\ i \in Service!Lowest(Asked[c]).include .. files.include
      /\ g \in Service!Lowest(Asked[c]).grammar .. files.grammar
  BY <1>3
<1>8. \E v \in Service!Lowest(Asked[c]).include .. files.include,
         w \in Service!Lowest(Asked[c]).grammar .. files.grammar :
        \E made \in Service!Cells(CellsOf[Asked[c].req.text][v], w, files.grammar) :
          Held' = [Held EXCEPT ![c] = Service!Made(Asked[c].req, v, w, made)]
  BY <1>5, <1>6, <1>7, Zenon
<1> QED BY ZenonT(30), <1>1, <1>8 DEF Service!Answer, Held

LEMMA BeginAsks ==
  ASSUME SInv, SInv', NEW c \in Callers, NEW r \in Requests, Begin(c, r)
  PROVE  Service!Ask(c, r)
<1> PICK s : s = [Idle EXCEPT !.pc = "preprocess", !.req = r, !.then = files, !.low = floor]
  OBVIOUS
<1>1. /\ s \in CallSet /\ s.pc = "preprocess" /\ s.req = r /\ s.then = files /\ s.low = floor
  BY BegunFacts DEF SInv
<1>2. call[c].pc = "idle" /\ UNCHANGED <<files, floor, resolver>>
  BY DEF Begin
<1>3. heap' = Collected(heap, cache', call', resolver')
  BY <1>2 DEF Begin
<1>4. TreesKept
  BY <1>3, KeptWhenCollected
<1>5. /\ \A d \in Callers : d # c => call'[d] = call[d]
      /\ call'[c].pc # "idle" /\ call'[c].req = r /\ call'[c].then = files
      /\ call'[c].low = floor
  <2>1. call \in [Callers -> CallSet]
    BY DEF SInv, TypeInv
  <2>2. CASE call' = [call EXCEPT ![c] = s]
    BY <1>1, <2>1, <2>2
  <2>3. ASSUME NEW t, NEW i, call' = [call EXCEPT ![c] = [s EXCEPT !.pc = "copy", !.tree = t,
                                                                   !.include = i]]
        PROVE  /\ \A d \in Callers : d # c => call'[d] = call[d]
               /\ call'[c].pc # "idle" /\ call'[c].req = r /\ call'[c].then = files
               /\ call'[c].low = floor
    <3> PICK j : j = [s EXCEPT !.pc = "copy", !.tree = t, !.include = i]
      OBVIOUS
    <3>1. j.pc = "copy" /\ j.req = r /\ j.then = files /\ j.low = floor
      BY <1>1 DEF CallSet
    <3>2. call'[c] = j /\ \A d \in Callers : d # c => call'[d] = call[d]
      BY <2>1, <2>3
    <3> QED BY <3>1, <3>2
  <2> QED BY <2>2, <2>3 DEF Begin
<1>6. ASSUME NEW d \in Callers, d # c PROVE Asked'[d] = Asked[d] /\ Held'[d] = Held[d]
  BY <1>4, <1>5, <1>6, SameCaller
<1>7. Asked[c] = None
  BY <1>2 DEF Asked
<1>8. Asked'[c] = [req |-> r, then |-> files, low |-> floor]
  BY <1>5 DEF Asked
<1>9. Held'[c] = Service!Nothing
  <2>1. call'[c].answer = 0 /\ call'[c].error = None
    BY <1>5 DEF SInv, CallsInv, CallInv, Begins
  <2> QED BY <2>1 DEF Held, Service!Nothing
<1>10. Asked' = [Asked EXCEPT ![c] = [req |-> r, then |-> files, low |-> floor]]
  <2> PICK f, g : f = Asked /\ g = Asked'
    OBVIOUS
  <2>1. f = [d \in Callers |-> f[d]] /\ g = [d \in Callers |-> g[d]]
    BY FunctionsOfCallers
  <2>2. \A d \in Callers : d # c => g[d] = f[d]
    BY <1>6
  <2>3. g = [f EXCEPT ![c] = g[c]]
    BY <2>1, <2>2, OneChanges
  <2> QED BY <1>8, <2>3
<1>11. Held' = [Held EXCEPT ![c] = Service!Nothing]
  <2> PICK f, g : f = Held /\ g = Held'
    OBVIOUS
  <2>1. f = [d \in Callers |-> f[d]] /\ g = [d \in Callers |-> g[d]]
    BY FunctionsOfCallers
  <2>2. \A d \in Callers : d # c => g[d] = f[d]
    BY <1>6
  <2>3. g = [f EXCEPT ![c] = g[c]]
    BY <2>1, <2>2, OneChanges
  <2> QED BY <1>9, <2>3
<1> QED BY <1>2, <1>7, <1>10, <1>11 DEF Service!Ask, Held

\* The service sees nothing of the step.
Unseen == UNCHANGED <<files, floor, Asked, Held>>

LEMMA PreprocessMaps ==
  ASSUME SInv, SInv', NEW c \in Callers, Preprocess(c) PROVE Unseen \/ Service!Fail(c)
<1> PICK k \in CallSet : k = call[c]
  BY DEF SInv, TypeInv
<1>1. k.pc = "preprocess" /\ UNCHANGED <<files, cache, resolver, floor>>
  BY DEF Preprocess
<1>2. heap' = Collected(heap, cache', call', resolver')
  BY <1>1 DEF Preprocess
<1>3. TreesKept
  BY <1>2, KeptWhenCollected
<1>4. files.include \in 0 .. MaxEvents
  BY DEF SInv, TypeInv, Versions
<1>5. CASE call' = [call EXCEPT ![c] = [k EXCEPT !.pc = "stat", !.include = files.include]]
  <2> PICK j : j = [k EXCEPT !.pc = "stat", !.include = files.include]
    OBVIOUS
  <2>1. /\ j \in CallSet /\ j.pc = "stat" /\ j.req = k.req /\ j.then = k.then /\ j.low = k.low
    BY <1>4 DEF CallSet, Pcs
  <2>2. Changed(c, j)
    BY <1>5, <2>1, CallChanged DEF SInv
  <2> QED BY <1>1, <1>3, <2>1, <2>2, Stutters DEF Unseen
<1>6. ASSUME NEW e \in {"missing", "unclosed"},
             call' = [call EXCEPT ![c] = [Ended(c, 0, e, FALSE) EXCEPT !.include = files.include]]
      PROVE  Service!Fail(c)
  <2> PICK m : m = Ended(c, 0, e, FALSE)
    OBVIOUS
  <2>1. e \in Faults \cup {"KeyError"}
    BY DEF Faults
  <2>2. m \in CallSet /\ m.pc = "idle" /\ m.error = e
    BY <2>1, FailedFacts DEF Ends, SInv
  <2> PICK j : j = [m EXCEPT !.include = files.include]
    OBVIOUS
  <2>3. j \in CallSet /\ j.pc = "idle" /\ j.error = e
    BY <1>4, <2>2 DEF CallSet
  <2>4. Changed(c, j)
    BY <1>6, <2>3, CallChanged DEF SInv
  <2> QED BY <1>1, <1>3, <2>1, <2>3, <2>4, EndsFailing
<1>7. \/ call' = [call EXCEPT ![c] = [k EXCEPT !.pc = "stat", !.include = files.include]]
      \/ \E e \in {"missing", "unclosed"} :
           call' = [call EXCEPT ![c] = [Ended(c, 0, e, FALSE) EXCEPT !.include = files.include]]
  BY DEF Preprocess, SInv, TypeInv
<1> QED BY <1>5, <1>6, <1>7

LEMMA RaiseFails ==
  ASSUME SInv, SInv', NEW c \in Callers, call[c].pc # "idle",
         NEW e \in Faults \cup {"KeyError"}, Raise(c, e)
  PROVE  Service!Fail(c)
<1> PICK j : j = Ended(c, 0, e, FALSE)
  OBVIOUS
<1>1. j \in CallSet /\ j.pc = "idle" /\ j.error = e
  BY FailedFacts DEF Ends, SInv
<1>2. Changed(c, j)
  BY <1>1, CallChanged DEF Raise, SInv
<1>3. heap' = Collected(heap, cache', call', resolver') /\ UNCHANGED <<files, floor>>
  BY DEF Raise
<1>4. TreesKept
  BY <1>3, KeptWhenCollected
<1> QED BY <1>1, <1>2, <1>3, <1>4, EndsFailing

\* Looking up, opening and compiling a parser.
LEMMA ParserUnseen ==
  ASSUME SInv, SInv', NEW c \in Callers,
         \/ Stat(c) \/ Open(c) \/ Compile(c)
         \/ (Fetch(c) /\ (ParserKey(c) \in DOMAIN compiled \/ Nested(c)))
  PROVE  Unseen
<1> PICK k \in CallSet : k = call[c]
  BY DEF SInv, TypeInv
<1>1. k.pc # "idle" /\ UNCHANGED <<files, cache, heap, resolver, floor>>
  BY Zenon DEF Stat, Open, Compile, Fetch
<1>2. TreesKept
  BY <1>1 DEF TreesKept
<1>3. PICK p, q, s : /\ p \in Pcs \ {"idle"}
                     /\ call' = [call EXCEPT ![c].pc = p, ![c].parser = q, ![c].stamp = s]
  <2>1. call \in [Callers -> CallSet] /\ k \in CallSet
    BY DEF SInv, TypeInv
  <2>2. CASE Stat(c)
    <3> PICK p \in {"fetch", "open"} :
          p = IF <<files.grammar, Schemes(c)>> \in DOMAIN compiled THEN "fetch" ELSE "open"
      OBVIOUS
    <3>1. call' = [call EXCEPT ![c].pc = p, ![c].stamp = files.grammar]
      BY <2>2 DEF Stat
    <3>2. call' = [call EXCEPT ![c].pc = p, ![c].parser = k.parser, ![c].stamp = files.grammar]
      BY <2>1, <3>1 DEF CallSet
    <3> QED BY <3>2 DEF Pcs
  <2>3. CASE Open(c)
    <3>1. call' = [call EXCEPT ![c].pc = "compile", ![c].parser = files.grammar]
      BY <2>3 DEF Open
    <3>2. call' = [call EXCEPT ![c].pc = "compile", ![c].parser = files.grammar,
                               ![c].stamp = k.stamp]
      BY <2>1, <3>1 DEF CallSet
    <3> QED BY <3>2 DEF Pcs
  <2>4. CASE Compile(c)
    <3>1. call' = [call EXCEPT ![c].pc = "parse", ![c].stamp = 0]
      BY <2>4 DEF Compile
    <3>2. call' = [call EXCEPT ![c].pc = "parse", ![c].parser = k.parser, ![c].stamp = 0]
      BY <2>1, <3>1 DEF CallSet
    <3> QED BY <3>2 DEF Pcs
  <2>5. CASE Fetch(c) /\ (ParserKey(c) \in DOMAIN compiled \/ Nested(c))
    <3> PICK v : v = IF ParserKey(c) \in DOMAIN compiled THEN compiled[ParserKey(c)] ELSE 0
      OBVIOUS
    <3>1. call' = [call EXCEPT ![c].pc = "parse", ![c].stamp = 0, ![c].parser = v]
      BY <2>5, Zenon DEF Fetch
    <3>2. call' = [call EXCEPT ![c].pc = "parse", ![c].parser = v, ![c].stamp = 0]
      BY <2>1, <3>1 DEF CallSet
    <3> QED BY <3>2 DEF Pcs
  <2> QED BY <2>2, <2>3, <2>4, <2>5
<1>4. PICK j : j = [k EXCEPT !.pc = p, !.parser = q, !.stamp = s]
  OBVIOUS
<1>5. j.pc = p /\ j.req = k.req /\ j.then = k.then /\ j.low = k.low
  BY <1>4 DEF CallSet
<1>6. Changed(c, j)
  <2>1. call' = [call EXCEPT ![c] = j]
    BY <1>3, <1>4 DEF SInv, TypeInv
  <2>2. call' \in [Callers -> CallSet]
    BY DEF SInv, TypeInv
  <2> QED BY <2>1, <2>2 DEF Changed, SInv, TypeInv
<1> QED BY <1>1, <1>2, <1>3, <1>5, <1>6, Stutters DEF Unseen

LEMMA FetchMaps ==
  ASSUME SInv, SInv', NEW c \in Callers, Fetch(c) PROVE Unseen \/ Service!Fail(c)
<1>1. CASE ParserKey(c) \in DOMAIN compiled \/ Nested(c)
  BY <1>1, ParserUnseen
<1>2. CASE ParserKey(c) \notin DOMAIN compiled /\ ~Nested(c)
  <2>1. call[c].pc # "idle" /\ Raise(c, "KeyError")
    BY <1>2 DEF Fetch
  <2> QED BY <2>1, RaiseFails
<1> QED BY <1>1, <1>2

LEMMA AnsweredFacts ==
  ASSUME SInv, NEW c \in Callers, NEW t \in 0 .. MaxTrees, NEW w \in BOOLEAN,
         call' = [call EXCEPT ![c] = Ended(c, t, None, w)]
  PROVE  \E j : /\ Changed(c, j) /\ j.pc = "idle" /\ j.error = None /\ j.answer = t
                /\ t \in Used'
<1> PICK j : j = Ended(c, t, None, w)
  OBVIOUS
<1>1. Ends(j, c, t, None, w)
  <2>1. None \in Faults \cup {"KeyError", None} /\ TypeInv
    BY DEF SInv
  <2> QED BY <2>1, EndedFacts, Zenon
<1>2. Changed(c, j)
  BY <1>1, CallChanged DEF Ends, SInv
<1>3. t \in Used'
  BY <1>1, <1>2 DEF Used, InUse, Ends, Changed
<1> QED BY <1>1, <1>2, <1>3 DEF Ends

LEMMA AuditMaps ==
  ASSUME SInv, SInv', NEW c \in Callers, NEW main, NEW cells, MadeSoFar(c, main, cells),
         Len(cells) = Len(CellsSeen(c)), Audit(c, main, cells)
  PROVE  Unseen \/ Service!Fail(c) \/ Service!Answer(c)
<1> PICK k \in CallSet : k = call[c]
  BY DEF SInv, TypeInv
<1> PICK n : n = NewTree
  OBVIOUS
<1> PICK tree : tree = ParsedTree(c, main, cells)
  OBVIOUS
<1> PICK faults : faults = FaultsSeen(c)
  OBVIOUS
<1> PICK refused : refused = IF k.req.strict THEN faults \cap Anomalies ELSE {}
  OBVIOUS
<1>1. CallInv(k) /\ k.pc = "parse"
  BY DEF SInv, CallsInv, MadeSoFar
<1>2. k.req \in Requests /\ k.then \in Versions
  BY <1>1 DEF CallInv, Begins
<1>3. /\ k.then.include <= k.include /\ k.include <= files.include
      /\ k.then.grammar <= main /\ main <= files.grammar
  <2>1. main <= files.grammar
    BY Numbers DEF MadeSoFar, SInv, TypeInv
  <2> QED BY <1>1, <2>1 DEF CallInv, HasRead, MadeSoFar
<1>4. /\ k.include \in 0 .. MaxEvents /\ main \in 1 .. MaxEvents + 1
      /\ k.then.include \in Nat /\ k.then.grammar \in Nat
      /\ files.include \in Nat /\ files.grammar \in Nat
      /\ k.include \in Nat /\ main \in Nat
  <2>1. k.include \in 0 .. MaxEvents
    BY DEF CallSet
  <2>2. k.then.include \in Nat /\ k.then.grammar \in Nat \ {0}
    BY <1>2, Numbers
  <2>3. files.include \in Nat /\ files.grammar \in Nat /\ files.grammar \in 1 .. MaxEvents + 1
    BY Numbers DEF SInv, TypeInv, Versions
  <2> QED BY <2>1, <2>2, <2>3, Bounds DEF MadeSoFar
<1>5. tree = [is |-> "tree", text |-> k.req.text, schemes |-> k.req.schemes,
              include |-> k.include, grammar |-> main, cells |-> cells,
              refs |-> "unbound", docinfo |-> None, lost |-> k.cleared]
  BY DEF ParsedTree
<1>6. tree \in TreeSet
  <2>1. /\ k.req.text \in Texts /\ k.req.schemes \in {r.schemes : r \in Requests}
        /\ k.cleared \in BOOLEAN /\ cells \in Seq(0 .. MaxEvents + 1)
    BY <1>2 DEF Texts, CallSet, MadeSoFar
  <2> QED BY <1>4, <1>5, <2>1 DEF TreeSet
<1>7. n # 0 /\ n \in 0 .. MaxTrees
  BY NewTreeFacts, Bounds DEF SInv, CacheInv
<1>8. ASSUME NEW e \in refused, Raise(c, e)
      PROVE  Service!Fail(c)
  <2>1. e \in Faults
    BY <1>2, <1>8, SeenFacts
  <2>2. call[c].pc # "idle"
    BY <1>1
  <2> QED BY <1>8, <2>1, <2>2, RaiseFails
<1>9. ASSUME call' = [call EXCEPT ![c] = [@ EXCEPT !.pc = "keep", !.tree = n, !.parser = 0,
                                                   !.main = 0, !.cells = <<>>]],
             heap' = Collected([heap EXCEPT ![n] = tree], cache', call', resolver'),
             UNCHANGED <<files, floor>>
      PROVE  Unseen
  <2> PICK j : j = [k EXCEPT !.pc = "keep", !.tree = n, !.parser = 0,
                             !.main = 0, !.cells = <<>>]
    OBVIOUS
  <2>1. /\ j \in CallSet /\ j.pc = "keep" /\ j.req = k.req /\ j.then = k.then /\ j.low = k.low
    <3>1. 0 \in 0 .. MaxEvents + 1 /\ <<>> \in Seq(0 .. MaxEvents + 1)
      BY Bounds
    <3> QED BY <1>7, <3>1 DEF CallSet, Pcs
  <2>2. call' = [call EXCEPT ![c] = j]
    BY <1>9 DEF SInv, TypeInv
  <2>3. Changed(c, j)
    BY <2>1, <2>2, CallChanged DEF SInv
  <2>4. TreesKept
    BY <1>6, <1>9, KeptWhenNew
  <2> QED BY <1>1, <1>9, <2>1, <2>3, <2>4, Stutters DEF Unseen
<1>10. ASSUME ~Cacheable(k.req), NEW w \in BOOLEAN,
              call' = [call EXCEPT ![c] = Ended(c, n, None, w)],
              heap' = Collected([heap EXCEPT ![n] = tree], cache', call', resolver'),
              UNCHANGED <<files, floor>>
       PROVE  Service!Answer(c)
  <2>1. PICK j : /\ Changed(c, j) /\ j.pc = "idle" /\ j.error = None /\ j.answer = n
                 /\ n \in Used'
    BY <1>7, <1>10, AnsweredFacts, Zenon
  <2>2. TreesKept /\ heap'[n] = tree
    BY <1>6, <1>10, <2>1, KeptWhenNew
  <2>3. Asked[c].req = k.req /\ Asked[c].then = k.then
    BY <1>1, AskedFacts DEF SInv
  <2>4. Service!Lowest(Asked[c]) = k.then
    BY <1>10, <2>3 DEF Service!Lowest, Service!Cacheable, Cacheable
  <2>5. /\ tree.include \in Service!Lowest(Asked[c]).include .. files.include
        /\ tree.grammar \in Service!Lowest(Asked[c]).grammar .. files.grammar
    BY <1>3, <1>4, <1>5, <2>4
  <2>6. /\ heap'[j.answer] = tree
        /\ tree.text = Asked[c].req.text /\ tree.schemes = Asked[c].req.schemes
        /\ tree.refs = "unbound" /\ tree.docinfo = None
    BY <1>5, <2>1, <2>2, <2>3
  <2>7. call[c].pc # "idle"
    BY <1>1
  <2>8. TreeCells(tree, files.grammar)
    <3>1. CellsOf[tree.text][tree.include] = CellsSeen(c)
      BY <1>5 DEF CellsSeen
    <3> QED BY <1>5, <3>1 DEF TreeCells, MadeSoFar
  <2> QED BY <1>6, <1>7, <1>10, <2>1, <2>2, <2>5, <2>6, <2>7, <2>8, EndsAnswering
<1>11. PICK w \in BOOLEAN : w = Warns(faults, k.req.strict)
  BY DEF Warns
<1>12. CASE ~ \E e \in refused : Raise(c, e)
  <2>1. /\ call' = [call EXCEPT ![c] =
               IF Cacheable(@.req) THEN [@ EXCEPT !.pc = "keep", !.tree = n, !.parser = 0,
                                                  !.main = 0, !.cells = <<>>]
               ELSE Ended(c, n, None, Warns(faults, @.req.strict))]
        /\ heap' = Collected([heap EXCEPT ![n] = tree], cache, call', resolver)
        /\ UNCHANGED <<files, cache, resolver, floor>>
    BY <1>12 DEF Audit
  <2>2. heap' = Collected([heap EXCEPT ![n] = tree], cache', call', resolver')
    BY <2>1
  <2>3. CASE Cacheable(k.req)
    <3>1. call' = [call EXCEPT ![c] = [@ EXCEPT !.pc = "keep", !.tree = n, !.parser = 0,
                                                !.main = 0, !.cells = <<>>]]
      BY <2>1, <2>3 DEF SInv, TypeInv
    <3> QED BY <1>9, <2>1, <2>2, <3>1
  <2>4. CASE ~Cacheable(k.req)
    <3>1. call' = [call EXCEPT ![c] = Ended(c, n, None, w)]
      BY <1>11, <2>1, <2>4 DEF SInv, TypeInv
    <3> QED BY <1>10, <2>1, <2>2, <2>4, <3>1
  <2> QED BY <2>3, <2>4
<1> QED BY <1>8, <1>12

LEMMA TransformMaps ==
  ASSUME SInv, SInv', NEW c \in Callers, NEW main, NEW cells, MadeSoFar(c, main, cells),
         Transform(c, main, cells)
  PROVE  Unseen \/ Service!Fail(c) \/ Service!Answer(c)
<1> PICK k \in CallSet : k = call[c]
  BY DEF SInv, TypeInv
<1>1. k.pc = "parse" /\ k.req \in Requests
  BY DEF SInv, CallsInv, CallInv, Begins, MadeSoFar
<1>2. ASSUME NEW e \in CallbackErrors(c), Raise(c, e) PROVE Service!Fail(c)
  <2>1. e \in Faults
    BY <1>1, SeenFacts DEF CallbackErrors
  <2> QED BY <1>1, <1>2, <2>1, RaiseFails
<1>3. ASSUME call' = [call EXCEPT ![c].pc = "stat", ![c].parser = 0,
                                  ![c].main = main, ![c].cells = cells],
             UNCHANGED <<files, compiled, cache, heap, resolver, floor, count>>
      PROVE  Unseen
  <2> PICK j : j = [k EXCEPT !.pc = "stat", !.parser = 0, !.main = main, !.cells = cells]
    OBVIOUS
  <2>1. /\ j.pc = "stat" /\ j.req = k.req /\ j.then = k.then /\ j.low = k.low
    BY DEF CallSet
  <2>2. call' = [call EXCEPT ![c] = j]
    BY <1>3 DEF SInv, TypeInv
  <2>3. Changed(c, j)
    <3>1. call' \in [Callers -> CallSet]
      BY DEF SInv, TypeInv
    <3> QED BY <2>2, <3>1 DEF Changed, SInv, TypeInv
  <2>4. TreesKept
    BY <1>3 DEF TreesKept
  <2> QED BY <1>1, <1>3, <2>1, <2>3, <2>4, Stutters DEF Unseen
<1> QED BY <1>2, <1>3, AuditMaps DEF Transform

LEMMA ParseMaps ==
  ASSUME SInv, SInv', NEW c \in Callers, Parse(c) \/ ParseCell(c)
  PROVE  Unseen \/ Service!Fail(c) \/ Service!Answer(c)
<1>1. ASSUME Raise(c, "syntax"), Parse(c) PROVE Service!Fail(c)
  <2>1. "syntax" \in Faults \cup {"KeyError"} /\ call[c].pc # "idle"
    BY <1>1 DEF Faults, Parse
  <2> QED BY <1>1, <2>1, RaiseFails
<1>2. ASSUME Parse(c), "syntax" \notin FaultsSeen(c), Transform(c, call[c].parser, <<>>)
      PROVE  Unseen \/ Service!Fail(c) \/ Service!Answer(c)
  <2>1. MadeSoFar(c, call[c].parser, <<>>)
    BY <1>2, TextMade DEF Parse
  <2> QED BY <1>2, <2>1, TransformMaps
<1>3. ASSUME ParseCell(c) PROVE Unseen \/ Service!Fail(c) \/ Service!Answer(c)
  <2> PICK s : MadeSoFar(c, call[c].main, s) /\ Transform(c, call[c].main, s)
    BY <1>3, CellMade
  <2> QED BY TransformMaps
<1> QED BY <1>1, <1>2, <1>3 DEF Parse

LEMMA KeepUnseen == ASSUME SInv, SInv', NEW c \in Callers, Keep(c) PROVE Unseen
<1> PICK k \in CallSet : k = call[c]
  BY DEF SInv, TypeInv
<1>1. /\ k.pc = "keep" /\ UNCHANGED <<files, floor, resolver>>
      /\ call' = [call EXCEPT ![c].pc = "copy"]
  BY DEF Keep
<1>2. heap' = Collected(heap, cache', call', resolver')
  BY <1>1 DEF Keep
<1> PICK j : j = [k EXCEPT !.pc = "copy"]
  OBVIOUS
<1>3. /\ j \in CallSet /\ j.pc = "copy" /\ j.req = k.req /\ j.then = k.then /\ j.low = k.low
  BY DEF CallSet, Pcs
<1>4. call' = [call EXCEPT ![c] = j]
  BY <1>1 DEF SInv, TypeInv
<1>5. Changed(c, j) /\ TreesKept
  BY <1>2, <1>3, <1>4, CallChanged, KeptWhenCollected DEF SInv
<1> QED BY <1>1, <1>3, <1>5, Stutters DEF Unseen

LEMMA CopyAnswers ==
  ASSUME SInv, SInv', NEW c \in Callers, Copy(c) PROVE Service!Answer(c)
<1> PICK k \in CallSet : k = call[c]
  BY DEF SInv, TypeInv
<1> PICK n : n = NewTree
  OBVIOUS
<1> PICK tree : tree = heap[k.tree]
  OBVIOUS
<1>1. /\ k.pc = "copy" /\ UNCHANGED <<files, cache, floor, resolver>>
      /\ call' = [call EXCEPT ![c] = Ended(c, n, None, FALSE)]
  BY DEF Copy
<1>2. heap' = Collected([heap EXCEPT ![n] = tree], cache', call', resolver')
  BY <1>1 DEF Copy
<1>3. CallInv(k)
  BY DEF SInv, CallsInv
<1>4. /\ k.tree # 0 /\ Cacheable(k.req)
      /\ tree.text = k.req.text /\ tree.schemes = k.req.schemes
      /\ Older(k.low, tree) /\ Older(tree, files)
  BY <1>1, <1>3 DEF CallInv, HasTree
<1>5. k.low \in Versions
  BY <1>1, <1>3 DEF CallInv, Begins
<1>6. k.tree \in Making
  BY <1>4 DEF Making
<1>7. /\ tree \in TreeSet /\ tree.refs = "unbound" /\ tree.docinfo = None
      /\ TreeCells(tree, files.grammar)
  <2>1. tree \in TreeSet /\ k.tree \in 1 .. MaxTrees
    BY <1>6, MadeTrees DEF SInv
  <2>2. TreeCells(tree, files.grammar)
    BY <2>1, NoneAssumption DEF SInv, CellsInv
  <2> QED BY <1>6, <2>1, <2>2 DEF SInv, CleanInv, Clean
<1>8. n # 0 /\ n \in 0 .. MaxTrees
  BY NewTreeFacts, Bounds DEF SInv, CacheInv
<1>9. PICK w \in BOOLEAN : w = FALSE
  OBVIOUS
<1>10. call' = [call EXCEPT ![c] = Ended(c, n, None, w)]
  BY <1>1, <1>9
<1>11. PICK j : /\ Changed(c, j) /\ j.pc = "idle" /\ j.error = None /\ j.answer = n
                /\ n \in Used'
  BY <1>8, <1>10, AnsweredFacts, Zenon
<1>12. TreesKept /\ heap'[n] = tree
  BY <1>2, <1>7, <1>11, KeptWhenNew
<1>13. Asked[c].req = k.req /\ Asked[c].low = k.low
  BY <1>1, AskedFacts DEF SInv
<1>14. Service!Lowest(Asked[c]) = k.low
  BY <1>4, <1>13 DEF Service!Lowest, Service!Cacheable, Cacheable
<1>15. tree.include \in Nat /\ tree.grammar \in Nat
  BY <1>7, Numbers
<1>16. /\ tree.include \in Service!Lowest(Asked[c]).include .. files.include
       /\ tree.grammar \in Service!Lowest(Asked[c]).grammar .. files.grammar
  <2>1. /\ k.low.include \in Nat /\ k.low.grammar \in Nat
        /\ files.include \in Nat /\ files.grammar \in Nat
    BY <1>5, Numbers DEF SInv, TypeInv
  <2> QED BY <1>4, <1>14, <1>15, <2>1 DEF Older
<1>18. /\ heap'[j.answer] = tree
       /\ tree.text = Asked[c].req.text /\ tree.schemes = Asked[c].req.schemes
  BY <1>4, <1>11, <1>12, <1>13
<1>19. call[c].pc # "idle"
  BY <1>1
<1> QED BY <1>1, <1>7, <1>8, <1>11, <1>12, <1>16, <1>18, <1>19, EndsAnswering

LEMMA NobodyChanges ==
  ASSUME SInv, TreesKept,
         \A d \in Callers : /\ call'[d].pc = call[d].pc /\ call'[d].req = call[d].req
                            /\ call'[d].then = call[d].then /\ call'[d].low = call[d].low
                            /\ call'[d].answer = call[d].answer
                            /\ call'[d].error = call[d].error
  PROVE  Asked' = Asked /\ Held' = Held
<1>1. \A d \in Callers : Asked'[d] = Asked[d] /\ Held'[d] = Held[d]
  BY SameCaller
<1> QED BY <1>1, FunctionsOfCallers, Zenon

LEMMA WriteWrites ==
  ASSUME SInv, NEW kind \in {"include", "grammar"}, Write(kind) PROVE Service!Write(kind)
<1>1. /\ files' = [files EXCEPT ![kind] = @ + 1] /\ UNCHANGED <<heap, call, floor>>
  BY DEF Write
<1>2. Asked' = Asked /\ Held' = Held
  BY <1>1 DEF Asked, Held
<1> QED BY <1>1, <1>2 DEF Service!Write, Held

LEMMA ClearTreesForgets == ASSUME SInv, ClearTrees PROVE Service!Forget
<1>1. /\ floor' = [include |-> Service!Oldest("include", files, Asked),
                   grammar |-> Service!Oldest("grammar", files, Asked)]
      /\ UNCHANGED <<files, call, resolver>>
  BY DEF ClearTrees
<1>2. heap' = Collected(heap, cache', call', resolver')
  BY <1>1 DEF ClearTrees
<1>3. TreesKept
  BY <1>2, KeptWhenCollected
<1>4. Asked' = Asked /\ Held' = Held
  BY <1>1, <1>3, NobodyChanges
<1> QED BY <1>1, <1>4 DEF Service!Forget, Held

LEMMA ClearParsersUnseen == ASSUME SInv, ClearParsers PROVE Unseen
<1>1. /\ UNCHANGED <<files, heap, resolver, floor>>
      /\ call' = [c \in Callers |-> [call[c] EXCEPT !.cleared = (call[c].pc = "fetch" \/ @)]]
  BY DEF ClearParsers
<1>2. TreesKept
  BY <1>1 DEF TreesKept
<1>3. ASSUME NEW d \in Callers
      PROVE  /\ call'[d].pc = call[d].pc /\ call'[d].req = call[d].req
             /\ call'[d].then = call[d].then /\ call'[d].low = call[d].low
             /\ call'[d].answer = call[d].answer /\ call'[d].error = call[d].error
  <2>1. PICK k \in CallSet : k = call[d]
    BY DEF SInv, TypeInv
  <2>2. PICK w \in BOOLEAN : w = (k.pc = "fetch" \/ k.cleared)
    OBVIOUS
  <2>3. PICK j : j = [k EXCEPT !.cleared = w]
    OBVIOUS
  <2>4. j = call'[d]
    BY <1>1, <2>1, <2>2, <2>3
  <2>5. /\ j.pc = k.pc /\ j.req = k.req /\ j.then = k.then /\ j.low = k.low
        /\ j.answer = k.answer /\ j.error = k.error
    BY <2>3 DEF CallSet
  <2> QED BY <2>1, <2>4, <2>5
<1>4. Asked' = Asked /\ Held' = Held
  BY <1>2, <1>3, NobodyChanges
<1> QED BY <1>1, <1>4 DEF Unseen

ShownSet ==
  [is : {"tree"}, text : Texts, schemes : {r.schemes : r \in Requests},
   include : 0 .. MaxEvents, grammar : 1 .. MaxEvents + 1, cells : Seq(0 .. MaxEvents + 1),
   refs : {"unbound", "itself", "another", "nowhere"}, docinfo : WantsDocinfo \cup {None}]

LEMMA ShownAgain ==
  ASSUME NEW a \in ShownSet, NEW b \in ShownSet, a.is = b.is, a.text = b.text,
         a.schemes = b.schemes, a.include = b.include, a.grammar = b.grammar, a.cells = b.cells
  PROVE  a = [b EXCEPT !.refs = a.refs, !.docinfo = a.docinfo]
BY DEF ShownSet

LEMMA ResolvedResolves ==
  ASSUME SInv, NEW c \in Callers, NEW tree \in TreeSet, Resolved(c, call[c].answer, tree),
         Rebound(tree, heap[call[c].answer])
  PROVE  Service!Resolve(c)
<1> PICK t : t = call[c].answer
  OBVIOUS
<1> PICK h : h = heap[t]
  OBVIOUS
<1>1. t \in 1 .. MaxTrees /\ t # 0 /\ h \in TreeSet
  BY HeldFacts DEF SInv, Resolved
<1>2. heap' = [heap EXCEPT ![t] = tree] /\ UNCHANGED <<files, call, floor>>
  BY DEF Resolved
<1>3. heap'[t] = tree /\ \A u : u # t => heap'[u] = heap[u]
  BY <1>1, <1>2 DEF SInv, TypeInv, HeapSet
<1>4. call[c].error = None
  BY <1>1 DEF SInv, CallsInv, CallInv
<1>5. Held[c] = Shown(h) /\ Held'[c] = Shown(tree)
  BY <1>1, <1>2, <1>3, <1>4 DEF Held
<1>6. Shown(tree) = [Shown(h) EXCEPT !.refs = tree.refs, !.docinfo = tree.docinfo]
  <2>1. /\ tree.is = h.is /\ tree.text = h.text /\ tree.schemes = h.schemes
        /\ tree.include = h.include /\ tree.grammar = h.grammar /\ tree.cells = h.cells
    BY <1>1 DEF Rebound, TreeSet
  <2>0. PICK now, was : now = Shown(tree) /\ was = Shown(h)
    OBVIOUS
  <2>2. /\ now \in ShownSet /\ was \in ShownSet
        /\ now.refs = tree.refs /\ now.docinfo = tree.docinfo
        /\ now.is = tree.is /\ now.text = tree.text /\ now.schemes = tree.schemes
        /\ now.include = tree.include /\ now.grammar = tree.grammar /\ now.cells = tree.cells
        /\ was.is = h.is /\ was.text = h.text /\ was.schemes = h.schemes
        /\ was.include = h.include /\ was.grammar = h.grammar /\ was.cells = h.cells
    BY <1>1, <2>0 DEF Shown, ShownSet, TreeSet
  <2>3. now = [was EXCEPT !.refs = now.refs, !.docinfo = now.docinfo]
    <3>1. /\ now.is = was.is /\ now.text = was.text /\ now.schemes = was.schemes
          /\ now.include = was.include /\ now.grammar = was.grammar /\ now.cells = was.cells
      BY <2>1, <2>2
    <3> QED BY <2>2, <3>1, ShownAgain
  <2> QED BY <2>0, <2>2, <2>3
<1>7. \A d \in Callers : d # c => Held'[d] = Held[d]
  <2> SUFFICES ASSUME NEW d \in Callers, d # c PROVE Held'[d] = Held[d]
    OBVIOUS
  <2>1. call[d].answer # t
    BY <1>1 DEF SInv, OwnInv
  <2> QED BY <1>2, <1>3, <2>1 DEF Held
<1>8. Held' = [Held EXCEPT ![c] = Shown(tree)]
  <2> PICK f, g : f = Held /\ g = Held'
    OBVIOUS
  <2>1. f = [d \in Callers |-> f[d]] /\ g = [d \in Callers |-> g[d]]
    BY FunctionsOfCallers
  <2>2. \A d \in Callers : d # c => g[d] = f[d]
    BY <1>7
  <2>3. g = [f EXCEPT ![c] = g[c]]
    BY <2>1, <2>2, OneChanges
  <2> QED BY <1>5, <2>3
<1>9. PICK r, d : r = tree.refs /\ d = tree.docinfo
  OBVIOUS
<1>10. /\ r \in {"unbound", "itself", "another", "nowhere"}
       /\ d \in {q.text : q \in Requests} \cup {None}
  BY <1>9, SessionAssumption DEF TreeSet, Texts
<1>11. Held' = [Held EXCEPT ![c].refs = r, ![c].docinfo = d]
  <2> PICK f : f = Held
    OBVIOUS
  <2>1. f = [e \in Callers |-> f[e]] /\ f[c] = Shown(h)
    BY <1>5, FunctionsOfCallers
  <2>2. [f EXCEPT ![c].refs = r, ![c].docinfo = d] = [f EXCEPT ![c] = Shown(tree)]
    BY <1>6, <1>9, <2>1
  <2> QED BY <1>8, <2>2
<1>12. Held[c].is = "tree"
  BY <1>1, <1>5 DEF TreeSet, Shown
<1>13. Asked' = Asked
  BY <1>2 DEF Asked
<1> QED BY ZenonT(30), <1>2, <1>10, <1>11, <1>12, <1>13 DEF Service!Resolve, Held

LEMMA InitMaps == ASSUME Init PROVE Service!Init
<1>1. /\ files = [include |-> 0, grammar |-> 1] /\ floor = files
      /\ call = [c \in Callers |-> Idle]
  BY DEF Init
<1>2. \A c \in Callers : call[c].pc = "idle" /\ call[c].answer = 0 /\ call[c].error = None
  BY <1>1, IdleFacts
<1>3. Asked = [c \in Callers |-> None]
  BY <1>2 DEF Asked
<1>4. Held = [c \in Callers |-> Service!Nothing]
  BY <1>2 DEF Held, Service!Nothing
<1> QED BY <1>1, <1>3, <1>4 DEF Service!Init, Held

LEMMA NextMaps == ASSUME SInv, SInv', [Next]_vars PROVE Service!Next \/ Unseen
<1>1. ASSUME NEW c \in Callers, NEW r \in Requests, Begin(c, r) PROVE Service!Next
  BY <1>1, BeginAsks DEF Service!Next
<1>2. ASSUME NEW c \in Callers, Step(c) PROVE Service!Next \/ Unseen
  <2>1. Unseen \/ Service!Fail(c) \/ Service!Answer(c)
    BY <1>2, PreprocessMaps, ParserUnseen, FetchMaps, ParseMaps, KeepUnseen, CopyAnswers DEF Step
  <2> QED BY <2>1 DEF Service!Next
<1>3. ASSUME NEW c \in Callers, NEW kept \in BOOLEAN, ResolveToAst(c, kept) \/ Resolve(c, kept)
      PROVE  Service!Next
  <2>1. PICK tree \in TreeSet : /\ Resolved(c, call[c].answer, tree)
                                /\ Rebound(tree, heap[call[c].answer])
    BY <1>3, ResolveToAstFacts, ResolveFacts
  <2>2. Service!Resolve(c)
    BY <2>1, ResolvedResolves
  <2> QED BY <2>2 DEF Service!Next
<1>4. ASSUME NEW kind \in {"include", "grammar"}, Write(kind) PROVE Service!Next
  BY <1>4, WriteWrites DEF Service!Next
<1>5. CASE ClearParsers
  BY <1>5, ClearParsersUnseen
<1>6. CASE ClearTrees
  BY <1>6, ClearTreesForgets DEF Service!Next
<1>7. CASE UNCHANGED vars
  BY <1>7 DEF vars, Unseen, Asked, Held
<1> QED BY <1>1, <1>2, <1>3, <1>4, <1>5, <1>6, <1>7 DEF Next

\* For every number of threads, writes and clears, parse_to_ast with its two caches
\* looks to its callers like the service of ParseService, which keeps none: an
\* answer is made of files no older than the call asked for, or, where the tree
\* cache may be used, than the last clear_ast_cache and the calls under way at it;
\* no table cell of it was parsed with an older grammar than the whole; and only its
\* caller ever changes it (lark_parser.py, block_transformer.py, resolver.py).
THEOREM ImplementsTheService == Spec => ImplementsService
<1>1. Init => Service!Init
  BY InitMaps
<1>2. SInv /\ SInv' /\ [Next]_vars => [Service!Next]_Service!vars
  <2> SUFFICES ASSUME SInv, SInv', [Next]_vars PROVE Service!Next \/ UNCHANGED Service!vars
    OBVIOUS
  <2>1. Unseen => UNCHANGED Service!vars
    BY DEF Unseen, Service!vars, Held
  <2> QED BY <2>1, NextMaps
<1> QED BY <1>1, <1>2, Invariant, PTL DEF Spec, ImplementsService, Service!Spec

=============================================================================
