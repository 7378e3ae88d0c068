-------------------------- MODULE WorkspaceProofs --------------------------
(***************************************************************************)
(* For every set of files and anchors, and any number of builds: what      *)
(* build() leaves behind, whether it came to its end or raised half way,   *)
(* is the work of one build, bound by the rules of visit_ref.              *)
(***************************************************************************)
EXTENDS Workspace, FiniteSetTheorems, TLAPS

\* A pass is one of a build, and looks only at documents that were parsed.
PassInv ==
  /\ pass # "idle" => builds \in 1 .. MaxBuilds
  /\ pass \in {"index", "resolve"} => todo \subseteq DOMAIN raw_documents

\* The catalog has every key of document d of file f, as d has it.
Indexed(f, d) ==
  /\ \A a \in d.anchors \cup {Root} : /\ <<f, a>> \in DOMAIN by_fqid
                                      /\ by_fqid[<<f, a>>] = d.made
  /\ \A a \in d.anchors : a \in DOMAIN by_local_id /\ f \in by_local_id[a]

\* What was indexed last of a file stays whole while others are indexed.
CatalogInv ==
  /\ \A k \in DOMAIN by_fqid : k[1] \in DOMAIN raw_documents
  /\ pass = "index"   => \A f \in DOMAIN raw_documents \ todo : Indexed(f, raw_documents[f])
  /\ pass = "resolve" => \A f \in DOMAIN raw_documents : Indexed(f, raw_documents[f])

\* The graph of f is what resolving it with the catalog of now would give.
Current(f) ==
  /\ f \in DOMAIN resolved_asg_graphs
  /\ resolved_asg_graphs[f].to = [t \in Target |-> Resolution(f, t)]
  /\ Indexed(f, resolved_asg_graphs[f].doc)

\* The catalog is changed only between the end of one build's graphs and the
\* beginning of the next one's.
GraphsInv ==
  /\ pass \in {"idle", "parse"} =>
       /\ \A k \in DOMAIN by_fqid : k[1] \in DOMAIN resolved_asg_graphs
       /\ \A f \in DOMAIN resolved_asg_graphs : Current(f)
  /\ pass = "resolve" => \A f \in DOMAIN raw_documents \ todo : Current(f)

WarnedOf(files) ==
  {p \in files \X Target : resolved_asg_graphs[p[1]].to[p[2]] = Unresolved}

WarningsInv ==
  /\ pass \in {"parse", "index"} => warnings = {}
  /\ pass = "resolve" => warnings = WarnedOf(DOMAIN raw_documents \ todo)

WInv == TypeOK /\ PassInv /\ CatalogInv /\ GraphsInv /\ WarningsInv

-----------------------------------------------------------------------------
(* Keys and targets                                                        *)

LEMMA Apart ==
  /\ Root \notin Anchors /\ Absent \notin Files /\ NoFile \notin Files /\ NoFile # Absent
  /\ Gone # Broken /\ Gone \notin Text /\ Broken \notin Text
  /\ MaxBuilds \in Nat
BY WorkspaceAssumption

\* A target is bound to a node that the catalog has, or to nothing.
LEMMA ResolutionFacts ==
  ASSUME TypeOK, NEW f \in Files, NEW t \in Target
  PROVE  \/ Resolution(f, t) = Unresolved
         \/ \E g \in Files : /\ <<g, t.anchor>> \in DOMAIN by_fqid
                             /\ Resolution(f, t) = Bound(g, t.anchor)
<1>1. CASE Named(t)
  <2>1. Resolution(f, t) = Bound(t.file, t.anchor)
    BY <1>1 DEF Resolution
  <2>2. t.file \in Files
    BY <1>1 DEF Named, TypeOK, Key
  <2> QED BY <1>1, <2>1, <2>2 DEF Named
<1>2. CASE ~Named(t) /\ Local(f, t)
  <2>1. Resolution(f, t) = Bound(f, t.anchor)
    BY <1>2 DEF Resolution
  <2> QED BY <1>2, <2>1 DEF Local
<1>3. CASE ~Named(t) /\ ~Local(f, t) /\ Unique(t)
  <2> DEFINE g == CHOOSE h \in by_local_id[t.anchor] : TRUE
  <2>1. Resolution(f, t) = Bound(g, t.anchor)
    BY <1>3 DEF Resolution
  <2>2. by_local_id[t.anchor] # {} /\ by_local_id[t.anchor] \X {t.anchor} \subseteq DOMAIN by_fqid
    BY <1>3 DEF Unique, TypeOK
  <2>3. g \in by_local_id[t.anchor]
    BY <2>2
  <2> HIDE DEF g
  <2>4. <<g, t.anchor>> \in DOMAIN by_fqid
    BY <2>2, <2>3
  <2>5. g \in Files
    BY <2>4 DEF TypeOK, Key
  <2> QED BY <2>1, <2>4, <2>5
<1>4. CASE ~Named(t) /\ ~Local(f, t) /\ ~Unique(t)
  BY <1>4 DEF Resolution
<1> QED BY <1>1, <1>2, <1>3, <1>4

\* As long as the catalog is not touched, what it says does not change.
LEMMA CatalogStays ==
  ASSUME by_fqid' = by_fqid, by_local_id' = by_local_id
  PROVE  /\ \A f, t : Resolution(f, t)' = Resolution(f, t)
         /\ \A f, d : Indexed(f, d)' = Indexed(f, d)
BY DEF Resolution, Named, Local, Unique, Bound, Indexed

LEMMA GraphsStay ==
  ASSUME by_fqid' = by_fqid, by_local_id' = by_local_id, NEW f,
         f \in DOMAIN resolved_asg_graphs => f \in DOMAIN resolved_asg_graphs'
                                /\ resolved_asg_graphs'[f] = resolved_asg_graphs[f],
         Current(f)
  PROVE  Current(f)'
<1>1. /\ \A t : Resolution(f, t)' = Resolution(f, t)
      /\ \A d : Indexed(f, d)' = Indexed(f, d)
  BY CatalogStays
<1>2. /\ f \in DOMAIN resolved_asg_graphs /\ Indexed(f, resolved_asg_graphs[f].doc)
      /\ resolved_asg_graphs[f].to = [t \in Target |-> Resolution(f, t)]
  BY DEF Current
<1>3. [t \in Target |-> Resolution(f, t)]' = [t \in Target |-> Resolution(f, t)]
  BY <1>1
<1>4. Indexed(f, resolved_asg_graphs[f].doc)'
  <2> SUFFICES ASSUME NEW d, d = resolved_asg_graphs[f].doc,
                      resolved_asg_graphs'[f].doc = d
               PROVE  Indexed(f, d)'
    BY <1>2
  <2> QED BY <1>1, <1>2
<1> QED BY <1>2, <1>3, <1>4 DEF Current

-----------------------------------------------------------------------------
(* The steps                                                               *)

LEMMA InitInv == Init => WInv
<1> SUFFICES ASSUME Init PROVE WInv
  OBVIOUS
<1>1. /\ DOMAIN raw_documents = {} /\ DOMAIN by_fqid = {} /\ DOMAIN by_local_id = {}
      /\ DOMAIN resolved_asg_graphs = {}
  BY DEF Init
<1>2. TypeOK
  BY <1>1, Apart DEF Init, TypeOK
<1>3. PassInv /\ CatalogInv /\ GraphsInv /\ WarningsInv
  BY <1>1 DEF Init, PassInv, CatalogInv, GraphsInv, WarningsInv
<1> QED BY <1>2, <1>3 DEF WInv

\* The catalog and the graphs are as they were.
LEMMA GraphsInvStays ==
  ASSUME GraphsInv, UNCHANGED <<by_fqid, by_local_id, resolved_asg_graphs>>,
         pass \in {"idle", "parse"}, pass' \in {"idle", "parse", "index"}
  PROVE  GraphsInv'
<1>1. \A f : Current(f) => Current(f)'
  BY GraphsStay
<1> QED BY <1>1 DEF GraphsInv

LEMMA EditInv == ASSUME WInv, Edit PROVE WInv'
<1>1. /\ TypeOK /\ PassInv /\ CatalogInv /\ GraphsInv /\ WarningsInv
      /\ UNCHANGED <<pass, todo, builds, raw_documents, by_fqid, by_local_id,
                     resolved_asg_graphs, warnings>>
      /\ pass \in {"idle", "parse"}
  BY DEF WInv, Edit
<1>2. TypeOK'
  <2>1. disk' \in [Files -> Content]
    BY <1>1 DEF Edit, TypeOK
  <2> QED BY <1>1, <2>1 DEF TypeOK
<1>3. CatalogInv'
  BY <1>1, CatalogStays DEF CatalogInv
<1>4. PassInv' /\ WarningsInv'
  BY <1>1 DEF PassInv, WarningsInv
<1>5. GraphsInv'
  BY <1>1, GraphsInvStays
<1> QED BY <1>2, <1>3, <1>4, <1>5 DEF WInv

LEMMA DiscoverInv == ASSUME WInv, Discover PROVE WInv'
<1>1. /\ TypeOK /\ PassInv /\ CatalogInv /\ GraphsInv
      /\ pass = "idle" /\ builds < MaxBuilds /\ builds' = builds + 1 /\ warnings' = {}
      /\ pass' = "parse" /\ todo' \subseteq Files
      /\ UNCHANGED <<disk, raw_documents, by_fqid, by_local_id, resolved_asg_graphs>>
  BY DEF WInv, Discover
<1>2. builds' \in 1 .. MaxBuilds
  BY <1>1, Apart DEF TypeOK
<1>3. TypeOK'
  BY <1>1, <1>2, Apart DEF TypeOK
<1>4. PassInv' /\ CatalogInv' /\ WarningsInv'
  BY <1>1, <1>2 DEF PassInv, CatalogInv, WarningsInv
<1>5. GraphsInv'
  BY <1>1, GraphsInvStays
<1> QED BY <1>3, <1>4, <1>5 DEF WInv

\* A file is parsed: its document is replaced, or it has one now.
LEMMA ParseInv == ASSUME WInv, Parse PROVE WInv'
<1>1. /\ TypeOK /\ PassInv /\ CatalogInv /\ GraphsInv /\ WarningsInv
      /\ pass = "parse" /\ builds \in 1 .. MaxBuilds
      /\ UNCHANGED <<disk, pass, builds, by_fqid, by_local_id, resolved_asg_graphs, warnings>>
  BY DEF WInv, Parse, PassInv
<1>2. PICK f \in todo :
        /\ disk[f] \notin {Gone, Broken}
        /\ raw_documents' = Put(raw_documents, f, [made |-> builds, anchors |-> disk[f].anchors])
        /\ todo' = todo \ {f}
  BY DEF Parse
<1>3. f \in Files /\ disk[f] \in Text
  BY <1>1, <1>2 DEF TypeOK, Content
<1>4. PICK d \in Raw : raw_documents' = Put(raw_documents, f, d)
  BY <1>1, <1>2, <1>3 DEF Raw, Text
<1>5. /\ DOMAIN raw_documents' = DOMAIN raw_documents \cup {f}
      /\ \A g \in DOMAIN raw_documents' : raw_documents'[g] \in Raw
  BY <1>1, <1>4 DEF Put, TypeOK
<1>6. TypeOK'
  BY <1>1, <1>2, <1>3, <1>5 DEF TypeOK
<1>7. PassInv' /\ CatalogInv' /\ WarningsInv'
  BY <1>1, <1>5 DEF PassInv, CatalogInv, WarningsInv
<1>8. GraphsInv'
  BY <1>1, GraphsInvStays
<1> QED BY <1>6, <1>7, <1>8 DEF WInv

LEMMA FailInv == ASSUME WInv, Fail PROVE WInv'
<1>1. /\ TypeOK /\ PassInv /\ CatalogInv /\ GraphsInv
      /\ pass = "parse" /\ pass' = "idle" /\ todo' = {}
      /\ UNCHANGED <<disk, builds, raw_documents, by_fqid, by_local_id,
                     resolved_asg_graphs, warnings>>
  BY DEF WInv, Fail
<1>2. TypeOK' /\ PassInv' /\ CatalogInv' /\ WarningsInv'
  BY <1>1 DEF TypeOK, PassInv, CatalogInv, WarningsInv
<1>3. GraphsInv'
  BY <1>1, GraphsInvStays
<1> QED BY <1>2, <1>3 DEF WInv

\* When a pass ends, what it did for every document holds for all of them.
LEMMA NextPassInv == ASSUME WInv, NextPass PROVE WInv'
<1>1. /\ TypeOK /\ PassInv /\ CatalogInv /\ GraphsInv /\ WarningsInv /\ todo = {}
      /\ UNCHANGED <<disk, builds, raw_documents, by_fqid, by_local_id,
                     resolved_asg_graphs, warnings>>
  BY DEF WInv, NextPass
<1>2. CASE pass = "parse" /\ pass' = "index" /\ todo' = DOMAIN raw_documents
  <2>1. TypeOK' /\ PassInv' /\ CatalogInv' /\ WarningsInv'
    BY <1>1, <1>2 DEF TypeOK, PassInv, CatalogInv, WarningsInv
  <2>2. GraphsInv'
    BY <1>1, <1>2, GraphsInvStays
  <2> QED BY <2>1, <2>2 DEF WInv
<1>3. CASE pass = "index" /\ pass' = "resolve" /\ todo' = DOMAIN raw_documents
  <2>1. TypeOK' /\ PassInv' /\ GraphsInv'
    BY <1>1, <1>3 DEF TypeOK, PassInv, GraphsInv
  <2>2. CatalogInv'
    BY <1>1, <1>3, CatalogStays DEF CatalogInv
  <2>3. WarningsInv'
    BY <1>1, <1>3 DEF WarningsInv, WarnedOf
  <2> QED BY <2>1, <2>2, <2>3 DEF WInv
<1>4. CASE pass = "resolve" /\ pass' = "idle" /\ todo' = {}
  <2>1. TypeOK' /\ PassInv' /\ CatalogInv' /\ WarningsInv'
    BY <1>1, <1>4 DEF TypeOK, PassInv, CatalogInv, WarningsInv
  <2>2. \A f \in DOMAIN raw_documents : Current(f)
    BY <1>1, <1>4 DEF GraphsInv
  <2>3. DOMAIN resolved_asg_graphs = DOMAIN raw_documents
    BY <1>1, <2>2 DEF TypeOK, Current
  <2>4. \A f : Current(f) => Current(f)'
    BY <1>1, GraphsStay
  <2>5. GraphsInv'
    BY <1>1, <1>4, <2>2, <2>3, <2>4 DEF GraphsInv, CatalogInv
  <2> QED BY <2>1, <2>5 DEF WInv
<1> QED BY <1>2, <1>3, <1>4 DEF NextPass

\* One more document is indexed: the keys of the others are not touched.
LEMMA IndexInv == ASSUME WInv, Index PROVE WInv'
<1>1. /\ TypeOK /\ PassInv /\ CatalogInv /\ WarningsInv
      /\ pass = "index" /\ builds \in 1 .. MaxBuilds /\ todo \subseteq DOMAIN raw_documents
      /\ UNCHANGED <<disk, pass, builds, raw_documents, resolved_asg_graphs, warnings>>
  BY DEF WInv, Index, PassInv
<1>2. PICK f \in todo :
        /\ todo' = todo \ {f}
        /\ by_fqid' = [k \in DOMAIN by_fqid \cup KeysOf(f) |->
                         IF k \in KeysOf(f) THEN raw_documents[f].made ELSE by_fqid[k]]
        /\ by_local_id' = [a \in DOMAIN by_local_id \cup raw_documents[f].anchors |->
             {g \in Files : \/ a \in DOMAIN by_local_id /\ g \in by_local_id[a]
                            \/ a \in raw_documents[f].anchors /\ g = f}]
  BY DEF Index
<1>3. PICK d \in Raw : d = raw_documents[f]
  BY <1>1, <1>2 DEF TypeOK
<1>4. f \in Files /\ f \in DOMAIN raw_documents /\ d.made \in 1 .. MaxBuilds /\ d.anchors \subseteq Anchors
  BY <1>1, <1>2, <1>3 DEF TypeOK, Raw
<1>5. /\ KeysOf(f) = {f} \X (d.anchors \cup {Root}) /\ KeysOf(f) \subseteq Key
      /\ DOMAIN by_fqid' = DOMAIN by_fqid \cup KeysOf(f)
      /\ \A k \in DOMAIN by_fqid' : by_fqid'[k] = IF k \in KeysOf(f) THEN d.made ELSE by_fqid[k]
  BY <1>2, <1>3, <1>4 DEF KeysOf, Key
<1>6. /\ DOMAIN by_local_id' = DOMAIN by_local_id \cup d.anchors
      /\ \A a \in DOMAIN by_local_id' : \A g :
           g \in by_local_id'[a] <=> \/ a \in DOMAIN by_local_id /\ g \in by_local_id[a] /\ g \in Files
                                     \/ a \in d.anchors /\ g = f
  BY <1>2, <1>3, <1>4
<1>7. \A a \in DOMAIN by_local_id : by_local_id[a] \subseteq Files
  <2> SUFFICES ASSUME NEW a \in DOMAIN by_local_id, NEW g \in by_local_id[a] PROVE g \in Files
    OBVIOUS
  <2>1. <<g, a>> \in DOMAIN by_fqid
    BY <1>1 DEF TypeOK
  <2> QED BY <1>1, <2>1 DEF TypeOK, Key
<1>8. TypeOK'
  <2>1. DOMAIN by_fqid' \subseteq Key /\ \A k \in DOMAIN by_fqid' : by_fqid'[k] \in 1 .. MaxBuilds
    BY <1>1, <1>4, <1>5 DEF TypeOK
  <2>2. DOMAIN by_local_id' \subseteq Anchors
    BY <1>1, <1>4, <1>6 DEF TypeOK
  <2>3. ASSUME NEW a \in DOMAIN by_local_id'
        PROVE  by_local_id'[a] # {} /\ by_local_id'[a] \X {a} \subseteq DOMAIN by_fqid'
    <3>1. CASE a \in d.anchors
      <4>1. f \in by_local_id'[a]
        BY <1>6, <2>3, <3>1
      <4>2. ASSUME NEW g \in by_local_id'[a] PROVE <<g, a>> \in DOMAIN by_fqid'
        <5>1. CASE g = f
          BY <1>5, <3>1, <5>1
        <5>2. CASE a \in DOMAIN by_local_id /\ g \in by_local_id[a]
          BY <1>1, <1>5, <5>2 DEF TypeOK
        <5> QED BY <1>6, <4>2, <5>1, <5>2
      <4> QED BY <4>1, <4>2
    <3>2. CASE a \notin d.anchors
      <4>1. a \in DOMAIN by_local_id /\ by_local_id'[a] = by_local_id[a]
        BY <1>6, <1>7, <2>3, <3>2
      <4> QED BY <1>1, <1>5, <4>1 DEF TypeOK
    <3> QED BY <3>1, <3>2
  <2> QED BY <1>1, <1>2, <2>1, <2>2, <2>3 DEF TypeOK
<1>9. Indexed(f, d)'
  BY <1>4, <1>5, <1>6 DEF Indexed
<1>10. ASSUME NEW g \in DOMAIN raw_documents, g # f, Indexed(g, raw_documents[g])
       PROVE  Indexed(g, raw_documents[g])'
  <2>1. PICK e \in Raw : e = raw_documents[g] /\ e = raw_documents'[g]
    BY <1>1, <1>10 DEF TypeOK
  <2>2. g \in Files
    BY <1>1, <1>10 DEF TypeOK
  <2>3. Indexed(g, e)
    BY <1>10, <2>1
  <2>4. Indexed(g, e)'
    BY <1>5, <1>6, <1>10, <2>2, <2>3 DEF Indexed
  <2> QED BY <1>1, <2>1, <2>4
<1>11. CatalogInv'
  <2>1. \A k \in DOMAIN by_fqid' : k[1] \in DOMAIN raw_documents
    BY <1>1, <1>4, <1>5 DEF CatalogInv
  <2>2. \A g \in DOMAIN raw_documents \ todo' : Indexed(g, raw_documents[g])'
    BY <1>1, <1>2, <1>3, <1>9, <1>10 DEF CatalogInv
  <2> QED BY <1>1, <2>1, <2>2 DEF CatalogInv
<1>12. PassInv' /\ GraphsInv' /\ WarningsInv'
  BY <1>1, <1>2 DEF PassInv, GraphsInv, WarningsInv
<1> QED BY <1>8, <1>11, <1>12 DEF WInv

\* One more document is resolved, with a catalog that has all of them.
LEMMA ResolveInv == ASSUME WInv, Resolve PROVE WInv'
<1>1. /\ TypeOK /\ PassInv /\ CatalogInv /\ GraphsInv /\ WarningsInv
      /\ pass = "resolve" /\ builds \in 1 .. MaxBuilds /\ todo \subseteq DOMAIN raw_documents
      /\ UNCHANGED <<disk, pass, builds, raw_documents, by_fqid, by_local_id>>
  BY DEF WInv, Resolve, PassInv
<1>2. PICK f \in todo : \E to :
        /\ to = [t \in Target |-> Resolution(f, t)]
        /\ todo' = todo \ {f}
        /\ resolved_asg_graphs' = Put(resolved_asg_graphs, f, [doc |-> raw_documents[f], to |-> to])
        /\ warnings' = warnings \cup {<<f, t>> : t \in {u \in Target : to[u] = Unresolved}}
  BY DEF Resolve
<1>3. PICK to :
        /\ to = [t \in Target |-> Resolution(f, t)]
        /\ todo' = todo \ {f}
        /\ resolved_asg_graphs' = Put(resolved_asg_graphs, f, [doc |-> raw_documents[f], to |-> to])
        /\ warnings' = warnings \cup {<<f, t>> : t \in {u \in Target : to[u] = Unresolved}}
  BY <1>2
<1>4. f \in DOMAIN raw_documents /\ f \in Files
  BY <1>1, <1>2 DEF TypeOK
<1>5. /\ DOMAIN resolved_asg_graphs' = DOMAIN resolved_asg_graphs \cup {f}
      /\ resolved_asg_graphs'[f].doc = raw_documents[f] /\ resolved_asg_graphs'[f].to = to
      /\ \A g \in DOMAIN resolved_asg_graphs \ {f} : resolved_asg_graphs'[g] = resolved_asg_graphs[g]
  BY <1>3 DEF Put
<1>6. TypeOK'
  <2>1. warnings' \subseteq Files \X Target
    BY <1>1, <1>3, <1>4 DEF TypeOK
  <2> QED BY <1>1, <1>3, <1>4, <1>5, <2>1 DEF TypeOK
<1>7. PassInv'
  BY <1>1, <1>2 DEF PassInv
<1>8. CatalogInv'
  BY <1>1, CatalogStays DEF CatalogInv
<1>9. Current(f)'
  <2>1. Indexed(f, raw_documents[f])
    BY <1>1, <1>4 DEF CatalogInv
  <2>2. \A d : Indexed(f, d)' = Indexed(f, d)
    BY <1>1, CatalogStays
  <2>3. PICK d : d = raw_documents[f]
    OBVIOUS
  <2>4. Indexed(f, resolved_asg_graphs[f].doc)'
    <3>1. Indexed(f, d)'
      BY <2>1, <2>2, <2>3
    <3> QED BY <1>5, <2>3, <3>1
  <2>5. [t \in Target |-> Resolution(f, t)]' = to
    BY <1>1, <1>3, CatalogStays
  <2> QED BY <1>5, <2>4, <2>5 DEF Current
<1>10. \A g \in DOMAIN raw_documents \ todo : g # f => Current(g)'
  <2> SUFFICES ASSUME NEW g \in DOMAIN raw_documents \ todo, g # f PROVE Current(g)'
    OBVIOUS
  <2>1. Current(g)
    BY <1>1 DEF GraphsInv
  <2> QED BY <1>1, <1>5, <2>1, GraphsStay
<1>11. GraphsInv'
  BY <1>1, <1>3, <1>9, <1>10 DEF GraphsInv
<1>12. WarningsInv'
  <2>1. \A p \in Files \X Target :
          p \in warnings' <=> \/ p \in warnings
                              \/ p[1] = f /\ to[p[2]] = Unresolved
    BY <1>3, <1>4
  <2>2. \A p \in Files \X Target :
          p \in warnings' <=> /\ p[1] \in DOMAIN raw_documents \ todo'
                              /\ resolved_asg_graphs'[p[1]].to[p[2]] = Unresolved
    <3> SUFFICES ASSUME NEW g \in Files, NEW t \in Target
                 PROVE  <<g, t>> \in warnings' <=>
                          /\ g \in DOMAIN raw_documents \ todo'
                          /\ resolved_asg_graphs'[g].to[t] = Unresolved
      OBVIOUS
    <3>1. <<g, t>> \in warnings <=> /\ g \in DOMAIN raw_documents \ todo
                                    /\ resolved_asg_graphs[g].to[t] = Unresolved
      BY <1>1 DEF WarningsInv, WarnedOf
    <3>2. CASE g = f
      BY <1>3, <1>4, <1>5, <2>1, <3>1, <3>2
    <3>3. CASE g # f
      <4>1. g \in DOMAIN raw_documents \ todo => g \in DOMAIN resolved_asg_graphs
        BY <1>1 DEF GraphsInv, Current
      <4>2. <<g, t>> \in warnings' <=> <<g, t>> \in warnings
        BY <2>1, <3>3
      <4> QED BY <1>3, <1>5, <3>1, <3>3, <4>1, <4>2
    <3> QED BY <3>2, <3>3
  <2>3. warnings' \subseteq Files \X Target /\ DOMAIN raw_documents \subseteq Files
    BY <1>1, <1>6 DEF TypeOK
  <2>4. warnings' = WarnedOf(DOMAIN raw_documents \ todo)'
    BY <1>1, <2>2, <2>3 DEF WarnedOf
  <2> QED BY <1>1, <2>4 DEF WarningsInv
<1> QED BY <1>6, <1>7, <1>8, <1>11, <1>12 DEF WInv

LEMMA NextInv == ASSUME WInv, [Next]_vars PROVE WInv'
<1>1. CASE UNCHANGED vars
  <2>1. /\ TypeOK /\ PassInv /\ CatalogInv /\ GraphsInv /\ WarningsInv
        /\ UNCHANGED <<disk, pass, todo, builds, raw_documents, by_fqid, by_local_id,
                       resolved_asg_graphs, warnings>>
    BY <1>1 DEF WInv, vars
  <2>2. TypeOK' /\ PassInv' /\ WarningsInv'
    BY <2>1 DEF TypeOK, PassInv, WarningsInv, WarnedOf
  <2>3. CatalogInv'
    BY <2>1, CatalogStays DEF CatalogInv
  <2>4. \A f : Current(f) => Current(f)'
    BY <2>1, GraphsStay
  <2>5. GraphsInv'
    BY <2>1, <2>4 DEF GraphsInv
  <2> QED BY <2>2, <2>3, <2>5 DEF WInv
<1> QED
  BY <1>1, EditInv, DiscoverInv, ParseInv, FailInv, NextPassInv, IndexInv, ResolveInv DEF Next

LEMMA Invariant == Spec => []WInv
BY InitInv, NextInv, PTL DEF Spec

-----------------------------------------------------------------------------
(* What a build leaves behind                                              *)

\* Types; and every file listed for an anchor has it in the catalog.
THEOREM TypeCorrect == Spec => []TypeOK
<1>1. WInv => TypeOK
  BY DEF WInv
<1> QED BY <1>1, Invariant, PTL

\* What a graph says between two builds: where a target leads, and that the node
\* there is the one of the graph of its file.
LEMMA GraphFacts ==
  ASSUME WInv, pass = "idle"
  PROVE  /\ DOMAIN resolved_asg_graphs \subseteq Files
         /\ \A k \in DOMAIN by_fqid : k[1] \in DOMAIN resolved_asg_graphs
         /\ \A f \in DOMAIN resolved_asg_graphs, t \in Target : To(f, t) = Resolution(f, t)
         /\ \A g, a : Has(g, a) => /\ <<g, a>> \in DOMAIN by_fqid
                                   /\ Bound(g, a) = Node(g, a)
                                   /\ a # Root => a \in DOMAIN by_local_id /\ g \in by_local_id[a]
<1>1. TypeOK /\ GraphsInv
  BY DEF WInv
<1>2. DOMAIN resolved_asg_graphs \subseteq Files
  BY <1>1 DEF TypeOK
<1>3. /\ \A k \in DOMAIN by_fqid : k[1] \in DOMAIN resolved_asg_graphs
      /\ \A f \in DOMAIN resolved_asg_graphs : Current(f)
  BY <1>1 DEF GraphsInv
<1>4. \A f \in DOMAIN resolved_asg_graphs, t \in Target : To(f, t) = Resolution(f, t)
  BY <1>3 DEF Current, To
<1>5. ASSUME NEW g, NEW a, Has(g, a)
      PROVE  /\ <<g, a>> \in DOMAIN by_fqid
             /\ Bound(g, a) = Node(g, a)
             /\ a # Root => a \in DOMAIN by_local_id /\ g \in by_local_id[a]
  <2>1. g \in DOMAIN resolved_asg_graphs /\ a \in resolved_asg_graphs[g].doc.anchors \cup {Root}
    BY <1>5 DEF Has
  <2>2. Indexed(g, resolved_asg_graphs[g].doc)
    BY <1>3, <2>1 DEF Current
  <2> QED BY <2>1, <2>2 DEF Indexed, Bound, Node
<1> QED BY <1>2, <1>3, <1>4, <1>5

LEMMA Fits == ASSUME WInv PROVE OneBuild
<1> SUFFICES ASSUME pass = "idle", NEW f \in DOMAIN resolved_asg_graphs, NEW t \in Target,
                    To(f, t) # Unresolved
             PROVE  /\ To(f, t).file \in DOMAIN resolved_asg_graphs
                    /\ Has(To(f, t).file, t.anchor) => To(f, t) = Node(To(f, t).file, t.anchor)
  BY DEF OneBuild
<1>1. TypeOK /\ f \in Files /\ To(f, t) = Resolution(f, t)
  BY GraphFacts DEF WInv
<1>2. PICK g \in Files : <<g, t.anchor>> \in DOMAIN by_fqid /\ To(f, t) = Bound(g, t.anchor)
  BY <1>1, ResolutionFacts
<1>3. To(f, t).file = g
  BY <1>2 DEF Bound
<1>4. g \in DOMAIN resolved_asg_graphs
  BY <1>2, GraphFacts
<1> QED BY <1>2, <1>3, <1>4, GraphFacts

\* Where no file was removed, a reference names the first of the keys that
\* visit_ref tries, and nothing where none is there (resolver.py:590-620).
LEMMA Declared == ASSUME WInv PROVE AsDeclared
<1> SUFFICES ASSUME pass = "idle", Removed = {},
                    NEW f \in DOMAIN resolved_asg_graphs, NEW t \in Target
             PROVE  LET direct == {g \in {t.file, f} : Has(g, t.anchor)}
                    IN  IF direct # {}
                        THEN To(f, t).file = IF t.file \in direct THEN t.file ELSE f
                        ELSE IF t.anchor # Root /\ Cardinality(Owners(t.anchor)) = 1
                             THEN To(f, t).file \in Owners(t.anchor)
                             ELSE To(f, t) = Unresolved
  BY DEF AsDeclared
<1> DEFINE direct == {g \in {t.file, f} : Has(g, t.anchor)}
<1>1. TypeOK /\ f \in Files /\ To(f, t) = Resolution(f, t)
  BY GraphFacts DEF WInv
<1>2. \A g, a : <<g, a>> \in DOMAIN by_fqid <=> Has(g, a)
  <2>1. ASSUME NEW g, NEW a, <<g, a>> \in DOMAIN by_fqid PROVE Has(g, a)
    BY <2>1 DEF Removed
  <2> QED BY <2>1, GraphFacts
<1>3. (Named(t) <=> Has(t.file, t.anchor)) /\ (Local(f, t) <=> Has(f, t.anchor))
  BY <1>2 DEF Named, Local
<1>4. CASE direct # {}
  <2>1. CASE Named(t)
    <3>1. To(f, t) = Bound(t.file, t.anchor) /\ t.file \in direct
      BY <1>1, <1>3, <2>1 DEF Resolution
    <3> QED BY <1>4, <3>1 DEF Bound
  <2>2. CASE ~Named(t) /\ Local(f, t)
    <3>1. To(f, t) = Bound(f, t.anchor) /\ t.file \notin direct
      BY <1>1, <1>3, <2>2 DEF Resolution
    <3> QED BY <1>4, <3>1 DEF Bound
  <2> QED BY <1>3, <1>4, <2>1, <2>2
<1>5. CASE direct = {}
  <2>1. ~Named(t) /\ ~Local(f, t)
    BY <1>3, <1>5
  <2>2. t.anchor \in DOMAIN by_local_id => by_local_id[t.anchor] = Owners(t.anchor)
    <3> SUFFICES ASSUME t.anchor \in DOMAIN by_local_id
                 PROVE  by_local_id[t.anchor] = Owners(t.anchor)
      OBVIOUS
    <3>1. t.anchor # Root
      BY <1>1, Apart DEF TypeOK
    <3>2. \A g \in by_local_id[t.anchor] : <<g, t.anchor>> \in DOMAIN by_fqid
      BY <1>1 DEF TypeOK
    <3>3. \A g \in by_local_id[t.anchor] : g \in Files /\ Has(g, t.anchor)
      BY <1>1, <1>2, <3>2 DEF TypeOK, Key
    <3>4. \A g : Has(g, t.anchor) => g \in by_local_id[t.anchor]
      BY <3>1, GraphFacts
    <3> QED BY <3>3, <3>4 DEF Owners
  <2>3. CASE Unique(t)
    <3> DEFINE g == CHOOSE h \in by_local_id[t.anchor] : TRUE
    <3>1. t.anchor \in DOMAIN by_local_id /\ Cardinality(Owners(t.anchor)) = 1
      BY <2>2, <2>3 DEF Unique
    <3>2. by_local_id[t.anchor] # {}
      BY <1>1, <3>1 DEF TypeOK
    <3>3. g \in Owners(t.anchor)
      BY <2>2, <3>1, <3>2
    <3>4. To(f, t).file = g
      BY <1>1, <2>1, <2>3 DEF Resolution, Bound
    <3>5. t.anchor # Root
      BY <1>1, <3>1, Apart DEF TypeOK
    <3> HIDE DEF g
    <3> QED BY <1>5, <3>1, <3>3, <3>4, <3>5
  <2>4. CASE ~Unique(t)
    <3>1. To(f, t) = Unresolved
      BY <1>1, <2>1, <2>4 DEF Resolution
    <3>2. t.anchor # Root => Cardinality(Owners(t.anchor)) # 1
      <4> SUFFICES ASSUME t.anchor # Root, Cardinality(Owners(t.anchor)) = 1 PROVE FALSE
        OBVIOUS
      <4>1. t.anchor \notin DOMAIN by_local_id
        BY <2>2, <2>4 DEF Unique
      <4>2. Owners(t.anchor) = {}
        BY <4>1, GraphFacts DEF Owners
      <4> QED BY <4>2, FS_EmptySet
    <3> QED BY <1>5, <3>1, <3>2
  <2> QED BY <2>3, <2>4
<1> QED BY <1>4, <1>5

\* Between two calls of build(), also after one that raised: a reference leads to
\* the tree that the graph of its file was made of (resolver.py:34, 56-86); and
\* if the catalog has nothing but what the documents have, it is bound as the
\* documents alone say (docs/architecture.adoc, resolver.py:590-620).
THEOREM GraphsOfOneBuild == Spec => []GraphsFit
<1>1. WInv => GraphsFit
  BY Fits, Declared DEF GraphsFit
<1> QED BY <1>1, Invariant, PTL

\* Anchors that were removed stay in the catalog and hide none that is there
\* (resolver.py:590-620).
THEOREM LiveAnchorsFirst == Spec => []LiveFirst
<1>1. ASSUME WInv PROVE LiveFirst
  <2> SUFFICES ASSUME pass = "idle", NEW f \in DOMAIN resolved_asg_graphs, NEW t \in Target
               PROVE  /\ Has(t.file, t.anchor) => To(f, t) = Node(t.file, t.anchor)
                      /\ t.file = NoFile /\ Has(f, t.anchor) => To(f, t) = Node(f, t.anchor)
    BY DEF LiveFirst
  <2>1. TypeOK /\ To(f, t) = Resolution(f, t)
    BY <1>1, GraphFacts DEF WInv
  <2>2. CASE Has(t.file, t.anchor)
    <3>1. Named(t)
      BY <1>1, <2>2, GraphFacts DEF Named
    <3>2. To(f, t) = Node(t.file, t.anchor)
      BY <1>1, <2>1, <2>2, <3>1, GraphFacts DEF Resolution
    <3>3. t.file # NoFile
      BY <1>1, <2>2, GraphFacts, Apart DEF Has
    <3> QED BY <3>2, <3>3
  <2>3. CASE t.file = NoFile /\ Has(f, t.anchor)
    <3>1. ~Named(t)
      BY <2>1, <2>3, Apart DEF Named, TypeOK, Key
    <3>2. Local(f, t)
      BY <1>1, <2>3, GraphFacts DEF Local
    <3>3. To(f, t) = Node(f, t.anchor)
      BY <1>1, <2>1, <2>3, <3>1, <3>2, GraphFacts DEF Resolution
    <3>4. ~Has(t.file, t.anchor)
      BY <1>1, <2>3, GraphFacts, Apart DEF Has
    <3> QED BY <3>3, <3>4
  <2> QED BY <2>2, <2>3
<1> QED BY <1>1, Invariant, PTL

\* When build() comes to its end its warnings are those of its graphs: none is
\* missing, and none is left of a call before (resolver.py:66-86).
THEOREM WarningsOfOneBuild == Spec => WarnedThisBuild
<1>1. ASSUME WInv, [Next]_vars
      PROVE  pass = "resolve" /\ pass' = "idle" =>
               warnings' = {p \in Files \X Target :
                              /\ p[1] \in DOMAIN resolved_asg_graphs'
                              /\ resolved_asg_graphs'[p[1]].to[p[2]] = Unresolved}
  <2> SUFFICES ASSUME pass = "resolve", pass' = "idle"
               PROVE  warnings' = {p \in Files \X Target :
                                     /\ p[1] \in DOMAIN resolved_asg_graphs'
                                     /\ resolved_asg_graphs'[p[1]].to[p[2]] = Unresolved}
    OBVIOUS
  <2>1. TypeOK /\ GraphsInv /\ WarningsInv
    BY <1>1 DEF WInv
  <2>2. todo = {} /\ UNCHANGED <<resolved_asg_graphs, warnings>>
    BY <1>1 DEF Next, vars, Edit, Discover, Parse, Fail, NextPass, Index, Resolve
  <2>3. DOMAIN resolved_asg_graphs = DOMAIN raw_documents /\ DOMAIN raw_documents \subseteq Files
    BY <2>1, <2>2 DEF TypeOK, GraphsInv, Current
  <2>4. DOMAIN raw_documents \ todo = DOMAIN resolved_asg_graphs
    BY <2>2, <2>3
  <2>5. warnings = WarnedOf(DOMAIN resolved_asg_graphs)
    BY <2>1, <2>4 DEF WarningsInv
  <2>6. \A p \in Files \X Target :
          p \in warnings <=> /\ p[1] \in DOMAIN resolved_asg_graphs
                             /\ resolved_asg_graphs[p[1]].to[p[2]] = Unresolved
    BY <2>5 DEF WarnedOf
  <2>7. warnings \subseteq Files \X Target
    BY <2>3, <2>5 DEF WarnedOf
  <2> QED BY <2>2, <2>6, <2>7
<1> QED BY <1>1, Invariant, PTL DEF Spec, WarnedThisBuild

=============================================================================
