----------------------------- MODULE Workspace -----------------------------
(***************************************************************************)
(* WorkspaceBuilder.build(): three passes over the files of a workspace,   *)
(* which parse them, index their anchors in one catalog, and bind the      *)
(* references of each.  Files are edited, added and removed by others at   *)
(* any time, and build() is called again on what the last call left.       *)
(*                                                                         *)
(* A document is its set of anchors and the build that parsed it; a node   *)
(* of the tree is known by its file, its anchor and that build.  Every     *)
(* document refers to every target: references do not affect each other.   *)
(***************************************************************************)
EXTENDS Naturals, FiniteSets

CONSTANTS
  Files,      \* file ids that the loader may find
  Anchors,
  Root,       \* the empty anchor, of the document as a whole
  Absent,     \* the id of a file that is never there
  NoFile,     \* a target without a file
  Gone,       \* no file
  Broken,     \* a file that the parser rejects
  MaxBuilds   \* bound: the calls of build()

Text == [anchors : SUBSET Anchors]

ASSUME WorkspaceAssumption ==
  /\ Root \notin Anchors
  /\ Absent \notin Files /\ NoFile \notin Files \cup {Absent}
  /\ Gone # Broken /\ Gone \notin Text /\ Broken \notin Text
  /\ MaxBuilds \in Nat

Content  == Text \cup {Gone, Broken}
Target   == [file : Files \cup {Absent, NoFile}, anchor : Anchors \cup {Root}]
Key      == Files \X (Anchors \cup {Root})

VARIABLES
  disk,          \* what the loader has
  pass,          \* "idle", "parse", "index", "resolve"
  todo,          \* the files that the pass has still to look at
  builds,        \* the calls of build() so far
  raw_documents,
  by_fqid,       \* the build of the node of each file and anchor
  by_local_id,   \* the files of each anchor
  resolved_asg_graphs,
  warnings

vars == <<disk, pass, todo, builds, raw_documents, by_fqid, by_local_id,
          resolved_asg_graphs, warnings>>

Put(f, key, value) == [k \in DOMAIN f \cup {key} |-> IF k = key THEN value ELSE f[k]]

Init == /\ disk \in [Files -> Content]
        /\ pass = "idle" /\ todo = {} /\ builds = 0
        /\ raw_documents = <<>> /\ by_fqid = <<>> /\ by_local_id = <<>>
        /\ resolved_asg_graphs = <<>> /\ warnings = {}

\* Somebody changes a file.  Only the first pass reads files, and after the
\* last build there is nobody to see it.
Edit == /\ pass = "parse" \/ (pass = "idle" /\ builds < MaxBuilds)
        /\ \E f \in Files, c \in Content : disk' = [disk EXCEPT ![f] = c]
        /\ UNCHANGED <<pass, todo, builds, raw_documents, by_fqid, by_local_id,
                       resolved_asg_graphs, warnings>>

\* Mutation of Discover: the warnings of the last build remain.
Discover_KeepsWarnings ==
  /\ pass = "idle" /\ builds < MaxBuilds
  /\ builds' = builds + 1
  /\ pass' = "parse" /\ todo' = {f \in Files : disk[f] # Gone}
  /\ UNCHANGED <<disk, raw_documents, by_fqid, by_local_id, resolved_asg_graphs, warnings>>

\* build() is called and finds the files.
Discover ==
  /\ pass = "idle" /\ builds < MaxBuilds
  /\ builds' = builds + 1 /\ warnings' = {}
  /\ pass' = "parse" /\ todo' = {f \in Files : disk[f] # Gone}
  /\ UNCHANGED <<disk, raw_documents, by_fqid, by_local_id, resolved_asg_graphs>>

\* The files are parsed in the order of their names, the later passes follow
\* the order of raw_documents; here the order is left open.
Parse ==
  /\ pass = "parse"
  /\ \E f \in todo :
       /\ disk[f] \notin {Gone, Broken}
       /\ raw_documents' = Put(raw_documents, f, [made |-> builds, anchors |-> disk[f].anchors])
       /\ todo' = todo \ {f}
  /\ UNCHANGED <<disk, pass, builds, by_fqid, by_local_id, resolved_asg_graphs, warnings>>

\* A file has disappeared since, or cannot be parsed: build() raises.
Fail ==
  /\ pass = "parse"
  /\ \E f \in todo : disk[f] \in {Gone, Broken}
  /\ pass' = "idle" /\ todo' = {}
  /\ UNCHANGED <<disk, builds, raw_documents, by_fqid, by_local_id,
                 resolved_asg_graphs, warnings>>

\* Mutation of NextPass: indexing and resolving are one pass over the files.
NextPass_Resolves ==
  /\ \/ pass = "parse" /\ todo = {} /\ pass' = "index" /\ todo' = DOMAIN raw_documents
     \/ pass = "index" /\ pass' = "resolve" /\ todo' = DOMAIN raw_documents
     \/ pass = "resolve" /\ todo = {} /\ pass' = "idle" /\ todo' = {}
  /\ UNCHANGED <<disk, builds, raw_documents, by_fqid, by_local_id,
                 resolved_asg_graphs, warnings>>

\* A pass has looked at everything; the later ones take every document that
\* some build has parsed, whether or not its file is still there.
NextPass ==
  /\ todo = {}
  /\ \/ pass = "parse" /\ pass' = "index" /\ todo' = DOMAIN raw_documents
     \/ pass = "index" /\ pass' = "resolve" /\ todo' = DOMAIN raw_documents
     \/ pass = "resolve" /\ pass' = "idle" /\ todo' = {}
  /\ UNCHANGED <<disk, builds, raw_documents, by_fqid, by_local_id,
                 resolved_asg_graphs, warnings>>

KeysOf(f) == {f} \X (raw_documents[f].anchors \cup {Root})

\* Mutation of Index: the keys of the other documents are lost.
Index_Forgets ==
  /\ pass = "index"
  /\ \E f \in todo :
       /\ todo' = todo \ {f}
       /\ by_fqid' = [k \in KeysOf(f) |-> raw_documents[f].made]
       /\ by_local_id' = [a \in DOMAIN by_local_id \cup raw_documents[f].anchors |->
            {g \in Files : \/ a \in DOMAIN by_local_id /\ g \in by_local_id[a]
                           \/ a \in raw_documents[f].anchors /\ g = f}]
  /\ UNCHANGED <<disk, pass, builds, raw_documents, resolved_asg_graphs, warnings>>

\* index_document adds and replaces keys, and removes none.
Index ==
  /\ pass = "index"
  /\ \E f \in todo :
       /\ todo' = todo \ {f}
       /\ by_fqid' = [k \in DOMAIN by_fqid \cup KeysOf(f) |->
                        IF k \in KeysOf(f) THEN raw_documents[f].made ELSE by_fqid[k]]
       /\ by_local_id' = [a \in DOMAIN by_local_id \cup raw_documents[f].anchors |->
            {g \in Files : \/ a \in DOMAIN by_local_id /\ g \in by_local_id[a]
                           \/ a \in raw_documents[f].anchors /\ g = f}]
  /\ UNCHANGED <<disk, pass, builds, raw_documents, resolved_asg_graphs, warnings>>

Unresolved == [file |-> NoFile, made |-> 0]
Bound(g, a) == [file |-> g, made |-> by_fqid[<<g, a>>]]

\* Mutation of Resolution: the document itself before the file that is named.
Resolution_LocalFirst(f, t) ==
  CASE <<f, t.anchor>> \in DOMAIN by_fqid      -> Bound(f, t.anchor)
    [] <<f, t.anchor>> \notin DOMAIN by_fqid
       /\ <<t.file, t.anchor>> \in DOMAIN by_fqid -> Bound(t.file, t.anchor)
    [] OTHER                                   -> Unresolved

\* The three tiers of visit_ref for target t in document f: the file that is
\* named, the document itself, the one file that ever had the anchor.
Named(t)       == <<t.file, t.anchor>> \in DOMAIN by_fqid
Local(f, t)    == <<f, t.anchor>> \in DOMAIN by_fqid
Unique(t)      == t.anchor \in DOMAIN by_local_id /\ Cardinality(by_local_id[t.anchor]) = 1
Resolution(f, t) ==
  CASE Named(t)                               -> Bound(t.file, t.anchor)
    [] ~Named(t) /\ Local(f, t)               -> Bound(f, t.anchor)
    [] ~Named(t) /\ ~Local(f, t) /\ Unique(t) ->
         Bound(CHOOSE g \in by_local_id[t.anchor] : TRUE, t.anchor)
    [] OTHER                                  -> Unresolved

Resolve ==
  /\ pass = "resolve"
  /\ \E f \in todo :
       LET to == [t \in Target |-> Resolution(f, t)]
       IN  /\ todo' = todo \ {f}
           /\ resolved_asg_graphs' = Put(resolved_asg_graphs, f,
                                         [doc |-> raw_documents[f], to |-> to])
           /\ warnings' = warnings \cup {<<f, t>> : t \in {u \in Target : to[u] = Unresolved}}
  /\ UNCHANGED <<disk, pass, builds, raw_documents, by_fqid, by_local_id>>

Next == Edit \/ Discover \/ Parse \/ Fail \/ NextPass \/ Index \/ Resolve

Spec == Init /\ [][Next]_vars

-----------------------------------------------------------------------------
\* The types of the state; and a file listed for an anchor has it in by_fqid,
\* where the third tier of visit_ref looks it up without asking.
Raw == [made : 1 .. MaxBuilds, anchors : SUBSET Anchors]
TypeOK ==
  /\ disk \in [Files -> Content]
  /\ pass \in {"idle", "parse", "index", "resolve"}
  /\ todo \subseteq Files /\ builds \in 0 .. MaxBuilds
  /\ DOMAIN raw_documents \subseteq Files
  /\ \A f \in DOMAIN raw_documents : raw_documents[f] \in Raw
  /\ DOMAIN by_fqid \subseteq Key
  /\ \A k \in DOMAIN by_fqid : by_fqid[k] \in 1 .. MaxBuilds
  /\ DOMAIN by_local_id \subseteq Anchors
  /\ \A a \in DOMAIN by_local_id : /\ by_local_id[a] # {}
                                    /\ by_local_id[a] \X {a} \subseteq DOMAIN by_fqid
  /\ DOMAIN resolved_asg_graphs \subseteq DOMAIN raw_documents
  /\ warnings \subseteq Files \X Target

To(f, t)  == resolved_asg_graphs[f].to[t]
Has(f, a) == /\ f \in DOMAIN resolved_asg_graphs
             /\ a \in resolved_asg_graphs[f].doc.anchors \cup {Root}
Node(f, a) == [file |-> f, made |-> resolved_asg_graphs[f].doc.made]

\* Between two calls of build() the graphs fit each other, also when the last
\* call raised half way: a reference leads to the tree from which the graph of
\* its file was made (the "live" node of resolver.py:34), except to an anchor
\* that this file has no more.
OneBuild ==
  pass = "idle" =>
    \A f \in DOMAIN resolved_asg_graphs : \A t \in Target :
      LET to == To(f, t)
      IN  to # Unresolved =>
            /\ to.file \in DOMAIN resolved_asg_graphs
            /\ Has(to.file, t.anchor) => to = Node(to.file, t.anchor)

\* Anchors that were removed since stay in the catalog, but none of them hides
\* an anchor that is there: what a target names is found where it says, and
\* without a file in the document itself.
LiveFirst ==
  pass = "idle" =>
    \A f \in DOMAIN resolved_asg_graphs : \A t \in Target :
      /\ Has(t.file, t.anchor) => To(f, t) = Node(t.file, t.anchor)
      /\ t.file = NoFile /\ Has(f, t.anchor) => To(f, t) = Node(f, t.anchor)

\* If the catalog has nothing but what is in the documents, each reference is
\* bound as the documents alone say, in whatever order the files were looked
\* at (docs/architecture.adoc: unique across the workspace): to the only
\* candidate of the first tier that has one, and to none of several.
Removed == {k \in DOMAIN by_fqid : ~Has(k[1], k[2])}
Owners(a) == {g \in Files : Has(g, a)}
AsDeclared ==
  pass = "idle" /\ Removed = {} =>
    \A f \in DOMAIN resolved_asg_graphs : \A t \in Target :
      LET direct == {g \in {t.file, f} : Has(g, t.anchor)}
      IN  IF direct # {}
          THEN To(f, t).file = IF t.file \in direct THEN t.file ELSE f
          ELSE IF t.anchor # Root /\ Cardinality(Owners(t.anchor)) = 1
               THEN To(f, t).file \in Owners(t.anchor)
               ELSE To(f, t) = Unresolved

\* The graphs of a build fit each other, and are bound as the documents say
\* (resolver.py:56-86, 590-620).
GraphsFit == OneBuild /\ AsDeclared

\* When a build has come to its end its warnings are those of its graphs, and
\* no others: a call that raised, or an earlier one, leaves none behind.
WarnedThisBuild ==
  [][pass = "resolve" /\ pass' = "idle" =>
       warnings' = {p \in Files \X Target :
                      /\ p[1] \in DOMAIN resolved_asg_graphs'
                      /\ resolved_asg_graphs'[p[1]].to[p[2]] = Unresolved}]_vars
=============================================================================
