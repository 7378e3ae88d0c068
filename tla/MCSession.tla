----------------------------- MODULE MCSession -----------------------------
(***************************************************************************)
(* Two threads and the calls that tell the caches apart: a text that reads *)
(* a file, with and without schemes, strict and not, and one that stands   *)
(* alone.                                                                  *)
(***************************************************************************)
EXTENDS Session, TLC

CONSTANTS p, q

Alike == Permutations(Callers)

Call(t, s, strict, cached) ==
  [text |-> t, schemes |-> s, strict |-> strict, ordinary |-> TRUE, use_cache |-> cached]

\* "page" includes a file, "note" and "draft" do not; "note" is resolved with
\* docinfo, "draft" cannot be parsed.
TheRequests ==
  {Call("page", "none", TRUE, TRUE), Call("page", "none", FALSE, TRUE),
   Call("page", "none", TRUE, FALSE), Call("note", "custom", TRUE, TRUE),
   Call("draft", "none", FALSE, TRUE)}

\* What the included file does to the page as it is written.
TheFaults ==
  [t \in Texts |->
     [v \in 0 .. MaxEvents |->
        IF t = "note" THEN {}
        ELSE IF t = "draft" THEN {"syntax"}
        ELSE CASE v = 0 -> {}
               [] v = 1 -> {"bulleted_term"}
               [] OTHER -> {"crash", "unclosed"}]]

\* Where there is a table, of one cell or of two.
TheCells ==
  [t \in Texts |->
     [v \in 0 .. MaxEvents |->
        IF t = "note" THEN <<TRUE>>
        ELSE IF t = "draft" THEN <<>>
        ELSE CASE v = 0 -> <<TRUE>>
               [] v = 1 -> <<FALSE, TRUE>>
               [] OTHER -> <<TRUE>>]]
=============================================================================
