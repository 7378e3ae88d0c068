-------------------------- MODULE FootnotesProofs --------------------------
(***************************************************************************)
(* For texts of any length and any set of ids: the catalog of the ASG and  *)
(* the footnotes of the docutils tree are those of the text, and agree     *)
(* when no macro stands inside another, up to the first that is not in the *)
(* flow of the text.                                                       *)
(***************************************************************************)
EXTENDS Footnotes, FiniteSetTheorems, SequenceTheorems, TLAPS

-----------------------------------------------------------------------------
(* The text: which macros have ended, and where                             *)

Part(t, part, m, e)  == {k \in m .. e : t[k].part = part}
Count(t, part, m, e) == Cardinality(Part(t, part, m, e))

\* The macro that began at b has ended at e.
Ends(t, b, e) ==
  /\ e \in b .. Len(t)
  /\ Count(t, "begin", b, e) = Count(t, "end", b, e)
  /\ \A k \in b .. e - 1 : Count(t, "begin", b, k) # Count(t, "end", b, k)

Opened == {open[i] : i \in 1 .. Len(open)}

\* An open macro has met more macros that began, itself included, than ended;
\* those that have ended did so before the open ones after them began.
Ongoing ==
  \A i \in 1 .. Len(open) :
    /\ \A e \in open[i] .. Len(text) :
         Count(text, "end", open[i], e) < Count(text, "begin", open[i], e)
    /\ Count(text, "begin", open[i], Len(text))
         = Count(text, "end", open[i], Len(text)) + Len(open) - i + 1
Over ==
  \A b \in (1 .. Len(text)) \ Opened :
    text[b].part = "begin" =>
      \E e \in b .. Len(text) : /\ Ends(text, b, e)
                                /\ \A i \in 1 .. Len(open) : b < open[i] => e < open[i]

\* What stands inside the open macros stands where the innermost does.
Inherited ==
  \A i \in 1 .. Len(open) : \A k \in open[i] .. Len(text) :
    text[k].part = "end" \/ text[k].within = text[Innermost].within

TextInv ==
  /\ text \in Seq(Token) /\ open \in Seq(1 .. Len(text))
  /\ \A i \in 1 .. Len(open) : text[open[i]].part = "begin"
  /\ \A i, j \in 1 .. Len(open) : i < j => open[i] < open[j]
  /\ Ongoing /\ Over /\ Inherited

\* Parts of a text are finite sets.
LEMMA PartFinite ==
  ASSUME NEW t, NEW part, NEW m \in Nat, NEW e \in Nat
  PROVE  IsFiniteSet(Part(t, part, m, e)) /\ Count(t, part, m, e) \in Nat
<1>1. IsFiniteSet(m .. e) BY FS_Interval
<1>2. IsFiniteSet(Part(t, part, m, e)) BY <1>1, FS_Subset DEF Part
<1> QED BY <1>2, FS_CardinalityType DEF Count

\* Counting up to the last token: that token is one more of its part, and the
\* counts up to those before are what they were.
LEMMA CountStep ==
  ASSUME NEW t \in Seq(Token), NEW tok \in Token, NEW m \in 1 .. Len(t) + 1,
         NEW part \in {"begin", "end"}
  PROVE  LET u == Append(t, tok)
         IN  /\ \A e \in 0 .. Len(t) : Count(u, part, m, e) = Count(t, part, m, e)
             /\ Count(u, part, m, Len(t) + 1) =
                  Count(t, part, m, Len(t)) + (IF tok.part = part THEN 1 ELSE 0)
<1> DEFINE u == Append(t, tok)
           n == Len(t) + 1
<1>1. Len(t) \in Nat /\ m \in Nat /\ n \in Nat OBVIOUS
<1>2. u \in Seq(Token) /\ Len(u) = n /\ u[n] = tok /\ \A k \in 1 .. Len(t) : u[k] = t[k]
  OBVIOUS
<1>3. ASSUME NEW e \in 0 .. Len(t) PROVE Part(u, part, m, e) = Part(t, part, m, e)
  BY <1>1, <1>2 DEF Part
<1>4. Part(u, part, m, n) =
        IF tok.part = part THEN Part(t, part, m, Len(t)) \cup {n} ELSE Part(t, part, m, Len(t))
  BY <1>1, <1>2 DEF Part
<1>5. IsFiniteSet(Part(t, part, m, Len(t))) /\ Count(t, part, m, Len(t)) \in Nat
  BY <1>1, PartFinite
<1>6. n \notin Part(t, part, m, Len(t)) BY <1>1 DEF Part
<1>7. Cardinality(Part(t, part, m, Len(t)) \cup {n}) = Cardinality(Part(t, part, m, Len(t))) + 1
  BY <1>5, <1>6, FS_AddElement
<1>8. Count(u, part, m, n) =
        Count(t, part, m, Len(t)) + (IF tok.part = part THEN 1 ELSE 0)
  BY <1>4, <1>5, <1>7 DEF Count
<1> QED BY <1>3, <1>8 DEF Count

\* Where a macro has ended it has ended for good.
LEMMA EndStays ==
  ASSUME NEW t \in Seq(Token), NEW tok \in Token, NEW b \in 1 .. Len(t), NEW e \in b .. Len(t)
  PROVE  Ends(Append(t, tok), b, e) <=> Ends(t, b, e)
<1> DEFINE u == Append(t, tok)
<1>1. Len(u) = Len(t) + 1 /\ Len(t) \in Nat OBVIOUS
<1>2. ASSUME NEW k \in b .. e
      PROVE  /\ Count(u, "begin", b, k) = Count(t, "begin", b, k)
             /\ Count(u, "end", b, k) = Count(t, "end", b, k)
  BY <1>1, CountStep
<1>3. e \in b .. Len(u) /\ e \in b .. e /\ b .. e - 1 \subseteq b .. e BY <1>1
<1> HIDE DEF u
<1>4. Ends(u, b, e) <=> Ends(t, b, e) BY <1>2, <1>3, Zenon DEF Ends
<1> QED BY <1>4 DEF u

\* The instances count as this module does.
LEMMA SameCount ==
  ASSUME NEW S
  PROVE  Resolver!Cardinality(S) = Cardinality(S) /\ Renderer!Cardinality(S) = Cardinality(S)
BY DEF Resolver!Cardinality, Renderer!Cardinality, Cardinality

LEMMA SameBalance ==
  ASSUME NEW b, NEW k
  PROVE  /\ Balanced(b, k) <=> Count(text, "begin", b, k) = Count(text, "end", b, k)
         /\ Resolver!Balanced(b, k) <=> Balanced(b, k)
         /\ Renderer!Balanced(b, k) <=> Balanced(b, k)
<1> DEFINE begins == {i \in b .. k : text[i].part = "begin"}
           ends   == {i \in b .. k : text[i].part = "end"}
<1>1. Balanced(b, k) <=> Cardinality(begins) = Cardinality(ends) BY Zenon DEF Balanced
<1>2. Resolver!Balanced(b, k) <=> Resolver!Cardinality(begins) = Resolver!Cardinality(ends)
  BY Zenon DEF Resolver!Balanced
<1>3. Renderer!Balanced(b, k) <=> Renderer!Cardinality(begins) = Renderer!Cardinality(ends)
  BY Zenon DEF Renderer!Balanced
<1>4. /\ Count(text, "begin", b, k) = Cardinality(begins)
      /\ Count(text, "end", b, k) = Cardinality(ends)
  BY Zenon DEF Count, Part
<1> HIDE DEF begins, ends
<1> QED BY <1>1, <1>2, <1>3, <1>4, SameCount, Zenon

\* Only one place can be the end, and the definitions of either walk find it.
LEMMA TheEnd ==
  ASSUME text \in Seq(Token), NEW b \in 1 .. Len(text), NEW e, Ends(text, b, e)
  PROVE  /\ HasEnded(b) /\ EndOf(b) = e
         /\ Resolver!EndOf(b) = e
         /\ Renderer!HasEnded(b) /\ Renderer!EndOf(b) = e
<1>0. Len(text) \in Nat /\ e \in b .. Len(text) BY DEF Ends
<1>1. \A k : /\ Balanced(b, k) <=> Count(text, "begin", b, k) = Count(text, "end", b, k)
             /\ Resolver!Balanced(b, k) <=> Balanced(b, k)
             /\ Renderer!Balanced(b, k) <=> Balanced(b, k)
  BY SameBalance
<1>2. Balanced(b, e) /\ \A k \in b .. e - 1 : ~Balanced(b, k)
  BY <1>1 DEF Ends
<1>3. ASSUME NEW x \in b .. Len(text), Balanced(b, x), \A k \in b .. x - 1 : ~Balanced(b, k)
      PROVE  x = e
  <2>1. ~(x < e) BY <1>0, <1>2, <1>3
  <2>2. ~(e < x) BY <1>0, <1>2, <1>3
  <2> QED BY <1>0, <2>1, <2>2
<1>4. EndOf(b) = e BY <1>0, <1>2, <1>3 DEF EndOf
<1>5. Resolver!EndOf(b) = e BY <1>0, <1>1, <1>2, <1>3 DEF Resolver!EndOf
<1>6. Renderer!EndOf(b) = e BY <1>0, <1>1, <1>2, <1>3 DEF Renderer!EndOf
<1>7. HasEnded(b) /\ Renderer!HasEnded(b)
  BY <1>0, <1>1, <1>2 DEF HasEnded, Renderer!HasEnded
<1> QED BY <1>4, <1>5, <1>6, <1>7

\* The macros that are open have not ended; the others have, where Ends says.
LEMMA OpenOrOver ==
  ASSUME TextInv, NEW b \in 1 .. Len(text), text[b].part = "begin"
  PROVE  /\ b \in Opened => ~Renderer!HasEnded(b)
         /\ b \notin Opened => \E e \in b .. Len(text) : Ends(text, b, e)
<1>1. ASSUME b \in Opened PROVE ~Renderer!HasEnded(b)
  <2>1. PICK i \in 1 .. Len(open) : open[i] = b BY <1>1 DEF Opened
  <2>2. \A e \in b .. Len(text) : Count(text, "end", b, e) < Count(text, "begin", b, e)
    BY <2>1 DEF TextInv, Ongoing
  <2>3. \A e \in b .. Len(text) :
          Count(text, "end", b, e) \in Nat /\ Count(text, "begin", b, e) \in Nat
    BY PartFinite DEF TextInv
  <2>4. \A e \in b .. Len(text) : ~Renderer!Balanced(b, e)
    BY <2>2, <2>3, SameBalance
  <2> QED BY <2>4 DEF Renderer!HasEnded
<1>2. b \notin Opened => \E e \in b .. Len(text) : Ends(text, b, e)
  BY DEF TextInv, Over
<1> QED BY <1>1, <1>2

LEMMA FrontFacts ==
  ASSUME NEW S, NEW s \in Seq(S), s # <<>>
  PROVE  /\ SubSeq(s, 1, Len(s) - 1) \in Seq(S)
         /\ Len(SubSeq(s, 1, Len(s) - 1)) = Len(s) - 1
         /\ \A i \in 1 .. Len(s) - 1 : SubSeq(s, 1, Len(s) - 1)[i] = s[i]
<1>1. Len(s) \in Nat \ {0} OBVIOUS
<1>2. \A i \in 1 .. Len(s) - 1 : s[i] \in S BY <1>1
<1> DEFINE n == Len(s) - 1
<1>3. n \in Nat /\ 1 \in Int BY <1>1
<1> HIDE DEF n
<1>4. /\ SubSeq(s, 1, n) \in Seq(S)
      /\ Len(SubSeq(s, 1, n)) = IF 1 <= n THEN n - 1 + 1 ELSE 0
      /\ \A i \in 1 .. n - 1 + 1 : SubSeq(s, 1, n)[i] = s[1 + i - 1]
  BY <1>2, <1>3, SubSeqProperties DEF n
<1>5. /\ SubSeq(s, 1, n) \in Seq(S)
      /\ Len(SubSeq(s, 1, n)) = n
      /\ \A i \in 1 .. n : SubSeq(s, 1, n)[i] = s[i]
  BY <1>3, <1>4
<1> QED BY <1>5 DEF n

\* What is known of a text with one token more.
LEMMA Grown ==
  ASSUME TextInv, NEW tok \in Token, text' = Append(text, tok)
  PROVE  /\ Len(text) \in Nat /\ Len(text') = Len(text) + 1 /\ text' \in Seq(Token)
         /\ text'[Len(text) + 1] = tok
         /\ \A k \in 1 .. Len(text) : text'[k] = text[k]
         /\ \A b \in 1 .. Len(text) : \A e \in b .. Len(text) :
              Ends(text', b, e) <=> Ends(text, b, e)
         /\ Len(open) \in Nat
         /\ \A i \in 1 .. Len(open) : open[i] \in 1 .. Len(text)
<1>1. text \in Seq(Token) /\ open \in Seq(1 .. Len(text)) BY DEF TextInv
<1>2. \A b \in 1 .. Len(text) : \A e \in b .. Len(text) :
        Ends(text', b, e) <=> Ends(text, b, e)
  BY <1>1, EndStays
<1> QED BY <1>1, <1>2

\* The counts of the open macros when a token is met.
LEMMA OngoingStep ==
  ASSUME TextInv, NEW tok \in Token, text' = Append(text, tok), NEW i \in 1 .. Len(open)
  PROVE  /\ \A e \in open[i] .. Len(text) :
              Count(text', "end", open[i], e) < Count(text', "begin", open[i], e)
         /\ Count(text', "begin", open[i], Len(text) + 1)
              = Count(text, "end", open[i], Len(text)) + Len(open) - i + 1
                  + (IF tok.part = "begin" THEN 1 ELSE 0)
         /\ Count(text', "end", open[i], Len(text) + 1)
              = Count(text, "end", open[i], Len(text)) + (IF tok.part = "end" THEN 1 ELSE 0)
         /\ Count(text, "end", open[i], Len(text)) \in Nat
<1>1. Len(text) \in Nat /\ open[i] \in 1 .. Len(text) /\ text \in Seq(Token)
  BY Grown DEF TextInv
<1>2. \A part \in {"begin", "end"} :
        /\ \A e \in 0 .. Len(text) : Count(text', part, open[i], e) = Count(text, part, open[i], e)
        /\ Count(text', part, open[i], Len(text) + 1) =
             Count(text, part, open[i], Len(text)) + (IF tok.part = part THEN 1 ELSE 0)
  BY <1>1, CountStep
<1>3. /\ \A e \in open[i] .. Len(text) :
           Count(text, "end", open[i], e) < Count(text, "begin", open[i], e)
      /\ Count(text, "begin", open[i], Len(text))
           = Count(text, "end", open[i], Len(text)) + Len(open) - i + 1
  BY DEF TextInv, Ongoing
<1>4. Count(text, "end", open[i], Len(text)) \in Nat BY <1>1, PartFinite
<1>5. \A e \in open[i] .. Len(text) : e \in 0 .. Len(text) BY <1>1
<1>6. \A e \in open[i] .. Len(text) :
        Count(text', "end", open[i], e) < Count(text', "begin", open[i], e)
  BY <1>2, <1>3, <1>5
<1>7. /\ Count(text', "begin", open[i], Len(text) + 1) =
           Count(text, "begin", open[i], Len(text)) + (IF tok.part = "begin" THEN 1 ELSE 0)
      /\ Count(text', "end", open[i], Len(text) + 1) =
           Count(text, "end", open[i], Len(text)) + (IF tok.part = "end" THEN 1 ELSE 0)
  BY <1>2
<1> QED BY <1>3, <1>4, <1>6, <1>7

\* A macro that was over stays so.
LEMMA OverStep ==
  ASSUME TextInv, NEW tok \in Token, text' = Append(text, tok),
         NEW b \in (1 .. Len(text)) \ Opened, text'[b].part = "begin"
  PROVE  \E e \in b .. Len(text) : /\ Ends(text', b, e)
                                   /\ \A i \in 1 .. Len(open) : b < open[i] => e < open[i]
<1>1. text[b].part = "begin" BY Grown
<1>2. PICK e \in b .. Len(text) : /\ Ends(text, b, e)
                                  /\ \A i \in 1 .. Len(open) : b < open[i] => e < open[i]
  BY <1>1 DEF TextInv, Over
<1>3. Ends(text', b, e) BY <1>2, Grown
<1> QED BY <1>2, <1>3

LEMMA TextStart == text' = <<>> /\ open' = <<>> => TextInv'
BY DEF TextInv, Ongoing, Over, Inherited

LEMMA TextStutter == TextInv /\ text' = text /\ open' = open => TextInv'
<1> SUFFICES ASSUME TextInv, text' = text, open' = open PROVE TextInv'
  OBVIOUS
<1>1. Opened' = Opened BY DEF Opened
<1>2. Ongoing' BY DEF TextInv, Ongoing
<1>3. Over' BY <1>1 DEF TextInv, Over
<1>4. Inherited' BY DEF TextInv, Inherited, Innermost
<1> QED BY <1>2, <1>3, <1>4 DEF TextInv

LEMMA TextRef ==
  ASSUME TextInv, NEW id \in Ids, NEW w \in Within, MayStand(w),
         text' = Append(text, [part |-> "ref", id |-> id, within |-> w]), open' = open
  PROVE  TextInv'
<1> DEFINE tok == [part |-> "ref", id |-> id, within |-> w]
<1>0. tok \in Token /\ tok.part = "ref" /\ tok.within = w BY DEF Token
<1> HIDE DEF tok
<1>1. text' = Append(text, tok) BY DEF tok
<1>2. /\ Len(text) \in Nat /\ Len(text') = Len(text) + 1 /\ text' \in Seq(Token)
      /\ text'[Len(text) + 1] = tok /\ \A k \in 1 .. Len(text) : text'[k] = text[k]
      /\ Len(open) \in Nat /\ \A i \in 1 .. Len(open) : open[i] \in 1 .. Len(text)
  BY <1>0, <1>1, Grown
<1>3. open' \in Seq(1 .. Len(text')) BY <1>2 DEF TextInv
<1>4. /\ \A i \in 1 .. Len(open') : text'[open'[i]].part = "begin"
      /\ \A i, j \in 1 .. Len(open') : i < j => open'[i] < open'[j]
  BY <1>2 DEF TextInv
<1>5. ASSUME NEW i \in 1 .. Len(open')
      PROVE  /\ \A e \in open'[i] .. Len(text') :
                  Count(text', "end", open'[i], e) < Count(text', "begin", open'[i], e)
             /\ Count(text', "begin", open'[i], Len(text'))
                  = Count(text', "end", open'[i], Len(text')) + Len(open') - i + 1
  <2>1. /\ \A e \in open[i] .. Len(text) :
              Count(text', "end", open[i], e) < Count(text', "begin", open[i], e)
        /\ Count(text', "begin", open[i], Len(text) + 1)
              = Count(text, "end", open[i], Len(text)) + Len(open) - i + 1
        /\ Count(text', "end", open[i], Len(text) + 1) = Count(text, "end", open[i], Len(text))
        /\ Count(text, "end", open[i], Len(text)) \in Nat
    <3>1. i \in 1 .. Len(open) BY <1>2
    <3>2. /\ \A e \in open[i] .. Len(text) :
                Count(text', "end", open[i], e) < Count(text', "begin", open[i], e)
          /\ Count(text', "begin", open[i], Len(text) + 1)
                = Count(text, "end", open[i], Len(text)) + Len(open) - i + 1 + 0
          /\ Count(text', "end", open[i], Len(text) + 1)
                = Count(text, "end", open[i], Len(text)) + 0
          /\ Count(text, "end", open[i], Len(text)) \in Nat
      BY <1>0, <1>1, <3>1, OngoingStep
    <3> QED BY <1>2, <3>1, <3>2
  <2>2. i \in 1 .. Len(open) /\ open[i] \in 1 .. Len(text) BY <1>2
  <2>3. Count(text', "end", open[i], Len(text) + 1) < Count(text', "begin", open[i], Len(text) + 1)
    BY <1>2, <2>1, <2>2
  <2>4. \A e \in open[i] .. Len(text) + 1 : e \in open[i] .. Len(text) \/ e = Len(text) + 1
    BY <1>2, <2>2
  <2> QED BY <1>2, <2>1, <2>3, <2>4
<1>6. Ongoing' BY <1>5 DEF Ongoing
<1>7. Opened' = Opened BY DEF Opened
<1>8. ASSUME NEW b \in (1 .. Len(text')) \ Opened', text'[b].part = "begin"
      PROVE  \E e \in b .. Len(text') : /\ Ends(text', b, e)
                                        /\ \A i \in 1 .. Len(open') : b < open'[i] => e < open'[i]
  <2>1. b \in (1 .. Len(text)) \ Opened BY <1>0, <1>2, <1>7, <1>8
  <2>2. PICK e \in b .. Len(text) : /\ Ends(text', b, e)
                                    /\ \A i \in 1 .. Len(open) : b < open[i] => e < open[i]
    BY <1>0, <1>1, <1>8, <2>1, OverStep
  <2>3. e \in b .. Len(text') BY <1>2
  <2> QED BY <2>2, <2>3
<1>9. Over' BY <1>8 DEF Over
<1>10. Inherited'
  <2> SUFFICES ASSUME NEW i \in 1 .. Len(open), NEW k \in open[i] .. Len(text) + 1
               PROVE  text'[k].part = "end" \/ text'[k].within = text'[Innermost].within
    BY <1>2 DEF Inherited, Innermost
  <2>1. Innermost \in 1 .. Len(text) /\ open # <<>> BY <1>2 DEF Innermost
  <2>2. text'[Innermost] = text[Innermost] BY <1>2, <2>1
  <2>3. CASE k = Len(text) + 1 BY <1>0, <1>2, <2>1, <2>2, <2>3 DEF MayStand
  <2>4. CASE k # Len(text) + 1
    <3>1. k \in open[i] .. Len(text) /\ k \in 1 .. Len(text) BY <1>2, <2>4
    <3>2. text[k].part = "end" \/ text[k].within = text[Innermost].within
      BY <3>1 DEF TextInv, Inherited
    <3> QED BY <1>2, <2>2, <3>1, <3>2
  <2> QED BY <2>3, <2>4
<1> QED BY <1>2, <1>3, <1>4, <1>6, <1>9, <1>10 DEF TextInv

LEMMA TextBegin ==
  ASSUME TextInv, NEW id \in Ids \cup {None}, NEW w \in Within, MayStand(w),
         text' = Append(text, [part |-> "begin", id |-> id, within |-> w]),
         open' = Append(open, Len(text) + 1)
  PROVE  TextInv'
<1> DEFINE tok == [part |-> "begin", id |-> id, within |-> w]
           n   == Len(text) + 1
<1>0. tok \in Token /\ tok.part = "begin" /\ tok.within = w BY DEF Token
<1> HIDE DEF tok
<1>1. text' = Append(text, tok) BY DEF tok
<1>2. /\ Len(text) \in Nat /\ Len(text') = n /\ text' \in Seq(Token)
      /\ text'[n] = tok /\ \A k \in 1 .. Len(text) : text'[k] = text[k]
      /\ Len(open) \in Nat /\ \A i \in 1 .. Len(open) : open[i] \in 1 .. Len(text)
  BY <1>0, <1>1, Grown
<1>3. /\ Len(open') = Len(open) + 1 /\ open'[Len(open) + 1] = n
      /\ \A i \in 1 .. Len(open) : open'[i] = open[i]
      /\ open' \in Seq(1 .. Len(text'))
  BY <1>2 DEF TextInv
<1>4. /\ \A i \in 1 .. Len(open') : text'[open'[i]].part = "begin"
      /\ \A i, j \in 1 .. Len(open') : i < j => open'[i] < open'[j]
  <2>1. /\ \A i \in 1 .. Len(open) : text[open[i]].part = "begin"
        /\ \A i, j \in 1 .. Len(open) : i < j => open[i] < open[j]
    BY DEF TextInv
  <2>2. \A i \in 1 .. Len(open') : i \in 1 .. Len(open) \/ i = Len(open) + 1
    BY <1>2, <1>3
  <2>3. \A i \in 1 .. Len(open') : text'[open'[i]].part = "begin"
    BY <1>0, <1>2, <1>3, <2>1, <2>2
  <2>4. ASSUME NEW i \in 1 .. Len(open'), NEW j \in 1 .. Len(open'), i < j
        PROVE  open'[i] < open'[j]
    <3>1. i \in 1 .. Len(open) BY <1>2, <1>3, <2>4
    <3>2. CASE j \in 1 .. Len(open) BY <1>3, <2>1, <2>4, <3>1, <3>2
    <3>3. CASE j = Len(open) + 1 BY <1>2, <1>3, <3>1, <3>3
    <3> QED BY <2>2, <3>2, <3>3
  <2> QED BY <2>3, <2>4
<1>5. ASSUME NEW i \in 1 .. Len(open')
      PROVE  /\ \A e \in open'[i] .. Len(text') :
                  Count(text', "end", open'[i], e) < Count(text', "begin", open'[i], e)
             /\ Count(text', "begin", open'[i], Len(text'))
                  = Count(text', "end", open'[i], Len(text')) + Len(open') - i + 1
  <2>1. ASSUME i \in 1 .. Len(open)
        PROVE  /\ \A e \in open[i] .. Len(text) :
                    Count(text', "end", open[i], e) < Count(text', "begin", open[i], e)
               /\ Count(text', "begin", open[i], n)
                    = Count(text, "end", open[i], Len(text)) + Len(open) - i + 2
               /\ Count(text', "end", open[i], n) = Count(text, "end", open[i], Len(text))
               /\ Count(text, "end", open[i], Len(text)) \in Nat
    <3>1. /\ \A e \in open[i] .. Len(text) :
                Count(text', "end", open[i], e) < Count(text', "begin", open[i], e)
          /\ Count(text', "begin", open[i], n)
                = Count(text, "end", open[i], Len(text)) + Len(open) - i + 1 + 1
          /\ Count(text', "end", open[i], n) = Count(text, "end", open[i], Len(text)) + 0
          /\ Count(text, "end", open[i], Len(text)) \in Nat
      BY <1>0, <1>1, <2>1, OngoingStep
    <3> QED BY <1>2, <2>1, <3>1
  <2>2. ASSUME i \in 1 .. Len(open)
        PROVE  /\ \A e \in open[i] .. n :
                    Count(text', "end", open[i], e) < Count(text', "begin", open[i], e)
               /\ Count(text', "begin", open[i], n)
                    = Count(text', "end", open[i], n) + (Len(open) + 1) - i + 1
    <3>1. \A e \in open[i] .. n : e \in open[i] .. Len(text) \/ e = n
      BY <1>2, <2>2
    <3> QED BY <1>2, <2>1, <2>2, <3>1
  <2>3. Count(text', "begin", n, n) = 1 /\ Count(text', "end", n, n) = 0
    <3>1. Part(text', "begin", n, n) = {n} /\ Part(text', "end", n, n) = {}
      BY <1>0, <1>2 DEF Part
    <3> QED BY <3>1, FS_Singleton, FS_EmptySet DEF Count
  <2>4. i \in 1 .. Len(open) \/ i = Len(open) + 1 BY <1>2, <1>3
  <2>5. CASE i \in 1 .. Len(open) BY <1>2, <1>3, <2>2, <2>5
  <2>6. CASE i = Len(open) + 1 BY <1>2, <1>3, <2>3, <2>6
  <2> QED BY <2>4, <2>5, <2>6
<1>6. Ongoing' BY <1>5 DEF Ongoing
<1>7. Opened' = Opened \cup {n}
  <2>1. \A i : i \in 1 .. Len(open') <=> i \in 1 .. Len(open) \/ i = Len(open) + 1
    BY <1>2, <1>3
  <2> QED BY <1>3, <2>1 DEF Opened
<1>8. ASSUME NEW b \in (1 .. Len(text')) \ Opened', text'[b].part = "begin"
      PROVE  \E e \in b .. Len(text') : /\ Ends(text', b, e)
                                        /\ \A i \in 1 .. Len(open') : b < open'[i] => e < open'[i]
  <2>1. b \in (1 .. Len(text)) \ Opened BY <1>2, <1>7
  <2>2. PICK e \in b .. Len(text) : /\ Ends(text', b, e)
                                    /\ \A i \in 1 .. Len(open) : b < open[i] => e < open[i]
    BY <1>0, <1>1, <1>8, <2>1, OverStep
  <2>3. e \in b .. Len(text') /\ e < n BY <1>2
  <2>4. \A i \in 1 .. Len(open') : i \in 1 .. Len(open) \/ i = Len(open) + 1 BY <1>2, <1>3
  <2> QED BY <1>3, <2>2, <2>3, <2>4
<1>9. Over' BY <1>8 DEF Over
<1>10. Inherited'
  <2>1. Innermost' = n /\ text'[n].within = w BY <1>0, <1>2, <1>3 DEF Innermost
  <2> SUFFICES ASSUME NEW i \in 1 .. Len(open'), NEW k \in open'[i] .. n
               PROVE  text'[k].part = "end" \/ text'[k].within = w
    BY <1>2, <2>1 DEF Inherited
  <2>2. CASE k = n BY <2>1, <2>2
  <2>3. CASE k # n
    <3>1. i \in 1 .. Len(open)
      <4>1. i \in 1 .. Len(open) \/ i = Len(open) + 1 BY <1>2, <1>3
      <4> QED BY <1>2, <1>3, <2>3, <4>1
    <3>2. k \in open[i] .. Len(text) /\ k \in 1 .. Len(text) /\ open # <<>>
      BY <1>2, <1>3, <2>3, <3>1
    <3>3. text[k].part = "end" \/ text[k].within = text[Innermost].within
      BY <3>1, <3>2 DEF TextInv, Inherited
    <3> QED BY <1>2, <3>2, <3>3 DEF MayStand
  <2> QED BY <2>2, <2>3
<1> QED BY <1>2, <1>3, <1>4, <1>6, <1>9, <1>10 DEF TextInv

\* The innermost macro ends here, and the others go on.
LEMMA TextEnd ==
  ASSUME TextInv, open # <<>>,
         text' = Append(text, [part |-> "end"]), open' = SubSeq(open, 1, Len(open) - 1)
  PROVE  TextInv' /\ Ends(text', Innermost, Len(text) + 1) /\ Opened' = Opened \ {Innermost}
<1> DEFINE tok == [part |-> "end"]
           n   == Len(text) + 1
           L   == Len(open)
<1>0. tok \in Token /\ tok.part = "end" BY DEF Token
<1> HIDE DEF tok
<1>1. text' = Append(text, tok) BY DEF tok
<1>2. /\ Len(text) \in Nat /\ Len(text') = n /\ text' \in Seq(Token)
      /\ text'[n] = tok /\ \A k \in 1 .. Len(text) : text'[k] = text[k]
      /\ L \in Nat /\ \A i \in 1 .. L : open[i] \in 1 .. Len(text)
  BY <1>0, <1>1, Grown
<1>3. /\ L > 0 /\ Innermost = open[L] /\ Innermost \in 1 .. Len(text)
      /\ Len(open') = L - 1 /\ \A i \in 1 .. L - 1 : open'[i] = open[i]
      /\ open' \in Seq(1 .. Len(text'))
  <2>1. open \in Seq(1 .. Len(text)) /\ open # <<>> BY DEF TextInv
  <2>2. L > 0 /\ L \in 1 .. L BY <1>2, <2>1
  <2>3. /\ open' \in Seq(1 .. Len(text)) /\ Len(open') = L - 1
        /\ \A i \in 1 .. L - 1 : open'[i] = open[i]
    BY <2>1, FrontFacts
  <2>4. \A i \in 1 .. Len(open') : open'[i] \in 1 .. Len(text') BY <1>2, <2>3
  <2>5. open' \in Seq(1 .. Len(text')) BY <2>3, <2>4
  <2>6. Innermost = open[L] BY DEF Innermost
  <2> QED BY <1>2, <2>2, <2>3, <2>5, <2>6
<1>4. /\ \A i \in 1 .. Len(open') : text'[open'[i]].part = "begin"
      /\ \A i, j \in 1 .. Len(open') : i < j => open'[i] < open'[j]
  <2>1. /\ \A i \in 1 .. Len(open) : text[open[i]].part = "begin"
        /\ \A i, j \in 1 .. Len(open) : i < j => open[i] < open[j]
    BY DEF TextInv
  <2>2. \A i \in 1 .. Len(open') : i \in 1 .. L /\ open'[i] = open[i] BY <1>2, <1>3
  <2> QED BY <1>2, <2>1, <2>2
<1>12. \A i \in 1 .. L - 1 : open[i] < open[L] /\ open[i] # open[L]
  <2>1. \A i, j \in 1 .. L : i < j => open[i] < open[j] BY DEF TextInv
  <2>2. \A i \in 1 .. L - 1 : i \in 1 .. L /\ L \in 1 .. L /\ i < L BY <1>2, <1>3
  <2>3. \A i \in 1 .. L - 1 : open[i] < open[L] BY <2>1, <2>2
  <2> QED BY <1>2, <2>2, <2>3
<1>5. ASSUME NEW i \in 1 .. L
      PROVE  /\ \A e \in open[i] .. Len(text) :
                  Count(text', "end", open[i], e) < Count(text', "begin", open[i], e)
             /\ Count(text', "begin", open[i], n)
                  = Count(text, "end", open[i], Len(text)) + L - i + 1
             /\ Count(text', "end", open[i], n) = Count(text, "end", open[i], Len(text)) + 1
             /\ Count(text, "end", open[i], Len(text)) \in Nat
  <2>1. /\ \A e \in open[i] .. Len(text) :
              Count(text', "end", open[i], e) < Count(text', "begin", open[i], e)
        /\ Count(text', "begin", open[i], n)
              = Count(text, "end", open[i], Len(text)) + L - i + 1 + 0
        /\ Count(text', "end", open[i], n) = Count(text, "end", open[i], Len(text)) + 1
        /\ Count(text, "end", open[i], Len(text)) \in Nat
    BY <1>0, <1>1, OngoingStep
  <2> QED BY <1>2, <2>1
<1>6. ASSUME NEW i \in 1 .. Len(open')
      PROVE  /\ \A e \in open'[i] .. Len(text') :
                  Count(text', "end", open'[i], e) < Count(text', "begin", open'[i], e)
             /\ Count(text', "begin", open'[i], Len(text'))
                  = Count(text', "end", open'[i], Len(text')) + Len(open') - i + 1
  <2>1. i \in 1 .. L - 1 /\ i \in 1 .. L /\ open'[i] = open[i] BY <1>2, <1>3
  <2>2. Count(text', "end", open[i], n) < Count(text', "begin", open[i], n)
    BY <1>2, <1>5, <2>1
  <2>3. Count(text', "begin", open[i], n) = Count(text', "end", open[i], n) + (L - 1) - i + 1
    BY <1>2, <1>5, <2>1
  <2>4. \A e \in open[i] .. n : e \in open[i] .. Len(text) \/ e = n
    BY <1>2, <2>1
  <2>5. \A e \in open[i] .. n :
          Count(text', "end", open[i], e) < Count(text', "begin", open[i], e)
    BY <1>5, <2>1, <2>2, <2>4
  <2> QED BY <1>2, <1>3, <2>1, <2>3, <2>5
<1>7. Ongoing' BY <1>6 DEF Ongoing
<1>8. Ends(text', Innermost, n)
  <2>1. Count(text', "begin", open[L], n) = Count(text', "end", open[L], n)
    <3>1. L \in 1 .. L BY <1>2, <1>3
    <3>2. Count(text', "begin", open[L], n) = Count(text, "end", open[L], Len(text)) + L - L + 1
      BY <1>5, <3>1
    <3>3. /\ Count(text', "end", open[L], n) = Count(text, "end", open[L], Len(text)) + 1
          /\ Count(text, "end", open[L], Len(text)) \in Nat
      BY <1>5, <3>1
    <3> QED BY <1>2, <3>2, <3>3
  <2>2. ASSUME NEW k \in open[L] .. n - 1
        PROVE  Count(text', "begin", open[L], k) # Count(text', "end", open[L], k)
    <3>1. k \in open[L] .. Len(text) /\ L \in 1 .. L /\ open[L] \in Nat /\ k \in Nat
      BY <1>2, <1>3
    <3>2. Count(text', "begin", open[L], k) \in Nat /\ Count(text', "end", open[L], k) \in Nat
      BY <3>1, PartFinite
    <3> QED BY <1>5, <3>1, <3>2
  <2>3. n \in open[L] .. Len(text') BY <1>2, <1>3
  <2> QED BY <1>3, <2>1, <2>2, <2>3 DEF Ends
<1>9. Opened' = Opened \ {Innermost}
  <2>1. \A i \in 1 .. L - 1 : open[i] # open[L] BY <1>12
  <2>2. \A i : i \in 1 .. L <=> i \in 1 .. L - 1 \/ i = L BY <1>2, <1>3
  <2>3. \A i : i \in 1 .. Len(open') <=> i \in 1 .. L - 1 BY <1>3
  <2> QED BY <1>3, <2>1, <2>2, <2>3 DEF Opened
<1>10. ASSUME NEW b \in (1 .. Len(text')) \ Opened', text'[b].part = "begin"
       PROVE  \E e \in b .. Len(text') : /\ Ends(text', b, e)
                                         /\ \A i \in 1 .. Len(open') : b < open'[i] => e < open'[i]
  <2>1. b \in 1 .. Len(text) BY <1>0, <1>2, <1>10
  <2>2. CASE b = Innermost
    <3>1. n \in b .. Len(text') BY <1>2, <1>3, <2>2
    <3>2. ASSUME NEW i \in 1 .. Len(open') PROVE ~(b < open'[i])
      <4>0. i \in 1 .. L - 1 /\ i \in 1 .. L BY <1>2, <1>3
      <4>1. open[i] < open[L] /\ open'[i] = open[i] /\ i \in 1 .. L BY <1>3, <1>12, <4>0
      <4> QED BY <1>2, <1>3, <2>2, <4>1
    <3> QED BY <1>8, <2>2, <3>1, <3>2
  <2>3. CASE b # Innermost
    <3>1. b \in (1 .. Len(text)) \ Opened BY <1>9, <2>1, <2>3
    <3>2. PICK e \in b .. Len(text) : /\ Ends(text', b, e)
                                      /\ \A i \in 1 .. Len(open) : b < open[i] => e < open[i]
      BY <1>0, <1>1, <1>10, <3>1, OverStep
    <3>3. e \in b .. Len(text') BY <1>2
    <3>4. \A i \in 1 .. Len(open') : i \in 1 .. Len(open) /\ open'[i] = open[i] BY <1>2, <1>3
    <3> QED BY <3>2, <3>3, <3>4
  <2> QED BY <2>2, <2>3
<1>11. Over' BY <1>10 DEF Over
<1>13. Inherited'
  <2> SUFFICES ASSUME NEW i \in 1 .. L - 1, NEW k \in open[i] .. n
               PROVE  text'[k].part = "end" \/ text'[k].within = text'[Innermost'].within
    BY <1>2, <1>3 DEF Inherited
  <2>1. L - 1 \in 1 .. L - 1 /\ L - 1 \in 1 .. L /\ i \in 1 .. L BY <1>2, <1>3
  <2>2. Innermost' = open[L - 1] /\ open[L - 1] \in 1 .. Len(text)
    BY <1>2, <1>3, <2>1 DEF Innermost
  <2>3. text[open[L - 1]].part = "begin" BY <2>1 DEF TextInv
  <2>4. text[open[L - 1]].within = text[Innermost].within
    <3>1. open[L - 1] \in open[L - 1] .. Len(text) BY <2>2
    <3> QED BY <2>1, <2>3, <3>1 DEF TextInv, Inherited
  <2>5. CASE k = n BY <1>0, <1>2, <2>5
  <2>6. CASE k # n
    <3>1. k \in open[i] .. Len(text) /\ k \in 1 .. Len(text) BY <1>2, <2>1, <2>6
    <3>2. text[k].part = "end" \/ text[k].within = text[Innermost].within
      BY <2>1, <3>1 DEF TextInv, Inherited
    <3> QED BY <1>2, <2>2, <2>4, <3>1, <3>2
  <2> QED BY <2>5, <2>6
<1> QED BY <1>2, <1>3, <1>4, <1>7, <1>8, <1>9, <1>11, <1>13 DEF TextInv

\* What both walks read of the ends, of a state and of the next one.
EndsFound ==
  \A b \in 1 .. Len(text) : \A e \in b .. Len(text) :
    Ends(text, b, e) => /\ Resolver!EndOf(b) = e
                        /\ Renderer!HasEnded(b) /\ Renderer!EndOf(b) = e
OpenGoOn ==
  \A b \in 1 .. Len(text) :
    text[b].part = "begin" => /\ b \in Opened => ~Renderer!HasEnded(b)
                              /\ b \notin Opened => \E e \in b .. Len(text) : Ends(text, b, e)

LEMMA EndsKnown == TextInv => EndsFound /\ OpenGoOn
<1>1. TextInv => EndsFound BY TheEnd DEF EndsFound, TextInv
<1>2. TextInv => OpenGoOn BY OpenOrOver DEF OpenGoOn
<1> QED BY <1>1, <1>2

LEMMA EndsKnownNext == (TextInv => EndsFound /\ OpenGoOn)'
BY EndsKnown, PTL

\* The macros with a number: all that have ended, and the references.
Places == {m \in 1 .. Len(text) : text[m].part \in {"begin", "ref"}} \ Opened

\* Those the resolver has met, and those the renderer has.
Seen  == {m \in Places : text[m].within # "title"}
Shown == {m \in Places : text[m].within # "raw"}

LEMMA PlaceType ==
  ASSUME TextInv, NEW m \in Places
  PROVE  /\ m \in 1 .. Len(text) /\ m \notin Opened /\ text[m].id \in Ids \cup {None}
         /\ text[m].part \in {"begin", "ref"}
         /\ text[m].part = "ref" => text[m].id \in Ids
<1>1. m \in 1 .. Len(text) /\ m \notin Opened /\ text[m].part \in {"begin", "ref"} BY DEF Places
<1>2. text[m] \in Token BY <1>1 DEF TextInv
<1> QED BY <1>1, <1>2 DEF Token

\* A token more: what is known of the earlier places stays.
LEMMA PlaceStays ==
  ASSUME TextInv, NEW tok \in Token, text' = Append(text, tok), TextInv', NEW m \in Places
  PROVE  /\ text'[m] = text[m]
         /\ text[m].part = "begin" => /\ Resolver!EndOf(m)' = Resolver!EndOf(m)
                                      /\ Resolver!EndOf(m) \in 1 .. Len(text)
<1>1. m \in 1 .. Len(text) /\ m \notin Opened BY PlaceType
<1>2. text'[m] = text[m] /\ m \in 1 .. Len(text') /\ Len(text') = Len(text) + 1 /\ Len(text) \in Nat
  BY <1>1, Grown
<1>3. ASSUME text[m].part = "begin"
      PROVE  /\ Resolver!EndOf(m)' = Resolver!EndOf(m)
             /\ Resolver!EndOf(m) \in 1 .. Len(text)
  <2>1. PICK e \in m .. Len(text) : Ends(text, m, e)
    BY <1>1, <1>3, EndsKnown DEF OpenGoOn
  <2>2. Ends(text', m, e) /\ e \in m .. Len(text') BY <1>1, <1>2, <2>1, Grown
  <2>3. Resolver!EndOf(m) = e BY <1>1, <2>1, EndsKnown DEF EndsFound
  <2>4. Resolver!EndOf(m)' = e
    <3>1. EndsFound' BY EndsKnownNext
    <3> QED BY <1>2, <2>2, <3>1 DEF EndsFound
  <2> QED BY <1>1, <1>2, <2>1, <2>3, <2>4
<1> QED BY <1>2, <1>3

\* What is around a place stays around it, whatever comes after.
LEMMA AroundStays ==
  ASSUME TextInv, NEW tok \in Token, text' = Append(text, tok), TextInv',
         NEW m \in 1 .. Len(text)
  PROVE  Renderer!Around(m)' = Renderer!Around(m)
<1>0. EndsFound /\ OpenGoOn /\ EndsFound' /\ OpenGoOn' BY EndsKnown, EndsKnownNext
<1>1. Len(text') = Len(text) + 1 /\ Len(text) \in Nat BY Grown
<1>2. ASSUME NEW b \in 1 .. m - 1, text[b].part = "begin"
      PROVE  (Renderer!HasEnded(b) => Renderer!EndOf(b) > m)
               <=> (Renderer!HasEnded(b)' => Renderer!EndOf(b)' > m)
  <2>1. b \in 1 .. Len(text) /\ b \in 1 .. Len(text') /\ text'[b].part = "begin"
    BY <1>1, <1>2, Grown
  <2>2. ASSUME b \notin Opened
        PROVE  /\ Renderer!HasEnded(b) /\ Renderer!HasEnded(b)'
               /\ Renderer!EndOf(b)' = Renderer!EndOf(b)
    <3>1. PICK e \in b .. Len(text) : Ends(text, b, e)
      BY <1>0, <1>2, <2>1, <2>2 DEF OpenGoOn
    <3>2. Ends(text', b, e) /\ e \in b .. Len(text') BY <1>1, <2>1, <3>1, Grown
    <3>3. Renderer!HasEnded(b) /\ Renderer!EndOf(b) = e
      BY <1>0, <2>1, <3>1 DEF EndsFound
    <3>4. Renderer!HasEnded(b)' /\ Renderer!EndOf(b)' = e
      BY <1>0, <2>1, <3>2 DEF EndsFound
    <3> QED BY <3>3, <3>4
  <2>3. ASSUME b \in Opened
        PROVE  /\ ~Renderer!HasEnded(b)
               /\ Renderer!HasEnded(b)' => Renderer!EndOf(b)' > m
    <3>1. ~Renderer!HasEnded(b) BY <1>0, <1>2, <2>1, <2>3 DEF OpenGoOn
    <3>2. CASE b \in Opened' BY <1>0, <2>1, <3>1, <3>2 DEF OpenGoOn
    <3>3. CASE b \notin Opened'
      <4>1. PICK e \in b .. Len(text') : Ends(text', b, e)
        BY <1>0, <2>1, <3>3 DEF OpenGoOn
      <4>2. e \notin b .. Len(text)
        <5>1. SUFFICES ASSUME e \in b .. Len(text) PROVE FALSE OBVIOUS
        <5>2. Ends(text, b, e) BY <2>1, <4>1, <5>1, Grown
        <5> QED BY <1>0, <2>1, <3>1, <5>1, <5>2 DEF EndsFound
      <4>3. e > m BY <1>1, <2>1, <4>1, <4>2
      <4>4. Renderer!EndOf(b)' = e BY <1>0, <2>1, <4>1 DEF EndsFound
      <4> QED BY <3>1, <4>3, <4>4
    <3> QED BY <3>2, <3>3
  <2> QED BY <2>2, <2>3
<1>3. \A b \in 1 .. m - 1 : text'[b] = text[b] BY <1>1, Grown
<1> QED BY <1>2, <1>3 DEF Renderer!Around

\* Around a reference are the open macros.
LEMMA AroundRef ==
  ASSUME TextInv, NEW tok \in Token, text' = Append(text, tok), open' = open, TextInv',
         NEW n, n = Len(text) + 1
  PROVE  Renderer!Around(n)' = Opened
<1>0. EndsFound' /\ OpenGoOn' /\ OpenGoOn BY EndsKnown, EndsKnownNext
<1>1. Len(text') = Len(text) + 1 /\ Len(text) \in Nat BY Grown
<1>2. Opened' = Opened BY DEF Opened
<1>3. ASSUME NEW b \in 1 .. Len(text), text[b].part = "begin"
      PROVE  (Renderer!HasEnded(b)' => Renderer!EndOf(b)' > n) <=> b \in Opened
  <2>1. b \in 1 .. Len(text') /\ text'[b].part = "begin" BY <1>1, <1>3, Grown
  <2>2. CASE b \in Opened BY <1>0, <1>2, <2>1, <2>2 DEF OpenGoOn
  <2>3. CASE b \notin Opened
    <3>1. PICK e \in b .. Len(text) : Ends(text, b, e) BY <1>0, <1>3, <2>3 DEF OpenGoOn
    <3>2. Ends(text', b, e) /\ e \in b .. Len(text') BY <1>1, <1>3, <3>1, Grown
    <3>3. Renderer!HasEnded(b)' /\ Renderer!EndOf(b)' = e BY <1>0, <2>1, <3>2 DEF EndsFound
    <3>4. ~(e > n) BY <1>1, <1>3, <3>1
    <3> QED BY <2>3, <3>3, <3>4
  <2> QED BY <2>2, <2>3
<1>4. \A b \in 1 .. Len(text) : text'[b] = text[b] BY Grown
<1>5. \A b \in Opened : b \in 1 .. Len(text) /\ text[b].part = "begin"
  BY DEF Opened, TextInv
<1>6. 1 .. n - 1 = 1 .. Len(text) BY <1>1
<1> QED BY <1>3, <1>4, <1>5, <1>6 DEF Renderer!Around

\* Around the innermost macro, when it ends, are the other open ones.
LEMMA AroundEnd ==
  ASSUME TextInv, open # <<>>,
         text' = Append(text, [part |-> "end"]), open' = SubSeq(open, 1, Len(open) - 1),
         NEW m, m = Innermost
  PROVE  /\ Renderer!Around(m)' = Opened \ {m}
         /\ Resolver!EndOf(m)' = Len(text) + 1
<1> DEFINE tok == [part |-> "end"]
<1>a. tok \in Token BY DEF Token
<1>b. text' = Append(text, tok) OBVIOUS
<1> HIDE DEF tok
<1>c. TextInv' /\ Ends(text', m, Len(text) + 1) /\ Opened' = Opened \ {m}
  BY TextEnd
<1>0. EndsFound' /\ OpenGoOn' /\ OpenGoOn BY <1>c, EndsKnown, EndsKnownNext
<1>1. Len(text') = Len(text) + 1 /\ Len(text) \in Nat
      /\ \A k \in 1 .. Len(text) : text'[k] = text[k]
  BY <1>a, <1>b, Grown
<1>2. /\ m \in 1 .. Len(text) /\ Len(open) \in Nat \ {0}
      /\ \A i \in 1 .. Len(open) : open[i] \in 1 .. Len(text) /\ text[open[i]].part = "begin"
      /\ \A i \in 1 .. Len(open) : open[i] # m => open[i] < m
  <2>1. open \in Seq(1 .. Len(text)) /\ open # <<>> BY DEF TextInv
  <2>2. Len(open) \in Nat \ {0} BY <2>1
  <2>3. \A i \in 1 .. Len(open) : open[i] \in 1 .. Len(text) /\ text[open[i]].part = "begin"
    BY <2>1 DEF TextInv
  <2>4. \A i \in 1 .. Len(open) : i < Len(open) => open[i] < open[Len(open)]
    BY <2>2 DEF TextInv
  <2>5. \A i \in 1 .. Len(open) : i < Len(open) \/ i = Len(open) BY <2>2
  <2> QED BY <2>2, <2>3, <2>4, <2>5 DEF Innermost
<1>3. ASSUME NEW b \in 1 .. m - 1, text[b].part = "begin"
      PROVE  (Renderer!HasEnded(b)' => Renderer!EndOf(b)' > m) <=> b \in Opened
  <2>1. /\ b \in 1 .. Len(text) /\ b \in 1 .. Len(text') /\ text'[b].part = "begin"
        /\ b < m /\ b # m
    BY <1>1, <1>2, <1>3
  <2>2. CASE b \in Opened BY <1>0, <1>c, <2>1, <2>2 DEF OpenGoOn
  <2>3. CASE b \notin Opened
    <3>1. PICK e \in b .. Len(text) : /\ Ends(text, b, e)
                                      /\ \A i \in 1 .. Len(open) : b < open[i] => e < open[i]
      BY <1>3, <2>1, <2>3 DEF TextInv, Over
    <3>2. Ends(text', b, e) /\ e \in b .. Len(text') BY <1>a, <1>b, <1>1, <2>1, <3>1, Grown
    <3>3. Renderer!HasEnded(b)' /\ Renderer!EndOf(b)' = e BY <1>0, <2>1, <3>2 DEF EndsFound
    <3>4. e < m BY <1>2, <2>1, <3>1 DEF Innermost
    <3> QED BY <1>2, <2>1, <2>3, <3>1, <3>3, <3>4
  <2> QED BY <2>2, <2>3
<1>4. \A b \in 1 .. m - 1 : text'[b] = text[b] BY <1>1, <1>2
<1>5. \A b \in Opened \ {m} : b \in 1 .. m - 1 /\ text[b].part = "begin"
  BY <1>2 DEF Opened
<1>6. Renderer!Around(m)' =
        {b \in 1 .. m - 1 :
           text'[b].part = "begin" /\ (Renderer!HasEnded(b)' => Renderer!EndOf(b)' > m)}
  BY DEF Renderer!Around
<1>7. m \notin 1 .. m - 1 BY <1>2
<1>8. Resolver!EndOf(m)' = Len(text) + 1
  <2>1. m \in 1 .. Len(text') /\ Len(text) + 1 \in m .. Len(text')
    BY <1>1, <1>2
  <2> QED BY <1>0, <1>c, <2>1 DEF EndsFound
<1> QED BY <1>3, <1>4, <1>5, <1>6, <1>7, <1>8

LEMMA PlacesBegin ==
  ASSUME TextInv, NEW id \in Ids \cup {None}, NEW w \in Within,
         text' = Append(text, [part |-> "begin", id |-> id, within |-> w]),
         open' = Append(open, Len(text) + 1)
  PROVE  Places' = Places /\ Seen' = Seen /\ Shown' = Shown
<1> DEFINE tok == [part |-> "begin", id |-> id, within |-> w]
<1>0. tok \in Token BY DEF Token
<1> HIDE DEF tok
<1>1. text' = Append(text, tok) BY DEF tok
<1>2. /\ Len(text) \in Nat /\ Len(text') = Len(text) + 1 /\ Len(open) \in Nat
      /\ \A k \in 1 .. Len(text) : text'[k] = text[k]
      /\ \A i \in 1 .. Len(open) : open[i] \in 1 .. Len(text)
  BY <1>0, <1>1, Grown
<1>3. Len(open') = Len(open) + 1 /\ open'[Len(open) + 1] = Len(text) + 1
      /\ \A i \in 1 .. Len(open) : open'[i] = open[i]
  BY <1>2 DEF TextInv
<1>4. \A i : i \in 1 .. Len(open') <=> i \in 1 .. Len(open) \/ i = Len(open) + 1 BY <1>2, <1>3
<1>5. Opened' = Opened \cup {Len(text) + 1} BY <1>3, <1>4 DEF Opened
<1>6. \A k : k \in 1 .. Len(text') <=> k \in 1 .. Len(text) \/ k = Len(text) + 1 BY <1>2
<1>7. Len(text) + 1 \notin 1 .. Len(text) BY <1>2
<1>8. Places' = Places BY <1>2, <1>5, <1>6, <1>7 DEF Places
<1>9. \A m \in Places : text'[m] = text[m] BY <1>2 DEF Places
<1> QED BY <1>8, <1>9 DEF Seen, Shown

LEMMA PlacesRef ==
  ASSUME TextInv, NEW id \in Ids, NEW w \in Within,
         text' = Append(text, [part |-> "ref", id |-> id, within |-> w]), open' = open
  PROVE  /\ Places' = Places \cup {Len(text) + 1} /\ Len(text) + 1 \notin Places
         /\ text'[Len(text) + 1] = [part |-> "ref", id |-> id, within |-> w]
         /\ Seen' = IF w = "title" THEN Seen ELSE Seen \cup {Len(text) + 1}
         /\ Shown' = IF w = "raw" THEN Shown ELSE Shown \cup {Len(text) + 1}
<1> DEFINE tok == [part |-> "ref", id |-> id, within |-> w]
<1>0. tok \in Token /\ tok.part = "ref" /\ tok.within = w BY DEF Token
<1> HIDE DEF tok
<1>1. text' = Append(text, tok) BY DEF tok
<1>2. /\ Len(text) \in Nat /\ Len(text') = Len(text) + 1 /\ Len(open) \in Nat
      /\ text'[Len(text) + 1] = tok
      /\ \A k \in 1 .. Len(text) : text'[k] = text[k]
      /\ \A i \in 1 .. Len(open) : open[i] \in 1 .. Len(text)
  BY <1>0, <1>1, Grown
<1>3. Opened' = Opened BY DEF Opened
<1>4. \A k : k \in 1 .. Len(text') <=> k \in 1 .. Len(text) \/ k = Len(text) + 1 BY <1>2
<1>5. Len(text) + 1 \notin 1 .. Len(text) BY <1>2
<1>6. Len(text) + 1 \notin Opened BY <1>2, <1>5 DEF Opened
<1>7. Places' = Places \cup {Len(text) + 1} /\ Len(text) + 1 \notin Places
  BY <1>0, <1>2, <1>3, <1>4, <1>5, <1>6 DEF Places
<1>8. \A m \in Places : text'[m] = text[m] BY <1>2 DEF Places
<1>9. /\ Seen' = IF w = "title" THEN Seen ELSE Seen \cup {Len(text) + 1}
      /\ Shown' = IF w = "raw" THEN Shown ELSE Shown \cup {Len(text) + 1}
  BY <1>0, <1>2, <1>7, <1>8 DEF Seen, Shown
<1> QED BY <1>2, <1>7, <1>9 DEF tok

LEMMA PlacesEnd ==
  ASSUME TextInv, open # <<>>,
         text' = Append(text, [part |-> "end"]), open' = SubSeq(open, 1, Len(open) - 1)
  PROVE  /\ Places' = Places \cup {Innermost} /\ Innermost \notin Places
         /\ Innermost \in 1 .. Len(text) /\ text[Innermost].part = "begin"
         /\ text'[Innermost] = text[Innermost] /\ text[Innermost].id \in Ids \cup {None}
         /\ Seen' = IF text[Innermost].within = "title" THEN Seen ELSE Seen \cup {Innermost}
         /\ Shown' = IF text[Innermost].within = "raw" THEN Shown ELSE Shown \cup {Innermost}
<1> DEFINE tok == [part |-> "end"]
<1>0. tok \in Token /\ tok.part = "end" BY DEF Token
<1> HIDE DEF tok
<1>1. text' = Append(text, tok) BY DEF tok
<1>2. /\ Len(text) \in Nat /\ Len(text') = Len(text) + 1 /\ Len(open) \in Nat
      /\ text'[Len(text) + 1] = tok
      /\ \A k \in 1 .. Len(text) : text'[k] = text[k]
      /\ \A i \in 1 .. Len(open) : open[i] \in 1 .. Len(text)
  BY <1>0, <1>1, Grown
<1>3. Len(open) \in 1 .. Len(open)
  <2>1. open \in Seq(1 .. Len(text)) BY DEF TextInv
  <2> QED BY <2>1
<1>4. Opened' = Opened \ {Innermost} BY TextEnd
<1>5. Innermost \in Opened /\ Innermost \in 1 .. Len(text) /\ text[Innermost].part = "begin"
  BY <1>2, <1>3 DEF Opened, Innermost, TextInv
<1>6. \A k : k \in 1 .. Len(text') <=> k \in 1 .. Len(text) \/ k = Len(text) + 1 BY <1>2
<1>7. Len(text) + 1 \notin 1 .. Len(text) BY <1>2
<1>8. text[Innermost] \in Token BY <1>5 DEF TextInv
<1>9. text[Innermost].id \in Ids \cup {None} BY <1>5, <1>8 DEF Token
<1>10. Places' = Places \cup {Innermost} /\ Innermost \notin Places
  BY <1>0, <1>2, <1>4, <1>5, <1>6, <1>7 DEF Places
<1>11. \A m \in Places : text'[m] = text[m] BY <1>2 DEF Places
<1>12. text'[Innermost] = text[Innermost] BY <1>2, <1>5
<1>13. /\ Seen' = IF text[Innermost].within = "title" THEN Seen ELSE Seen \cup {Innermost}
       /\ Shown' = IF text[Innermost].within = "raw" THEN Shown ELSE Shown \cup {Innermost}
  BY <1>10, <1>11, <1>12 DEF Seen, Shown
<1> QED BY <1>5, <1>9, <1>10, <1>12, <1>13

\* A token that a walk passes over is one of the text, and adds no place to
\* those that the walk has met.
LEMMA PassedOver ==
  ASSUME TextInv, NEW w \in Within, PassOver(w)
  PROVE  /\ \E tok \in Token : text' = Append(text, tok)
         /\ TextInv'
         /\ w = "title" => Seen' = Seen
         /\ w = "raw" => Shown' = Shown
<1>1. CASE \E id \in Ids \cup {None} : ReadBegin(id, w)
  <2>1. PICK id \in Ids \cup {None} :
          /\ MayStand(w) /\ text' = Append(text, [part |-> "begin", id |-> id, within |-> w])
          /\ open' = Append(open, Len(text) + 1)
    BY <1>1 DEF ReadBegin, Here
  <2>2. [part |-> "begin", id |-> id, within |-> w] \in Token BY DEF Token
  <2> QED BY <2>1, <2>2, TextBegin, PlacesBegin
<1>2. CASE ReadEnd(w)
  <2>1. /\ open # <<>> /\ text' = Append(text, [part |-> "end"])
        /\ open' = SubSeq(open, 1, Len(open) - 1) /\ text[Innermost].within = w
    BY <1>2 DEF ReadEnd, MayStand
  <2>2. [part |-> "end"] \in Token BY DEF Token
  <2> QED BY <2>1, <2>2, TextEnd, PlacesEnd
<1>3. CASE \E id \in Ids : ReadRef(id, w)
  <2>1. PICK id \in Ids :
          /\ MayStand(w) /\ text' = Append(text, [part |-> "ref", id |-> id, within |-> w])
          /\ open' = open
    BY <1>3 DEF ReadRef
  <2>2. [part |-> "ref", id |-> id, within |-> w] \in Token BY DEF Token
  <2> QED BY <2>1, <2>2, TextRef, PlacesRef
<1> QED BY <1>1, <1>2, <1>3 DEF PassOver

\* The instances read the text as this module does.
LEMMA ResolverReads ==
  /\ Resolver!Within = Within
  /\ \A id, w : Resolver!ReadBegin(id, w) =>
       /\ MayStand(w) /\ text' = Append(text, [part |-> "begin", id |-> id, within |-> w])
       /\ open' = Append(open, Len(text) + 1)
  /\ \A w : Resolver!ReadEnd(w) =>
       /\ open # <<>> /\ MayStand(w) /\ text' = Append(text, [part |-> "end"])
       /\ open' = SubSeq(open, 1, Len(open) - 1)
  /\ \A id, w : Resolver!ReadRef(id, w) =>
       /\ MayStand(w) /\ text' = Append(text, [part |-> "ref", id |-> id, within |-> w])
       /\ open' = open
  /\ \A w : Resolver!PassOver(w) => PassOver(w)
BY DEF Resolver!Within, Within, Resolver!ReadBegin, ReadBegin, Resolver!ReadEnd, ReadEnd,
       Resolver!ReadRef, ReadRef, Resolver!MayStand, MayStand, Resolver!Innermost, Innermost,
       Resolver!Here, Here, Resolver!PassOver, PassOver

LEMMA RendererReads ==
  /\ Renderer!Within = Within
  /\ \A id, w : Renderer!ReadBegin(id, w) =>
       /\ MayStand(w) /\ text' = Append(text, [part |-> "begin", id |-> id, within |-> w])
       /\ open' = Append(open, Len(text) + 1)
  /\ \A w : Renderer!ReadEnd(w) =>
       /\ open # <<>> /\ MayStand(w) /\ text' = Append(text, [part |-> "end"])
       /\ open' = SubSeq(open, 1, Len(open) - 1)
  /\ \A id, w : Renderer!ReadRef(id, w) =>
       /\ MayStand(w) /\ text' = Append(text, [part |-> "ref", id |-> id, within |-> w])
       /\ open' = open
  /\ \A w : Renderer!PassOver(w) => PassOver(w)
BY DEF Renderer!Within, Within, Renderer!ReadBegin, ReadBegin, Renderer!ReadEnd, ReadEnd,
       Renderer!ReadRef, ReadRef, Renderer!MayStand, MayStand, Renderer!Innermost, Innermost,
       Renderer!Here, Here, Renderer!PassOver, PassOver

-----------------------------------------------------------------------------
(* The resolver                                                             *)

\* The places of an id, its definitions that have ended, and which of them its
\* entry has.
Starts(id) == {m \in Seen : text[m].part = "begin" /\ text[m].id = id}
FirstTexts ==
  \A i \in 1 .. Len(footnotes) : \A id \in Ids :
    footnotes[i].id = id =>
      /\ Starts(id) = {} => footnotes[i].by = 0
      /\ Starts(id) # {} => footnotes[i].by \in Starts(id)
      /\ \A d, m \in Starts(id) :
           footnotes[i].by = d => Resolver!EndOf(d) <= Resolver!EndOf(m)

\* Each place has the number of an entry of its id, which is its own entry if
\* it has none.
PlacesNumbered ==
  /\ DOMAIN index = Seen
  /\ \A m \in Seen : /\ index[m] \in 1 .. Len(footnotes)
                     /\ footnotes[index[m]].id = text[m].id
                     /\ text[m].id = None => footnotes[index[m]].by = m

\* footnote_by_id leads from an id to its entry, which some place has met.
IdsListed ==
  /\ DOMAIN footnote_by_id \subseteq Ids
  /\ \A i \in 1 .. Len(footnotes) :
       footnotes[i].id # None => /\ footnotes[i].id \in DOMAIN footnote_by_id
                                 /\ footnote_by_id[footnotes[i].id] = i
  /\ \A id \in DOMAIN footnote_by_id : /\ footnote_by_id[id] \in 1 .. Len(footnotes)
                                       /\ footnotes[footnote_by_id[id]].id = id
                                       /\ \E m \in Seen : text[m].id = id

CatalogEntry == [id : Ids \cup {None}, index : Nat, by : Nat]

ResInv ==
  /\ footnotes \in Seq(CatalogEntry)
  /\ walking \in BOOLEAN
  /\ Resolver!Sequential /\ PlacesNumbered /\ IdsListed /\ FirstTexts

LEMMA ResolverShows ==
  ASSUME TextInv, ResInv
  PROVE  /\ Resolver!TypeOK /\ Resolver!Sequential
         /\ Resolver!SameIdSameNumber /\ Resolver!FirstTextKept
<1> USE DEF ResInv
<1>1. \A m \in Seen : m \in 1 .. Len(text) BY DEF Seen, Places
<1>2. Resolver!TypeOK
  <2>1. Len(footnotes) \in Nat OBVIOUS
  <2>2. text \in Seq(Token) /\ open \in Seq(Nat)
    <3>1. open \in Seq(1 .. Len(text)) /\ text \in Seq(Token) BY DEF TextInv
    <3>2. \A i \in 1 .. Len(open) : open[i] \in Nat BY <3>1
    <3> QED BY <3>1, <3>2
  <2>3. Token = Resolver!Token BY DEF Token, Resolver!Token, Within, Resolver!Within
  <2>4. footnote_counter \in Nat BY <2>1 DEF Resolver!Sequential
  <2>5. \A m \in DOMAIN index : m \in 1 .. Len(text) /\ index[m] \in Nat
    BY <1>1, <2>1 DEF PlacesNumbered
  <2> QED BY <2>2, <2>3, <2>4, <2>5 DEF Resolver!TypeOK, IdsListed, CatalogEntry
<1>3. Resolver!SameIdSameNumber
  <2> SUFFICES ASSUME NEW m \in Seen, NEW n \in Seen, m # n
               PROVE  index[m] = index[n] <=> text[m].id = text[n].id /\ text[m].id # None
    BY DEF Resolver!SameIdSameNumber, PlacesNumbered, Resolver!IdAt
  <2>1. ASSUME index[m] = index[n] PROVE text[m].id = text[n].id /\ text[m].id # None
    BY <2>1 DEF PlacesNumbered
  <2>2. ASSUME text[m].id = text[n].id, text[m].id # None PROVE index[m] = index[n]
    <3>1. index[m] \in 1 .. Len(footnotes) /\ index[n] \in 1 .. Len(footnotes)
          /\ footnotes[index[m]].id = text[m].id /\ footnotes[index[n]].id = text[n].id
      BY DEF PlacesNumbered
    <3>2. footnote_by_id[text[m].id] = index[m] BY <2>2, <3>1 DEF IdsListed
    <3>3. footnote_by_id[text[n].id] = index[n] BY <2>2, <3>1 DEF IdsListed
    <3> QED BY <2>2, <3>2, <3>3
  <2> QED BY <2>1, <2>2
<1>4. Resolver!FirstTextKept
  <2>1. \A id : Resolver!Defining(id) = Starts(id)
    BY DEF Resolver!Defining, Starts, PlacesNumbered, Resolver!IdAt
  <2>2. ASSUME NEW i \in 1 .. Len(footnotes), footnotes[i].id # None
        PROVE  /\ footnotes[i].by = 0 <=> Starts(footnotes[i].id) = {}
               /\ \A m \in Starts(footnotes[i].id) :
                    /\ footnotes[i].by \in Starts(footnotes[i].id)
                    /\ Resolver!EndOf(footnotes[i].by) <= Resolver!EndOf(m)
    <3>0. footnotes[i] \in CatalogEntry OBVIOUS
    <3>1. footnotes[i].id \in Ids BY <2>2, <3>0 DEF CatalogEntry
    <3>2. 0 \notin Starts(footnotes[i].id) BY <1>1 DEF Starts
    <3> QED BY <3>1, <3>2 DEF FirstTexts
  <2> QED BY <2>1, <2>2 DEF Resolver!FirstTextKept
<1> QED BY <1>2, <1>3, <1>4

\* A place with an id that has no entry, or with none, gets an entry.
LEMMA ResNew ==
  ASSUME TextInv, TextInv', ResInv, NEW tok \in Token, text' = Append(text, tok),
         NEW m \in 1 .. Len(text'), Seen' = Seen \cup {m}, m \notin Seen,
         NEW id \in Ids \cup {None}, text'[m].id = id, ~Resolver!Known(id),
         NEW by \in Nat, Resolver!NewEntry(m, id, by), walking' \in BOOLEAN,
         text'[m].part = "begin" => by = m /\ Resolver!EndOf(m)' = Len(text) + 1,
         text'[m].part # "begin" => by = 0 /\ id # None
  PROVE  ResInv'
<1> DEFINE n     == Len(footnotes) + 1
           entry == [id |-> id, index |-> n, by |-> by]
<1>0. /\ footnotes \in Seq(CatalogEntry) /\ n \in Nat \ {0}
      /\ footnote_counter + 1 = n
  BY DEF ResInv, Resolver!Sequential
<1>1. /\ footnote_counter' = n
      /\ index' = [k \in DOMAIN index \cup {m} |-> IF k = m THEN n ELSE index[k]]
      /\ footnotes' = Append(footnotes, entry)
      /\ footnote_by_id' = IF id = None THEN footnote_by_id
                           ELSE [k \in DOMAIN footnote_by_id \cup {id} |->
                                   IF k = id THEN n ELSE footnote_by_id[k]]
  BY <1>0 DEF Resolver!NewEntry, Resolver!Put
<1>2. entry \in CatalogEntry
      /\ entry.id = id /\ entry.by = by /\ entry.index = n
  BY <1>0 DEF CatalogEntry
<1> HIDE DEF entry
<1>3. /\ footnotes' \in Seq(CatalogEntry)
      /\ Len(footnotes') = n /\ footnotes'[n] = entry
      /\ \A i \in 1 .. Len(footnotes) : footnotes'[i] = footnotes[i]
  BY <1>0, <1>1, <1>2
<1>4. \A i : i \in 1 .. Len(footnotes') <=> i \in 1 .. Len(footnotes) \/ i = n
  <2>1. Len(footnotes) \in Nat /\ Len(footnotes') = Len(footnotes) + 1 BY <1>0, <1>3
  <2> QED BY <2>1
<1>5. n \notin 1 .. Len(footnotes) BY <1>0
<1>6. Resolver!Sequential' BY <1>0, <1>1, <1>2, <1>3, <1>4 DEF ResInv, Resolver!Sequential
<1>7. \A k \in Seen : /\ text'[k] = text[k] /\ k # m
                      /\ text[k].part = "begin" =>
                           /\ Resolver!EndOf(k)' = Resolver!EndOf(k)
                           /\ Resolver!EndOf(k) \in 1 .. Len(text)
  BY PlaceStays DEF Seen
<1>8. PlacesNumbered'
  <2>1. DOMAIN index' = Seen' BY <1>1 DEF ResInv, PlacesNumbered
  <2>2. ASSUME NEW k \in Seen
        PROVE  /\ index'[k] \in 1 .. Len(footnotes')
               /\ footnotes'[index'[k]].id = text'[k].id
               /\ text'[k].id = None => footnotes'[index'[k]].by = k
    <3>1. index'[k] = index[k] /\ index[k] \in 1 .. Len(footnotes)
      BY <1>1, <1>7 DEF ResInv, PlacesNumbered
    <3>2. footnotes'[index'[k]] = footnotes[index[k]] /\ index'[k] \in 1 .. Len(footnotes')
      BY <1>3, <1>4, <3>1
    <3> QED BY <1>7, <3>2 DEF ResInv, PlacesNumbered
  <2>3. /\ index'[m] \in 1 .. Len(footnotes')
        /\ footnotes'[index'[m]].id = text'[m].id
        /\ text'[m].id = None => footnotes'[index'[m]].by = m
    <3>1. index'[m] = n BY <1>1
    <3> QED BY <1>2, <1>3, <1>4, <3>1
  <2> QED BY <2>1, <2>2, <2>3 DEF PlacesNumbered
<1>9. IdsListed'
  <2>0. None \notin Ids BY FootnoteAssumption
  <2>1. DOMAIN footnote_by_id' \subseteq Ids BY <1>1 DEF ResInv, IdsListed
  <2>2. ASSUME NEW i \in 1 .. Len(footnotes), footnotes[i].id # None
        PROVE  /\ footnotes'[i].id \in DOMAIN footnote_by_id'
               /\ footnote_by_id'[footnotes'[i].id] = i
    <3>1. footnotes[i].id \in DOMAIN footnote_by_id /\ footnote_by_id[footnotes[i].id] = i
      BY <2>2 DEF ResInv, IdsListed
    <3>2. footnotes[i].id # id BY <3>1 DEF Resolver!Known
    <3> QED BY <1>1, <1>3, <3>1, <3>2
  <2>3. entry.id # None => /\ entry.id \in DOMAIN footnote_by_id'
                           /\ footnote_by_id'[entry.id] = n
    BY <1>1, <1>2
  <2>4. ASSUME NEW k \in DOMAIN footnote_by_id
        PROVE  /\ footnote_by_id'[k] \in 1 .. Len(footnotes')
               /\ footnotes'[footnote_by_id'[k]].id = k
               /\ \E p \in Seen' : text'[p].id = k
    <3>1. k # id /\ k \in DOMAIN footnote_by_id BY DEF Resolver!Known
    <3>2. footnote_by_id'[k] = footnote_by_id[k] BY <1>1, <3>1
    <3>3. /\ footnote_by_id[k] \in 1 .. Len(footnotes)
          /\ footnotes[footnote_by_id[k]].id = k
      BY DEF ResInv, IdsListed
    <3>4. PICK p \in Seen : text[p].id = k BY DEF ResInv, IdsListed
    <3>5. p \in Seen' /\ text'[p].id = k BY <1>7, <3>4
    <3> QED BY <1>3, <1>4, <3>2, <3>3, <3>5
  <2>5. id # None => /\ footnote_by_id'[id] = n
                     /\ footnotes'[n].id = id
                     /\ \E p \in Seen' : text'[p].id = id
    BY <1>1, <1>2, <1>3
  <2>6. \A k \in DOMAIN footnote_by_id' : k \in DOMAIN footnote_by_id \/ (k = id /\ id # None)
    BY <1>1
  <2>7. \A i \in 1 .. Len(footnotes') :
          footnotes'[i].id # None => /\ footnotes'[i].id \in DOMAIN footnote_by_id'
                                     /\ footnote_by_id'[footnotes'[i].id] = i
    BY <1>3, <1>4, <2>2, <2>3
  <2>8. \A k \in DOMAIN footnote_by_id' :
          /\ footnote_by_id'[k] \in 1 .. Len(footnotes')
          /\ footnotes'[footnote_by_id'[k]].id = k
          /\ \E p \in Seen' : text'[p].id = k
    BY <1>4, <2>4, <2>5, <2>6
  <2> QED BY <2>1, <2>7, <2>8 DEF IdsListed
<1>10. FirstTexts'
  <2>1. ASSUME NEW x \in Ids, x # id PROVE Starts(x)' = Starts(x)
    BY <1>7, <2>1 DEF Starts
  <2>2. ASSUME id \in Ids PROVE Starts(id) = {}
    <3>1. ASSUME NEW k \in Seen PROVE text[k].id # id
      <4>1. SUFFICES ASSUME text[k].id = id PROVE FALSE OBVIOUS
      <4>2. index[k] \in 1 .. Len(footnotes) /\ footnotes[index[k]].id = id /\ id # None
        BY <2>2, <4>1, FootnoteAssumption DEF ResInv, PlacesNumbered
      <4> QED BY <4>2 DEF ResInv, IdsListed, Resolver!Known
    <3> QED BY <3>1 DEF Starts
  <2>3. ASSUME id \in Ids
        PROVE  Starts(id)' = IF text'[m].part = "begin" THEN {m} ELSE {}
    BY <1>7, <2>2, <2>3 DEF Starts
  <2>4. ASSUME NEW i \in 1 .. Len(footnotes'), NEW x \in Ids, footnotes'[i].id = x
        PROVE  /\ Starts(x)' = {} => footnotes'[i].by = 0
               /\ Starts(x)' # {} => footnotes'[i].by \in Starts(x)'
               /\ \A d, k \in Starts(x)' :
                    footnotes'[i].by = d => Resolver!EndOf(d)' <= Resolver!EndOf(k)'
    <3>1. CASE i = n
      <4>1. x = id /\ id \in Ids BY <1>2, <1>3, <2>4, <3>1
      <4>2. footnotes'[i].by = by BY <1>2, <1>3, <3>1
      <4>3. CASE text'[m].part = "begin"
        <5>1. Starts(x)' = {m} /\ by = m /\ Resolver!EndOf(m)' = Len(text) + 1 /\ Len(text) \in Nat
          BY <2>3, <4>1, <4>3, Grown
        <5> QED BY <4>2, <5>1
      <4>4. CASE text'[m].part # "begin"
        <5>1. Starts(x)' = {} /\ by = 0 BY <2>3, <4>1, <4>4
        <5> QED BY <4>2, <5>1
      <4> QED BY <4>3, <4>4
    <3>2. CASE i \in 1 .. Len(footnotes)
      <4>1. footnotes[i].id = x /\ x # None /\ footnotes'[i].by = footnotes[i].by
        BY <1>3, <2>4, <3>2, FootnoteAssumption
      <4>2. x # id BY <3>2, <4>1 DEF ResInv, IdsListed, Resolver!Known
      <4>3. Starts(x)' = Starts(x) BY <2>1, <4>2
      <4>4. \A k \in Starts(x) : Resolver!EndOf(k)' = Resolver!EndOf(k)
        BY <1>7 DEF Starts
      <4>5. /\ Starts(x) = {} => footnotes[i].by = 0
            /\ Starts(x) # {} => footnotes[i].by \in Starts(x)
            /\ \A d, k \in Starts(x) :
                 footnotes[i].by = d => Resolver!EndOf(d) <= Resolver!EndOf(k)
        BY <3>2, <4>1 DEF ResInv, FirstTexts
      <4> QED BY <4>1, <4>3, <4>4, <4>5
    <3> QED BY <1>4, <3>1, <3>2
  <2> QED BY <2>4 DEF FirstTexts
<1> QED BY <1>3, <1>6, <1>8, <1>9, <1>10 DEF ResInv

\* The catalog s when entry j has taken the text of m.
Taken(s, j, m) == [s EXCEPT ![j].by = m]

LEMMA EntryTaken ==
  ASSUME NEW s \in Seq(CatalogEntry), NEW j \in 1 .. Len(s), NEW m \in Nat
  PROVE  /\ Taken(s, j, m) \in Seq(CatalogEntry) /\ Len(Taken(s, j, m)) = Len(s)
         /\ \A i \in 1 .. Len(s) :
              /\ Taken(s, j, m)[i].id = s[i].id /\ Taken(s, j, m)[i].index = s[i].index
              /\ i = j => Taken(s, j, m)[i].by = m
              /\ i # j => Taken(s, j, m)[i].by = s[i].by
<1>0. PICK t : t = Taken(s, j, m) OBVIOUS
<1>1. t = [s EXCEPT ![j] = [s[j] EXCEPT !.by = m]] BY <1>0 DEF Taken
<1>2. s[j] \in CatalogEntry OBVIOUS
<1>3. PICK e : e = [s[j] EXCEPT !.by = m] OBVIOUS
<1>4. e \in CatalogEntry /\ e.id = s[j].id /\ e.index = s[j].index /\ e.by = m
  BY <1>2, <1>3 DEF CatalogEntry
<1>5. t = [s EXCEPT ![j] = e] BY <1>1, <1>3
<1>6. t \in Seq(CatalogEntry) /\ Len(t) = Len(s) BY <1>4, <1>5
<1>7. \A i \in 1 .. Len(s) : t[i] = IF i = j THEN e ELSE s[i] BY <1>5
<1> QED BY <1>0, <1>4, <1>6, <1>7

LEMMA TakenNext ==
  ASSUME footnotes \in Seq(CatalogEntry), NEW j \in 1 .. Len(footnotes), NEW m \in Nat,
         footnotes' = Taken(footnotes, j, m)
  PROVE  /\ footnotes' \in Seq(CatalogEntry) /\ Len(footnotes') = Len(footnotes)
         /\ \A i \in 1 .. Len(footnotes) :
              /\ footnotes'[i].id = footnotes[i].id /\ footnotes'[i].index = footnotes[i].index
              /\ i = j => footnotes'[i].by = m
              /\ i # j => footnotes'[i].by = footnotes[i].by
BY EntryTaken

\* A place with an id that has an entry gets the number of that entry, which
\* takes its text if it is a definition and the entry has none.
LEMMA ResKnown ==
  ASSUME TextInv, TextInv', ResInv, NEW tok \in Token, text' = Append(text, tok),
         NEW m \in 1 .. Len(text'), Seen' = Seen \cup {m}, m \notin Seen,
         NEW id \in Ids, text'[m].id = id, Resolver!Known(id),
         index' = Resolver!Put(index, m, Resolver!Entry(id).index),
         footnotes' = IF text'[m].part = "begin" /\ Resolver!Entry(id).by = 0
                        THEN [footnotes EXCEPT ![footnote_by_id[id]].by = m] ELSE footnotes,
         footnote_by_id' = footnote_by_id, footnote_counter' = footnote_counter,
         walking' \in BOOLEAN,
         text'[m].part = "begin" => Resolver!EndOf(m)' = Len(text) + 1
  PROVE  ResInv'
<1> DEFINE j == footnote_by_id[id]
           takes == text'[m].part = "begin" /\ footnotes[j].by = 0
<1>0. /\ footnotes \in Seq(CatalogEntry) /\ id # None /\ m \in Nat \ {0}
      /\ \A i \in 1 .. Len(footnotes) : footnotes[i].index = i
      /\ footnote_counter = Len(footnotes)
  BY FootnoteAssumption DEF ResInv, Resolver!Sequential
<1>1. /\ j \in 1 .. Len(footnotes) /\ footnotes[j].id = id /\ id \in DOMAIN footnote_by_id
      /\ Resolver!Entry(id) = footnotes[j]
      /\ \A i \in 1 .. Len(footnotes) : footnotes[i].id = id => i = j
  BY <1>0 DEF ResInv, IdsListed, Resolver!Known, Resolver!Entry
<1>2. index' = [k \in DOMAIN index \cup {m} |-> IF k = m THEN j ELSE index[k]]
  BY <1>0, <1>1 DEF Resolver!Put
<1>3. footnotes' = IF takes THEN [footnotes EXCEPT ![j].by = m] ELSE footnotes
  BY <1>1
<1> HIDE DEF j
<1>4. /\ footnotes' \in Seq(CatalogEntry) /\ Len(footnotes') = Len(footnotes)
      /\ \A i \in 1 .. Len(footnotes) :
           /\ footnotes'[i].id = footnotes[i].id /\ footnotes'[i].index = footnotes[i].index
           /\ takes /\ i = j => footnotes'[i].by = m
           /\ ~(takes /\ i = j) => footnotes'[i].by = footnotes[i].by
  <2>1. CASE ~takes
    <3>1. footnotes' = footnotes BY <1>3, <2>1
    <3> HIDE DEF takes
    <3> QED BY <1>0, <2>1, <3>1
  <2>2. CASE takes
    <3>1. footnotes' = Taken(footnotes, j, m) BY <1>3, <2>2 DEF Taken
    <3>2. /\ footnotes' \in Seq(CatalogEntry) /\ Len(footnotes') = Len(footnotes)
          /\ \A i \in 1 .. Len(footnotes) :
               /\ footnotes'[i].id = footnotes[i].id /\ footnotes'[i].index = footnotes[i].index
               /\ i = j => footnotes'[i].by = m
               /\ i # j => footnotes'[i].by = footnotes[i].by
      <4>1. m \in Nat /\ footnotes \in Seq(CatalogEntry) /\ j \in 1 .. Len(footnotes)
        BY <1>0, <1>1
      <4> QED BY <3>1, <4>1, TakenNext, Zenon
    <3> HIDE DEF takes
    <3> QED BY <2>2, <3>2, Zenon
  <2> QED BY <2>1, <2>2
<1>5. Resolver!Sequential' BY <1>0, <1>4 DEF Resolver!Sequential
<1>7. \A k \in Seen : /\ text'[k] = text[k] /\ k # m /\ k \in Nat /\ k # 0
                      /\ text[k].part = "begin" =>
                           /\ Resolver!EndOf(k)' = Resolver!EndOf(k)
                           /\ Resolver!EndOf(k) \in 1 .. Len(text)
  BY PlaceStays, PlaceType DEF Seen
<1>8. PlacesNumbered'
  <2>1. DOMAIN index' = Seen' BY <1>2 DEF ResInv, PlacesNumbered
  <2>2. ASSUME NEW k \in Seen
        PROVE  /\ index'[k] \in 1 .. Len(footnotes')
               /\ footnotes'[index'[k]].id = text'[k].id
               /\ text'[k].id = None => footnotes'[index'[k]].by = k
    <3>1. /\ index'[k] = index[k] /\ index[k] \in 1 .. Len(footnotes)
          /\ footnotes[index[k]].id = text[k].id
          /\ text[k].id = None => footnotes[index[k]].by = k
      BY <1>2, <1>7 DEF ResInv, PlacesNumbered
    <3>2. text[k].id = None => index[k] # j BY <1>0, <1>1, <3>1
    <3>3. /\ footnotes'[index[k]].id = footnotes[index[k]].id
          /\ index[k] # j => footnotes'[index[k]].by = footnotes[index[k]].by
          /\ index[k] \in 1 .. Len(footnotes')
      BY <1>4, <3>1
    <3>4. text'[k] = text[k] BY <1>7
    <3> QED BY <3>1, <3>2, <3>3, <3>4, Zenon
  <2>3. /\ index'[m] \in 1 .. Len(footnotes')
        /\ footnotes'[index'[m]].id = text'[m].id
        /\ text'[m].id # None
    <3>1. index'[m] = j BY <1>2
    <3> QED BY <1>0, <1>1, <1>4, <3>1
  <2> QED BY <2>1, <2>2, <2>3 DEF PlacesNumbered
<1>9. IdsListed'
  <2>1. \A k \in DOMAIN footnote_by_id : \E p \in Seen' : text'[p].id = k
    <3>1. \A k \in DOMAIN footnote_by_id : \E p \in Seen : text[p].id = k
      BY DEF ResInv, IdsListed
    <3> QED BY <1>7, <3>1
  <2>2. /\ DOMAIN footnote_by_id \subseteq Ids
        /\ \A i \in 1 .. Len(footnotes) :
             footnotes[i].id # None => /\ footnotes[i].id \in DOMAIN footnote_by_id
                                       /\ footnote_by_id[footnotes[i].id] = i
        /\ \A k \in DOMAIN footnote_by_id : /\ footnote_by_id[k] \in 1 .. Len(footnotes)
                                            /\ footnotes[footnote_by_id[k]].id = k
    BY DEF ResInv, IdsListed
  <2>3. \A k \in DOMAIN footnote_by_id' : /\ footnote_by_id'[k] \in 1 .. Len(footnotes')
                                          /\ footnotes'[footnote_by_id'[k]].id = k
    BY <1>4, <2>2
  <2>4. \A i \in 1 .. Len(footnotes') :
          footnotes'[i].id # None => /\ footnotes'[i].id \in DOMAIN footnote_by_id'
                                     /\ footnote_by_id'[footnotes'[i].id] = i
    BY <1>4, <2>2
  <2> QED BY <2>1, <2>2, <2>3, <2>4, Zenon DEF IdsListed
<1>10. FirstTexts'
  <2>1. ASSUME NEW x \in Ids PROVE Starts(x)' = IF x = id /\ text'[m].part = "begin"
                                                THEN Starts(x) \cup {m} ELSE Starts(x)
    BY <1>7 DEF Starts
  <2>2. \A x \in Ids : \A k \in Starts(x) :
          /\ Resolver!EndOf(k)' = Resolver!EndOf(k) /\ Resolver!EndOf(k) \in 1 .. Len(text)
          /\ k # 0 /\ k # m
    BY <1>7 DEF Starts
  <2>3. ASSUME NEW i \in 1 .. Len(footnotes'), NEW x \in Ids, footnotes'[i].id = x
        PROVE  /\ Starts(x)' = {} => footnotes'[i].by = 0
               /\ Starts(x)' # {} => footnotes'[i].by \in Starts(x)'
               /\ \A d, k \in Starts(x)' :
                    footnotes'[i].by = d => Resolver!EndOf(d)' <= Resolver!EndOf(k)'
    <3>0. i \in 1 .. Len(footnotes) /\ footnotes[i].id = x BY <1>4, <2>3
    <3>1. /\ Starts(x) = {} => footnotes[i].by = 0
          /\ Starts(x) # {} => footnotes[i].by \in Starts(x)
          /\ \A d, k \in Starts(x) :
               footnotes[i].by = d => Resolver!EndOf(d) <= Resolver!EndOf(k)
      BY <3>0 DEF ResInv, FirstTexts
    <3>2. CASE x # id
      <4>1. i # j /\ Starts(x)' = Starts(x) BY <1>1, <2>1, <3>0, <3>2
      <4>2. footnotes'[i].by = footnotes[i].by BY <1>4, <3>0, <4>1
      <4> QED BY <2>2, <3>1, <4>1, <4>2
    <3>3. CASE x = id /\ text'[m].part # "begin"
      <4>1. Starts(x)' = Starts(x) /\ ~takes BY <2>1, <3>3
      <4>2. footnotes'[i].by = footnotes[i].by BY <1>4, <3>0, <4>1
      <4> QED BY <2>2, <3>1, <4>1, <4>2
    <3>4. CASE x = id /\ text'[m].part = "begin"
      <4>1. Starts(x)' = Starts(x) \cup {m} /\ i = j BY <1>1, <2>1, <3>0, <3>4
      <4>2. Resolver!EndOf(m)' = Len(text) + 1 /\ Len(text) \in Nat BY <3>4, Grown
      <4>3. CASE footnotes[j].by = 0
        <5>1. Starts(x) = {} BY <2>2, <3>1, <4>1, <4>3
        <5>2. footnotes'[i].by = m BY <1>4, <3>0, <3>4, <4>1, <4>3
        <5>3. Starts(x)' = {m} BY <4>1, <5>1
        <5> QED BY <4>2, <5>2, <5>3
      <4>4. CASE footnotes[j].by # 0
        <5>1. footnotes'[i].by = footnotes[i].by BY <1>4, <3>0, <4>4
        <5>2. footnotes[i].by \in Starts(x) BY <3>1, <4>1, <4>4
        <5>3. \A d, k \in Starts(x)' :
                footnotes'[i].by = d => Resolver!EndOf(d)' <= Resolver!EndOf(k)'
          <6>1. SUFFICES ASSUME NEW d \in Starts(x)', NEW k \in Starts(x)', footnotes'[i].by = d
                         PROVE  Resolver!EndOf(d)' <= Resolver!EndOf(k)'
            OBVIOUS
          <6>2. d \in Starts(x) BY <5>1, <5>2, <6>1
          <6>3. Resolver!EndOf(d)' = Resolver!EndOf(d) /\ Resolver!EndOf(d) \in 1 .. Len(text)
            BY <2>2, <6>2
          <6>4. CASE k = m BY <4>2, <6>3, <6>4
          <6>5. CASE k \in Starts(x)
            <7>1. Resolver!EndOf(k)' = Resolver!EndOf(k) BY <2>2, <6>5
            <7>2. Resolver!EndOf(d) <= Resolver!EndOf(k) BY <3>1, <5>1, <6>1, <6>2, <6>5
            <7> QED BY <6>3, <7>1, <7>2
          <6> QED BY <4>1, <6>4, <6>5
        <5> QED BY <4>1, <5>1, <5>2, <5>3
      <4> QED BY <4>3, <4>4
    <3> QED BY <3>2, <3>3, <3>4
  <2> QED BY <2>3 DEF FirstTexts
<1> QED BY <1>4, <1>5, <1>8, <1>9, <1>10 DEF ResInv

LEMMA ResStart == Resolver!Resolve => ResInv'
<1> SUFFICES ASSUME Resolver!Resolve PROVE ResInv' OBVIOUS
<1>1. /\ text' = <<>> /\ open' = <<>> /\ index' = <<>> /\ walking' = TRUE
      /\ footnote_counter' = 0 /\ footnotes' = <<>> /\ footnote_by_id' = <<>>
  BY DEF Resolver!Resolve
<1>2. Seen' = {} BY <1>1 DEF Seen, Places
<1>3. PlacesNumbered' BY <1>1, <1>2 DEF PlacesNumbered
<1>4. IdsListed' BY <1>1 DEF IdsListed
<1>5. FirstTexts' BY <1>1 DEF FirstTexts
<1>6. Resolver!Sequential' BY <1>1 DEF Resolver!Sequential
<1>7. footnotes' \in Seq(CatalogEntry) BY <1>1
<1> QED BY <1>1, <1>3, <1>4, <1>5, <1>6, <1>7 DEF ResInv

\* What is known of the entries stays when no place is added.
LEMMA ResSame ==
  ASSUME ResInv, Seen' = Seen,
         \A m \in Seen : /\ text'[m] = text[m]
                         /\ text[m].part = "begin" => Resolver!EndOf(m)' = Resolver!EndOf(m),
         UNCHANGED <<footnote_counter, footnotes, footnote_by_id, index>>, walking' \in BOOLEAN
  PROVE  ResInv'
<1>1. PlacesNumbered' BY DEF ResInv, PlacesNumbered
<1>2. IdsListed' BY DEF ResInv, IdsListed
<1>3. \A x : Starts(x)' = Starts(x) BY DEF Starts
<1>4. \A x : \A k \in Starts(x) : Resolver!EndOf(k)' = Resolver!EndOf(k) BY DEF Starts
<1>5. FirstTexts' BY <1>3, <1>4 DEF ResInv, FirstTexts
<1>6. Resolver!Sequential' BY DEF ResInv, Resolver!Sequential
<1> QED BY <1>1, <1>2, <1>5, <1>6 DEF ResInv

\* A token more, but no place that the resolver has met.
LEMMA ResAside ==
  ASSUME TextInv, ResInv, TextInv', NEW tok \in Token, text' = Append(text, tok),
         Seen' = Seen, UNCHANGED <<footnote_counter, footnotes, footnote_by_id, index, walking>>
  PROVE  ResInv'
<1>1. \A m \in Seen : /\ text'[m] = text[m]
                      /\ text[m].part = "begin" => Resolver!EndOf(m)' = Resolver!EndOf(m)
  BY PlaceStays DEF Seen
<1>2. walking' \in BOOLEAN BY DEF ResInv
<1> QED BY <1>1, <1>2, ResSame

LEMMA ResBegin == TextInv /\ ResInv /\ Resolver!Begin => TextInv' /\ ResInv'
<1> SUFFICES ASSUME TextInv, ResInv, Resolver!Begin PROVE TextInv' /\ ResInv' OBVIOUS
<1>1. PICK id \in Ids \cup {None}, w \in Within :
        /\ MayStand(w) /\ text' = Append(text, [part |-> "begin", id |-> id, within |-> w])
        /\ open' = Append(open, Len(text) + 1)
  BY ResolverReads DEF Resolver!Begin, Resolver!Visited
<1>2. TextInv' BY <1>1, TextBegin
<1>3. Seen' = Seen BY <1>1, PlacesBegin
<1>4. [part |-> "begin", id |-> id, within |-> w] \in Token BY DEF Token
<1>5. UNCHANGED <<footnote_counter, footnotes, footnote_by_id, index, walking>>
  BY DEF Resolver!Begin
<1> QED BY <1>1, <1>2, <1>3, <1>4, <1>5, ResAside

LEMMA ResEnd == TextInv /\ ResInv /\ (Resolver!EndNew \/ Resolver!EndKnown) => TextInv' /\ ResInv'
<1> SUFFICES ASSUME TextInv, ResInv, Resolver!EndNew \/ Resolver!EndKnown PROVE TextInv' /\ ResInv'
  OBVIOUS
<1>1. /\ open # <<>> /\ text' = Append(text, [part |-> "end"])
      /\ open' = SubSeq(open, 1, Len(open) - 1) /\ walking' \in BOOLEAN
      /\ text[Innermost].within # "title"
  BY ResolverReads DEF Resolver!EndNew, Resolver!EndKnown, Resolver!Visited, MayStand, ResInv
<1>2. TextInv' BY <1>1, TextEnd
<1>3. PICK m : m = Innermost OBVIOUS
<1>4. PICK id : id = text[m].id OBVIOUS
<1>5. /\ Seen' = Seen \cup {m} /\ m \notin Seen /\ m \in 1 .. Len(text)
      /\ text[m].part = "begin" /\ text'[m] = text[m] /\ id \in Ids \cup {None}
  BY <1>1, <1>3, <1>4, PlacesEnd DEF Seen
<1>6. Resolver!EndOf(m)' = Len(text) + 1 BY <1>1, <1>3, AroundEnd
<1>7. PICK tok \in Token : text' = Append(text, tok)
  <2>1. [part |-> "end"] \in Token BY DEF Token
  <2> QED BY <1>1, <2>1
<1>8. m \in 1 .. Len(text') /\ m \in Nat /\ text'[m].id = id /\ text'[m].part = "begin"
  BY <1>4, <1>5, <1>7, Grown
<1>9. Resolver!Innermost = m /\ Resolver!IdAt(m) = id
  BY <1>3, <1>4 DEF Resolver!Innermost, Innermost, Resolver!IdAt
<1>10. CASE Resolver!EndNew
  <2>1. ~Resolver!Known(id) /\ Resolver!NewEntry(m, id, m)
    BY <1>9, <1>10 DEF Resolver!EndNew
  <2>2. ResInv' BY <1>1, <1>2, <1>5, <1>6, <1>7, <1>8, <2>1, ResNew
  <2> QED BY <1>2, <2>2
<1>11. CASE Resolver!EndKnown
  <2>1. Resolver!Known(id) /\ id \in Ids
    BY <1>9, <1>11 DEF Resolver!EndKnown, Resolver!Known, ResInv, IdsListed
  <2>2. /\ index' = Resolver!Put(index, m, Resolver!Entry(id).index)
        /\ footnotes' = IF text'[m].part = "begin" /\ Resolver!Entry(id).by = 0
                          THEN [footnotes EXCEPT ![footnote_by_id[id]].by = m] ELSE footnotes
        /\ footnote_by_id' = footnote_by_id /\ footnote_counter' = footnote_counter
    BY <1>8, <1>9, <1>11 DEF Resolver!EndKnown
  <2>3. ResInv' BY <1>1, <1>2, <1>5, <1>6, <1>7, <1>8, <2>1, <2>2, ResKnown
  <2> QED BY <1>2, <2>3
<1> QED BY <1>10, <1>11

LEMMA ResRef == TextInv /\ ResInv /\ (Resolver!RefKnown \/ Resolver!RefNew) => TextInv' /\ ResInv'
<1> SUFFICES ASSUME TextInv, ResInv, Resolver!RefKnown \/ Resolver!RefNew PROVE TextInv' /\ ResInv'
  OBVIOUS
<1>1. PICK id \in Ids, w \in Within :
        /\ w # "title" /\ MayStand(w)
        /\ text' = Append(text, [part |-> "ref", id |-> id, within |-> w]) /\ open' = open
        /\ \/ /\ Resolver!Known(id)
              /\ index' = Resolver!Put(index, Resolver!Here, Resolver!Entry(id).index)
              /\ UNCHANGED <<footnote_counter, footnotes, footnote_by_id>>
           \/ ~Resolver!Known(id) /\ Resolver!NewEntry(Resolver!Here, id, 0)
  BY ResolverReads DEF Resolver!RefKnown, Resolver!RefNew, Resolver!Visited
<1>2. walking' \in BOOLEAN BY DEF Resolver!RefKnown, Resolver!RefNew, ResInv
<1>3. TextInv' BY <1>1, TextRef
<1>4. PICK m : m = Len(text) + 1 OBVIOUS
<1>5. /\ Seen' = Seen \cup {m} /\ m \notin Seen
      /\ text'[m] = [part |-> "ref", id |-> id, within |-> w]
  BY <1>1, <1>4, PlacesRef DEF Seen
<1>6. text'[m].id = id /\ text'[m].part = "ref" BY <1>5
<1>7. PICK tok \in Token : text' = Append(text, tok)
  <2>1. [part |-> "ref", id |-> id, within |-> w] \in Token BY DEF Token
  <2> QED BY <1>1, <2>1
<1>8. m \in 1 .. Len(text') BY <1>4, <1>7, Grown
<1>9. Resolver!Here = m BY <1>4 DEF Resolver!Here
<1>10. id # None BY FootnoteAssumption
<1>11. CASE Resolver!Known(id)
  <2>1. /\ index' = Resolver!Put(index, m, Resolver!Entry(id).index)
        /\ footnotes' = IF text'[m].part = "begin" /\ Resolver!Entry(id).by = 0
                          THEN [footnotes EXCEPT ![footnote_by_id[id]].by = m] ELSE footnotes
        /\ footnote_by_id' = footnote_by_id /\ footnote_counter' = footnote_counter
    BY <1>1, <1>6, <1>9, <1>11
  <2>2. ResInv' BY <1>2, <1>3, <1>5, <1>6, <1>7, <1>8, <1>11, <2>1, ResKnown
  <2> QED BY <1>3, <2>2
<1>12. CASE ~Resolver!Known(id)
  <2>1. Resolver!NewEntry(m, id, 0) BY <1>1, <1>9, <1>12
  <2>2. ResInv' BY <1>2, <1>3, <1>5, <1>6, <1>7, <1>8, <1>10, <1>12, <2>1, ResNew
  <2> QED BY <1>3, <2>2
<1> QED BY <1>11, <1>12

LEMMA ResTake == TextInv /\ ResInv /\ Resolver!Take => TextInv' /\ ResInv'
BY ResBegin, ResEnd, ResRef DEF Resolver!Take

\* A title is not visited.
LEMMA ResSkip == TextInv /\ ResInv /\ Resolver!SkipTitle => TextInv' /\ ResInv'
<1> SUFFICES ASSUME TextInv, ResInv, Resolver!SkipTitle PROVE TextInv' /\ ResInv' OBVIOUS
<1>1. UNCHANGED <<footnote_counter, footnotes, footnote_by_id, index, walking>>
  BY DEF Resolver!SkipTitle
<1>2. PassOver("title") BY ResolverReads DEF Resolver!SkipTitle
<1>3. \E tok \in Token : text' = Append(text, tok) BY <1>2, PassedOver DEF Within
<1>4. TextInv' /\ Seen' = Seen BY <1>2, PassedOver DEF Within
<1> QED BY <1>1, <1>3, <1>4, ResAside

\* The end of the walk, and steps that leave the resolver alone.
LEMMA ResRest ==
  ASSUME TextInv, ResInv,
         UNCHANGED <<text, open, footnote_counter, footnotes, footnote_by_id, index>>,
         walking' \in BOOLEAN
  PROVE  TextInv' /\ ResInv'
<1>1. TextInv' BY TextStutter
<1>2. Seen' = Seen BY DEF Seen, Places, Opened
<1>3. \A m : Resolver!EndOf(m)' = Resolver!EndOf(m) BY DEF Resolver!EndOf, Resolver!Balanced
<1>4. ResInv' BY <1>2, <1>3, ResSame
<1> QED BY <1>1, <1>4

-----------------------------------------------------------------------------
(* The renderer                                                             *)

CallFrame == [label : Nat, old_parent : Nat]
Body      == [docid : Ids \cup Nat, label : Nat, by : Nat]

\* The calls under way are those of the open macros, each in the text of the
\* one before; there are none where the open macros are raw text.
Aside == open # <<>> /\ text[Innermost].within = "raw"
CallsStand ==
  /\ Len(calls) = Len(open)
  /\ current_node = IF open = <<>> THEN 0 ELSE Innermost
  /\ \A i \in 1 .. Len(calls) : calls[i].old_parent = IF i = 1 THEN 0 ELSE open[i - 1]
CallsOfOpen ==
  /\ calls \in Seq(CallFrame)
  /\ IF Aside THEN calls = <<>> /\ current_node = 0 ELSE CallsStand

\* Every label given is on a body, or will be when its call returns.
Labels == {bodies[i].label : i \in 1 .. Len(bodies)} \cup {calls[i].label : i \in 1 .. Len(calls)}
LabelsGiven == Labels = 1 .. label_counter /\ Len(bodies) + Len(calls) = label_counter

\* The ids and labels of the bodies, and of those that will be collected when
\* the calls return.
Collected == {<<bodies[i].docid, bodies[i].label>> : i \in 1 .. Len(bodies)}
CallKey(i) == <<Renderer!DocId(text[open[i]].id, calls[i].label), calls[i].label>>
Awaited   == {CallKey(i) : i \in 1 .. Len(calls)}
Arriving  == Collected \cup Awaited

Leads ==
  /\ DOMAIN reference = Shown
  /\ \A m \in Shown : /\ reference[m].label \in Nat /\ reference[m].parent \in Nat
                      /\ <<reference[m].refid, reference[m].label>> \in Arriving
  /\ \A id \in DOMAIN footnote_by_custom_id :
       /\ id \in Ids /\ footnote_by_custom_id[id] \in Nat
       /\ <<id, footnote_by_custom_id[id]>> \in Arriving

RenInv ==
  /\ bodies \in Seq(Body) /\ label_counter \in Nat
  /\ CallsOfOpen /\ LabelsGiven /\ Leads
  /\ Renderer!ReferenceInPlace

\* The instance names as this module does.
LEMMA SameNames ==
  /\ Renderer!Innermost = Innermost /\ Renderer!Here = Len(text) + 1
  /\ \A m : Renderer!IdAt(m) = text[m].id
  /\ Renderer!Token = Token
BY DEF Renderer!Innermost, Innermost, Renderer!Here, Renderer!IdAt, Renderer!Token, Token,
       Renderer!Within, Within

LEMMA RendererShows ==
  ASSUME TextInv, RenInv, rendering \in BOOLEAN, ~rendering => open = <<>>
  PROVE  /\ Renderer!TypeOK /\ Renderer!RefersToBody
         /\ Renderer!EveryLabelOnce /\ Renderer!ReferenceInPlace
<1>1. Renderer!TypeOK
  <2>1. /\ text \in Seq(Token) /\ open \in Seq(1 .. Len(text)) /\ Len(text) \in Nat
        /\ Len(open) \in Nat /\ \A i \in 1 .. Len(open) : open[i] \in Nat
    BY DEF TextInv
  <2>2. open \in Seq(Nat) BY <2>1
  <2>3. current_node \in Nat
    <3>1. CASE open = <<>> BY <3>1 DEF RenInv, CallsOfOpen, CallsStand, Aside
    <3>2. CASE open # <<>>
      <4>1. Len(open) \in 1 .. Len(open) BY <2>2, <3>2
      <4> QED BY <2>1, <3>2, <4>1 DEF RenInv, CallsOfOpen, CallsStand, Innermost
    <3> QED BY <3>1, <3>2
  <2>4. \A i \in 1 .. Len(bodies) : bodies[i].label \in Nat /\ bodies[i].by \in Nat
    <3>1. \A i \in 1 .. Len(bodies) : bodies[i] \in Body BY DEF RenInv
    <3> QED BY <3>1 DEF Body
  <2>5. Len(calls) \in {0, Len(open)} BY DEF RenInv, CallsOfOpen, CallsStand
  <2> QED BY <2>1, <2>2, <2>3, <2>4, <2>5, SameNames DEF Renderer!TypeOK, RenInv, Leads
<1>2. ASSUME ~rendering PROVE calls = <<>> /\ Len(calls) = 0
  <2>1. calls \in Seq(CallFrame) /\ Len(calls) = Len(open) /\ open = <<>>
    BY <1>2 DEF RenInv, CallsOfOpen, CallsStand, Aside
  <2> QED BY <2>1
<1>3. Renderer!RefersToBody
  <2> SUFFICES ASSUME ~rendering, NEW m \in DOMAIN reference
               PROVE  <<reference[m].refid, reference[m].label>> \in Collected
    BY DEF Renderer!RefersToBody, Collected
  <2>1. Awaited = {} BY <1>2 DEF Awaited
  <2> QED BY <2>1 DEF RenInv, Leads, Arriving
<1>4. Renderer!EveryLabelOnce
  <2> SUFFICES ASSUME ~rendering
               PROVE  /\ {bodies[i].label : i \in 1 .. Len(bodies)} = 1 .. Len(bodies)
                      /\ label_counter = Len(bodies)
    BY DEF Renderer!EveryLabelOnce
  <2>1. {calls[i].label : i \in 1 .. Len(calls)} = {} BY <1>2
  <2>2. label_counter = Len(bodies)
    <3>1. Len(bodies) \in Nat BY DEF RenInv
    <3> QED BY <1>2, <3>1 DEF RenInv, LabelsGiven
  <2> QED BY <2>1, <2>2 DEF RenInv, LabelsGiven, Labels
<1> QED BY <1>1, <1>3, <1>4 DEF RenInv

LEMMA RenStart == RenInv /\ open = <<>> /\ Renderer!VisitDocument => RenInv'
<1> SUFFICES ASSUME RenInv, open = <<>>, Renderer!VisitDocument PROVE RenInv' OBVIOUS
<1>1. /\ text' = <<>> /\ open' = <<>> /\ label_counter' = 0 /\ footnote_by_custom_id' = <<>>
      /\ bodies' = <<>> /\ reference' = <<>> /\ current_node' = current_node /\ calls' = calls
  BY DEF Renderer!VisitDocument
<1>2. calls \in Seq(CallFrame) /\ Len(calls) = 0 /\ current_node = 0
  BY DEF RenInv, CallsOfOpen, CallsStand, Aside
<1>3. CallsOfOpen' BY <1>1, <1>2 DEF CallsOfOpen, CallsStand, Aside
<1>4. LabelsGiven' BY <1>1, <1>2 DEF LabelsGiven, Labels
<1>5. Shown' = {} BY <1>1 DEF Shown, Places
<1>6. Leads' BY <1>1, <1>5 DEF Leads
<1>7. Renderer!ReferenceInPlace' BY <1>1 DEF Renderer!ReferenceInPlace
<1>8. bodies' \in Seq(Body) /\ label_counter' \in Nat BY <1>1
<1> QED BY <1>3, <1>4, <1>6, <1>7, <1>8 DEF RenInv

\* What was added before the last token stays where it stands.
LEMMA ReferencesStay ==
  ASSUME TextInv, RenInv, NEW tok \in Token, text' = Append(text, tok), TextInv',
         NEW m \in Shown, reference'[m] = reference[m]
  PROVE  IF Renderer!Around(m)' = {} THEN reference'[m].parent = 0
         ELSE /\ reference'[m].parent \in Renderer!Around(m)'
              /\ \A b \in Renderer!Around(m)' : b <= reference'[m].parent
<1>1. m \in 1 .. Len(text) BY DEF Shown, Places
<1>2. Renderer!Around(m)' = Renderer!Around(m) BY <1>1, AroundStays
<1>3. m \in DOMAIN reference BY DEF RenInv, Leads
<1>4. IF Renderer!Around(m) = {} THEN reference[m].parent = 0
      ELSE /\ reference[m].parent \in Renderer!Around(m)
           /\ \A b \in Renderer!Around(m) : b <= reference[m].parent
  BY <1>3 DEF RenInv, Renderer!ReferenceInPlace
<1> QED BY <1>2, <1>4

\* A macro begins: it gets the next label, and a call that awaits its text.
LEMMA RenBegin == TextInv /\ RenInv /\ TextInv' /\ Renderer!Begin => RenInv'
<1> SUFFICES ASSUME TextInv, RenInv, TextInv', Renderer!Begin PROVE RenInv' OBVIOUS
<1> DEFINE l     == label_counter + 1
           frame == [label |-> l, old_parent |-> current_node]
<1>1. PICK id \in Ids \cup {None}, w \in Within :
        w # "raw" /\ Renderer!ReadBegin(id, w) /\ Renderer!Number(id)
  BY RendererReads DEF Renderer!Begin, Renderer!Rendered
<1>2. PICK tok : tok = [part |-> "begin", id |-> id, within |-> w] OBVIOUS
<1>3. tok \in Token /\ tok.id = id /\ tok.within = w BY <1>2 DEF Token
<1>a. MayStand(w) /\ ~Aside /\ CallsStand /\ calls \in Seq(CallFrame)
  <2>1. MayStand(w) /\ w # "raw" BY <1>1, RendererReads
  <2>2. ~Aside BY <2>1 DEF MayStand, Aside
  <2> QED BY <2>1, <2>2 DEF RenInv, CallsOfOpen
<1> USE <1>a
<1>4. /\ text' = Append(text, tok) /\ open' = Append(open, Len(text) + 1)
      /\ calls' = Append(calls, frame) /\ current_node' = Len(text) + 1
      /\ bodies' = bodies /\ reference' = reference /\ label_counter' = l
      /\ footnote_by_custom_id' =
           IF id = None THEN footnote_by_custom_id
           ELSE [k \in DOMAIN footnote_by_custom_id \cup {id} |->
                   IF k = id THEN l ELSE footnote_by_custom_id[k]]
  BY <1>1, <1>2, SameNames, RendererReads
     DEF Renderer!Begin, Renderer!Number, Renderer!Put
<1>5. Shown' = Shown BY <1>2, <1>4, PlacesBegin
<1>6. /\ Len(text) \in Nat /\ text'[Len(text) + 1] = tok
      /\ \A k \in 1 .. Len(text) : text'[k] = text[k]
      /\ Len(open) \in Nat
      /\ \A i \in 1 .. Len(open) : open[i] \in 1 .. Len(text)
  BY <1>3, <1>4, Grown
<1>7. /\ calls \in Seq(CallFrame) /\ Len(calls) = Len(open) /\ label_counter \in Nat
      /\ bodies \in Seq(Body) /\ current_node \in Nat
  <2>1. Renderer!TypeOK => current_node \in Nat BY DEF Renderer!TypeOK
  <2>2. open = <<>> => current_node = 0 BY DEF RenInv, CallsStand
  <2>3. open # <<>> => current_node \in Nat
    <3>1. open \in Seq(1 .. Len(text)) BY DEF TextInv
    <3>2. open # <<>> => Len(open) \in 1 .. Len(open) BY <3>1
    <3> QED BY <1>6, <3>2 DEF RenInv, CallsStand, Innermost
  <2> QED BY <2>2, <2>3 DEF RenInv, CallsStand
<1>8. frame \in CallFrame /\ frame.label = l /\ frame.old_parent = current_node
  BY <1>7 DEF CallFrame
<1> HIDE DEF frame
<1>9. /\ calls' \in Seq(CallFrame) /\ Len(calls') = Len(open) + 1
      /\ calls'[Len(open) + 1] = frame
      /\ \A i \in 1 .. Len(open) : calls'[i] = calls[i]
  BY <1>4, <1>7, <1>8
<1>10. /\ Len(open') = Len(open) + 1 /\ open'[Len(open) + 1] = Len(text) + 1 /\ open' # <<>>
       /\ \A i \in 1 .. Len(open) : open'[i] = open[i]
  <2>1. open \in Seq(1 .. Len(text)) BY DEF TextInv
  <2> QED BY <1>4, <2>1
<1>11. \A i : i \in 1 .. Len(calls') <=> i \in 1 .. Len(open) \/ i = Len(open) + 1
  BY <1>6, <1>9
<1>12. CallsStand'
  <2>1. current_node' = IF open' = <<>> THEN 0 ELSE Innermost'
    BY <1>4, <1>10 DEF Innermost
  <2>2. \A i \in 1 .. Len(open) : i # 1 => i - 1 \in 1 .. Len(open) BY <1>6
  <2>3. \A i \in 1 .. Len(open) : calls'[i].old_parent = IF i = 1 THEN 0 ELSE open'[i - 1]
    BY <1>7, <1>9, <1>10, <2>2 DEF RenInv, CallsStand
  <2>4. calls'[Len(open) + 1].old_parent =
          IF Len(open) + 1 = 1 THEN 0 ELSE open'[Len(open) + 1 - 1]
    <3>1. open \in Seq(1 .. Len(text)) BY DEF TextInv
    <3>2. CASE open = <<>> BY <1>8, <1>9, <3>2 DEF RenInv, CallsStand
    <3>3. CASE open # <<>>
      <4>1. Len(open) \in 1 .. Len(open) /\ Len(open) + 1 # 1 /\ Len(open) + 1 - 1 = Len(open)
        BY <3>1, <3>3
      <4> QED BY <1>8, <1>9, <1>10, <3>3, <4>1 DEF RenInv, CallsStand, Innermost
    <3> QED BY <3>2, <3>3
  <2> QED BY <1>9, <1>10, <1>11, <2>1, <2>3, <2>4 DEF CallsStand
<1>13. LabelsGiven'
  <2>1. {calls'[i].label : i \in 1 .. Len(calls')}
          = {calls[i].label : i \in 1 .. Len(calls)} \cup {l}
    BY <1>7, <1>8, <1>9, <1>11
  <2>2. 1 .. label_counter' = (1 .. label_counter) \cup {l} BY <1>4, <1>7
  <2>3. Len(bodies) \in Nat BY <1>7
  <2>4. Len(bodies') + Len(calls') = label_counter'
    BY <1>4, <1>7, <1>9, <2>3 DEF RenInv, LabelsGiven
  <2>5. Labels' = Labels \cup {l} BY <1>4, <2>1 DEF Labels
  <2> QED BY <2>2, <2>4, <2>5 DEF RenInv, LabelsGiven
<1>14. Arriving' = Arriving \cup {<<Renderer!DocId(id, l), l>>}
  <2>1. Collected' = Collected BY <1>4 DEF Collected
  <2>2. \A i \in 1 .. Len(open) :
          calls'[i] = calls[i] /\ text'[open'[i]] = text[open[i]]
    BY <1>6, <1>9, <1>10
  <2>3. calls'[Len(open) + 1].label = l /\ text'[open'[Len(open) + 1]].id = id
    BY <1>3, <1>6, <1>8, <1>9, <1>10
  <2>4. Awaited' = Awaited \cup {<<Renderer!DocId(id, l), l>>}
    <3>1. \A i \in 1 .. Len(open) : CallKey(i)' = CallKey(i)
      BY <2>2 DEF CallKey, Renderer!DocId
    <3>2. PICK n : n = Len(open) + 1 OBVIOUS
    <3>3. CallKey(n)' = <<Renderer!DocId(id, l), l>>
      BY <2>3, <3>2 DEF CallKey, Renderer!DocId
    <3> QED BY <1>7, <1>11, <3>1, <3>2, <3>3 DEF Awaited
  <2> QED BY <2>1, <2>4 DEF Arriving
<1>15. id # None => <<id, l>> \in Arriving' BY <1>14 DEF Renderer!DocId
<1>16. Leads'
  <2>1. Arriving \subseteq Arriving' BY <1>14
  <2>2. l \in Nat BY <1>7
  <2>3. \A k \in DOMAIN footnote_by_custom_id' :
          \/ k \in DOMAIN footnote_by_custom_id
               /\ footnote_by_custom_id'[k] = footnote_by_custom_id[k]
          \/ k = id /\ id # None /\ footnote_by_custom_id'[k] = l
    BY <1>4
  <2>4. \A k \in DOMAIN footnote_by_custom_id' :
          /\ k \in Ids /\ footnote_by_custom_id'[k] \in Nat
          /\ <<k, footnote_by_custom_id'[k]>> \in Arriving'
    BY <1>15, <2>1, <2>2, <2>3 DEF RenInv, Leads
  <2> QED BY <1>4, <1>5, <2>1, <2>4 DEF RenInv, Leads
<1>17. Renderer!ReferenceInPlace'
  <2>1. DOMAIN reference' = Shown BY <1>4 DEF RenInv, Leads
  <2> QED BY <1>3, <1>4, <2>1, ReferencesStay DEF Renderer!ReferenceInPlace
<1>18. CallsOfOpen'
  <2>1. Innermost' = Len(text) + 1 BY <1>10 DEF Innermost
  <2>2. ~Aside' BY <1>1, <1>3, <1>6, <2>1 DEF Aside
  <2> QED BY <1>9, <1>12, <2>2 DEF CallsOfOpen
<1> QED BY <1>4, <1>7, <1>13, <1>16, <1>17, <1>18 DEF RenInv

\* The innermost macro ends: its call returns, and what it awaited is collected.
LEMMA RenEnd == TextInv /\ RenInv /\ TextInv' /\ Renderer!End => RenInv'
<1> SUFFICES ASSUME TextInv, RenInv, TextInv', Renderer!End PROVE RenInv' OBVIOUS
<1>a. /\ text[Innermost].within # "raw" /\ ~Aside /\ CallsStand /\ calls \in Seq(CallFrame)
      /\ open # <<>> /\ text' = Append(text, [part |-> "end"])
      /\ open' = SubSeq(open, 1, Len(open) - 1)
  BY RendererReads DEF Renderer!End, Renderer!Rendered, MayStand, Aside, RenInv, CallsOfOpen
<1> USE <1>a
<1>0. PICK c : c = Len(open) OBVIOUS
<1>1. PICK m : m = Innermost OBVIOUS
<1>2. PICK l : l = calls[c].label OBVIOUS
<1>3. PICK up : up = calls[c].old_parent OBVIOUS
<1>4. PICK d : d = Renderer!DocId(text[m].id, l) OBVIOUS
<1>5. PICK tok : tok = [part |-> "end"] OBVIOUS
<1>6. /\ calls \in Seq(CallFrame) /\ Len(calls) = c /\ label_counter \in Nat /\ bodies \in Seq(Body)
      /\ \A i \in 1 .. c : calls[i].old_parent = IF i = 1 THEN 0 ELSE open[i - 1]
  BY <1>0 DEF RenInv, CallsStand
<1>7. PICK body : body = [docid |-> d, label |-> l, by |-> m] OBVIOUS
<1>8. /\ open # <<>> /\ text' = Append(text, tok)
      /\ open' = SubSeq(open, 1, c - 1) /\ calls' = SubSeq(calls, 1, Len(calls) - 1)
      /\ bodies' = Append(bodies, body) /\ current_node' = up
      /\ reference' = [k \in DOMAIN reference \cup {m} |->
                         IF k = m THEN [refid |-> d, label |-> l, parent |-> up] ELSE reference[k]]
      /\ label_counter' = label_counter /\ footnote_by_custom_id' = footnote_by_custom_id
  BY <1>0, <1>1, <1>2, <1>3, <1>4, <1>5, <1>6, <1>7, SameNames
     DEF Renderer!End, Renderer!Call, Renderer!Put
<1>9. tok \in Token BY <1>5 DEF Token
<1>10. /\ Len(text) \in Nat /\ \A k \in 1 .. Len(text) : text'[k] = text[k]
       /\ \A i \in 1 .. c : open[i] \in 1 .. Len(text)
  BY <1>0, <1>8, <1>9, Grown
<1>11. open \in Seq(1 .. Len(text)) /\ \A i, j \in 1 .. c : i < j => open[i] < open[j]
  BY <1>0 DEF TextInv
<1>12. c \in Nat \ {0} /\ c \in 1 .. c /\ m = open[c]
  <2>1. c \in Nat \ {0} BY <1>0, <1>8, <1>11
  <2> QED BY <1>0, <1>1, <2>1 DEF Innermost
<1>13. /\ Len(open') = c - 1 /\ Len(calls') = c - 1 /\ calls' \in Seq(CallFrame)
       /\ \A i \in 1 .. c - 1 : open'[i] = open[i] /\ calls'[i] = calls[i]
  <2>1. calls # <<>> BY <1>6, <1>12
  <2>2. /\ Len(open') = c - 1
        /\ \A i \in 1 .. c - 1 : open'[i] = open[i]
    BY <1>0, <1>8, <1>11, FrontFacts
  <2>3. /\ Len(calls') = c - 1 /\ calls' \in Seq(CallFrame)
        /\ \A i \in 1 .. c - 1 : calls'[i] = calls[i]
    BY <1>6, <1>8, <2>1, FrontFacts
  <2> QED BY <2>2, <2>3
<1>14. /\ Shown' = Shown \cup {m} /\ m \notin Shown /\ m \in 1 .. Len(text)
       /\ text[m].id \in Ids \cup {None}
  BY <1>0, <1>1, <1>5, <1>8, PlacesEnd DEF Shown
<1>15. Renderer!Around(m)' = Opened \ {m} BY <1>0, <1>1, <1>5, <1>8, AroundEnd
<1>16. l \in Nat /\ up \in Nat /\ d \in Ids \cup Nat
  <2>1. calls[c] \in CallFrame BY <1>6, <1>12
  <2>2. l \in Nat /\ up \in Nat BY <1>2, <1>3, <2>1 DEF CallFrame
  <2> QED BY <1>4, <1>14, <2>2 DEF Renderer!DocId
<1>17. body \in Body /\ body.docid = d /\ body.label = l BY <1>7, <1>14, <1>16 DEF Body
<1>18. /\ bodies' \in Seq(Body) /\ Len(bodies') = Len(bodies) + 1 /\ bodies'[Len(bodies) + 1] = body
       /\ Len(bodies) \in Nat /\ \A i \in 1 .. Len(bodies) : bodies'[i] = bodies[i]
  BY <1>6, <1>8, <1>17
<1>19. \A i : i \in 1 .. Len(bodies') <=> i \in 1 .. Len(bodies) \/ i = Len(bodies) + 1
  BY <1>18
<1>20. \A i : i \in 1 .. Len(calls) <=> i \in 1 .. Len(calls') \/ i = c
  BY <1>6, <1>12, <1>13
<1>21. up = IF c = 1 THEN 0 ELSE open[c - 1] BY <1>3, <1>6, <1>12
<1>22. CallsStand'
  <2>1. open' = <<>> <=> c = 1
    <3>1. open' \in Seq(1 .. Len(text)) BY <1>0, <1>8, <1>11, FrontFacts
    <3>2. \A s \in Seq(1 .. Len(text)) : s = <<>> <=> Len(s) = 0 OBVIOUS
    <3>3. open' = <<>> <=> Len(open') = 0 BY <3>1, <3>2, Zenon
    <3>4. c - 1 = 0 <=> c = 1 BY <1>12
    <3> QED BY <1>13, <3>3, <3>4, Zenon
  <2>2. c # 1 => c - 1 \in 1 .. c - 1 BY <1>12
  <2>3. current_node' = IF open' = <<>> THEN 0 ELSE Innermost'
    BY <1>8, <1>13, <1>21, <2>1, <2>2 DEF Innermost
  <2>4. \A i \in 1 .. c - 1 : i # 1 => i - 1 \in 1 .. c - 1 BY <1>12
  <2>5. \A i \in 1 .. c - 1 : i \in 1 .. c BY <1>12
  <2>6. \A i \in 1 .. c - 1 : calls'[i].old_parent = IF i = 1 THEN 0 ELSE open'[i - 1]
    BY <1>6, <1>13, <2>4, <2>5
  <2> QED BY <1>13, <2>3, <2>6 DEF CallsStand
<1>23. LabelsGiven'
  <2>1. {bodies'[i].label : i \in 1 .. Len(bodies')}
          = {bodies[i].label : i \in 1 .. Len(bodies)} \cup {l}
    BY <1>17, <1>18, <1>19
  <2>2. {calls[i].label : i \in 1 .. Len(calls)}
          = {calls'[i].label : i \in 1 .. Len(calls')} \cup {l}
    BY <1>2, <1>13, <1>20
  <2>3. Labels' = Labels BY <2>1, <2>2 DEF Labels
  <2>4. Len(bodies') + Len(calls') = label_counter
    <3>1. Len(bodies) + c = label_counter BY <1>6 DEF RenInv, LabelsGiven
    <3>2. Len(bodies') = Len(bodies) + 1 /\ Len(calls') = c - 1 /\ c \in Nat /\ Len(bodies) \in Nat
      BY <1>12, <1>13, <1>18
    <3> QED BY <3>1, <3>2
  <2> QED BY <1>8, <2>3, <2>4 DEF RenInv, LabelsGiven
<1>24. Arriving' = Arriving /\ <<d, l>> \in Arriving'
  <2>1. Collected' = Collected \cup {<<d, l>>} BY <1>17, <1>18, <1>19 DEF Collected
  <2>2. \A i \in 1 .. c - 1 : text'[open'[i]] = text[open[i]] /\ calls'[i] = calls[i]
    BY <1>10, <1>12, <1>13
  <2>3. \A i \in 1 .. c - 1 : CallKey(i)' = CallKey(i)
    BY <2>2 DEF CallKey, Renderer!DocId
  <2>4. CallKey(c) = <<d, l>> BY <1>2, <1>4, <1>12 DEF CallKey
  <2>5. Awaited = Awaited' \cup {<<d, l>>} BY <1>13, <1>20, <2>3, <2>4 DEF Awaited
  <2> QED BY <2>1, <2>5 DEF Arriving
<1>25. \A k \in Shown : k \in DOMAIN reference' /\ reference'[k] = reference[k]
  BY <1>8, <1>14 DEF RenInv, Leads
<1>26. /\ m \in DOMAIN reference'
       /\ reference'[m].refid = d /\ reference'[m].label = l /\ reference'[m].parent = up
  BY <1>8
<1>27. DOMAIN reference' = Shown' BY <1>8, <1>14 DEF RenInv, Leads
<1>28. Leads'
  <2>1. \A k \in Shown :
          /\ reference'[k].label \in Nat /\ reference'[k].parent \in Nat
          /\ <<reference'[k].refid, reference'[k].label>> \in Arriving'
    BY <1>24, <1>25 DEF RenInv, Leads
  <2>2. /\ reference'[m].label \in Nat /\ reference'[m].parent \in Nat
        /\ <<reference'[m].refid, reference'[m].label>> \in Arriving'
    BY <1>16, <1>24, <1>26
  <2> QED BY <1>8, <1>14, <1>24, <1>27, <2>1, <2>2 DEF RenInv, Leads
<1>29. Renderer!ReferenceInPlace'
  <2>1. \A k \in Shown :
          IF Renderer!Around(k)' = {} THEN reference'[k].parent = 0
          ELSE /\ reference'[k].parent \in Renderer!Around(k)'
               /\ \A b \in Renderer!Around(k)' : b <= reference'[k].parent
    BY <1>8, <1>9, <1>25, ReferencesStay
  <2>2. \A b \in Opened \ {m} : \E i \in 1 .. c - 1 : b = open[i]
    <3>1. \A i \in 1 .. c : i \in 1 .. c - 1 \/ i = c BY <1>12
    <3> QED BY <1>0, <1>12, <3>1 DEF Opened
  <2>3. IF Opened \ {m} = {} THEN up = 0
        ELSE up \in Opened \ {m} /\ \A b \in Opened \ {m} : b <= up
    <3>1. CASE c = 1 BY <1>21, <2>2, <3>1
    <3>2. CASE c # 1
      <4>1. c - 1 \in 1 .. c /\ c - 1 < c /\ up = open[c - 1] BY <1>12, <1>21, <3>2
      <4>2. up < m BY <1>11, <1>12, <4>1
      <4>3. up \in Opened \ {m} BY <1>0, <1>10, <1>12, <4>1, <4>2 DEF Opened
      <4>4. \A i \in 1 .. c - 1 : open[i] <= up
        <5>1. \A i \in 1 .. c - 1 : i \in 1 .. c /\ (i < c - 1 \/ i = c - 1) BY <1>12
        <5> QED BY <1>10, <1>11, <4>1, <5>1
      <4> QED BY <2>2, <4>3, <4>4
    <3> QED BY <3>1, <3>2
  <2> QED BY <1>14, <1>15, <1>26, <1>27, <2>1, <2>3 DEF Renderer!ReferenceInPlace
<1>30. CallsOfOpen'
  <2>1. ASSUME open' # <<>> PROVE text'[Innermost'].within # "raw"
    <3>1. c - 1 \in 1 .. c - 1 /\ c - 1 \in 1 .. c
      <4>1. open' \in Seq(1 .. Len(text)) BY <1>0, <1>8, <1>11, FrontFacts
      <4> QED BY <1>12, <1>13, <2>1, <4>1
    <3>2. Innermost' = open[c - 1] /\ open[c - 1] \in 1 .. Len(text)
      BY <1>10, <1>13, <3>1 DEF Innermost
    <3>3. text[open[c - 1]].part = "begin" BY <1>0, <3>1 DEF TextInv
    <3>4. open[c - 1] \in open[c - 1] .. Len(text) BY <3>2
    <3>5. text[open[c - 1]].within = text[Innermost].within
      BY <1>0, <3>1, <3>3, <3>4 DEF TextInv, Inherited
    <3> QED BY <1>10, <3>2, <3>5
  <2> QED BY <1>13, <1>22, <2>1 DEF CallsOfOpen, Aside
<1> QED BY <1>8, <1>6, <1>18, <1>23, <1>28, <1>29, <1>30 DEF RenInv

\* A reference is added where rendering is, to a label that leads to a body.
LEMMA RenPlaced ==
  ASSUME TextInv, RenInv, TextInv', NEW id \in Ids, NEW w \in Within,
         w # "raw", MayStand(w),
         text' = Append(text, [part |-> "ref", id |-> id, within |-> w]), open' = open,
         NEW n, n = Len(text) + 1, NEW l \in Nat,
         reference' = Renderer!Put(reference, n,
                                   [refid |-> id, label |-> l, parent |-> current_node]),
         UNCHANGED <<current_node, calls>>, bodies' \in Seq(Body), label_counter' \in Nat,
         LabelsGiven', Collected \subseteq Collected', <<id, l>> \in Arriving',
         \A k \in DOMAIN footnote_by_custom_id' :
           \/ k \in DOMAIN footnote_by_custom_id
                /\ footnote_by_custom_id'[k] = footnote_by_custom_id[k]
           \/ k = id /\ footnote_by_custom_id'[k] = l
  PROVE  RenInv'
<1>a. ~Aside /\ CallsStand /\ calls \in Seq(CallFrame)
  BY DEF MayStand, Aside, RenInv, CallsOfOpen
<1> USE <1>a
<1>1. PICK tok : tok = [part |-> "ref", id |-> id, within |-> w] OBVIOUS
<1>2. tok \in Token /\ text' = Append(text, tok) BY <1>1 DEF Token
<1>3. /\ Shown' = Shown \cup {n} /\ n \notin Shown BY PlacesRef DEF Shown
<1>4. /\ Len(text) \in Nat /\ Len(open) \in Nat
      /\ \A k \in 1 .. Len(text) : text'[k] = text[k]
      /\ \A i \in 1 .. Len(open) : open[i] \in 1 .. Len(text)
  BY <1>2, Grown
<1>5. reference' = [k \in DOMAIN reference \cup {n} |->
                      IF k = n THEN [refid |-> id, label |-> l, parent |-> current_node]
                      ELSE reference[k]]
  BY DEF Renderer!Put
<1>6. /\ DOMAIN reference' = Shown'
      /\ reference'[n].refid = id /\ reference'[n].label = l
      /\ reference'[n].parent = current_node
      /\ \A k \in Shown : reference'[k] = reference[k]
  BY <1>3, <1>5 DEF RenInv, Leads
<1>7. CallsOfOpen'
  <2>1. open # <<>> => Innermost \in 1 .. Len(text)
    <3>1. open \in Seq(1 .. Len(text)) BY DEF TextInv
    <3>2. open # <<>> => Len(open) \in 1 .. Len(open) BY <3>1
    <3> QED BY <1>4, <3>2 DEF Innermost
  <2>2. ~Aside' BY <1>4, <2>1 DEF Aside, Innermost
  <2>3. CallsStand' BY DEF CallsStand, Innermost
  <2> QED BY <2>2, <2>3 DEF CallsOfOpen
<1>8. Len(calls) = Len(open) BY DEF CallsStand
<1>9. Arriving \subseteq Arriving'
  <2>1. \A i \in 1 .. Len(open) : text'[open[i]] = text[open[i]] BY <1>4
  <2>2. \A i \in 1 .. Len(open) : CallKey(i)' = CallKey(i)
    BY <2>1 DEF CallKey, Renderer!DocId
  <2>3. Awaited' = Awaited BY <1>8, <2>2 DEF Awaited
  <2> QED BY <2>3 DEF Arriving
<1>10. open \in Seq(1 .. Len(text)) /\ \A i, j \in 1 .. Len(open) : i < j => open[i] < open[j]
  BY DEF TextInv
<1>11. /\ current_node \in Nat
       /\ IF Opened = {} THEN current_node = 0
          ELSE current_node \in Opened /\ \A b \in Opened : b <= current_node
  <2>1. CASE open = <<>>
    <3>1. Opened = {} BY <2>1 DEF Opened
    <3> QED BY <2>1, <3>1 DEF CallsStand
  <2>2. CASE open # <<>>
    <3>1. PICK c : c = Len(open) OBVIOUS
    <3>2. c \in Nat \ {0} /\ c \in 1 .. c BY <1>10, <2>2, <3>1
    <3>3. current_node = open[c] BY <2>2, <3>1 DEF CallsStand, Innermost
    <3>4. open[c] \in Opened /\ open[c] \in Nat BY <1>4, <3>1, <3>2 DEF Opened
    <3>5. \A i \in 1 .. c : open[i] <= open[c]
      <4>1. \A i \in 1 .. c : i < c \/ i = c BY <3>2
      <4> QED BY <1>4, <1>10, <3>1, <3>2, <4>1
    <3>6. \A b \in Opened : b <= open[c] BY <3>1, <3>5 DEF Opened
    <3> QED BY <3>3, <3>4, <3>6
  <2> QED BY <2>1, <2>2
<1>12. Leads'
  <2>1. \A k \in DOMAIN footnote_by_custom_id' :
          /\ k \in Ids /\ footnote_by_custom_id'[k] \in Nat
          /\ <<k, footnote_by_custom_id'[k]>> \in Arriving'
    BY <1>9 DEF RenInv, Leads
  <2>2. \A k \in Shown :
          /\ reference'[k].label \in Nat /\ reference'[k].parent \in Nat
          /\ <<reference'[k].refid, reference'[k].label>> \in Arriving'
    BY <1>6, <1>9 DEF RenInv, Leads
  <2> QED BY <1>3, <1>6, <1>11, <2>1, <2>2 DEF Leads
<1>13. Renderer!ReferenceInPlace'
  <2>1. \A k \in Shown :
          IF Renderer!Around(k)' = {} THEN reference'[k].parent = 0
          ELSE /\ reference'[k].parent \in Renderer!Around(k)'
               /\ \A b \in Renderer!Around(k)' : b <= reference'[k].parent
    BY <1>2, <1>6, ReferencesStay
  <2>2. Renderer!Around(n)' = Opened BY <1>2, AroundRef
  <2> QED BY <1>3, <1>6, <1>11, <2>1, <2>2 DEF Renderer!ReferenceInPlace
<1> QED BY <1>7, <1>12, <1>13 DEF RenInv

LEMMA RenRef ==
  TextInv /\ RenInv /\ TextInv' /\ (Renderer!RefKnown \/ Renderer!RefNew) => RenInv'
<1> SUFFICES ASSUME TextInv, RenInv, TextInv', Renderer!RefKnown \/ Renderer!RefNew
             PROVE  RenInv'
  OBVIOUS
<1>1. PICK n : n = Len(text) + 1 OBVIOUS
<1>2. calls \in Seq(CallFrame) /\ bodies \in Seq(Body) /\ label_counter \in Nat
      /\ Len(calls) \in Nat /\ Len(bodies) \in Nat
  BY DEF RenInv, CallsOfOpen
<1>3. CASE Renderer!RefKnown
  <2>1. PICK id \in Ids, w \in Within :
          /\ w # "raw" /\ Renderer!ReadRef(id, w) /\ Renderer!Known(id)
          /\ reference' = Renderer!Put(reference, n,
               [refid |-> id, label |-> footnote_by_custom_id[id], parent |-> current_node])
    BY <1>1, <1>3, SameNames, RendererReads DEF Renderer!RefKnown, Renderer!Rendered
  <2>2. /\ MayStand(w) /\ text' = Append(text, [part |-> "ref", id |-> id, within |-> w])
        /\ open' = open
    BY <2>1, RendererReads
  <2>3. UNCHANGED <<label_counter, footnote_by_custom_id, bodies, current_node, calls>>
    BY <1>3 DEF Renderer!RefKnown
  <2>4. footnote_by_custom_id[id] \in Nat /\ <<id, footnote_by_custom_id[id]>> \in Arriving
    BY <2>1 DEF Renderer!Known, RenInv, Leads
  <2>5. LabelsGiven' BY <2>3 DEF RenInv, LabelsGiven, Labels
  <2>6. Collected' = Collected BY <2>3 DEF Collected
  <2>7. Awaited' = Awaited
    <3>1. \A i \in 1 .. Len(open) : text'[open[i]] = text[open[i]]
      <4>1. [part |-> "ref", id |-> id, within |-> w] \in Token BY DEF Token
      <4> QED BY <2>2, <4>1, Grown
    <3>2. Len(calls) = Len(open)
      BY <2>1, <2>2 DEF MayStand, Aside, RenInv, CallsOfOpen, CallsStand
    <3>3. \A i \in 1 .. Len(open) : CallKey(i)' = CallKey(i)
      BY <2>2, <2>3, <3>1 DEF CallKey, Renderer!DocId
    <3> QED BY <2>3, <3>2, <3>3 DEF Awaited
  <2>8. PICK l \in Nat : l = footnote_by_custom_id[id] BY <2>4
  <2>9. <<id, l>> \in Arriving' BY <2>4, <2>6, <2>7, <2>8 DEF Arriving
  <2> QED BY <1>1, <1>2, <2>1, <2>2, <2>3, <2>5, <2>6, <2>8, <2>9, RenPlaced
<1>4. CASE Renderer!RefNew
  <2>1. PICK l : l = label_counter + 1 OBVIOUS
  <2>2. PICK id \in Ids, w \in Within :
          /\ w # "raw" /\ Renderer!ReadRef(id, w) /\ ~Renderer!Known(id) /\ Renderer!Number(id)
          /\ bodies' = Append(bodies, [docid |-> id, label |-> l, by |-> 0])
          /\ reference' = Renderer!Put(reference, n,
               [refid |-> id, label |-> l, parent |-> current_node])
    BY <1>1, <1>4, <2>1, SameNames, RendererReads DEF Renderer!RefNew, Renderer!Rendered
  <2>3. /\ MayStand(w) /\ text' = Append(text, [part |-> "ref", id |-> id, within |-> w])
        /\ open' = open
    BY <2>2, RendererReads
  <2>4. UNCHANGED <<current_node, calls>> BY <1>4 DEF Renderer!RefNew
  <2>5. label_counter' = l /\ l \in Nat BY <1>2, <2>1, <2>2 DEF Renderer!Number
  <2>6. \A k \in DOMAIN footnote_by_custom_id' :
          \/ k \in DOMAIN footnote_by_custom_id
               /\ footnote_by_custom_id'[k] = footnote_by_custom_id[k]
          \/ k = id /\ footnote_by_custom_id'[k] = l
    <3>1. footnote_by_custom_id' = IF id = None THEN footnote_by_custom_id
            ELSE [k \in DOMAIN footnote_by_custom_id \cup {id} |->
                    IF k = id THEN l ELSE footnote_by_custom_id[k]]
      BY <2>1, <2>2 DEF Renderer!Number, Renderer!Put
    <3> QED BY <3>1
  <2>7. PICK body : body = [docid |-> id, label |-> l, by |-> 0] OBVIOUS
  <2>8. body \in Body /\ body.docid = id /\ body.label = l BY <2>5, <2>7 DEF Body
  <2>9. /\ bodies' \in Seq(Body) /\ Len(bodies') = Len(bodies) + 1
        /\ bodies'[Len(bodies) + 1] = body
        /\ \A i \in 1 .. Len(bodies) : bodies'[i] = bodies[i]
    BY <1>2, <2>2, <2>7, <2>8
  <2>10. \A i : i \in 1 .. Len(bodies') <=> i \in 1 .. Len(bodies) \/ i = Len(bodies) + 1
    BY <1>2, <2>9
  <2>11. Collected' = Collected \cup {<<id, l>>} BY <2>8, <2>9, <2>10 DEF Collected
  <2>12. LabelsGiven'
    <3>1. {bodies'[i].label : i \in 1 .. Len(bodies')}
            = {bodies[i].label : i \in 1 .. Len(bodies)} \cup {l}
      BY <2>8, <2>9, <2>10
    <3>2. Labels' = Labels \cup {l} BY <2>4, <3>1 DEF Labels
    <3>3. 1 .. label_counter' = (1 .. label_counter) \cup {l} BY <1>2, <2>1, <2>5
    <3>4. Len(bodies) + Len(calls) = label_counter /\ Labels = 1 .. label_counter
      BY DEF RenInv, LabelsGiven
    <3>5. Len(bodies') + Len(calls') = label_counter' BY <1>2, <2>1, <2>4, <2>5, <2>9, <3>4
    <3> QED BY <3>2, <3>3, <3>4, <3>5 DEF LabelsGiven
  <2>13. <<id, l>> \in Arriving' BY <2>11 DEF Arriving
  <2> QED BY <1>1, <2>2, <2>3, <2>4, <2>5, <2>6, <2>9, <2>11, <2>12, <2>13, RenPlaced
<1> QED BY <1>3, <1>4

LEMMA RenTake == TextInv /\ RenInv /\ TextInv' /\ Renderer!Take => RenInv'
BY RenBegin, RenEnd, RenRef DEF Renderer!Take

\* What is raw is not rendered macro by macro.
LEMMA RenSkip == TextInv /\ RenInv /\ Renderer!SkipRaw => TextInv' /\ RenInv'
<1> SUFFICES ASSUME TextInv, RenInv, Renderer!SkipRaw PROVE TextInv' /\ RenInv' OBVIOUS
<1>1. UNCHANGED <<label_counter, footnote_by_custom_id, bodies, current_node, calls, reference>>
  BY DEF Renderer!SkipRaw
<1>2. PassOver("raw") BY RendererReads DEF Renderer!SkipRaw
<1>3. PICK tok \in Token : text' = Append(text, tok) BY <1>2, PassedOver DEF Within
<1>4. TextInv' /\ Shown' = Shown BY <1>2, PassedOver DEF Within
<1>5. calls = <<>> /\ Len(calls) = 0 /\ current_node = 0
  <2>1. open # <<>> => Aside
    BY <1>2 DEF PassOver, ReadBegin, ReadEnd, ReadRef, MayStand, Aside
  <2>2. open = <<>> => calls \in Seq(CallFrame) /\ Len(calls) = 0 /\ current_node = 0
    BY DEF RenInv, CallsOfOpen, CallsStand, Aside
  <2>3. open # <<>> => calls = <<>> /\ current_node = 0 BY <2>1 DEF RenInv, CallsOfOpen
  <2> QED BY <2>2, <2>3
<1>6. CallsOfOpen'
  <2>1. open' # <<>> => Aside'
    <3> SUFFICES ASSUME open' # <<>> PROVE text'[Innermost'].within = "raw" BY DEF Aside
    <3>1. CASE \E id \in Ids \cup {None} : ReadBegin(id, "raw")
      <4>1. PICK id \in Ids \cup {None} :
              /\ text' = Append(text, [part |-> "begin", id |-> id, within |-> "raw"])
              /\ open' = Append(open, Len(text) + 1)
        BY <3>1 DEF ReadBegin, Here
      <4>2. PICK t : t = [part |-> "begin", id |-> id, within |-> "raw"] OBVIOUS
      <4>3. t \in Token /\ t.within = "raw" BY <4>2 DEF Token, Within
      <4>4. text'[Len(text) + 1] = t BY <4>1, <4>2, <4>3, Grown
      <4>5. Innermost' = Len(text) + 1
        <5>1. open \in Seq(1 .. Len(text)) BY DEF TextInv
        <5> QED BY <4>1, <5>1 DEF Innermost
      <4> QED BY <4>3, <4>4, <4>5
    <3>2. CASE ReadEnd("raw") \/ \E id \in Ids : ReadRef(id, "raw")
      <4>1. open # <<>> /\ text[Innermost].within = "raw"
        <5>1. open' = open \/ open # <<>> BY <3>2 DEF ReadEnd, ReadRef
        <5> QED BY <3>2, <5>1 DEF ReadEnd, ReadRef, MayStand
      <4>2. open \in Seq(1 .. Len(text)) /\ Len(open) \in 1 .. Len(open)
        <5>1. open \in Seq(1 .. Len(text)) BY DEF TextInv
        <5> QED BY <4>1, <5>1
      <4>3. PICK j \in 1 .. Len(open) : Innermost' = open[j]
        <5>1. CASE ReadEnd("raw")
          <6>1. /\ Len(open') = Len(open) - 1 /\ open' \in Seq(1 .. Len(text))
                /\ \A i \in 1 .. Len(open) - 1 : open'[i] = open[i]
            BY <4>1, <4>2, <5>1, FrontFacts DEF ReadEnd
          <6>2. Len(open') # 0
            <7>1. \A s \in Seq(1 .. Len(text)) : s # <<>> => Len(s) # 0 OBVIOUS
            <7> QED BY <6>1, <7>1, Zenon
          <6>3. PICK j : j = Len(open) - 1 OBVIOUS
          <6>4. j \in 1 .. j /\ j \in 1 .. Len(open) BY <4>2, <6>1, <6>2, <6>3
          <6>5. Innermost' = open[j] BY <6>1, <6>3, <6>4, Zenon DEF Innermost
          <6> QED BY <6>4, <6>5
        <5>2. CASE \E id \in Ids : ReadRef(id, "raw")
          BY <4>2, <5>2 DEF ReadRef, Innermost
        <5> QED BY <3>2, <5>1, <5>2
      <4>4. open[j] \in 1 .. Len(text) /\ text'[open[j]] = text[open[j]]
        BY <1>3, <4>2, Grown
      <4>5. text[open[j]].within = text[Innermost].within
        <5>1. text[open[j]].part = "begin" /\ open[j] \in open[j] .. Len(text)
          BY <4>2, <4>4 DEF TextInv
        <5> QED BY <5>1 DEF TextInv, Inherited
      <4> QED BY <4>1, <4>3, <4>4, <4>5
    <3> QED BY <1>2, <3>1, <3>2 DEF PassOver
  <2>2. CASE open' # <<>> BY <1>1, <1>5, <2>1, <2>2 DEF CallsOfOpen, RenInv
  <2>3. CASE open' = <<>>
    BY <1>1, <1>5, <2>3 DEF CallsOfOpen, CallsStand, Aside, RenInv
  <2> QED BY <2>2, <2>3
<1>7. LabelsGiven' BY <1>1 DEF RenInv, LabelsGiven, Labels
<1>8. Arriving' = Arriving
  <2>1. Awaited = {} /\ Awaited' = {} BY <1>1, <1>5 DEF Awaited
  <2> QED BY <1>1, <2>1 DEF Arriving, Collected
<1>9. Leads' BY <1>1, <1>4, <1>8 DEF RenInv, Leads
<1>10. Renderer!ReferenceInPlace'
  <2>1. DOMAIN reference' = Shown BY <1>1 DEF RenInv, Leads
  <2> QED BY <1>1, <1>3, <1>4, <2>1, ReferencesStay DEF Renderer!ReferenceInPlace
<1> QED BY <1>1, <1>4, <1>6, <1>7, <1>9, <1>10 DEF RenInv

LEMMA RenRest ==
  ASSUME RenInv, UNCHANGED <<text, open, label_counter, footnote_by_custom_id, bodies,
                             current_node, calls, reference>>
  PROVE  RenInv'
<1>1. Shown' = Shown BY DEF Shown, Places, Opened
<1>2. \A i : CallKey(i)' = CallKey(i) BY DEF CallKey, Renderer!DocId
<1>3. Arriving' = Arriving BY <1>2 DEF Arriving, Collected, Awaited
<1>4. Leads' BY <1>1, <1>3 DEF RenInv, Leads
<1>5. CallsOfOpen' BY DEF RenInv, CallsOfOpen, CallsStand, Aside, Innermost
<1>6. LabelsGiven' BY DEF RenInv, LabelsGiven, Labels
<1>7. \A m : Renderer!Around(m)' = Renderer!Around(m)
  BY DEF Renderer!Around, Renderer!HasEnded, Renderer!EndOf, Renderer!Balanced
<1>8. Renderer!ReferenceInPlace' BY <1>7 DEF RenInv, Renderer!ReferenceInPlace
<1> QED BY <1>4, <1>5, <1>6, <1>8 DEF RenInv

-----------------------------------------------------------------------------
(* Both                                                                     *)

\* They walk at the same time, and between walks no macro is open.
Idle == walking = rendering /\ (~walking => open = <<>>)

\* While no macro stands inside another and none is defined late, the labels
\* of the calls are the numbers next to be given, and both know the same ids
\* with the same numbers, but for that of an open macro.
OpenId(id) == \E i \in 1 .. Len(open) : text[open[i]].id = id
SameIds ==
  \A id \in Ids :
    ~OpenId(id) => /\ id \in DOMAIN footnote_by_id <=> id \in DOMAIN footnote_by_custom_id
                   /\ id \in DOMAIN footnote_by_id =>
                        footnote_by_id[id] = footnote_by_custom_id[id]
NextLabels ==
  /\ label_counter = footnote_counter + Len(calls)
  /\ \A i \in 1 .. Len(calls) : calls[i].label = footnote_counter + i
OnlyOpenId ==
  \A id \in Ids : Len(calls) = 1 /\ text[open[1]].id = id =>
    id \in DOMAIN footnote_by_custom_id /\ footnote_by_custom_id[id] = calls[1].label
Together == SameNumbers /\ SameIds /\ NextLabels /\ OnlyOpenId

\* They part where only one of them takes a macro; the numbers given before
\* stay what they are.
AllFlow  == FlowUpTo(Len(text))
AgreeInv == Flat /\ ~DefinedLate => SameNumbers /\ (AllFlow => Together)

\* Up to there both have met every macro, and the calls are those of the open ones.
LEMMA AllInFlow ==
  TextInv /\ ResInv /\ RenInv /\ AllFlow =>
    /\ Common = Places /\ DOMAIN index = Places /\ DOMAIN reference = Places
    /\ CallsStand /\ calls \in Seq(CallFrame)
<1> SUFFICES ASSUME TextInv, ResInv, RenInv, AllFlow
             PROVE  /\ Common = Places /\ DOMAIN index = Places /\ DOMAIN reference = Places
                    /\ CallsStand /\ calls \in Seq(CallFrame)
  OBVIOUS
<1>1. /\ \A k \in 1 .. Len(text) : text[k].part = "end" \/ text[k].within = "flow"
      /\ Len(text) \in Nat
  BY DEF AllFlow, FlowUpTo, TextInv
<1>2. ASSUME NEW m \in Places PROVE m \in 1 .. Len(text) /\ text[m].within = "flow" /\ FlowUpTo(m)
  <2>1. m \in 1 .. Len(text) /\ text[m].part \in {"begin", "ref"} BY DEF Places
  <2>2. \A k \in 1 .. m : k \in 1 .. Len(text) BY <1>1, <2>1
  <2> QED BY <1>1, <2>1, <2>2 DEF FlowUpTo
<1>3. Seen = Places /\ Shown = Places BY <1>2 DEF Seen, Shown
<1>4. DOMAIN index = Places /\ DOMAIN reference = Places
  BY <1>3 DEF ResInv, PlacesNumbered, RenInv, Leads
<1>5. Common = Places BY <1>2, <1>4 DEF Common
<1>6. ~Aside
  <2> SUFFICES ASSUME open # <<>> PROVE text[Innermost].within = "flow" BY DEF Aside
  <2>1. open \in Seq(1 .. Len(text)) BY DEF TextInv
  <2>2. Len(open) \in 1 .. Len(open) BY <2>1
  <2>3. Innermost \in 1 .. Len(text) /\ text[Innermost].part = "begin"
    BY <2>1, <2>2 DEF TextInv, Innermost
  <2> QED BY <1>1, <2>3
<1> QED BY <1>4, <1>5, <1>6 DEF RenInv, CallsOfOpen

LEMMA AllInFlowNext == (TextInv /\ ResInv /\ RenInv /\ AllFlow => Common = Places)'
<1>1. TextInv /\ ResInv /\ RenInv /\ AllFlow => Common = Places BY AllInFlow
<1> QED BY <1>1, PTL

\* A token more: what is before it stays as it is.
LEMMA FlowBefore ==
  ASSUME TextInv, NEW tok \in Token, text' = Append(text, tok)
  PROVE  /\ AllFlow' <=> AllFlow /\ (tok.part = "end" \/ tok.within = "flow")
         /\ \A m \in 1 .. Len(text) : FlowUpTo(m)' <=> FlowUpTo(m)
<1>1. /\ Len(text) \in Nat /\ Len(text') = Len(text) + 1 /\ text'[Len(text) + 1] = tok
      /\ \A k \in 1 .. Len(text) : text'[k] = text[k]
  BY Grown
<1>2. \A k : k \in 1 .. Len(text') <=> k \in 1 .. Len(text) \/ k = Len(text) + 1 BY <1>1
<1>3. AllFlow' <=> AllFlow /\ (tok.part = "end" \/ tok.within = "flow")
  BY <1>1, <1>2 DEF AllFlow, FlowUpTo
<1>4. ASSUME NEW m \in 1 .. Len(text) PROVE FlowUpTo(m)' <=> FlowUpTo(m)
  <2>1. \A k \in 1 .. m : text'[k] = text[k] BY <1>1
  <2> QED BY <2>1 DEF FlowUpTo
<1> QED BY <1>3, <1>4

\* A step of a walk along the text is one token more.
LEMMA TokenRead ==
  /\ Resolver!Take => \E w \in Within \ {"title"} : PassOver(w)
  /\ Resolver!SkipTitle => PassOver("title")
  /\ Renderer!Take => \E w \in Within \ {"raw"} : PassOver(w)
  /\ Renderer!SkipRaw => PassOver("raw")
<1>1. /\ \A id, w : Resolver!ReadBegin(id, w) => ReadBegin(id, w)
      /\ \A w : Resolver!ReadEnd(w) => ReadEnd(w)
      /\ \A id, w : Resolver!ReadRef(id, w) => ReadRef(id, w)
  BY DEF Resolver!ReadBegin, ReadBegin, Resolver!ReadEnd, ReadEnd, Resolver!ReadRef, ReadRef,
         Resolver!MayStand, MayStand, Resolver!Innermost, Innermost, Resolver!Here, Here
<1>2. /\ \A id, w : Renderer!ReadBegin(id, w) => ReadBegin(id, w)
      /\ \A w : Renderer!ReadEnd(w) => ReadEnd(w)
      /\ \A id, w : Renderer!ReadRef(id, w) => ReadRef(id, w)
  BY DEF Renderer!ReadBegin, ReadBegin, Renderer!ReadEnd, ReadEnd, Renderer!ReadRef, ReadRef,
         Renderer!MayStand, MayStand, Renderer!Innermost, Innermost, Renderer!Here, Here
<1>3. Resolver!Visited = Within \ {"title"} /\ Renderer!Rendered = Within \ {"raw"}
  BY ResolverReads, RendererReads DEF Resolver!Visited, Renderer!Rendered
<1>4. Resolver!Take => \E w \in Within \ {"title"} : PassOver(w)
  BY <1>1, <1>3
     DEF Resolver!Take, Resolver!Begin, Resolver!EndNew, Resolver!EndKnown, Resolver!RefKnown,
         Resolver!RefNew, PassOver
<1>5. Renderer!Take => \E w \in Within \ {"raw"} : PassOver(w)
  BY <1>2, <1>3
     DEF Renderer!Take, Renderer!Begin, Renderer!End, Renderer!RefKnown, Renderer!RefNew, PassOver
<1>6. (Resolver!SkipTitle => PassOver("title")) /\ (Renderer!SkipRaw => PassOver("raw"))
  BY ResolverReads, RendererReads DEF Resolver!SkipTitle, Renderer!SkipRaw
<1> QED BY <1>4, <1>5, <1>6

\* With a title or raw text the text is not all flow.
LEMMA NotAllFlow ==
  ASSUME TextInv, NEW w \in Within, w # "flow", PassOver(w)
  PROVE  ~AllFlow'
<1>1. CASE \E id \in Ids \cup {None} : ReadBegin(id, w)
  <2>1. PICK id \in Ids \cup {None} :
          text' = Append(text, [part |-> "begin", id |-> id, within |-> w])
    BY <1>1 DEF ReadBegin
  <2>2. PICK tok : tok = [part |-> "begin", id |-> id, within |-> w] OBVIOUS
  <2>3. tok \in Token /\ tok.part = "begin" /\ tok.within = w BY <2>2 DEF Token
  <2> QED BY <2>1, <2>2, <2>3, FlowBefore
<1>2. CASE ReadEnd(w)
  <2>1. open # <<>> /\ text[Innermost].within = w /\ text' = Append(text, [part |-> "end"])
    BY <1>2 DEF ReadEnd, MayStand
  <2>2. open \in Seq(1 .. Len(text)) BY DEF TextInv
  <2>3. Len(open) \in 1 .. Len(open) BY <2>1, <2>2
  <2>4. Innermost \in 1 .. Len(text) /\ text[Innermost].part = "begin"
    BY <2>2, <2>3 DEF TextInv, Innermost
  <2>5. ~AllFlow BY <2>1, <2>4 DEF AllFlow, FlowUpTo
  <2>6. [part |-> "end"] \in Token BY DEF Token
  <2> QED BY <2>1, <2>5, <2>6, FlowBefore
<1>3. CASE \E id \in Ids : ReadRef(id, w)
  <2>1. PICK id \in Ids : text' = Append(text, [part |-> "ref", id |-> id, within |-> w])
    BY <1>3 DEF ReadRef
  <2>2. PICK tok : tok = [part |-> "ref", id |-> id, within |-> w] OBVIOUS
  <2>3. tok \in Token /\ tok.part = "ref" /\ tok.within = w BY <2>2 DEF Token
  <2> QED BY <2>1, <2>2, <2>3, FlowBefore
<1> QED BY <1>1, <1>2, <1>3 DEF PassOver

\* From the first macro that is not in the flow on, nothing is added to what
\* is compared.
LEMMA CommonAside ==
  ASSUME TextInv, ResInv, RenInv, TextInv', ResInv', RenInv', ~AllFlow',
         NEW w \in Within, PassOver(w)
  PROVE  Common' = Common
<1>1. PICK tok \in Token : text' = Append(text, tok) BY PassedOver
<1>2. /\ Common = {m \in Seen \cap Shown : FlowUpTo(m)}
      /\ Common' = {m \in Seen' \cap Shown' : FlowUpTo(m)'}
  BY DEF Common, ResInv, PlacesNumbered, RenInv, Leads
<1>3. \A m \in Seen \cap Shown : FlowUpTo(m)' <=> FlowUpTo(m)
  BY <1>1, FlowBefore DEF Seen, Places
<1>4. ASSUME NEW p, Seen' \in {Seen, Seen \cup {p}}, Shown' \in {Shown, Shown \cup {p}},
             ~FlowUpTo(p)'
      PROVE  Common' = Common
  <2>1. \A m \in Seen' \cap Shown' : m \in Seen \cap Shown \/ m = p BY <1>4
  <2>2. \A m \in Seen \cap Shown : m \in Seen' \cap Shown' BY <1>4
  <2> QED BY <1>2, <1>3, <1>4, <2>1, <2>2
<1>5. CASE \E id \in Ids \cup {None} : ReadBegin(id, w)
  <2>1. PICK id \in Ids \cup {None} :
          /\ text' = Append(text, [part |-> "begin", id |-> id, within |-> w])
          /\ open' = Append(open, Len(text) + 1)
    BY <1>5 DEF ReadBegin, Here
  <2>2. Seen' = Seen /\ Shown' = Shown BY <2>1, PlacesBegin
  <2> QED BY <1>2, <1>3, <2>2
<1>6. CASE ReadEnd(w)
  <2>1. /\ open # <<>> /\ text' = Append(text, [part |-> "end"])
        /\ open' = SubSeq(open, 1, Len(open) - 1)
    BY <1>6 DEF ReadEnd
  <2>2. PICK m : m = Innermost OBVIOUS
  <2>3. /\ m \in 1 .. Len(text) /\ text[m].part = "begin"
        /\ Seen' \in {Seen, Seen \cup {m}} /\ Shown' \in {Shown, Shown \cup {m}}
    BY <2>1, <2>2, PlacesEnd
  <2>4. ASSUME FlowUpTo(m) PROVE FALSE
    <3>1. text[m].within = "flow" /\ Len(text) \in Nat
      <4>1. m \in 1 .. m BY <2>3
      <4> QED BY <2>3, <2>4, <4>1 DEF FlowUpTo, TextInv
    <3>2. open \in Seq(1 .. Len(text)) BY DEF TextInv
    <3>3. Len(open) \in 1 .. Len(open) /\ m = open[Len(open)]
      BY <2>1, <2>2, <3>2 DEF Innermost
    <3>4. \A k \in m .. Len(text) : text[k].part = "end" \/ text[k].within = "flow"
      BY <2>2, <3>1, <3>3 DEF TextInv, Inherited
    <3>5. \A k \in 1 .. Len(text) : k \in 1 .. m \/ k \in m .. Len(text) BY <2>3, <3>1
    <3>6. AllFlow BY <2>4, <3>4, <3>5 DEF AllFlow, FlowUpTo
    <3>7. PICK t : t = [part |-> "end"] OBVIOUS
    <3>8. t \in Token /\ t.part = "end" BY <3>7 DEF Token
    <3> QED BY <2>1, <3>6, <3>7, <3>8, FlowBefore
  <2>5. ~FlowUpTo(m)' BY <1>1, <2>3, <2>4, FlowBefore
  <2> QED BY <1>4, <2>3, <2>5
<1>7. CASE \E id \in Ids : ReadRef(id, w)
  <2>1. PICK id \in Ids :
          /\ text' = Append(text, [part |-> "ref", id |-> id, within |-> w]) /\ open' = open
    BY <1>7 DEF ReadRef
  <2>2. PICK n : n = Len(text) + 1 OBVIOUS
  <2>3. Seen' \in {Seen, Seen \cup {n}} /\ Shown' \in {Shown, Shown \cup {n}}
    BY <2>1, <2>2, PlacesRef
  <2>4. n = Len(text') BY <1>1, <2>2, Grown
  <2>5. ~FlowUpTo(n)' BY <2>4 DEF AllFlow, FlowUpTo
  <2> QED BY <1>4, <2>3, <2>5
<1> QED BY <1>5, <1>6, <1>7 DEF PassOver

\* What was given to a macro stays its own.
LEMMA GivenStays ==
  ASSUME TextInv, ResInv, RenInv, NEW w \in Within, PassOver(w)
  PROVE  /\ Resolver!Take \/ Resolver!SkipTitle => \A k \in Seen : index'[k] = index[k]
         /\ Renderer!Take \/ Renderer!SkipRaw => \A k \in Shown : reference'[k] = reference[k]
<1>1. PICK n : n = Len(text) + 1 OBVIOUS
<1>2. n \notin Places BY <1>1 DEF Places, TextInv
<1>3. /\ DOMAIN index = Seen /\ DOMAIN reference = Shown
      /\ Seen \subseteq Places /\ Shown \subseteq Places
  BY DEF ResInv, PlacesNumbered, RenInv, Leads, Seen, Shown
<1>4. open # <<>> => Innermost \notin Places
  <2> SUFFICES ASSUME open # <<>> PROVE Innermost \in Opened BY DEF Places
  <2>1. open \in Seq(1 .. Len(text)) BY DEF TextInv
  <2>2. Len(open) \in 1 .. Len(open) BY <2>1
  <2> QED BY <2>2 DEF Opened, Innermost
<1>5. ASSUME Resolver!Take \/ Resolver!SkipTitle PROVE \A k \in Seen : index'[k] = index[k]
  <2>1. Resolver!Here = n /\ Resolver!Innermost = Innermost
    BY <1>1 DEF Resolver!Here, Resolver!Innermost, Innermost
  <2>2. \/ index' = index
        \/ \E x : index' = Resolver!Put(index, n, x)
        \/ open # <<>> /\ \E x : index' = Resolver!Put(index, Innermost, x)
    BY <1>5, <2>1, ResolverReads
       DEF Resolver!Take, Resolver!SkipTitle, Resolver!Begin, Resolver!EndNew, Resolver!EndKnown,
           Resolver!RefKnown, Resolver!RefNew, Resolver!NewEntry
  <2> QED BY <1>2, <1>3, <1>4, <2>2 DEF Resolver!Put
<1>6. ASSUME Renderer!Take \/ Renderer!SkipRaw PROVE \A k \in Shown : reference'[k] = reference[k]
  <2>1. \/ reference' = reference
        \/ \E x : reference' = Renderer!Put(reference, n, x)
        \/ open # <<>> /\ \E x : reference' = Renderer!Put(reference, Innermost, x)
    BY <1>1, <1>6, RendererReads, SameNames
       DEF Renderer!Take, Renderer!SkipRaw, Renderer!Begin, Renderer!End, Renderer!RefKnown,
           Renderer!RefNew
  <2> QED BY <1>2, <1>3, <1>4, <2>1 DEF Renderer!Put
<1> QED BY <1>5, <1>6

LEMMA AgreeAside ==
  ASSUME TextInv, ResInv, RenInv, AgreeInv, TextInv', ResInv', RenInv', ~AllFlow',
         Resolver!Take \/ Resolver!SkipTitle, Renderer!Take \/ Renderer!SkipRaw
  PROVE  AgreeInv'
<1>1. PICK w \in Within : PassOver(w) BY TokenRead DEF Within
<1>2. PICK tok \in Token : text' = Append(text, tok) BY <1>1, PassedOver
<1>3. Common' = Common BY <1>1, CommonAside
<1>4. \A m \in Common : m \in Seen /\ m \in Shown /\ m \in Places /\ m \in 1 .. Len(text)
  BY DEF Common, ResInv, PlacesNumbered, RenInv, Leads, Seen, Places
<1>5. \A m \in Common : index'[m] = index[m] /\ reference'[m] = reference[m]
  BY <1>1, <1>4, GivenStays
<1>6. \A m \in Common : text'[m] = text[m] BY <1>2, <1>4, Grown
<1>7. \A m \in Common : Renderer!Around(m)' = Renderer!Around(m) BY <1>2, <1>4, AroundStays
<1>8. Flat' <=> Flat BY <1>3, <1>7 DEF Flat
<1>9. DefinedLate' <=> DefinedLate BY <1>3, <1>6 DEF DefinedLate, IdAt
<1>10. SameNumbers => SameNumbers' BY <1>3, <1>5 DEF SameNumbers
<1> QED BY <1>8, <1>9, <1>10 DEF AgreeInv

\* A text that is flat, with no id defined late, was so before its last token.
LEMMA FlatBefore ==
  ASSUME TextInv, ResInv, RenInv, TextInv', ResInv', RenInv', AllFlow',
         NEW tok \in Token, text' = Append(text, tok),
         Places \subseteq Places', Flat', ~DefinedLate'
  PROVE  Flat /\ ~DefinedLate /\ AllFlow
<1>0. AllFlow BY FlowBefore
<1>1. Common = Places /\ Common' = Places' BY <1>0, AllInFlow, AllInFlowNext
<1>2. \A m \in Places : text'[m] = text[m] /\ m \in 1 .. Len(text)
  BY PlaceStays, PlaceType DEF Places
<1>3. \A m \in Places : Renderer!Around(m)' = Renderer!Around(m) BY <1>2, AroundStays
<1>4. Flat
  <2>1. \A m \in Places' : Renderer!Around(m)' = {} BY <1>1 DEF Flat
  <2> QED BY <1>1, <1>3, <2>1 DEF Flat
<1>5. ASSUME DefinedLate PROVE FALSE
  <2>1. PICK m \in Places, n \in Places :
          m < n /\ text[n].part = "begin" /\ text[m].id = text[n].id /\ text[n].id # None
    BY <1>1, <1>5 DEF DefinedLate, IdAt
  <2>2. m \in Common' /\ n \in Common' /\ text'[m] = text[m] /\ text'[n] = text[n]
    BY <1>1, <1>2
  <2> QED BY <2>1, <2>2 DEF DefinedLate, IdAt
<1> QED BY <1>0, <1>4, <1>5

LEMMA AgreeStart ==
  TextInv /\ RenInv /\ open = <<>> /\ Resolver!Resolve /\ Renderer!VisitDocument => AgreeInv'
<1> SUFFICES ASSUME TextInv, RenInv, open = <<>>, Resolver!Resolve, Renderer!VisitDocument
             PROVE  Together'
  BY DEF AgreeInv, Together
<1>1. /\ text' = <<>> /\ open' = <<>> /\ label_counter' = 0 /\ footnote_by_custom_id' = <<>>
      /\ calls' = calls /\ index' = <<>> /\ footnote_counter' = 0 /\ footnote_by_id' = <<>>
  BY DEF Renderer!VisitDocument, Resolver!Resolve
<1>2. Len(calls') = 0 BY <1>1 DEF RenInv, CallsOfOpen, CallsStand, Aside
<1>3. SameNumbers' BY <1>1 DEF SameNumbers, Common
<1>4. SameIds' BY <1>1 DEF SameIds
<1>5. NextLabels' BY <1>1, <1>2 DEF NextLabels
<1>6. OnlyOpenId' BY <1>2 DEF OnlyOpenId
<1> QED BY <1>3, <1>4, <1>5, <1>6 DEF Together

\* Both meet the same macro.
LEMMA SameBegin ==
  ASSUME TextInv, Resolver!Begin, Renderer!Begin
  PROVE  \E id \in Ids \cup {None}, w \in Within :
           /\ text' = Append(text, [part |-> "begin", id |-> id, within |-> w])
           /\ open' = Append(open, Len(text) + 1)
           /\ Renderer!Number(id)
<1>1. PICK id \in Ids \cup {None}, w \in Within : Renderer!ReadBegin(id, w) /\ Renderer!Number(id)
  BY RendererReads DEF Renderer!Begin, Renderer!Rendered
<1> QED BY <1>1, RendererReads

LEMMA AgreeBegin ==
  ASSUME TextInv, ResInv, RenInv, AgreeInv, TextInv', ResInv', RenInv', AllFlow',
         Resolver!Begin, Renderer!Begin
  PROVE  AgreeInv'
<1> SUFFICES ASSUME Flat', ~DefinedLate' PROVE Together' BY DEF AgreeInv, Together
<1>1. PICK id \in Ids \cup {None}, w \in Within :
        /\ text' = Append(text, [part |-> "begin", id |-> id, within |-> w])
        /\ open' = Append(open, Len(text) + 1)
        /\ Renderer!Number(id)
  BY SameBegin
<1>2. PICK tok : tok = [part |-> "begin", id |-> id, within |-> w] OBVIOUS
<1>3. tok \in Token /\ tok.id = id /\ text' = Append(text, tok) BY <1>1, <1>2 DEF Token
<1>4. PICK l : l = label_counter + 1 OBVIOUS
<1>5. PICK frame : frame = [label |-> l, old_parent |-> current_node] OBVIOUS
<1>6. /\ calls' = Append(calls, frame) /\ frame.label = l
      /\ reference' = reference /\ label_counter' = l
      /\ footnote_by_custom_id' =
           IF id = None THEN footnote_by_custom_id
           ELSE [k \in DOMAIN footnote_by_custom_id \cup {id} |->
                   IF k = id THEN l ELSE footnote_by_custom_id[k]]
      /\ UNCHANGED <<footnote_counter, footnotes, footnote_by_id, index>>
  BY <1>1, <1>4, <1>5 DEF Renderer!Begin, Resolver!Begin, Renderer!Number, Renderer!Put
<1>7. Places' = Places BY <1>1, PlacesBegin
<1>8. Together /\ AllFlow BY <1>3, <1>7, FlatBefore DEF AgreeInv
<1>9. /\ Len(text) \in Nat /\ text'[Len(text) + 1] = tok
      /\ \A k \in 1 .. Len(text) : text'[k] = text[k]
      /\ \A i \in 1 .. Len(open) : open[i] \in 1 .. Len(text)
  BY <1>3, Grown
<1>10. PICK c : c = Len(open) OBVIOUS
<1>11. c \in Nat /\ Len(calls) = c /\ calls \in Seq(CallFrame) /\ open \in Seq(1 .. Len(text))
  <2>1. CallsStand /\ calls \in Seq(CallFrame) BY <1>8, AllInFlow
  <2>2. open \in Seq(1 .. Len(text)) BY DEF TextInv
  <2> QED BY <1>10, <2>1, <2>2 DEF CallsStand
<1>12. /\ Len(calls') = c + 1 /\ calls'[c + 1] = frame
       /\ \A i \in 1 .. c : calls'[i] = calls[i]
       /\ Len(open') = c + 1 /\ open'[c + 1] = Len(text) + 1
       /\ \A i \in 1 .. c : open'[i] = open[i]
  <2>1. label_counter \in Nat BY DEF RenInv
  <2>2. /\ Len(open') = c + 1 /\ open'[c + 1] = Len(text) + 1
        /\ \A i \in 1 .. c : open'[i] = open[i]
    BY <1>1, <1>9, <1>10, <1>11
  <2>3. /\ Len(calls') = c + 1 /\ calls'[c + 1] = frame
        /\ \A i \in 1 .. c : calls'[i] = calls[i]
    BY <1>6, <1>11
  <2> QED BY <2>2, <2>3
<1>13. \A i : i \in 1 .. c + 1 <=> i \in 1 .. c \/ i = c + 1 BY <1>11
<1>14. l = footnote_counter + c + 1 /\ footnote_counter \in Nat
  <2>1. footnote_counter = Len(footnotes) /\ Len(footnotes) \in Nat
    BY DEF ResInv, Resolver!Sequential
  <2> QED BY <1>4, <1>8, <1>11, <2>1 DEF Together, NextLabels
<1>15. SameNumbers'
  <2>1. Common' = Common BY <1>7, <1>8, AllInFlow, AllInFlowNext
  <2> QED BY <1>6, <1>8, <2>1 DEF Together, SameNumbers
<1>16. SameIds'
  <2> SUFFICES ASSUME NEW k \in Ids, ~OpenId(k)'
               PROVE  /\ k \in DOMAIN footnote_by_id <=> k \in DOMAIN footnote_by_custom_id'
                      /\ k \in DOMAIN footnote_by_id =>
                           footnote_by_id[k] = footnote_by_custom_id'[k]
    BY <1>6 DEF SameIds
  <2>1. \A i \in 1 .. c + 1 : text'[open'[i]].id # k BY <1>12 DEF OpenId
  <2>2. k # id BY <1>3, <1>9, <1>12, <1>13, <2>1
  <2>3. ~OpenId(k) BY <1>9, <1>10, <1>12, <1>13, <2>1 DEF OpenId
  <2>4. /\ k \in DOMAIN footnote_by_custom_id' <=> k \in DOMAIN footnote_by_custom_id
        /\ k \in DOMAIN footnote_by_custom_id =>
             footnote_by_custom_id'[k] = footnote_by_custom_id[k]
    BY <1>6, <2>2
  <2> QED BY <1>8, <2>3, <2>4 DEF Together, SameIds
<1>17. NextLabels'
  <2>1. \A i \in 1 .. c : calls'[i].label = footnote_counter + i
    BY <1>8, <1>11, <1>12 DEF Together, NextLabels
  <2>2. calls'[c + 1].label = footnote_counter + (c + 1) BY <1>6, <1>11, <1>12, <1>14
  <2>3. label_counter' = footnote_counter + Len(calls') BY <1>6, <1>11, <1>12, <1>14
  <2> QED BY <1>6, <1>12, <1>13, <2>1, <2>2, <2>3 DEF NextLabels
<1>18. OnlyOpenId'
  <2> SUFFICES ASSUME NEW k \in Ids, Len(calls') = 1, text'[open'[1]].id = k
               PROVE  /\ k \in DOMAIN footnote_by_custom_id'
                      /\ footnote_by_custom_id'[k] = calls'[1].label
    BY DEF OnlyOpenId
  <2>1. c + 1 = 1 BY <1>12
  <2>2. k = id /\ calls'[1].label = l BY <1>3, <1>6, <1>9, <1>12, <2>1
  <2>3. k # None BY FootnoteAssumption
  <2> QED BY <1>6, <2>2, <2>3
<1> QED BY <1>15, <1>16, <1>17, <1>18 DEF Together

\* A macro that is numbered when it ends, and had one before, has its id from a
\* place before it or inside it.
LEMMA KnownIsLateOrInside ==
  ASSUME TextInv, ResInv, TextInv', open # <<>>, NEW m, m = Innermost,
         NEW tok \in Token, text' = Append(text, tok), Places' = Places \cup {m},
         Common = Places, Common' = Places',
         NEW id \in Ids, text[m].id = id, Resolver!Known(id), Flat, ~DefinedLate'
  PROVE  FALSE
<1>1. PICK p \in Places : text[p].id = id BY DEF ResInv, IdsListed, Resolver!Known, Seen
<1>2. /\ m \in Opened /\ m \in 1 .. Len(text) /\ text[m].part = "begin"
  <2>1. open \in Seq(1 .. Len(text)) BY DEF TextInv
  <2>2. Len(open) \in 1 .. Len(open) BY <2>1
  <2> QED BY <2>1, <2>2 DEF TextInv, Opened, Innermost
<1>3. p \in 1 .. Len(text) /\ p \notin Opened BY PlaceType
<1>4. text'[p] = text[p] /\ text'[m] = text[m] /\ Len(text) \in Nat BY <1>2, <1>3, Grown
<1>5. ~(p < m)
  <2>1. id # None BY FootnoteAssumption
  <2> QED BY <1>1, <1>2, <1>4, <2>1 DEF DefinedLate, IdAt
<1>6. ~(m < p)
  <2> SUFFICES ASSUME m < p PROVE FALSE OBVIOUS
  <2>1. ~Renderer!HasEnded(m) BY <1>2, OpenOrOver
  <2>2. m \in 1 .. p - 1 BY <1>2, <1>3
  <2>3. m \in Renderer!Around(p) BY <1>2, <2>1, <2>2 DEF Renderer!Around
  <2> QED BY <2>3 DEF Flat
<1> QED BY <1>2, <1>3, <1>5, <1>6

LEMMA AgreeEnd ==
  ASSUME TextInv, ResInv, RenInv, AgreeInv, TextInv', ResInv', RenInv', AllFlow',
         Resolver!EndNew \/ Resolver!EndKnown, Renderer!End
  PROVE  AgreeInv'
<1> SUFFICES ASSUME Flat', ~DefinedLate' PROVE Together' BY DEF AgreeInv, Together
<1>1. PICK m : m = Innermost OBVIOUS
<1>2. PICK c : c = Len(open) OBVIOUS
<1>3. PICK tok : tok = [part |-> "end"] OBVIOUS
<1>4. /\ tok \in Token /\ open # <<>> /\ text' = Append(text, tok)
      /\ open' = SubSeq(open, 1, c - 1)
  BY <1>2, <1>3, RendererReads DEF Renderer!End, Token
<1>5. PICK id : id = text[m].id OBVIOUS
<1>6. /\ Places' = Places \cup {m} /\ m \notin Places /\ m \in 1 .. Len(text)
      /\ text[m].part = "begin" /\ id \in Ids \cup {None}
  BY <1>1, <1>2, <1>3, <1>4, <1>5, PlacesEnd
<1>8. Flat /\ ~DefinedLate /\ AllFlow /\ Together BY <1>4, <1>6, FlatBefore DEF AgreeInv
<1>7. /\ DOMAIN index = Places /\ DOMAIN reference = Places
      /\ Common = Places /\ Common' = Places'
  BY <1>8, AllInFlow, AllInFlowNext
<1>9. /\ c \in Nat /\ c \in 1 .. c /\ m = open[c] /\ Len(calls) = c /\ calls \in Seq(CallFrame)
      /\ \A i \in 1 .. c : i < c => open[i] < m /\ open[i] \in Opened
  <2>1. open \in Seq(1 .. Len(text)) BY DEF TextInv
  <2>2. c \in Nat /\ c \in 1 .. c BY <1>2, <1>4, <2>1
  <2> QED BY <1>1, <1>2, <1>8, <2>2, AllInFlow DEF TextInv, CallsStand, Innermost, Opened
<1>10. c = 1
  <2>1. Renderer!Around(m)' = Opened \ {m} BY <1>1, <1>2, <1>3, <1>4, AroundEnd
  <2>2. Opened \ {m} = {} BY <1>6, <1>7, <2>1 DEF Flat
  <2>3. c # 1 => 1 \in 1 .. c /\ 1 < c BY <1>9
  <2>4. c # 1 => open[1] \in Opened /\ open[1] # m /\ open[1] < m
    <3>1. \A x : x < m /\ x = m => m < m OBVIOUS
    <3>2. ~(m < m) BY <1>6
    <3> QED BY <1>9, <2>3, <3>1, <3>2
  <2> QED BY <2>2, <2>4
<1>11. PICK l : l = calls[1].label OBVIOUS
<1>12. /\ footnote_counter \in Nat /\ footnote_counter = Len(footnotes)
       /\ l = footnote_counter + 1 /\ label_counter = footnote_counter + 1
  <2>1. footnote_counter = Len(footnotes) /\ Len(footnotes) \in Nat
    BY DEF ResInv, Resolver!Sequential
  <2> QED BY <1>8, <1>9, <1>10, <1>11, <2>1 DEF Together, NextLabels
<1>13. Resolver!Innermost = m /\ Resolver!IdAt(m) = id
  BY <1>1, <1>5 DEF Resolver!Innermost, Innermost, Resolver!IdAt
<1>14. Resolver!EndNew /\ ~Resolver!Known(id)
  <2>1. ASSUME Resolver!EndKnown PROVE FALSE
    <3>1. Resolver!Known(id) BY <1>13, <2>1 DEF Resolver!EndKnown
    <3>2. id \in Ids BY <3>1 DEF Resolver!Known, ResInv, IdsListed
    <3> QED BY <1>1, <1>4, <1>5, <1>6, <1>7, <1>8, <3>1, <3>2, KnownIsLateOrInside
  <2> QED BY <1>13, <2>1 DEF Resolver!EndNew
<1>15. /\ footnote_counter' = l
       /\ index' = [k \in DOMAIN index \cup {m} |-> IF k = m THEN l ELSE index[k]]
       /\ footnote_by_id' = IF id = None THEN footnote_by_id
                            ELSE [k \in DOMAIN footnote_by_id \cup {id} |->
                                    IF k = id THEN l ELSE footnote_by_id[k]]
  <2>1. Resolver!NewEntry(m, id, m) BY <1>13, <1>14 DEF Resolver!EndNew
  <2> QED BY <1>12, <2>1 DEF Resolver!NewEntry, Resolver!Put
<1>16. /\ label_counter' = label_counter /\ footnote_by_custom_id' = footnote_by_custom_id
       /\ calls' = SubSeq(calls, 1, Len(calls) - 1)
       /\ reference' = [k \in DOMAIN reference \cup {m} |->
            IF k = m THEN [refid |-> Renderer!DocId(id, l), label |-> l,
                           parent |-> calls[1].old_parent] ELSE reference[k]]
  <2>1. Renderer!Call = calls[1] BY <1>9, <1>10 DEF Renderer!Call
  <2> QED BY <1>1, <1>5, <1>11, <2>1, SameNames DEF Renderer!End, Renderer!Put
<1>17. SameNumbers'
  <2>2. \A k \in Places : index'[k] = index[k] /\ reference'[k] = reference[k]
    BY <1>6, <1>7, <1>15, <1>16
  <2>3. \A k \in Places : index'[k] = reference'[k].label
    BY <1>7, <1>8, <2>2 DEF Together, SameNumbers
  <2>4. index'[m] = l /\ reference'[m].label = l BY <1>15, <1>16
  <2> QED BY <1>6, <1>7, <2>3, <2>4 DEF SameNumbers
<1>18. Len(open') = 0 /\ Len(calls') = 0
  <2>1. calls # <<>>
    <3>1. Len(calls) = 1 BY <1>9, <1>10
    <3>2. Len(<<>>) # 1 OBVIOUS
    <3> QED BY <3>1, <3>2, Zenon
  <2>2. Len(calls') = Len(calls) - 1 BY <1>9, <1>16, <2>1, FrontFacts
  <2>3. open \in Seq(1 .. Len(text)) BY DEF TextInv
  <2>4. Len(open') = Len(open) - 1 BY <1>2, <1>4, <2>3, FrontFacts
  <2>5. Len(open) = 1 /\ Len(calls) = 1 BY <1>2, <1>9, <1>10
  <2>6. Len(open') = 1 - 1 /\ Len(calls') = 1 - 1 BY <2>2, <2>4, <2>5, Zenon
  <2> QED BY <2>6
<1>19. SameIds'
  <2>1. \A k \in Ids : OpenId(k) => k = id
    <3>1. \A i \in 1 .. c : open[i] = m BY <1>9, <1>10
    <3> QED BY <1>2, <1>5, <3>1 DEF OpenId
  <2>2. id \in Ids => id \in DOMAIN footnote_by_custom_id /\ footnote_by_custom_id[id] = l
    BY <1>5, <1>8, <1>9, <1>10, <1>11 DEF Together, OnlyOpenId
  <2>3. \A k \in Ids : k # id =>
          /\ k \in DOMAIN footnote_by_id' <=> k \in DOMAIN footnote_by_id
          /\ k \in DOMAIN footnote_by_id => footnote_by_id'[k] = footnote_by_id[k]
    BY <1>15
  <2>4. id \in Ids => id \in DOMAIN footnote_by_id' /\ footnote_by_id'[id] = l
    BY <1>15, FootnoteAssumption
  <2> SUFFICES ASSUME NEW k \in Ids
               PROVE  /\ k \in DOMAIN footnote_by_id' <=> k \in DOMAIN footnote_by_custom_id
                      /\ k \in DOMAIN footnote_by_id' =>
                           footnote_by_id'[k] = footnote_by_custom_id[k]
    BY <1>16 DEF SameIds
  <2>5. CASE k = id BY <2>2, <2>4, <2>5
  <2>6. CASE k # id BY <1>8, <2>1, <2>3, <2>6 DEF Together, SameIds
  <2> QED BY <2>5, <2>6
<1>20. NextLabels'
  <2>1. label_counter' = footnote_counter' + 0 BY <1>12, <1>15, <1>16
  <2> QED BY <1>18, <2>1 DEF NextLabels
<1>21. OnlyOpenId' BY <1>18 DEF OnlyOpenId
<1> QED BY <1>17, <1>19, <1>20, <1>21 DEF Together

LEMMA AgreeRef ==
  ASSUME TextInv, ResInv, RenInv, AgreeInv, TextInv', ResInv', RenInv', AllFlow',
         Resolver!RefKnown \/ Resolver!RefNew, Renderer!RefKnown \/ Renderer!RefNew
  PROVE  AgreeInv'
<1> SUFFICES ASSUME Flat', ~DefinedLate' PROVE Together' BY DEF AgreeInv, Together
<1>1. PICK n : n = Len(text) + 1 OBVIOUS
<1>2. PICK id \in Ids, w \in Within :
        /\ text' = Append(text, [part |-> "ref", id |-> id, within |-> w]) /\ open' = open
        /\ \/ /\ Resolver!Known(id)
              /\ index' = Resolver!Put(index, n, Resolver!Entry(id).index)
              /\ UNCHANGED <<footnote_counter, footnotes, footnote_by_id>>
           \/ ~Resolver!Known(id) /\ Resolver!NewEntry(n, id, 0)
  BY <1>1, ResolverReads DEF Resolver!RefKnown, Resolver!RefNew, Resolver!Visited, Resolver!Here
<1>3. PICK other \in Ids, v \in Within :
        /\ text' = Append(text, [part |-> "ref", id |-> other, within |-> v])
        /\ \/ /\ Renderer!Known(other)
              /\ reference' = Renderer!Put(reference, n,
                   [refid |-> other, label |-> footnote_by_custom_id[other],
                    parent |-> current_node])
              /\ UNCHANGED <<label_counter, footnote_by_custom_id>>
           \/ /\ ~Renderer!Known(other) /\ Renderer!Number(other)
              /\ reference' = Renderer!Put(reference, n,
                   [refid |-> other, label |-> label_counter + 1, parent |-> current_node])
  BY <1>1, SameNames, RendererReads DEF Renderer!RefKnown, Renderer!RefNew, Renderer!Rendered
<1>4. PICK tok : tok = [part |-> "ref", id |-> id, within |-> w] OBVIOUS
<1>5. tok \in Token /\ text' = Append(text, tok) BY <1>2, <1>4 DEF Token
<1>6. /\ Places' = Places \cup {n} /\ n \notin Places
      /\ text'[n] = [part |-> "ref", id |-> id, within |-> w]
  BY <1>1, <1>2, PlacesRef
<1>7. other = id
  <2>1. text'[n] = [part |-> "ref", id |-> other, within |-> v] BY <1>1, <1>2, <1>3, PlacesRef
  <2> QED BY <1>6, <2>1
<1>9. Together /\ AllFlow BY <1>5, <1>6, FlatBefore DEF AgreeInv
<1>8. /\ DOMAIN index = Places /\ DOMAIN reference = Places
      /\ Common = Places /\ Common' = Places'
  BY <1>9, AllInFlow, AllInFlowNext
<1>10. Len(open) = 0 /\ Len(calls) = 0 /\ calls' = calls
  <2>1. Renderer!Around(n)' = Opened BY <1>1, <1>2, <1>5, AroundRef
  <2>2. Opened = {} BY <1>6, <1>8, <2>1 DEF Flat
  <2>3. open \in Seq(1 .. Len(text)) BY DEF TextInv
  <2>4. Len(open) # 0 => Len(open) \in 1 .. Len(open) BY <2>3
  <2>5. Len(open) = 0 BY <2>2, <2>4 DEF Opened
  <2> QED BY <1>9, <2>5, AllInFlow DEF CallsStand, Renderer!RefKnown, Renderer!RefNew
<1>11. \A k \in Ids : ~OpenId(k) BY <1>10 DEF OpenId
<1>12. /\ footnote_counter \in Nat /\ footnote_counter = Len(footnotes)
       /\ label_counter = footnote_counter
  <2>1. footnote_counter = Len(footnotes) /\ Len(footnotes) \in Nat
    BY DEF ResInv, Resolver!Sequential
  <2>2. label_counter = footnote_counter + 0 BY <1>9, <1>10 DEF Together, NextLabels
  <2> QED BY <2>1, <2>2
<1>13. Resolver!Known(id) <=> Renderer!Known(id)
  BY <1>9, <1>11 DEF Together, SameIds, Resolver!Known, Renderer!Known
<1>14. PICK l : l = IF Resolver!Known(id) THEN footnote_by_id[id] ELSE footnote_counter + 1
  OBVIOUS
<1>15. Resolver!Known(id) => Resolver!Entry(id).index = l /\ footnote_by_custom_id[id] = l
  BY <1>9, <1>11, <1>14
     DEF Together, SameIds, Resolver!Known, Resolver!Entry, ResInv, IdsListed,
         Resolver!Sequential
<1>16. index' = [k \in DOMAIN index \cup {n} |-> IF k = n THEN l ELSE index[k]]
  BY <1>2, <1>14, <1>15 DEF Resolver!Put, Resolver!NewEntry
<1>17. reference' = [k \in DOMAIN reference \cup {n} |->
                       IF k = n THEN [refid |-> id, label |-> l, parent |-> current_node]
                       ELSE reference[k]]
  BY <1>3, <1>7, <1>12, <1>13, <1>14, <1>15 DEF Renderer!Put
<1>18. SameNumbers'
  <2>1. \A k \in Places : index'[k] = index[k] /\ reference'[k] = reference[k]
    BY <1>6, <1>8, <1>16, <1>17
  <2>2. \A k \in Places : index'[k] = reference'[k].label
    BY <1>8, <1>9, <2>1 DEF Together, SameNumbers
  <2>3. index'[n] = l /\ reference'[n].label = l BY <1>16, <1>17
  <2> QED BY <1>6, <1>8, <2>2, <2>3 DEF SameNumbers
<1>19. SameIds' /\ label_counter' = footnote_counter'
  <2>1. CASE Resolver!Known(id)
    <3>1. UNCHANGED <<footnote_counter, footnote_by_id, label_counter, footnote_by_custom_id>>
      BY <1>2, <1>3, <1>7, <1>13, <2>1
    <3>2. SameIds' BY <1>9, <1>11, <3>1 DEF Together, SameIds
    <3> QED BY <1>12, <3>1, <3>2
  <2>2. CASE ~Resolver!Known(id)
    <3>1. l = footnote_counter + 1 BY <1>14, <2>2
    <3>2. /\ footnote_counter' = l
          /\ footnote_by_id' = [k \in DOMAIN footnote_by_id \cup {id} |->
                                  IF k = id THEN l ELSE footnote_by_id[k]]
      BY <1>2, <1>12, <2>2, <3>1, FootnoteAssumption DEF Resolver!NewEntry, Resolver!Put
    <3>3. /\ label_counter' = l
          /\ footnote_by_custom_id' = [k \in DOMAIN footnote_by_custom_id \cup {id} |->
                                         IF k = id THEN l ELSE footnote_by_custom_id[k]]
      BY <1>3, <1>7, <1>12, <1>13, <2>2, <3>1, FootnoteAssumption
         DEF Renderer!Number, Renderer!Put
    <3>4. \A k \in Ids : /\ k \in DOMAIN footnote_by_id <=> k \in DOMAIN footnote_by_custom_id
                         /\ k \in DOMAIN footnote_by_id =>
                              footnote_by_id[k] = footnote_by_custom_id[k]
      BY <1>9, <1>11 DEF Together, SameIds
    <3>5. SameIds' BY <3>2, <3>3, <3>4 DEF SameIds
    <3> QED BY <3>2, <3>3, <3>5
  <2> QED BY <2>1, <2>2
<1>20. NextLabels'
  <2>1. footnote_counter' \in Nat
    <3>1. footnote_counter' = Len(footnotes') /\ footnotes' \in Seq(CatalogEntry)
      BY DEF ResInv, Resolver!Sequential
    <3> QED BY <3>1
  <2>2. \A x \in Nat : x = x + 0 OBVIOUS
  <2>3. label_counter' = footnote_counter' + 0 BY <1>19, <2>1, <2>2, Zenon
  <2> QED BY <1>10, <2>3 DEF NextLabels
<1>21. OnlyOpenId' BY <1>10 DEF OnlyOpenId
<1> QED BY <1>18, <1>19, <1>20, <1>21 DEF Together

LEMMA AgreeRest ==
  ASSUME AgreeInv,
         UNCHANGED <<text, open, footnote_counter, footnotes, footnote_by_id, index,
                     label_counter, footnote_by_custom_id, bodies, current_node, calls, reference>>
  PROVE  AgreeInv'
<1>1. \A m : Renderer!Around(m)' = Renderer!Around(m)
  BY DEF Renderer!Around, Renderer!HasEnded, Renderer!EndOf, Renderer!Balanced
<1>2. Common' = Common BY DEF Common, FlowUpTo
<1>3. Flat' <=> Flat BY <1>1, <1>2 DEF Flat
<1>4. DefinedLate' <=> DefinedLate BY <1>2 DEF DefinedLate, IdAt
<1>5. SameNumbers => SameNumbers' BY <1>2 DEF SameNumbers
<1>6. AllFlow' <=> AllFlow BY DEF AllFlow, FlowUpTo
<1>7. Together => Together'
  BY <1>5 DEF Together, SameIds, NextLabels, OnlyOpenId, OpenId
<1> QED BY <1>3, <1>4, <1>5, <1>6, <1>7 DEF AgreeInv

\* Both take the token: it is the same macro that begins, ends or is referred to.
LEMMA AgreeTake ==
  ASSUME TextInv, ResInv, RenInv, AgreeInv, TextInv', ResInv', RenInv',
         Resolver!Take, Renderer!Take
  PROVE  AgreeInv'
<1>1. PICK n : n = Len(text) + 1 OBVIOUS
<1>2. \A tok : text' = Append(text, tok) => text'[n] = tok BY <1>1 DEF TextInv
<1>a. /\ Resolver!Begin => text'[n].part = "begin"
      /\ Resolver!EndNew \/ Resolver!EndKnown => text'[n].part = "end"
      /\ Resolver!RefKnown \/ Resolver!RefNew => text'[n].part = "ref"
  <2>1. ASSUME Resolver!Begin PROVE text'[n].part = "begin"
    <3>1. PICK id, w : text' = Append(text, [part |-> "begin", id |-> id, within |-> w])
      BY <2>1, ResolverReads DEF Resolver!Begin
    <3>2. text'[n] = [part |-> "begin", id |-> id, within |-> w] BY <1>2, <3>1
    <3> QED BY <3>2
  <2>2. ASSUME Resolver!EndNew \/ Resolver!EndKnown PROVE text'[n].part = "end"
    <3>1. text' = Append(text, [part |-> "end"])
      BY <2>2, ResolverReads DEF Resolver!EndNew, Resolver!EndKnown
    <3>2. text'[n] = [part |-> "end"] BY <1>2, <3>1
    <3> QED BY <3>2
  <2>3. ASSUME Resolver!RefKnown \/ Resolver!RefNew PROVE text'[n].part = "ref"
    <3>1. PICK id, w : text' = Append(text, [part |-> "ref", id |-> id, within |-> w])
      BY <2>3, ResolverReads DEF Resolver!RefKnown, Resolver!RefNew
    <3>2. text'[n] = [part |-> "ref", id |-> id, within |-> w] BY <1>2, <3>1
    <3> QED BY <3>2
  <2> QED BY <2>1, <2>2, <2>3
<1>3. /\ Renderer!Begin => text'[n].part = "begin"
      /\ Renderer!End => text'[n].part = "end"
      /\ Renderer!RefKnown \/ Renderer!RefNew => text'[n].part = "ref"
  <2>1. ASSUME Renderer!Begin PROVE text'[n].part = "begin"
    <3>1. PICK id, w : text' = Append(text, [part |-> "begin", id |-> id, within |-> w])
      BY <2>1, RendererReads DEF Renderer!Begin
    <3>2. text'[n] = [part |-> "begin", id |-> id, within |-> w] BY <1>2, <3>1
    <3> QED BY <3>2
  <2>2. ASSUME Renderer!End PROVE text'[n].part = "end"
    <3>1. text' = Append(text, [part |-> "end"]) BY <2>2, RendererReads DEF Renderer!End
    <3>2. text'[n] = [part |-> "end"] BY <1>2, <3>1
    <3> QED BY <3>2
  <2>3. ASSUME Renderer!RefKnown \/ Renderer!RefNew PROVE text'[n].part = "ref"
    <3>1. PICK id, w : text' = Append(text, [part |-> "ref", id |-> id, within |-> w])
      BY <2>3, RendererReads DEF Renderer!RefKnown, Renderer!RefNew
    <3>2. text'[n] = [part |-> "ref", id |-> id, within |-> w] BY <1>2, <3>1
    <3> QED BY <3>2
  <2> QED BY <2>1, <2>2, <2>3
<1>4. CASE AllFlow'
  <2>1. CASE text'[n].part = "begin"
    <3>1. Resolver!Begin /\ Renderer!Begin
      BY <1>a, <1>3, <2>1 DEF Resolver!Take, Renderer!Take
    <3> QED BY <1>4, <3>1, AgreeBegin
  <2>2. CASE text'[n].part = "end"
    <3>1. (Resolver!EndNew \/ Resolver!EndKnown) /\ Renderer!End
      BY <1>a, <1>3, <2>2 DEF Resolver!Take, Renderer!Take
    <3> QED BY <1>4, <3>1, AgreeEnd
  <2>3. CASE text'[n].part = "ref"
    <3>1. (Resolver!RefKnown \/ Resolver!RefNew) /\ (Renderer!RefKnown \/ Renderer!RefNew)
      BY <1>a, <1>3, <2>3 DEF Resolver!Take, Renderer!Take
    <3> QED BY <1>4, <3>1, AgreeRef
  <2> QED BY <1>a, <2>1, <2>2, <2>3 DEF Resolver!Take
<1>5. CASE ~AllFlow' BY <1>5, AgreeAside
<1> QED BY <1>4, <1>5

\* What is true of every reachable state: of the text, of either walk, of both.
Inv == TextInv /\ ResInv /\ RenInv /\ Idle /\ AgreeInv

LEMMA InvInit == Init => Inv
<1> SUFFICES ASSUME Init PROVE Inv OBVIOUS
<1>1. /\ text = <<>> /\ open = <<>> /\ index = <<>> /\ footnote_counter = 0 /\ footnotes = <<>>
      /\ footnote_by_id = <<>> /\ walking = FALSE /\ rendering = FALSE /\ label_counter = 0
      /\ footnote_by_custom_id = <<>> /\ bodies = <<>> /\ current_node = 0 /\ calls = <<>>
      /\ reference = <<>>
  BY DEF Init, Resolver!Init, Renderer!Init
<1>2. TextInv BY <1>1 DEF TextInv, Ongoing, Over, Inherited
<1>3. Seen = {} /\ Shown = {} BY <1>1 DEF Seen, Shown, Places
<1>4. ResInv
  <2>1. footnotes \in Seq(CatalogEntry) BY <1>1
  <2>2. Resolver!Sequential BY <1>1 DEF Resolver!Sequential
  <2>3. PlacesNumbered BY <1>1, <1>3 DEF PlacesNumbered
  <2>4. IdsListed BY <1>1 DEF IdsListed
  <2>5. FirstTexts BY <1>1 DEF FirstTexts
  <2> QED BY <1>1, <2>1, <2>2, <2>3, <2>4, <2>5 DEF ResInv
<1>5. Len(calls) = 0 /\ Len(bodies) = 0 /\ Len(open) = 0 BY <1>1
<1>6. RenInv
  <2>1. bodies \in Seq(Body) /\ calls \in Seq(CallFrame) BY <1>1
  <2>2. Renderer!ReferenceInPlace BY <1>1 DEF Renderer!ReferenceInPlace
  <2>3. CallsOfOpen BY <1>1, <1>5, <2>1 DEF CallsOfOpen, CallsStand, Aside
  <2>4. LabelsGiven BY <1>1, <1>5 DEF LabelsGiven, Labels
  <2>5. Leads BY <1>1, <1>3 DEF Leads
  <2> QED BY <1>1, <2>1, <2>2, <2>3, <2>4, <2>5 DEF RenInv
<1>7. Idle BY <1>1 DEF Idle
<1>8. AgreeInv
  <2>1. Common = {} BY <1>1 DEF Common
  <2> QED BY <1>1, <1>5, <2>1
          DEF AgreeInv, Together, SameNumbers, SameIds, NextLabels, OnlyOpenId
<1> QED BY <1>2, <1>4, <1>6, <1>7, <1>8 DEF Inv

\* While the text is walked the walks go on.
LEMMA Going ==
  /\ Resolver!Take \/ Resolver!SkipTitle => walking /\ walking' = walking
  /\ Renderer!Take \/ Renderer!SkipRaw => rendering' = rendering
BY DEF Resolver!Take, Resolver!SkipTitle, Resolver!Begin, Resolver!EndNew, Resolver!EndKnown,
       Resolver!RefKnown, Resolver!RefNew, Renderer!Take, Renderer!SkipRaw, Renderer!Begin,
       Renderer!End, Renderer!RefKnown, Renderer!RefNew

LEMMA InvStep == Inv /\ [Next]_vars => Inv'
<1> SUFFICES ASSUME Inv, [Next]_vars PROVE Inv' OBVIOUS
<1>0. TextInv /\ ResInv /\ RenInv /\ Idle /\ AgreeInv BY DEF Inv
<1>1. CASE Start
  <2>1. Resolver!Resolve /\ Renderer!VisitDocument BY <1>1 DEF Start
  <2>2. open = <<>> BY <1>0, <2>1 DEF Idle, Resolver!Resolve
  <2>3. TextInv' BY <2>1, TextStart DEF Resolver!Resolve
  <2>4. ResInv' BY <2>1, ResStart
  <2>5. RenInv' BY <1>0, <2>1, <2>2, RenStart
  <2>6. Idle' BY <2>1 DEF Idle, Resolver!Resolve, Renderer!VisitDocument
  <2>7. AgreeInv' BY <1>0, <2>1, <2>2, AgreeStart
  <2> QED BY <2>3, <2>4, <2>5, <2>6, <2>7 DEF Inv
<1>2. CASE InFlow
  <2>1. Resolver!Take /\ Renderer!Take BY <1>2 DEF InFlow
  <2>2. TextInv' /\ ResInv' BY <1>0, <2>1, ResTake
  <2>3. RenInv' BY <1>0, <2>1, <2>2, RenTake
  <2>4. walking /\ walking' = walking /\ rendering' = rendering BY <2>1, Going
  <2>5. Idle' BY <1>0, <2>4 DEF Idle
  <2>6. AgreeInv' BY <1>0, <2>1, <2>2, <2>3, AgreeTake
  <2> QED BY <2>2, <2>3, <2>5, <2>6 DEF Inv
<1>3. CASE InTitle
  <2>1. Resolver!SkipTitle /\ Renderer!Take BY <1>3 DEF InTitle
  <2>2. TextInv' /\ ResInv' BY <1>0, <2>1, ResSkip
  <2>3. RenInv' BY <1>0, <2>1, <2>2, RenTake
  <2>4. walking /\ walking' = walking /\ rendering' = rendering BY <2>1, Going
  <2>5. Idle' BY <1>0, <2>4 DEF Idle
  <2>6. ~AllFlow' BY <1>0, <2>1, TokenRead, NotAllFlow DEF Within
  <2>7. AgreeInv' BY <1>0, <2>1, <2>2, <2>3, <2>6, AgreeAside
  <2> QED BY <2>2, <2>3, <2>5, <2>7 DEF Inv
<1>4. CASE InRaw
  <2>1. Resolver!Take /\ Renderer!SkipRaw BY <1>4 DEF InRaw
  <2>2. TextInv' /\ ResInv' BY <1>0, <2>1, ResTake
  <2>3. RenInv' BY <1>0, <2>1, RenSkip
  <2>4. walking /\ walking' = walking /\ rendering' = rendering BY <2>1, Going
  <2>5. Idle' BY <1>0, <2>4 DEF Idle
  <2>6. ~AllFlow' BY <1>0, <2>1, TokenRead, NotAllFlow DEF Within
  <2>7. AgreeInv' BY <1>0, <2>1, <2>2, <2>3, <2>6, AgreeAside
  <2> QED BY <2>2, <2>3, <2>5, <2>7 DEF Inv
<1>5. CASE Finish
  <2>1. /\ UNCHANGED <<text, open, footnote_counter, footnotes, footnote_by_id, index,
                       label_counter, footnote_by_custom_id, bodies, current_node, calls,
                       reference>>
        /\ walking' = FALSE /\ rendering' = FALSE /\ open = <<>>
    BY <1>5 DEF Finish, Resolver!Finish, Renderer!Finish
  <2>2. TextInv' /\ ResInv' BY <1>0, <2>1, ResRest
  <2>3. RenInv' BY <1>0, <2>1, RenRest
  <2>4. Idle' BY <2>1 DEF Idle
  <2>5. AgreeInv' BY <1>0, <2>1, AgreeRest
  <2> QED BY <2>2, <2>3, <2>4, <2>5 DEF Inv
<1>6. CASE UNCHANGED vars
  <2>1. /\ UNCHANGED <<text, open, footnote_counter, footnotes, footnote_by_id, index,
                       label_counter, footnote_by_custom_id, bodies, current_node, calls,
                       reference>>
        /\ walking' = walking /\ rendering' = rendering
    BY <1>6 DEF vars
  <2>2. walking \in BOOLEAN BY <1>0 DEF ResInv
  <2>3. TextInv' /\ ResInv' BY <1>0, <2>1, <2>2, ResRest
  <2>4. RenInv' BY <1>0, <2>1, RenRest
  <2>5. Idle' BY <1>0, <2>1 DEF Idle
  <2>6. AgreeInv' BY <1>0, <2>1, AgreeRest
  <2> QED BY <2>3, <2>4, <2>5, <2>6 DEF Inv
<1> QED BY <1>1, <1>2, <1>3, <1>4, <1>5, <1>6 DEF Next

LEMMA Invariance == Spec => []Inv
<1> QED BY InvInit, InvStep, PTL DEF Spec

LEMMA BothShow ==
  Inv => TypeOK /\ CatalogOfTheText /\ ReferencesLeadHome /\ AgreeWhenFlat
<1> SUFFICES ASSUME Inv PROVE TypeOK /\ CatalogOfTheText /\ ReferencesLeadHome /\ AgreeWhenFlat
  OBVIOUS
<1>1. TextInv /\ ResInv /\ RenInv /\ Idle /\ AgreeInv BY DEF Inv
<1>2. rendering \in BOOLEAN /\ (~rendering => open = <<>>) BY <1>1 DEF Idle, ResInv
<1>3. AgreeWhenFlat BY <1>1 DEF AgreeWhenFlat, AgreeInv, Together
<1> QED BY <1>1, <1>2, <1>3, ResolverShows, RendererShows
        DEF TypeOK, CatalogOfTheText, ReferencesLeadHome

\* The catalog, the tables and the bodies of resolver.py and docutils_backend.py
\* have their types, and a call of visit_ref is under way for every open macro
\* that is rendered.
THEOREM TypeCorrect == Spec => []TypeOK
BY Invariance, BothShow, PTL

\* The catalog that ASGResolver.visit_ref builds is the one of the text it visits:
\* its numbers have no gap, an id has one number, and its entry the text that ended
\* first, for any text, nesting and set of ids (resolver.py:511-548).
THEOREM CatalogIsOfTheText == Spec => []CatalogOfTheText
BY Invariance, BothShow, PTL

\* In what DocutilsRenderer.visit_ref has rendered every reference has a body,
\* also one to a macro it stands inside, every label is on one, and a reference
\* is in the text of the macro around it (docutils_backend.py:99-102, 521-584).
THEOREM ReferencesArrive == Spec => []ReferencesLeadHome
BY Invariance, BothShow, PTL

\* The two outputs show the same numbers for the macros up to the first that
\* stands in a title, which the resolver does not visit (nodes.py:246, 589), or in
\* raw text, which docutils_backend.py:637 does not render, if none of them is in
\* another and no id is defined after its use.
THEOREM OutputsAgree == Spec => []AgreeWhenFlat
BY Invariance, BothShow, PTL
=============================================================================
