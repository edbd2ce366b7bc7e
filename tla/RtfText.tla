------------------------------ MODULE RtfText ------------------------------
(***************************************************************************)
(* extractRtf: one pass over the tokens of an RTF document with a stack of *)
(* groups, a count of fallback characters to pass over and one code page,  *)
(* compared with what the groups of the document mean.                     *)
(*                                                                         *)
(* A document is a sequence of tokens: "open" and "close", the braces of a *)
(* group; "char", a character; "hex", a byte \'hh; "u", a character \uN,   *)
(* with as many fallback characters behind it as the group has declared    *)
(* with \uc ("uc0", "uc2"; 1 if none); "skip", a destination that is no    *)
(* text (\*, fonttbl, pict, ...); "cpg", \ansicpg1257.  What is put out is *)
(* named by the place of its token.                                        *)
(***************************************************************************)
EXTENDS Integers, Sequences, FiniteSets

Token == {"open", "close", "char", "hex", "u", "uc0", "uc2", "skip", "cpg"}

-----------------------------------------------------------------------------
(* The pass *)

Start == [out |-> <<>>, skip |-> FALSE, ucSkip |-> 1, pendingUnicodeSkip |-> 0,
          stack |-> <<>>, highTable |-> "cp1252"]

\* A character or a byte: not in a group that is skipped, and not a fallback.
Put(s, i, table) ==
  CASE s.skip -> s
    [] ~s.skip /\ s.pendingUnicodeSkip > 0 -> [s EXCEPT !.pendingUnicodeSkip = @ - 1]
    [] ~s.skip /\ s.pendingUnicodeSkip = 0 -> [s EXCEPT !.out = Append(@, <<i, table>>)]

Top(s) == s.stack[Len(s.stack)]

\* Mutant: the end of a group restores whether text is skipped, and no more.
CloseKeepingUc(s) ==
  IF s.stack = <<>> THEN s
  ELSE [s EXCEPT !.skip = Top(s).skip, !.stack = SubSeq(@, 1, Len(@) - 1)]

\* The end of a group restores what its start has saved.
Close(s) ==
  IF s.stack = <<>> THEN s
  ELSE [s EXCEPT !.skip = Top(s).skip, !.ucSkip = Top(s).ucSkip,
                 !.stack = SubSeq(@, 1, Len(@) - 1)]

Step(s, i, token) ==
  CASE token = "open" -> [s EXCEPT !.stack = Append(@, [skip |-> s.skip, ucSkip |-> s.ucSkip])]
    [] token = "close" -> Close(s)
    [] token = "char" -> Put(s, i, "any")
    [] token = "hex" -> Put(s, i, s.highTable)
    [] token = "skip" -> [s EXCEPT !.skip = TRUE]
    [] token = "cpg" -> [s EXCEPT !.highTable = "cp1257"]
    [] token = "uc0" -> [s EXCEPT !.ucSkip = 0]
    [] token = "uc2" -> [s EXCEPT !.ucSkip = 2]
    [] token = "u" -> [s EXCEPT !.out = IF s.skip THEN @ ELSE Append(@, <<i, "unicode">>),
                                !.pendingUnicodeSkip = s.ucSkip]

\* extractRtf; \par, \tab, the dashes and escaped braces are put out like \uN,
\* without fallback characters.
Pass(doc) ==
  LET run[n \in 0..Len(doc)] == IF n = 0 THEN Start ELSE Step(run[n - 1], n, doc[n]) IN run
ExtractRtf(doc) == Pass(doc)[Len(doc)].out

-----------------------------------------------------------------------------
(* The document *)

\* How many groups are open before a token.
Before(doc, i, token) == Cardinality({j \in 1..i - 1 : doc[j] = token})
Depth(doc, i) == Before(doc, i, "open") - Before(doc, i, "close")

\* Groups are closed as often as they are opened, and after they are opened.
Balanced(doc) ==
  /\ Depth(doc, Len(doc) + 1) = 0
  /\ \A i \in DOMAIN doc : Depth(doc, i + 1) >= 0

\* What token k says holds for the rest of its group, groups in it included.
Reaches(doc, k, i) == k < i /\ \A j \in k + 1..i : Depth(doc, j) >= Depth(doc, k)

InSkipped(doc, i) == \E k \in DOMAIN doc : doc[k] = "skip" /\ Reaches(doc, k, i)

\* The last \uc that reaches a token is that of the innermost group that has one.
Declared(doc, i) == {k \in DOMAIN doc : doc[k] \in {"uc0", "uc2"} /\ Reaches(doc, k, i)}
Uc(doc, i) ==
  IF Declared(doc, i) = {} THEN 1
  ELSE LET k == CHOOSE k \in Declared(doc, i) : \A j \in Declared(doc, i) : j <= k
       IN  IF doc[k] = "uc0" THEN 0 ELSE 2

\* The tokens that stand in for \uN where it is not understood.
Fallback(doc, i) == \E k \in DOMAIN doc : doc[k] = "u" /\ k < i /\ i <= k + Uc(doc, k)

\* What a writer is held to: a \uN has its fallback characters right behind it.
\* A \uN in a destination that is skipped is left out: its fallback characters
\* are, too, and the characters after the group are passed over in their place.
WellWritten(doc) ==
  /\ Balanced(doc)
  /\ \A k \in DOMAIN doc : doc[k] = "u" =>
       /\ ~InSkipped(doc, k)
       /\ k + Uc(doc, k) <= Len(doc)
       /\ \A i \in k + 1..k + Uc(doc, k) : doc[i] \in {"char", "hex"}

\* What is text: each \uN, and each character that is not in a skipped destination
\* and does not stand in for a \uN; bytes are read by the code page declared before.
Shown(doc, i) ==
  doc[i] \in {"char", "hex", "u"} /\ ~InSkipped(doc, i) /\ ~Fallback(doc, i)
As(doc, i) ==
  CASE doc[i] = "char" -> "any"
    [] doc[i] = "u" -> "unicode"
    [] doc[i] = "hex" -> IF \E k \in 1..i - 1 : doc[k] = "cpg" THEN "cp1257" ELSE "cp1252"

\* The text of a document is what is shown of it, in order.
RtfMeans(doc) ==
  LET out == ExtractRtf(doc)
  IN  WellWritten(doc) =>
        /\ {out[n] : n \in DOMAIN out} = {<<i, As(doc, i)>> : i \in {i \in DOMAIN doc : Shown(doc, i)}}
        /\ \A m, n \in DOMAIN out : m < n => out[m][1] < out[n][1]
=============================================================================
