----------------------------- MODULE TextLines -----------------------------
(***************************************************************************)
(* Bytes, characters and lines, as codecs, the newline decoder of io and   *)
(* log_manager._split_lines see them.                                      *)
(*                                                                         *)
(* A byte is a symbol.  "lead" and "cont" are the two halves of the        *)
(* character "u"; "rep" is U+FFFD; a word that parse_errors looks for is   *)
(* one symbol; "stamp" and "tag" are the prefixes the readers write, "mark"*)
(* the one of get_tail, and "head" is the text of a header line.           *)
(***************************************************************************)
EXTENDS Integers, Sequences, FiniteSets, SequencesExt

Words == {"CUDA OOM", "Killed", "RuntimeError"}
Added == {"stamp", "tag"}
Symbols == {"x", "nl", "cr", "lead", "cont", "rep", "mark", "head"} \cup Words \cup Added

-----------------------------------------------------------------------------
(* Decoding with errors="replace".                                         *)

Pair(b, i, first, second) ==
  i \in 1..Len(b) - 1 /\ b[i] = first /\ b[i + 1] = second

CharAt(b, i) ==
  IF Pair(b, i, "lead", "cont") THEN <<"u">>
  ELSE IF Pair(b, i - 1, "lead", "cont") THEN <<>>
  ELSE IF b[i] \in {"lead", "cont"} THEN <<"rep">> ELSE <<b[i]>>

Decoded(b) == FlattenSeq([i \in 1..Len(b) |-> CharAt(b, i)])

Replacements(b) == Cardinality({i \in 1..Len(b) : CharAt(b, i) = <<"rep">>})

\* text.encode, with "\n" as eol.
Encoded(t, eol) ==
  FlattenSeq([i \in 1..Len(t) |-> IF t[i] = "u" THEN <<"lead", "cont">>
                                  ELSE IF t[i] = "nl" THEN eol ELSE <<t[i]>>])

-----------------------------------------------------------------------------
(* Lines.                                                                  *)

\* "\r\n" and "\r" are "\n".
Translated(t) ==
  FlattenSeq([i \in 1..Len(t) |-> IF Pair(t, i - 1, "cr", "nl") THEN <<>>
                                  ELSE IF t[i] = "cr" THEN <<"nl">> ELSE <<t[i]>>])

Newlines(t) == {i \in 1..Len(t) : t[i] = "nl"}

\* Where line k of t ends; line 0 ends before the text.
LineEnd(t, k) ==
  IF k = 0 THEN 0
  ELSE CHOOSE i \in Newlines(t) : Cardinality({j \in Newlines(t) : j <= i}) = k

\* The lines of t that are complete, and what follows them.
CompleteLines(t) ==
  [k \in 1..Cardinality(Newlines(t)) |-> SubSeq(t, LineEnd(t, k - 1) + 1, LineEnd(t, k))]

Rest(t) == SubSeq(t, LineEnd(t, Cardinality(Newlines(t))) + 1, Len(t))

\* _split_lines.
SplitLines(t) ==
  LET q == Translated(t)
  IN IF Rest(q) = <<>> THEN CompleteLines(q) ELSE Append(CompleteLines(q), Rest(q))

LastOf(q, n) == SubSeq(q, IF Len(q) > n THEN Len(q) - n + 1 ELSE 1, Len(q))

\* q without the symbols of S.
Without(q, S) == FlattenSeq([i \in 1..Len(q) |-> IF q[i] \in S THEN <<>> ELSE <<q[i]>>])
=============================================================================
