------------------------------ MODULE LineEmit ------------------------------
(***************************************************************************)
(* StreamReader.run of one stream (capture.py) as a machine over bytes:    *)
(* reads of any size, the decoders and what they hold back, _emit with its *)
(* carry and its cut of over-long lines, and _add.                         *)
(***************************************************************************)
EXTENDS TextLines

CONSTANTS
  Inputs,       \* what the job may write to the stream
  Header,       \* the header of a log, a sequence of whole lines
  ReadChunk,    \* READ_CHUNK: bytes a read may return
  MaxPending    \* MAX_PENDING: characters of a line held back

\* What a reader adds to a line is told apart from what the job writes.
ASSUME EmitAssumption ==
  /\ Inputs \subseteq Seq(Symbols \ Added)
  /\ Header \in Seq(Symbols) /\ (Header # <<>> => Last(Header) = "nl")
  /\ ReadChunk \in Nat \ {0} /\ MaxPending \in Nat \ {0}

VARIABLES
  input,        \* all that the job writes
  taken,        \* bytes_read
  half,         \* the byte the UTF-8 decoder holds back, if any
  crHeld,       \* whether the newline decoder holds back a "\r"
  pending,      \* the unfinished line
  midLine,      \* _mid_line
  own, combined,\* the two logs, as text
  lines,        \* lines
  replacements, \* _counter.n
  ended         \* whether run has seen the end of the stream

emitVars == <<input, taken, half, crHeld, pending, midLine, own, combined, lines,
              replacements, ended>>

EmitInit ==
  /\ input \in Inputs /\ taken = 0 /\ half = <<>> /\ crHeld = FALSE
  /\ pending = <<>> /\ midLine = FALSE /\ lines = 0 /\ replacements = 0 /\ ended = FALSE
  /\ own = Header /\ combined = Header

-----------------------------------------------------------------------------
(* The decoders.                                                           *)

\* codecs.getincrementaldecoder: a character cut in two waits for its other half.
HeldBack(b, final) == IF ~final /\ b # <<>> /\ Last(b) = "lead" THEN <<"lead">> ELSE <<>>

\* io.IncrementalNewlineDecoder on the text of the other: a "\r" at the end waits
\* for what follows it.
NewlineText(t, final) == IF crHeld /\ (t # <<>> \/ final) THEN <<"cr">> \o t ELSE t
EndsInCr(t, final) == t # <<>> /\ Last(t) = "cr" /\ ~final

\* decoder.decode(chunk, final): its text, and what it keeps.
Decode(chunk, final) ==
  LET raw == half \o chunk
      b   == SubSeq(raw, 1, Len(raw) - Len(HeldBack(raw, final)))
      t   == NewlineText(Decoded(b), final)
  IN [half   |-> HeldBack(raw, final),
      cr     |-> IF t = <<>> THEN crHeld ELSE EndsInCr(t, final),
      text   |-> Translated(IF EndsInCr(t, final) THEN Front(t) ELSE t),
      errors |-> Replacements(b)]

-----------------------------------------------------------------------------
(* _emit and _add.                                                         *)

\* The rest is written as well at the end, and when it is as long as is allowed.
IsFlushed_OnlyLong(rest, final) == rest # <<>> /\ Len(rest) >= MaxPending
IsFlushed(rest, final) == rest # <<>> /\ (final \/ Len(rest) >= MaxPending)

\* The calls of _add, in order.
Pieces(text, final) ==
  LET rest == Rest(text)
  IN CompleteLines(text) \o
       IF IsFlushed(rest, final) THEN <<IF final THEN Append(rest, "nl") ELSE rest>> ELSE <<>>

\* What a piece becomes in the stream's own log: only the piece that goes on with a
\* line has no stamp.  In combined.log each piece is a line.
OwnPiece(piece, goesOn) == IF goesOn THEN piece ELSE <<"stamp">> \o piece
CombinedPiece_Raw(piece) == <<"tag">> \o piece
CombinedPiece(piece) == <<"tag">> \o (IF Last(piece) = "nl" THEN piece ELSE Append(piece, "nl"))

Emit(text, final) ==
  LET rest    == Rest(text)
      pieces  == Pieces(text, final)
      flushed == IsFlushed(rest, final)
      closes  == final /\ ~flushed /\ midLine /\ pieces = <<>>
      open    == IF pieces = <<>> THEN midLine ELSE Last(Last(pieces)) # "nl"
  IN /\ own' = own \o FlattenSeq([k \in DOMAIN pieces |-> OwnPiece(pieces[k], k = 1 /\ midLine)])
                   \o (IF closes THEN <<"nl">> ELSE <<>>)
     /\ combined' = combined \o FlattenSeq([k \in DOMAIN pieces |-> CombinedPiece(pieces[k])])
     /\ lines' = lines + Cardinality({k \in DOMAIN pieces : Last(pieces[k]) = "nl"})
                       + (IF closes THEN 1 ELSE 0)
     /\ midLine' = (open /\ ~closes)
     /\ pending' = IF flushed THEN <<>> ELSE rest

-----------------------------------------------------------------------------
(* The loop of run.                                                        *)

\* The text before the decoder's new one: what the last _emit returned.
Carried_Forgotten == <<>>
Carried == pending

Take(chunk, final) ==
  LET d == Decode(chunk, final)
  IN /\ half' = d.half /\ crHeld' = d.cr
     /\ replacements' = replacements + d.errors
     /\ Emit(Carried \o d.text, final)

ReadSome ==
  /\ ~ended /\ ended' = FALSE
  /\ \E n \in 1..ReadChunk :
       /\ taken + n <= Len(input) /\ taken' = taken + n
       /\ Take(SubSeq(input, taken + 1, taken + n), FALSE)
  /\ UNCHANGED input

ReadEnd ==
  /\ ~ended /\ taken = Len(input) /\ ended' = TRUE
  /\ Take(<<>>, TRUE)
  /\ UNCHANGED <<input, taken>>

EmitNext == ReadSome \/ ReadEnd

-----------------------------------------------------------------------------
(* What the logs hold, of a job that has written q: a reference without    *)
(* chunks, carries or cuts.                                                *)

TextOf(q) == Translated(Decoded(q))
Closed(t) == IF t = <<>> \/ Last(t) = "nl" THEN t ELSE Append(t, "nl")

\* What follows the header.
Body(log) == SubSeq(log, Len(Header) + 1, Len(log))

\* At the end of the stream its log is its text, one stamp a line, closed by a
\* newline, whatever the reads cut through: a character, a "\r\n", an over-long line.
\* Until then it is short of what is held back, which is less than MAX_PENDING.
LogIsTheOutput ==
  /\ Len(pending) < MaxPending
  /\ ended =>
       /\ Body(own) = FlattenSeq([k \in 1..Len(SplitLines(Closed(TextOf(input)))) |->
                                    <<"stamp">> \o SplitLines(Closed(TextOf(input)))[k]])
       /\ lines = Len(SplitLines(TextOf(input)))
       /\ replacements = Replacements(input)
  /\ ~ended /\ ~crHeld /\ half = <<>> =>
       Without(Body(own), {"stamp"}) \o pending = TextOf(SubSeq(input, 1, taken))

\* Combined.log has the same characters in the same order, in whole lines, each of
\* which begins with its tag: the other stream's lines may come in between.
CombinedIsTheOutput ==
  /\ Without(Body(combined), {"tag", "nl"}) = Without(Body(own), {"stamp", "nl"})
  /\ \A k \in 1..Len(SplitLines(Body(combined))) : SplitLines(Body(combined))[k][1] = "tag"
  /\ combined # Header => Last(combined) = "nl"
=============================================================================
