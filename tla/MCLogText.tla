----------------------------- MODULE MCLogText -----------------------------
(* LogText with every short input over the five bytes that matter to the   *)
(* decoders, and every short one over the words of parse_errors.           *)
EXTENDS LogText

CONSTANTS InputLength, WordLength

\* Lines about as long as the budget, of two-byte characters, with and without a short
\* line before.
Wide(n) == [i \in 1..n |-> IF i % 2 = 1 THEN "lead" ELSE "cont"]
LongLines == {before \o Wide(n) \o after :
                before \in {<<>>, <<"x", "nl">>}, n \in 4..11, after \in {<<>>, <<"nl">>}}

MCInputs == BoundedSeq({"x", "nl", "cr", "lead", "cont"}, InputLength)
              \cup BoundedSeq(Words \cup {"nl"}, WordLength)
              \cup LongLines
MCHeader == <<"head", "nl">>
MCSeparators == {<<"nl">>, <<"cr", "nl">>}
MCStdoutTails == {<<"head", "nl">>, <<"head", "nl", "stamp", "CUDA OOM", "nl">>,
                  <<"stamp", "Killed", "nl", "nl">>}
=============================================================================
