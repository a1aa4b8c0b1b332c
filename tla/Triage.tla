------------------------------- MODULE Triage -------------------------------
(***************************************************************************)
(* parse_errors (parse_errors.py): the class of a failure, read off the    *)
(* two tails.  Three of its patterns stand for the list, in its order.     *)
(***************************************************************************)
EXTENDS TextLines

\* ERROR_PATTERNS: the order is the priority.
ErrorPatterns == <<"CUDA OOM", "Killed", "RuntimeError">>

\* re.search.  "Killed\s*$", without re.MULTILINE, matches at the end of all the text
\* and nowhere else.
Matches(pattern, text) ==
  \E i \in 1..Len(text) :
    /\ text[i] = pattern
    /\ pattern = "Killed" => \A j \in i + 1..Len(text) : text[j] = "nl"

\* parse_errors(stdout, stderr, exit_code).
ParseErrors(out, err, code) ==
  LET found == {p \in 1..Len(ErrorPatterns) : Matches(ErrorPatterns[p], err \o <<"nl">> \o out)}
  IN IF found # {} THEN ErrorPatterns[Min(found)]
     ELSE IF code # 0 THEN "exited" ELSE ""
=============================================================================
