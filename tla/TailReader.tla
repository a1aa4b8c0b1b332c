----------------------------- MODULE TailReader -----------------------------
(***************************************************************************)
(* get_tail (log_manager.py): the last lines of a log, read backwards in   *)
(* blocks until there are enough line breaks, the file begins, or the      *)
(* budget is spent.                                                        *)
(***************************************************************************)
EXTENDS TextLines

CONSTANTS
  BlockSize,    \* _TAIL_BLOCK
  MaxBytes,     \* _TAIL_MAX_BYTES
  TailLines     \* n_lines

ASSUME TailAssumption ==
  BlockSize \in Nat \ {0} /\ MaxBytes \in Nat \ {0} /\ TailLines \in Nat \ {0}

VARIABLES
  tailPc,       \* "idle", "reading", "done"
  bytes,        \* the file
  pos, data,    \* where the file pointer is; the blocks read so far, joined
  breaks,       \* line breaks counted in them
  budget,       \* bytes that may still be read
  tail          \* what is returned, a sequence of lines

tailVars == <<tailPc, bytes, pos, data, breaks, budget, tail>>

TailInit ==
  /\ tailPc = "idle" /\ bytes = <<>> /\ pos = 0 /\ data = <<>>
  /\ breaks = 0 /\ budget = MaxBytes /\ tail = <<>>

-----------------------------------------------------------------------------
\* bytes.count of a symbol, and of "\r\n".
CountOf(b, c) == Cardinality({i \in 1..Len(b) : b[i] = c})
CountPairs(b) == Cardinality({i \in 1..Len(b) : Pair(b, i, "cr", "nl")})

LineBreaks(b) == CountOf(b, "nl") + CountOf(b, "cr") - CountPairs(b)

\* A "\r\n" cut in two by the border of block and the data behind it.
SplitPair_Ignored(block) == 0
SplitPair(block) ==
  IF data # <<>> /\ block[Len(block)] = "cr" /\ data[1] = "nl" THEN 1 ELSE 0

TailOpen(file) ==
  /\ tailPc = "idle" /\ tailPc' = "reading"
  /\ bytes' = file /\ pos' = Len(file)
  /\ UNCHANGED <<data, breaks, budget, tail>>

\* The loop's condition: the extra break marks where the first wanted line starts.
MoreWanted_OneShort == pos > 0 /\ budget > 0 /\ breaks < TailLines
MoreWanted == pos > 0 /\ budget > 0 /\ breaks <= TailLines

Smaller(m, n) == IF m <= n THEN m ELSE n
StepSize == Smaller(BlockSize, Smaller(pos, budget))

TailBlock ==
  /\ tailPc = "reading" /\ MoreWanted
  /\ LET block == SubSeq(bytes, pos - StepSize + 1, pos)
     IN /\ data' = block \o data
        /\ breaks' = breaks + LineBreaks(block) - SplitPair(block)
  /\ pos' = pos - StepSize /\ budget' = budget - StepSize
  /\ UNCHANGED <<tailPc, bytes, tail>>

\* Data that begins in the middle of the file begins in the middle of a line, which
\* is dropped, or marked when there is no other.
Cut(q) ==
  IF pos = 0 \/ q = <<>> THEN q
  ELSE IF Len(q) > 1 THEN Tail(q) ELSE <<<<"mark">> \o q[1]>>

TailCut ==
  /\ tailPc = "reading" /\ ~MoreWanted /\ tailPc' = "done"
  /\ tail' = LastOf(Cut(SplitLines(Decoded(data))), TailLines)
  /\ UNCHANGED <<bytes, pos, data, breaks, budget>>

TailNext == (\E file \in Seq(Symbols) : TailOpen(file)) \/ TailBlock \/ TailCut

TailSpec == TailInit /\ [][TailNext]_tailVars

-----------------------------------------------------------------------------
\* The blocks joined are the end of the file, no more of it than the budget allows;
\* and the breaks counted block by block are the breaks of the whole, "\r\n" being
\* one of them also where two blocks meet in it.
TailHolds ==
  /\ tailPc \in {"idle", "reading", "done"} /\ (tailPc = "idle" => data = <<>>)
  /\ bytes \in Seq(Symbols) /\ pos \in 0..Len(bytes) /\ budget \in 0..MaxBytes
  /\ data = SubSeq(bytes, pos + 1, Len(bytes)) /\ Len(data) + budget = MaxBytes
  /\ breaks = LineBreaks(data)

\* The reference: the lines of a file, and where one of them begins.
LinesOf(b) == SplitLines(Decoded(b))
LineBegins(b, i) == i = 0 \/ b[i] = "nl" \/ (b[i] = "cr" /\ ~Pair(b, i, "cr", "nl"))

\* The last n lines of the file are fewer bytes than the budget.
LastFit(n) ==
  \E i \in 0..Len(bytes) :
    /\ LineBegins(bytes, i) /\ Len(bytes) - i < MaxBytes
    /\ Len(LinesOf(SubSeq(bytes, i + 1, Len(bytes)))) = n

\* get_tail returns the last n lines of a file, if they are fewer bytes than the
\* budget or all there are.  Otherwise it returns as many whole lines as are, and when
\* the last one alone is not, the last bytes of it, marked.
TailIsTrue ==
  tailPc = "done" =>
    \E k \in 0..TailLines :
      /\ k < TailLines /\ k < Len(LinesOf(bytes)) => ~LastFit(k + 1) /\ Len(bytes) > MaxBytes
      /\ IF k = 0 /\ bytes # <<>>
         THEN tail = <<<<"mark">> \o Translated(Decoded(LastOf(bytes, MaxBytes)))>>
         ELSE tail = LastOf(LinesOf(bytes), k)
=============================================================================
