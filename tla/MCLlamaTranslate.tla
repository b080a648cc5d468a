--------------------------- MODULE MCLlamaTranslate ---------------------------
(***************************************************************************)
(* LlamaTranslate for a toy model over five tokens.  What may come next    *)
(* depends on everything read so far, so that a stale, missing or repeated *)
(* token shows in the answer.                                              *)
(***************************************************************************)
EXTENDS LlamaTranslate, FiniteSets, TLC

CONSTANTS c1, c2, x, y, long, half, eog

MCTokens == {x, y, long, half, eog}

\* The third prompt leaves no room for the output budget.
MCPrompts == {<<x>>, <<y, x>>, <<x, x, x>>}

\* After an even number of y the model may say x or y, after an odd number a
\* long token or half a character; it may always stop.
MCSampleable(enc, dec) ==
  LET read == enc \o dec
      ys == Cardinality({i \in 1..Len(read) : read[i] = y})
  IN {eog} \cup IF (Len(read) + ys) % 2 = 0 THEN {x, y} ELSE {long, half}

\* Half a character is not UTF-8 at the end of the text.
MCReadable(seq) == seq # <<>> /\ seq[Len(seq)] # half

\* Piece lengths in units of the first buffer; the limit is 128 of them.
MCPieceLen(t) == IF t = long THEN 70 ELSE IF t = half THEN 80 ELSE 1

Symmetry == Permutations(Callers)

===============================================================================
