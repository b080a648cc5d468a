---------------------------- MODULE MCOrtGenerator ----------------------------
(***************************************************************************)
(* OrtGenerator for a toy model over four tokens, 0 being the end token.   *)
(* What comes next depends on everything read, in order, so that a stale,  *)
(* missing or foreign token shows in the answer.                           *)
(***************************************************************************)
EXTENDS OrtGenerator, SequencesExt

CONSTANTS c1, c2, stops, full, silent, broken, none, huge

MCTokens == 0..3

\* The first two requests are one text for two target languages.
MCSource(p) ==
  CASE p \in {stops, full} -> <<3>>
    [] p = silent -> <<2, 2>>
    [] p = broken -> <<1>>
    [] p = none -> <<>>
    [] p = huge -> <<1, 1, 1, 1, 1>>

\* A start token and the token of the target language.
MCSeed(p) == IF p \in {stops, silent} THEN <<1, 2>> ELSE <<1, 3>>

\* The answers are <<1, 0>> for `stops', <<2, 1, 3>>, the whole budget, for
\* `full', and the end token alone for `silent'; `broken' has no first token.
MCBest(enc, dec) ==
  LET mix == FoldLeft(LAMBDA a, t : (5 * a + t + 1) % 13, 0, enc \o dec)
  IN IF mix = 12 THEN NoToken ELSE mix % 4

\* A translation of end tokens only is empty text.
MCReadable(seq) == seq # <<>>

===============================================================================
