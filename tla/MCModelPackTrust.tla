--------------------------- MODULE MCModelPackTrust ---------------------------
(***************************************************************************)
(* ModelPackTrust on small packs: an encoder that every manifest lists and *)
(* a tokenizer that only the second one does, each with two contents.      *)
(***************************************************************************)
EXTENDS ModelPackTrust, TLC

CONSTANTS encoder, tokenizer, old, new, m1, m2, m3

\* m1 lists the encoder alone, m2 is the update with a tokenizer, and m3 lacks
\* a required language.
MCDeclared ==
  m1 :> (encoder :> old)
  @@ m2 :> (encoder :> new @@ tokenizer :> old)
  @@ m3 :> (encoder :> old)

Symmetry == Permutations(Callers)

===============================================================================
