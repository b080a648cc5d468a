----------------------------- MODULE MCFfiHandles -----------------------------
(***************************************************************************)
(* FfiHandles with a greedy pack and a sampled one.                        *)
(***************************************************************************)
EXTENDS FfiHandles, TLC

CONSTANTS j1, j2, c1, b1, b2, greedy, sampled

\* One that is served, one refused by the text check, one without UTF-8, one
\* for a single language, one for a language that is not there, and one whose
\* source id is English again modulo 256.
MCRequests ==
  {[source |-> 0, target |-> 1, text |-> "good"],
   [source |-> 0, target |-> 1, text |-> "blank"],
   [source |-> 0, target |-> 1, text |-> "malformed"],
   [source |-> 2, target |-> 2, text |-> "good"],
   [source |-> 7, target |-> 1, text |-> "good"],
   [source |-> 256, target |-> 1, text |-> "good"]}

MCLength(p, r) == 2

Symmetry == Permutations(JavaThreads) \cup Permutations(Boxes)
===============================================================================
