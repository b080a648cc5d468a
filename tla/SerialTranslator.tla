--------------------------- MODULE SerialTranslator ---------------------------
(***************************************************************************)
(* What a loaded translator promises to the callers that share it: every   *)
(* request is answered as if it were the only one the model had ever seen. *)
(* An answer is either a refusal or a completion of the request's own      *)
(* prompt, which ends at an end-of-generation token or when the output     *)
(* budget is spent, and which is readable text.  Both engines are held to  *)
(* it: LlamaTranslate and OrtGenerator.                                    *)
(***************************************************************************)
EXTENDS Integers, Sequences

CONSTANTS
  Callers,          \* threads that share the translator
  Prompts,          \* what a caller may ask
  NoPrompt,         \* what a caller has asked before its first request
  Tokens,           \* the vocabulary
  Eog,              \* the tokens that end a generation
  MaxOutput,        \* how many tokens an answer may have
  EncoderInput(_),  \* what the encoder reads of a prompt
  DecoderInput(_),  \* what the decoder reads of it
  Sampleable(_, _), \* the tokens the model may choose, given what the encoder
                    \* has read and what the decoder has read
  Readable(_)       \* the tokens make non-empty text

VARIABLES
  prompt,  \* each caller's latest request
  status,  \* its outcome
  text     \* the tokens of the translation, when the outcome is "ok"

vars == <<prompt, status, text>>

\* The tokens that may follow `out' in an answer to p.
Continues(p, out) == Sampleable(EncoderInput(p), DecoderInput(p) \o out)

\* What a generation may have put out, within the budget.
Outputs == UNION {[1..n -> Tokens] : n \in 0..MaxOutput}

Completes(p, out) ==
  /\ \A i \in 1..Len(out) : out[i] \in Continues(p, SubSeq(out, 1, i - 1)) \ Eog
  /\ Len(out) = MaxOutput \/ Continues(p, out) \cap Eog # {}

TypeOK ==
  /\ prompt \in [Callers -> Prompts \cup {NoPrompt}]
  /\ status \in [Callers -> {"idle", "asked", "ok", "error", "panic"}]
  /\ text \in [Callers -> Seq(Tokens)]

Init ==
  /\ prompt = [c \in Callers |-> NoPrompt]
  /\ status = [c \in Callers |-> "idle"]
  /\ text = [c \in Callers |-> <<>>]

Ask(c, p) ==
  /\ status[c] # "asked"
  /\ prompt' = [prompt EXCEPT ![c] = p]
  /\ status' = [status EXCEPT ![c] = "asked"]
  /\ text' = [text EXCEPT ![c] = <<>>]

Answer(c) ==
  /\ status[c] = "asked"
  /\ status' = [status EXCEPT ![c] = "ok"]
  /\ \E out \in Outputs :
       /\ Completes(prompt[c], out)
       /\ Readable(out)
       /\ text' = [text EXCEPT ![c] = out]
  /\ UNCHANGED prompt

Refuse(c) ==
  /\ status[c] = "asked"
  /\ \E s \in {"error", "panic"} : status' = [status EXCEPT ![c] = s]
  /\ UNCHANGED <<prompt, text>>

Next ==
  \E c \in Callers : (\E p \in Prompts : Ask(c, p)) \/ Answer(c) \/ Refuse(c)

Spec == Init /\ [][Next]_vars

===============================================================================
