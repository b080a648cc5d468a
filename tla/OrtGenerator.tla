----------------------------- MODULE OrtGenerator -----------------------------
(***************************************************************************)
(* TranslationPipeline over the Hugging Face tokenizer and a loaded        *)
(* OrtTokenGenerator that several threads share: an encoder run and one    *)
(* decoder run for every token, each under the mutex of its session slot   *)
(* and with other requests' runs between, greedy selection, and the loop   *)
(* state of each request.  A panic inside a session poisons its slot.      *)
(*                                                                         *)
(* The tokenizer and ONNX Runtime are external: every call into them may   *)
(* refuse, and the logits of a run depend on its inputs only.              *)
(***************************************************************************)
EXTENDS Integers, Sequences

CONSTANTS
  Callers, Prompts, NoPrompt, Tokens, Readable(_), \* as in SerialTranslator
  Source(_),     \* the ids the tokenizer makes of a request's text
  Seed(_),       \* decoder_input_ids: the start token, if one is configured,
                 \* and the token of the request's target language
  Best(_, _),    \* the argmax of the logits, given what the encoder and the
                 \* decoder have read
  NoToken,       \* the logits have no argmax: not finite, or a wrong shape
  Eos,           \* GenerationConfig::eos_token_id
  MaxNewTokens,  \* GenerationConfig::max_new_tokens
  MaxTokens,     \* localmt_tokenizer::MAX_TOKENS
  Nobody         \* the mutex of a slot is free

ASSUME GeneratorAssumption ==
  /\ Nobody \notin Callers
  /\ Eos \in Tokens
  /\ NoToken \notin Tokens
  /\ MaxTokens \in Nat
  /\ MaxNewTokens \in 1..MaxTokens
  /\ \A p \in Prompts : Source(p) \in Seq(Tokens) /\ Seed(p) \in Seq(Tokens)

\* What the tokens of a generation may be, within the budget.
Generations == UNION {[1..n -> Tokens] : n \in 0..MaxNewTokens}

ASSUME BestAssumption ==
  \A p \in Prompts : \A g \in Generations :
    Best(Source(p), Seed(p) \o g) \in Tokens \cup {NoToken}

VARIABLES
  prompt,     \* each caller's latest request
  status,     \* its outcome
  text,       \* the tokens of the translation, when the outcome is "ok"
  pc,         \* where each caller is in translate_pipeline
  hidden,     \* encoder_output of its call: what the encoder has read for it
  generated,  \* OrtGenerationState::generated_token_ids of its call
  logits,     \* what its call has copied out of the decoder session
  holder,     \* the caller inside each slot's mutex
  poisoned    \* the slots whose mutex is poisoned

vars == <<prompt, status, text, pc, hidden, generated, logits, holder, poisoned>>

\* Greedy selection leaves the model no choice.
Choice(enc, dec) == {Best(enc, dec)} \ {NoToken}

\* The promise; its variables are the first three of this module.
Serial == INSTANCE SerialTranslator
            WITH Eog <- {Eos}, MaxOutput <- MaxNewTokens,
                 EncoderInput <- Source, DecoderInput <- Seed,
                 Sampleable <- Choice

-------------------------------------------------------------------------------
Slots == {"encoder", "decoder"}
Awaiting(s) == IF s = "encoder" THEN "await encoder" ELSE "await decoder"

TypeOK ==
  /\ Serial!TypeOK
  /\ pc \in [Callers -> {"idle", "encode", "await encoder", "encoder",
                         "await decoder", "decoder", "accept", "decode"}]
  /\ hidden \in [Callers -> Seq(Tokens)]
  /\ generated \in [Callers -> Seq(Tokens)]
  /\ \A c \in Callers : Len(generated[c]) <= MaxNewTokens
  /\ logits \in [Callers -> Tokens \cup {NoToken}]
  /\ holder \in [Slots -> Callers \cup {Nobody}]
  /\ poisoned \subseteq Slots

Init ==
  /\ Serial!Init
  /\ pc = [c \in Callers |-> "idle"]
  /\ hidden = [c \in Callers |-> <<>>]
  /\ generated = [c \in Callers |-> <<>>]
  /\ logits = [c \in Callers |-> NoToken]
  /\ holder = [s \in Slots |-> Nobody]
  /\ poisoned = {}

-------------------------------------------------------------------------------
\* Helpers.

request == <<prompt, status, text>>
slots == <<holder, poisoned>>

Goto(c, to) == pc' = [pc EXCEPT ![c] = to]

\* translate_pipeline returns or unwinds, and its locals are dropped.
Return(c, outcome, tokens) ==
  /\ status' = [status EXCEPT ![c] = outcome]
  /\ text' = [text EXCEPT ![c] = tokens]
  /\ hidden' = [hidden EXCEPT ![c] = <<>>]
  /\ generated' = [generated EXCEPT ![c] = <<>>]
  /\ logits' = [logits EXCEPT ![c] = NoToken]
  /\ Goto(c, "idle")
  /\ UNCHANGED prompt

Refuse(c) == Return(c, "error", <<>>)

Unlock(s) == holder' = [holder EXCEPT ![s] = Nobody]

\* TokenSequence::new.
ValidSequence(tokens) == Len(tokens) \in 1..MaxTokens

\* The tokens that decode turns into text: it skips special tokens, of which
\* the end token, if any, is the last; the others are up to Readable.
Visible(tokens) ==
  IF tokens # <<>> /\ tokens[Len(tokens)] = Eos
  THEN SubSeq(tokens, 1, Len(tokens) - 1)
  ELSE tokens

-------------------------------------------------------------------------------
\* translate_pipeline.

Ask(c, p) ==
  /\ Serial!Ask(c, p)
  /\ Goto(c, "encode")
  /\ UNCHANGED <<hidden, generated, logits, slots>>

\* HfTokenizer::encode.
Encode(c) ==
  /\ pc[c] = "encode"
  /\ \/ /\ ValidSequence(Source(prompt[c]))
        /\ Goto(c, "await encoder")
        /\ UNCHANGED <<request, hidden, generated, logits>>
     \/ Refuse(c)
  /\ UNCHANGED slots

\* Mutant: the guard of a poisoned mutex is recovered.
LockRecovering(c, s) ==
  /\ pc[c] = Awaiting(s)
  /\ holder[s] = Nobody
  /\ holder' = [holder EXCEPT ![s] = c]
  /\ Goto(c, s)
  /\ UNCHANGED <<request, hidden, generated, logits, poisoned>>

\* Mutant: the request is tried again when a slot is poisoned.
LockRetrying(c, s) ==
  /\ pc[c] = Awaiting(s)
  /\ holder[s] = Nobody
  /\ IF s \in poisoned
     THEN Goto(c, "encode") /\ UNCHANGED holder
     ELSE Goto(c, s) /\ holder' = [holder EXCEPT ![s] = c]
  /\ UNCHANGED <<request, hidden, generated, logits, poisoned>>

\* OrtEngineSlot::with_mut takes the mutex, and gives it back at once when it
\* is poisoned.
Lock(c, s) ==
  /\ pc[c] = Awaiting(s)
  /\ holder[s] = Nobody
  /\ IF s \in poisoned
     THEN Refuse(c) /\ UNCHANGED holder
     ELSE /\ holder' = [holder EXCEPT ![s] = c]
          /\ Goto(c, s)
          /\ UNCHANGED <<request, hidden, generated, logits>>
  /\ UNCHANGED poisoned

\* Mutant: the hidden states stay with the session that all requests share.
RunEncoderInPlace(c) ==
  /\ pc[c] = "encoder"
  /\ \/ /\ hidden' = [d \in Callers |-> Source(prompt[c])]
        /\ Goto(c, "await decoder")
        /\ UNCHANGED <<request, generated, logits>>
     \/ Refuse(c)
  /\ Unlock("encoder")
  /\ UNCHANGED poisoned

\* OrtEngine::run_encoder and the end of its lock; its output is copied.
RunEncoder(c) ==
  /\ pc[c] = "encoder"
  /\ \/ /\ hidden' = [hidden EXCEPT ![c] = Source(prompt[c])]
        /\ Goto(c, "await decoder")
        /\ UNCHANGED <<request, generated, logits>>
     \/ Refuse(c)
  /\ Unlock("encoder")
  /\ UNCHANGED poisoned

\* Mutant: the logits are read out of the session after its lock.
RunDecoderInPlace(c) ==
  /\ pc[c] = "decoder"
  /\ \/ /\ logits' = [d \in Callers |->
                        Best(hidden[c], Seed(prompt[c]) \o generated[c])]
        /\ Goto(c, "accept")
        /\ UNCHANGED <<request, hidden, generated>>
     \/ Refuse(c)
  /\ Unlock("decoder")
  /\ UNCHANGED poisoned

\* OrtEngine::run_decoder on the whole history and the end of its lock; the
\* logits are copied.
RunDecoder(c) ==
  /\ pc[c] = "decoder"
  /\ \/ /\ logits' = [logits EXCEPT ![c] =
                        Best(hidden[c], Seed(prompt[c]) \o generated[c])]
        /\ Goto(c, "accept")
        /\ UNCHANGED <<request, hidden, generated>>
     \/ Refuse(c)
  /\ Unlock("decoder")
  /\ UNCHANGED poisoned

\* A panic inside a session unwinds through the guard.
Panic(c) ==
  \E s \in Slots :
    /\ pc[c] = s
    /\ Return(c, "panic", <<>>)
    /\ Unlock(s)
    /\ poisoned' = poisoned \cup {s}

\* Mutant: the budget is checked before the token is pushed.
AcceptLate(c) ==
  /\ pc[c] = "accept"
  /\ IF logits[c] = NoToken
     THEN Refuse(c)
     ELSE /\ generated' = [generated EXCEPT ![c] = Append(@, logits[c])]
          /\ Goto(c, IF logits[c] = Eos \/ Len(generated[c]) >= MaxNewTokens
                     THEN "decode" ELSE "await decoder")
          /\ UNCHANGED <<request, hidden, logits>>
  /\ UNCHANGED slots

\* Mutant: only the budget ends the loop.
AcceptThroughEos(c) ==
  /\ pc[c] = "accept"
  /\ IF logits[c] = NoToken
     THEN Refuse(c)
     ELSE /\ generated' = [generated EXCEPT ![c] = Append(@, logits[c])]
          /\ Goto(c, IF Len(generated'[c]) >= MaxNewTokens
                     THEN "decode" ELSE "await decoder")
          /\ UNCHANGED <<request, hidden, logits>>
  /\ UNCHANGED slots

\* OrtGenerationStep::accept_decoder_output: the end token is pushed as well.
Accept(c) ==
  /\ pc[c] = "accept"
  /\ IF logits[c] = NoToken
     THEN Refuse(c)
     ELSE /\ generated' = [generated EXCEPT ![c] = Append(@, logits[c])]
          /\ Goto(c, IF logits[c] = Eos \/ Len(generated'[c]) >= MaxNewTokens
                     THEN "decode" ELSE "await decoder")
          /\ UNCHANGED <<request, hidden, logits>>
  /\ UNCHANGED slots

\* TokenSequence::new of the generated tokens, then HfTokenizer::decode.
Decode(c) ==
  /\ pc[c] = "decode"
  /\ \/ /\ ValidSequence(generated[c])
        /\ Readable(Visible(generated[c]))
        /\ Return(c, "ok", Visible(generated[c]))
     \/ Refuse(c)
  /\ UNCHANGED slots

Continue(c) ==
  \/ Encode(c)
  \/ \E s \in Slots : Lock(c, s)
  \/ RunEncoder(c)
  \/ RunDecoder(c)
  \/ Accept(c)
  \/ Decode(c)

Next ==
  \E c \in Callers : (\E p \in Prompts : Ask(c, p)) \/ Continue(c) \/ Panic(c)

Spec == Init /\ [][Next]_vars

\* A call that can go on does: no thread is suspended for ever and every
\* session run returns.
FairSpec == Spec /\ \A c \in Callers : WF_vars(Continue(c))

-------------------------------------------------------------------------------
\* Properties.

\* Whatever runs in between on the shared sessions, the next token of a request
\* is chosen from the encoder output of its own text and from its own seed and
\* tokens so far: decoder_input_ids is "the decoder seed followed by accepted
\* generated token ids" (lib.rs:711).
OwnStateDecoded ==
  \A c \in Callers :
    /\ pc[c] \in {"await decoder", "decoder", "accept", "decode"} =>
         hidden[c] = Source(prompt[c])
    /\ pc[c] = "accept" =>
         logits[c] = Best(Source(prompt[c]), Seed(prompt[c]) \o generated[c])

\* Greedy generation is a function of the request: two callers that were
\* answered the same request got the same text, however their runs interleaved.
SameRequestSameAnswer ==
  \A c, d \in Callers :
    prompt[c] = prompt[d] /\ status[c] = "ok" /\ status[d] = "ok" =>
      text[c] = text[d]

\* Nobody is ever inside a session after a panic left it half way, and a slot
\* is held only by the one call that runs in it: with_mut runs "only when the
\* mutable session lock is available" (lib.rs:1465).
PoisonedSessionUnused ==
  \A s \in Slots :
    /\ s \in poisoned => holder[s] = Nobody
    /\ \A c \in Callers : pc[c] = s <=> holder[s] = c

\* The generated tokens always make a TokenSequence: a validated configuration
\* never spends a whole generation to fail at its end.
GeneratedFits ==
  \A c \in Callers : pc[c] = "decode" => ValidSequence(generated[c])

\* Callers that share a translator get answers as if each had it alone.
ImplementsSerial == Serial!Spec

\* Callers stop asking at some point: the mutexes are not fair.
RequestsEnd == <>[][\A c \in Callers : \A p \in Prompts : ~Ask(c, p)]_vars

\* Every request is answered: no refusal keeps a slot, a poisoned slot answers
\* instead of blocking, and the loop ends.
EveryRequestAnswered ==
  RequestsEnd => \A c \in Callers : status[c] = "asked" ~> status[c] # "asked"

===============================================================================
