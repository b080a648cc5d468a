----------------------------- MODULE OrtTensors -----------------------------
(***************************************************************************)
(* The arithmetic between tokens and tensors in localmt-engine-ort: what   *)
(* goes into a run, which row of the logits answers it and which token     *)
(* that row selects, and how many threads a session gets.                  *)
(*                                                                         *)
(* A score is an integer or NonFinite; only its order matters.  A float    *)
(* tensor is its shape and its values.  Sizes are usize, up to USIZE_MAX.  *)
(***************************************************************************)
EXTENDS GenerationConfig, Integers

CONSTANT USIZE_MAX

(* OrtGenerationInputs::from_tokenizer_output: the decoder starts with the *)
(* start token, if the config has one, then the token of the target.       *)
GenerationInputs(tokens, target, config) ==
  [encoder_input_ids |-> tokens,
   encoder_attention_mask |-> [i \in DOMAIN tokens |-> 1],
   decoder_input_ids |->
     (IF config.decoder_start_token_id = None THEN <<>>
      ELSE <<config.decoder_start_token_id>>) \o <<config.language_tokens[target]>>,
   max_new_tokens |-> config.max_new_tokens,
   eos_token_id |-> config.eos_token_id]

Row(values) == [shape |-> <<1, Len(values)>>, values |-> values]

(* The tensors of one decoder run: the encoder's side of the request and   *)
(* everything the decoder has been fed so far.                             *)
TensorInputs(inputs, decoderIds) ==
  [encoder_input_ids |-> Row(inputs.encoder_input_ids),
   encoder_attention_mask |-> Row(inputs.encoder_attention_mask),
   decoder_input_ids |-> Row(decoderIds)]

----------------------------------------------------------------------------
(* An output tensor of the runtime: dimensions are i64 there.              *)
FromOrtTensor(shape, values) ==
  Checked(<< <<\E i \in DOMAIN shape : shape[i] < 0, "InvalidOutputShape">> >>,
          [shape |-> shape, values |-> values])

(* checked_mul: refused before the product wraps.                          *)
Overflows(a, b) == a * b > USIZE_MAX
ElementCountOverflow(batch, sequence, vocabulary) ==
  Overflows(batch, sequence) \/ Overflows(batch * sequence, vocabulary)

LogitsShapeChecks(batch, sequence, vocabulary, actual) ==
  << <<batch # 1, "InvalidBatch">>,
     <<sequence = 0, "EmptySequence">>,
     <<vocabulary = 0, "EmptyVocabulary">>,
     <<ElementCountOverflow(batch, sequence, vocabulary), "ElementCountOverflow">>,
     <<batch * sequence * vocabulary # actual, "ElementCountMismatch">> >>

(* The values of the last position.                                        *)
FinalTokenLogits(output) ==
  IF Len(output.shape) # 3 THEN Err("InvalidRank")
  ELSE LET sequence == output.shape[2]
           vocabulary == output.shape[3]
           start == (sequence - 1) * vocabulary
       IN Checked(LogitsShapeChecks(output.shape[1], sequence, vocabulary,
                                    Len(output.values)),
                  SubSeq(output.values, start + 1, start + vocabulary))

(* Mutant of Best: of equal scores the last one wins.                      *)
BestLast(logits) ==
  LET best[n \in 0 .. Len(logits)] ==
        IF n = 0 THEN 0
        ELSE IF best[n - 1] = 0 \/ logits[n] >= logits[best[n - 1]] THEN n ELSE best[n - 1]
  IN best[Len(logits)]

(* select_argmax: a single pass that keeps the best so far; 0 is no best.  *)
Best(logits) ==
  LET best[n \in 0 .. Len(logits)] ==
        IF n = 0 THEN 0
        ELSE IF best[n - 1] = 0 \/ logits[n] > logits[best[n - 1]] THEN n ELSE best[n - 1]
  IN best[Len(logits)]
SelectArgmax(logits) ==
  IF \E i \in DOMAIN logits : logits[i] = NonFinite THEN Err("NonFiniteLogit")
  ELSE IF logits = <<>> THEN Err("EmptyLogits")
  ELSE Checked(<< <<Best(logits) - 1 \notin TokenId, "VocabularyIndexTooLarge">> >>,
               Best(logits) - 1)

SelectNextToken(output) ==
  LET logits == FinalTokenLogits(output) IN
  IF logits.ok THEN SelectArgmax(logits.value) ELSE logits

(* The next token is the first of the highest scores of the last position, *)
(* and there is one if and only if the tensor is one batch of at least one *)
(* position over a vocabulary, its scores are finite and the token exists. *)
FirstMaximum(row, k) ==
  \A j \in DOMAIN row : row[j] <= row[k] /\ (j < k => row[j] < row[k])
SelectsFirstMaximum(output) ==
  LET answer == SelectNextToken(output)
      shape == output.shape
      len == Len(output.values)
      wellShaped == /\ Len(shape) = 3 /\ shape[1] = 1 /\ shape[2] > 0 /\ shape[3] > 0
                    /\ shape[2] * shape[3] = len
      row == SubSeq(output.values, len - shape[3] + 1, len)
      finite == \A i \in DOMAIN row : row[i] # NonFinite
  IN /\ answer.ok <=> /\ wellShaped /\ finite
                      /\ \E k \in DOMAIN row : FirstMaximum(row, k) /\ k - 1 \in TokenId
     /\ answer.ok => FirstMaximum(row, answer.value + 1)

----------------------------------------------------------------------------
ORT_THREAD_CAP == 4
CappedOrtThreads(available) ==
  IF available < 1 THEN 1 ELSE IF available > ORT_THREAD_CAP THEN ORT_THREAD_CAP ELSE available

(* XNNPACK brings a pool of its own; ONNX Runtime then keeps to one thread.*)
ThreadingPolicy(available, xnnpack) ==
  [intra |-> IF xnnpack THEN 1 ELSE CappedOrtThreads(available), inter |-> 1,
   xnnpack |-> IF xnnpack THEN CappedOrtThreads(available) ELSE None]
=============================================================================
