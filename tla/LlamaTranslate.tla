---------------------------- MODULE LlamaTranslate ----------------------------
(***************************************************************************)
(* LlamaTranslator::translate on a loaded translator that several threads  *)
(* share: the mutex around the model context, the KV memory that outlives  *)
(* a request, the generation window, and the decode loop with its token    *)
(* batch, its output and its piece buffer.                                 *)
(*                                                                         *)
(* llama.cpp is external.  Every call into it may refuse; its sampling is  *)
(* any token the model allows for what encoder and decoder have read.      *)
(***************************************************************************)
EXTENDS Integers, Sequences

CONSTANTS
  Callers, Tokens, Eog, Sampleable(_, _), Readable(_), \* as in SerialTranslator
  Prompts,       \* tokenised prompts: non-empty sequences of tokens
  StartToken,    \* what the decoder of an encoder-decoder model starts with
  HasEncoder,    \* the loaded model has an encoder
  MaxOutput,     \* LlamaRuntimeConfig::max_output_tokens
  NoCaller,      \* the model context mutex is free
  Context,       \* LlamaRuntimeConfig::context_tokens, also n_batch
  PieceLen(_),   \* bytes of a token's piece
  FirstPiece,    \* TOKEN_PIECE_BUFFER_BYTES
  MaxPiece       \* MAX_TOKEN_PIECE_BUFFER_BYTES

ASSUME TranslateAssumption ==
  /\ NoCaller \notin Callers
  /\ Prompts \subseteq Seq(Tokens) \ {<<>>}
  /\ Eog \subseteq Tokens
  /\ StartToken \in Tokens
  /\ HasEncoder \in BOOLEAN
  /\ MaxOutput \in Nat \ {0}
  /\ Context \in Nat \ {0}
  /\ \A t \in Tokens : PieceLen(t) \in Nat
  /\ FirstPiece \in Nat \ {0}
  /\ MaxPiece \in Nat

\* What the context has room for.
Windows == UNION {[1..n -> Tokens] : n \in 0..Context}

ASSUME SampleableAssumption ==
  \A e \in Prompts \cup {<<>>} : \A w \in Windows : Sampleable(e, w) \subseteq Tokens

VARIABLES
  prompt,      \* each caller's latest request
  status,      \* its outcome
  text,        \* the tokens of the translation, when the outcome is "ok"
  pc,          \* where each caller is in translate_prompt
  lockHolder,  \* the caller inside the model context mutex
  encoded,     \* what the encoder has read: memory_clear leaves it alone
  kv,          \* what the decoder has read: the KV memory of the context
  batch,       \* current_tokens, viewed by the next batch
  out,         \* tokens whose pieces are in `output'
  pieceCap     \* length of piece_buffer

vars == <<prompt, status, text, pc, lockHolder, encoded, kv, batch, out,
          pieceCap>>

\* The encoder reads the whole prompt, or the decoder does.
EncoderInput(p) == IF HasEncoder THEN p ELSE <<>>
DecoderInput(p) == IF HasEncoder THEN <<StartToken>> ELSE p

\* The promise; its variables are the first three of this module.
Serial == INSTANCE SerialTranslator WITH NoPrompt <- <<>>

-------------------------------------------------------------------------------
Running == {"clear", "tokenize", "sampler", "encode", "decode", "sample",
            "append", "finish"}

TypeOK ==
  /\ Serial!TypeOK
  /\ pc \in [Callers -> {"idle", "lock"} \cup Running]
  /\ lockHolder \in Callers \cup {NoCaller}
  /\ encoded \in Prompts \cup {<<>>}
  /\ kv \in Seq(Tokens)
  /\ batch \in [Callers -> Seq(Tokens)]
  /\ out \in [Callers -> Seq(Tokens \ Eog)]
  /\ pieceCap \in [Callers -> FirstPiece..(IF FirstPiece > MaxPiece
                                           THEN FirstPiece ELSE MaxPiece)]

Init ==
  /\ Serial!Init
  /\ pc = [c \in Callers |-> "idle"]
  /\ lockHolder = NoCaller
  /\ encoded = <<>>
  /\ kv = <<>>
  /\ batch = [c \in Callers |-> <<>>]
  /\ out = [c \in Callers |-> <<>>]
  /\ pieceCap = [c \in Callers |-> FirstPiece]

-------------------------------------------------------------------------------
\* Helpers.

locals == <<batch, out, pieceCap>>
memory == <<encoded, kv>>
request == <<prompt, status, text>>

Goto(c, to) == pc' = [pc EXCEPT ![c] = to]

\* translate_prompt returns or unwinds: its locals, the sampler chain among
\* them, are dropped, then the guard.  A poisoned mutex is recovered, so an
\* unwinding caller frees it like any other.
Return(c, outcome, tokens) ==
  /\ status' = [status EXCEPT ![c] = outcome]
  /\ text' = [text EXCEPT ![c] = tokens]
  /\ batch' = [batch EXCEPT ![c] = <<>>]
  /\ out' = [out EXCEPT ![c] = <<>>]
  /\ pieceCap' = [pieceCap EXCEPT ![c] = FirstPiece]
  /\ lockHolder' = NoCaller
  /\ Goto(c, "idle")
  /\ UNCHANGED prompt

Refuse(c) == Return(c, "error", <<>>)

\* Mutant: the budget is not taken off the window.
FitsWindowAtStart(prompt_tokens) == prompt_tokens <= Context

\* validate_generation_window: the last token put out is never decoded.
FitsWindow(prompt_tokens) == prompt_tokens + MaxOutput - 1 <= Context

\* token_piece_retry_capacity, when a piece of `needed' bytes did not fit.
RetryCapacity(needed, capacity) ==
  IF needed > 2 * capacity THEN needed ELSE 2 * capacity

\* append_token_piece: the piece fits the buffer, or the retry may grow it.
PieceAccepted(needed, capacity) ==
  needed <= capacity \/ RetryCapacity(needed, capacity) <= MaxPiece

-------------------------------------------------------------------------------
\* translate_with_llama.

Ask(c, p) ==
  /\ Serial!Ask(c, p)
  /\ Goto(c, "lock")
  /\ UNCHANGED <<lockHolder, memory, locals>>

Lock(c) ==
  /\ pc[c] = "lock"
  /\ lockHolder = NoCaller
  /\ lockHolder' = c
  /\ Goto(c, "clear")
  /\ UNCHANGED <<request, memory, locals>>

\* Mutant: the memory is cleared only for a context that was never used.
ClearMemoryOnce(c) ==
  /\ pc[c] = "clear"
  /\ Goto(c, "tokenize")
  /\ UNCHANGED <<request, lockHolder, memory, locals>>

\* A context without a memory refuses; otherwise the KV memory is emptied.
ClearMemory(c) ==
  /\ pc[c] = "clear"
  /\ \/ /\ kv' = <<>>
        /\ Goto(c, "tokenize")
        /\ UNCHANGED <<request, lockHolder, encoded, locals>>
     \/ Refuse(c) /\ UNCHANGED memory

\* The two passes of llama_tokenize, then the window check.
Tokenize(c) ==
  /\ pc[c] = "tokenize"
  /\ \/ /\ FitsWindow(Len(prompt[c]))
        /\ batch' = [batch EXCEPT ![c] = prompt[c]]
        /\ Goto(c, "sampler")
        /\ UNCHANGED <<request, lockHolder, out, pieceCap>>
     \/ Refuse(c)
  /\ UNCHANGED memory

\* A null chain or a null stage refuses; a chain built so far is freed.
NewSampler(c) ==
  /\ pc[c] = "sampler"
  /\ \/ /\ Goto(c, IF HasEncoder THEN "encode" ELSE "decode")
        /\ UNCHANGED <<request, lockHolder, locals>>
     \/ Refuse(c)
  /\ UNCHANGED memory

\* Mutant: the decoder gets the prompt after the encoder has read it.
EncodeKeepingPrompt(c) ==
  /\ pc[c] = "encode"
  /\ \/ /\ encoded' = batch[c]
        /\ Goto(c, "decode")
        /\ UNCHANGED <<request, lockHolder, kv, locals>>
     \/ Refuse(c) /\ UNCHANGED memory

\* The encoder reads the prompt, the decoder starts from its start token.
Encode(c) ==
  /\ pc[c] = "encode"
  /\ \/ /\ encoded' = batch[c]
        /\ batch' = [batch EXCEPT ![c] = <<StartToken>>]
        /\ Goto(c, "decode")
        /\ UNCHANGED <<request, lockHolder, kv, out, pieceCap>>
     \/ Refuse(c) /\ UNCHANGED memory

\* llama_decode appends the batch to the memory.  It may refuse, with the
\* batch in the memory or not, and must when there is no room.
Decode(c) ==
  /\ pc[c] = "decode"
  /\ \/ /\ Len(kv) + Len(batch[c]) <= Context
        /\ kv' = kv \o batch[c]
        /\ Goto(c, "sample")
        /\ UNCHANGED <<request, lockHolder, encoded, locals>>
     \/ /\ kv' \in {kv, kv \o batch[c]}
        /\ Refuse(c)
        /\ UNCHANGED encoded

\* Mutant: the batch is built once, before the loop.
SampleKeepingBatch(c) ==
  /\ pc[c] = "sample"
  /\ \E t \in Sampleable(encoded, kv) :
       IF t \in Eog
       THEN Goto(c, "finish") /\ UNCHANGED batch
       ELSE Goto(c, "append") /\ batch' = [batch EXCEPT ![c] = <<t>> \o Tail(@)]
  /\ UNCHANGED <<request, lockHolder, memory, out, pieceCap>>

\* Mutant: the end-of-generation check is missing.
SampleThroughEog(c) ==
  /\ pc[c] = "sample"
  /\ \E t \in Sampleable(encoded, kv) :
       Goto(c, "append") /\ batch' = [batch EXCEPT ![c] = <<t>>]
  /\ UNCHANGED <<request, lockHolder, memory, out, pieceCap>>

\* sample_next and accept; the token becomes the next batch unless it ends the
\* generation.
Sample(c) ==
  /\ pc[c] = "sample"
  /\ \E t \in Sampleable(encoded, kv) :
       IF t \in Eog
       THEN Goto(c, "finish") /\ UNCHANGED batch
       ELSE Goto(c, "append") /\ batch' = [batch EXCEPT ![c] = <<t>>]
  /\ UNCHANGED <<request, lockHolder, memory, out, pieceCap>>

\* Mutant: at the limit the buffer is tried again as it is.
AppendPieceRetrying(c) ==
  LET needed == PieceLen(batch[c][1])
      cap == pieceCap[c]
  IN /\ pc[c] = "append"
     /\ PieceAccepted(needed, cap)
     /\ out' = [out EXCEPT ![c] = Append(@, batch[c][1])]
     /\ pieceCap' = [pieceCap EXCEPT ![c] =
          IF needed <= cap THEN cap ELSE RetryCapacity(needed, cap)]
     /\ Goto(c, IF Len(out'[c]) < MaxOutput THEN "decode" ELSE "finish")
     /\ UNCHANGED <<request, lockHolder, memory, batch>>

\* append_token_piece; the loop ends with the last token of the budget.
AppendPiece(c) ==
  LET needed == PieceLen(batch[c][1])
      cap == pieceCap[c]
  IN /\ pc[c] = "append"
     /\ IF PieceAccepted(needed, cap)
        THEN /\ out' = [out EXCEPT ![c] = Append(@, batch[c][1])]
             /\ pieceCap' = [pieceCap EXCEPT ![c] =
                  IF needed <= cap THEN cap ELSE RetryCapacity(needed, cap)]
             /\ Goto(c, IF Len(out'[c]) < MaxOutput THEN "decode" ELSE "finish")
             /\ UNCHANGED <<request, lockHolder, batch>>
        ELSE Refuse(c)
     /\ UNCHANGED memory

\* A written length beyond the buffer panics in the slice.
Unwind(c) ==
  /\ pc[c] = "append"
  /\ Return(c, "panic", <<>>)
  /\ UNCHANGED memory

\* translation_from_llama_bytes.
Finish(c) ==
  /\ pc[c] = "finish"
  /\ IF Readable(out[c]) THEN Return(c, "ok", out[c]) ELSE Refuse(c)
  /\ UNCHANGED memory

Continue(c) ==
  \/ Lock(c)
  \/ ClearMemory(c)
  \/ Tokenize(c)
  \/ NewSampler(c)
  \/ Encode(c)
  \/ Decode(c)
  \/ Sample(c)
  \/ AppendPiece(c)
  \/ Finish(c)

Next ==
  \E c \in Callers : (\E p \in Prompts : Ask(c, p)) \/ Continue(c) \/ Unwind(c)

Spec == Init /\ [][Next]_vars

\* A call that can go on does: no thread is suspended for ever and every call
\* into llama.cpp returns.
FairSpec == Spec /\ \A c \in Callers : WF_vars(Continue(c))

-------------------------------------------------------------------------------
\* Properties.

\* What the encoder and the decoder must have read when the next token is
\* sampled for c.
OwnInput(c) ==
  /\ EncoderInput(prompt[c]) = encoded
  /\ kv = DecoderInput(prompt[c]) \o out[c]

\* Every token is sampled from the request's own prompt and its own output so
\* far, each token read exactly once and in order, although the KV memory and
\* the encoder output outlive the request and other requests fail half way:
\* clear_memory leaves memory empty "for the next request" (lib.rs:1107-1109).
SampledFromOwnInput ==
  \A c \in Callers : pc[c] = "sample" => lockHolder = c /\ OwnInput(c)

\* No decode runs out of context and no batch exceeds n_batch: the window check
\* before the first token is enough for the whole loop.
WindowIsEnough ==
  \A c \in Callers :
    /\ pc[c] = "decode" => Len(kv) + Len(batch[c]) <= Context
    /\ pc[c] = "encode" => Len(batch[c]) <= Context

\* Callers that share a translator get answers as if each had it alone.
ImplementsSerial == Serial!Spec

\* The piece buffer refuses only a piece beyond its limit: "llama.cpp token
\* text exceeds localmt buffer limit" (lib.rs:1653).
OnlyLongPiecesRefused ==
  \A c \in Callers :
    pc[c] = "append" /\ PieceLen(batch[c][1]) <= MaxPiece =>
      PieceAccepted(PieceLen(batch[c][1]), pieceCap[c])

\* Callers stop asking at some point: the mutex of the standard library is not
\* fair, and an endless stream of other requests may keep it.
RequestsEnd == <>[][\A c \in Callers : \A p \in Prompts : ~Ask(c, p)]_vars

\* Every request is answered: no refusal, empty output or panic keeps the
\* mutex, and the decode and retry loops end.
EveryRequestAnswered ==
  RequestsEnd => \A c \in Callers : status[c] = "asked" ~> status[c] # "asked"

===============================================================================
