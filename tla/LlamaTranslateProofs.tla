------------------------- MODULE LlamaTranslateProofs -------------------------
(***************************************************************************)
(* The safety properties of LlamaTranslate, and that it implements         *)
(* SerialTranslator, for every set of callers, every model and every       *)
(* window.                                                                 *)
(***************************************************************************)
EXTENDS LlamaTranslate, SequenceTheorems, TLAPS

\* The mutex is held exactly by the caller inside translate_prompt.
LockInv == \A c \in Callers : pc[c] \in Running <=> lockHolder = c

\* A request is open exactly while its caller is in the call; only a running
\* call has output.
RequestInv ==
  \A c \in Callers :
    /\ status[c] = "asked" <=> pc[c] # "idle"
    /\ status[c] = "asked" => prompt[c] \in Prompts /\ text[c] = <<>>
    /\ pc[c] \notin Running => out[c] = <<>>

\* Without an encoder nothing is ever encoded.
EncoderInv ==
  /\ ~HasEncoder => encoded = <<>>
  /\ \A c \in Callers : pc[c] = "encode" => HasEncoder

\* Every token put out so far was allowed after the ones before it.
Generated(p, o) ==
  \A i \in 1..Len(o) : o[i] \in Serial!Continues(p, SubSeq(o, 1, i - 1)) \ Eog

\* The budget is spent, or the model allows the generation to end here.
MayFinish(p, o) ==
  Len(o) = MaxOutput \/ Serial!Continues(p, o) \cap Eog # {}

\* What the running caller has done, phase by phase.
Prepared(c) ==
  /\ pc[c] \in {"clear", "tokenize", "sampler", "encode"} => out[c] = <<>>
  /\ pc[c] \in {"tokenize", "sampler", "encode"} => kv = <<>>
  /\ pc[c] \in {"sampler", "encode"} => batch[c] = prompt[c]
  /\ pc[c] \notin {"clear", "tokenize"} => FitsWindow(Len(prompt[c]))

Decoding(c) ==
  /\ pc[c] \in {"decode", "sample", "append"} =>
       /\ encoded = EncoderInput(prompt[c])
       /\ Len(out[c]) < MaxOutput
  /\ pc[c] = "decode" =>
       kv \o batch[c] = DecoderInput(prompt[c]) \o out[c]
  /\ pc[c] \in {"sample", "append"} =>
       kv = DecoderInput(prompt[c]) \o out[c]
  /\ pc[c] = "append" =>
       \E t \in Serial!Continues(prompt[c], out[c]) \ Eog :
         t \in Tokens /\ batch[c] = <<t>>

Output(c) ==
  /\ Len(out[c]) <= MaxOutput
  /\ Generated(prompt[c], out[c])
  /\ pc[c] = "finish" => MayFinish(prompt[c], out[c])

PhaseInv(c) == Prepared(c) /\ Decoding(c) /\ Output(c)

IInv ==
  /\ TypeOK
  /\ LockInv
  /\ RequestInv
  /\ EncoderInv
  /\ \A c \in Callers : pc[c] \in Running => PhaseInv(c)

-------------------------------------------------------------------------------
\* Sequences.

\* What is read and put out grows at the end.
LEMMA TokensGrow ==
  \A u, o \in Seq(Tokens), x \in Tokens :
    (u \o o) \o <<x>> = u \o Append(o, x)
<1> TAKE u, o \in Seq(Tokens), x \in Tokens
<1>1. Append(o, x) = o \o <<x>> /\ <<x>> \in Seq(Tokens)
  BY AppendIsConcat
<1>2. (u \o o) \o <<x>> = u \o (o \o <<x>>)
  BY <1>1, ConcatAssociative
<1> QED BY <1>1, <1>2

\* The prefixes of a sequence are kept when it grows.
LEMMA Prefixes ==
  ASSUME NEW S, NEW o \in Seq(S), NEW t \in S,
         NEW i \in 1..(Len(o) + 1)
  PROVE  SubSeq(Append(o, t), 1, i - 1) = SubSeq(o, 1, i - 1)
<1>1. CASE i = 1
  <2>1. SubSeq(Append(o, t), 1, 0) = << >> /\ SubSeq(o, 1, 0) = << >>
    BY SubSeqEmpty
  <2> QED BY <1>1, <2>1
<1>2. CASE i # 1
  <2>1. Append(o, t) = o \o <<t>> /\ <<t>> \in Seq(S)
    BY AppendIsConcat
  <2>2. 1 \in 1..Len(o) /\ i - 1 \in 1..Len(o)
    BY <1>2, LenProperties
  <2> QED BY <2>1, <2>2, SubSeqOfConcat1
<1> QED BY <1>1, <1>2

\* A token the model allows continues a generation.
LEMMA GeneratedAppend ==
  ASSUME NEW p, NEW o \in Seq(Tokens), NEW t \in Tokens, Generated(p, o),
         t \in Serial!Continues(p, o) \ Eog
  PROVE  Generated(p, Append(o, t))
<1> SUFFICES ASSUME NEW i \in 1..Len(Append(o, t))
             PROVE  Append(o, t)[i] \in
                      Serial!Continues(p, SubSeq(Append(o, t), 1, i - 1)) \ Eog
  BY DEF Generated
<1>1. Len(o) \in Nat /\ Len(Append(o, t)) = Len(o) + 1
  BY AppendProperties, LenProperties
<1>2. SubSeq(Append(o, t), 1, i - 1) = SubSeq(o, 1, i - 1)
  BY <1>1, Prefixes
<1>3. CASE i = Len(o) + 1
  <2>1. Append(o, t)[i] = t
    BY <1>3, AppendProperties
  <2>2. SubSeq(o, 1, i - 1) = o
    BY <1>1, <1>3, SubSeqFull
  <2> QED BY <1>2, <2>1, <2>2
<1>4. CASE i # Len(o) + 1
  <2>1. i \in 1..Len(o)
    BY <1>1, <1>4
  <2>2. Append(o, t)[i] = o[i]
    BY <2>1, AppendProperties
  <2>3. o[i] \in Serial!Continues(p, SubSeq(o, 1, i - 1)) \ Eog
    BY <2>1 DEF Generated
  <2> QED BY <1>2, <2>2, <2>3
<1> QED BY <1>3, <1>4

\* A sequence no longer than the context is one the model has an answer for.
LEMMA WindowsComplete ==
  ASSUME NEW w \in Seq(Tokens), Len(w) <= Context
  PROVE  w \in Windows
<1>1. Len(w) \in 0..Context /\ w \in [1..Len(w) -> Tokens]
  BY LenProperties, TranslateAssumption
<1> QED BY <1>1 DEF Windows

\* The encoder and the decoder are fed tokens, no more of them than the prompt.
LEMMA Inputs ==
  ASSUME NEW p \in Prompts
  PROVE  /\ p \in Seq(Tokens) /\ Len(p) \in Nat \ {0}
         /\ EncoderInput(p) \in Prompts \cup {<<>>}
         /\ DecoderInput(p) \in Seq(Tokens)
         /\ Len(DecoderInput(p)) <= Len(p)
<1>1. p \in Seq(Tokens) /\ Len(p) \in Nat \ {0}
  BY TranslateAssumption, EmptySeq
<1>2. <<StartToken>> \in Seq(Tokens) /\ Len(<<StartToken>>) = 1
  BY TranslateAssumption
<1> QED BY <1>1, <1>2 DEF EncoderInput, DecoderInput

-------------------------------------------------------------------------------
\* The mutex protects the memory.

\* What a step leaves to a caller that does not take it.
Spared(d) ==
  /\ pc'[d] = pc[d]
  /\ prompt'[d] = prompt[d]
  /\ status'[d] = status[d]
  /\ text'[d] = text[d]
  /\ batch'[d] = batch[d]
  /\ out'[d] = out[d]

\* A running caller's phase facts outlast a step that spares it and the memory.
LEMMA SparedPhase ==
  ASSUME NEW d \in Callers, PhaseInv(d), Spared(d), UNCHANGED memory
  PROVE  PhaseInv(d)'
<1> USE DEF Spared, memory
<1>1. Prepared(d)'
  BY DEF PhaseInv, Prepared, FitsWindow
<1>2. Decoding(d)'
  <2>1. Decoding(d)
    BY DEF PhaseInv
  <2> QED BY <2>1 DEF Decoding, EncoderInput, DecoderInput,
            Serial!Continues
<1>3. Output(d)'
  BY DEF PhaseInv, Output, Generated, MayFinish, Serial!Continues,
     EncoderInput, DecoderInput
<1> QED BY <1>1, <1>2, <1>3 DEF PhaseInv

\* A step of c keeps the invariant if it keeps c's own part of it, spares the
\* others, and touches the memory only from inside the mutex.
LEMMA StepKeepsInv ==
  ASSUME IInv, NEW c \in Callers,
         TypeOK',
         \A d \in Callers \ {c} : Spared(d),
         UNCHANGED memory \/ pc[c] \in Running,
         \/ lockHolder' = lockHolder /\ (pc[c] \in Running <=> pc'[c] \in Running)
         \/ lockHolder = NoCaller /\ lockHolder' = c /\ pc'[c] \in Running
         \/ lockHolder = c /\ lockHolder' = NoCaller /\ pc'[c] \notin Running,
         status'[c] = "asked" <=> pc'[c] # "idle",
         status'[c] = "asked" => prompt'[c] \in Prompts /\ text'[c] = <<>>,
         pc'[c] \notin Running => out'[c] = <<>>,
         EncoderInv',
         pc'[c] \in Running => PhaseInv(c)'
  PROVE  IInv'
<1>1. LockInv'
  <2> SUFFICES ASSUME NEW d \in Callers
               PROVE  pc'[d] \in Running <=> lockHolder' = d
    BY DEF LockInv
  <2>1. pc[d] \in Running <=> lockHolder = d
    BY DEF IInv, LockInv
  <2>2. pc[c] \in Running <=> lockHolder = c
    BY DEF IInv, LockInv
  <2>3. NoCaller # d /\ NoCaller # c
    BY TranslateAssumption
  <2>4. CASE d = c
    BY <2>2, <2>3, <2>4
  <2>5. CASE d # c
    <3>1. pc'[d] = pc[d]
      BY <2>5 DEF Spared
    <3> QED BY <2>1, <2>2, <2>3, <2>5, <3>1
  <2> QED BY <2>4, <2>5
<1>2. RequestInv'
  <2> SUFFICES ASSUME NEW d \in Callers
               PROVE  /\ status'[d] = "asked" <=> pc'[d] # "idle"
                      /\ status'[d] = "asked" =>
                           prompt'[d] \in Prompts /\ text'[d] = <<>>
                      /\ pc'[d] \notin Running => out'[d] = <<>>
    BY DEF RequestInv
  <2>1. CASE d = c
    BY <2>1
  <2>2. CASE d # c
    <3>1. Spared(d)
      BY <2>2
    <3> QED BY <3>1 DEF Spared, IInv, RequestInv
  <2> QED BY <2>1, <2>2
<1>3. ASSUME NEW d \in Callers, pc'[d] \in Running
      PROVE  PhaseInv(d)'
  <2>1. CASE d = c
    BY <1>3, <2>1
  <2>2. CASE d # c
    <3>1. Spared(d)
      BY <2>2
    <3>2. pc[d] \in Running
      BY <1>3, <3>1 DEF Spared
    <3>3. pc[c] \notin Running
      BY <2>2, <3>2 DEF IInv, LockInv
    <3>4. PhaseInv(d)
      BY <3>2 DEF IInv
    <3> QED BY <3>1, <3>3, <3>4, SparedPhase
  <2> QED BY <2>1, <2>2
<1> QED BY <1>1, <1>2, <1>3 DEF IInv

-------------------------------------------------------------------------------
\* The invariant holds initially and every step keeps it.

LEMMA InitInv == Init => IInv
<1> SUFFICES ASSUME Init PROVE IInv
  OBVIOUS
<1>1. TypeOK
  BY TranslateAssumption DEF Init, TypeOK, Serial!Init, Serial!TypeOK, Running
<1>2. LockInv /\ RequestInv /\ EncoderInv
  BY TranslateAssumption
     DEF Init, Serial!Init, LockInv, RequestInv, EncoderInv, Running
<1>3. \A c \in Callers : pc[c] \notin Running
  BY DEF Init, Running
<1> QED BY <1>1, <1>2, <1>3 DEF IInv

\* A call that returns or unwinds leaves the mutex and its locals.
LEMMA ReturnKeepsInv ==
  ASSUME IInv, NEW c \in Callers, pc[c] \in Running,
         NEW outcome \in {"ok", "error", "panic"}, NEW tokens \in Seq(Tokens),
         Return(c, outcome, tokens),
         kv' \in Seq(Tokens), encoded' \in Prompts \cup {<<>>},
         ~HasEncoder => encoded' = <<>>
  PROVE  IInv'
<1> USE DEF Return, Goto
<1>1. TypeOK /\ EncoderInv /\ lockHolder = c
  BY DEF IInv, LockInv
<1>2. TypeOK'
  <2>1. Serial!TypeOK'
    BY <1>1 DEF TypeOK, Serial!TypeOK
  <2>2. <<>> \in Seq(Tokens) /\ <<>> \in Seq(Tokens \ Eog)
    OBVIOUS
  <2>3. FirstPiece \in FirstPiece..(IF FirstPiece > MaxPiece
                                    THEN FirstPiece ELSE MaxPiece)
    BY TranslateAssumption
  <2> QED BY <1>1, <2>1, <2>2, <2>3 DEF TypeOK
<1>3. /\ pc'[c] = "idle" /\ status'[c] = outcome /\ out'[c] = <<>>
      /\ \A d \in Callers \ {c} : Spared(d)
  BY <1>1 DEF TypeOK, Serial!TypeOK, Spared
<1>4. pc'[c] \notin Running
  BY <1>3 DEF Running
<1>5. EncoderInv'
  <2> SUFFICES ASSUME NEW d \in Callers, pc'[d] = "encode"
               PROVE  HasEncoder
    BY DEF EncoderInv
  <2> QED BY <1>1, <1>3 DEF EncoderInv, Spared
<1> QED BY <1>1, <1>2, <1>3, <1>4, <1>5, StepKeepsInv

\* A refusal that touches at most the KV memory.
LEMMA RefuseKeepsInv ==
  ASSUME IInv, NEW c \in Callers, pc[c] \in Running, Refuse(c),
         kv' \in Seq(Tokens), UNCHANGED encoded
  PROVE  IInv'
<1>1. encoded \in Prompts \cup {<<>>} /\ (~HasEncoder => encoded = <<>>)
  BY DEF IInv, TypeOK, EncoderInv
<1>2. <<>> \in Seq(Tokens)
  OBVIOUS
<1> QED BY <1>1, <1>2, ReturnKeepsInv DEF Refuse

LEMMA AskKeepsInv ==
  ASSUME IInv, NEW c \in Callers, NEW p \in Prompts, Ask(c, p)
  PROVE  IInv'
<1> USE DEF Ask, Serial!Ask, Goto, memory, locals
<1>1. TypeOK /\ pc[c] = "idle"
  BY DEF IInv, RequestInv
<1>2. TypeOK'
  <2>1. Serial!TypeOK'
    BY <1>1 DEF TypeOK, Serial!TypeOK
  <2> QED BY <1>1, <2>1 DEF TypeOK
<1>3. /\ pc'[c] = "lock" /\ status'[c] = "asked" /\ prompt'[c] = p
      /\ text'[c] = <<>> /\ out'[c] = out[c]
      /\ \A d \in Callers \ {c} : Spared(d)
  BY <1>1 DEF TypeOK, Serial!TypeOK, Spared
<1>4. pc[c] \notin Running /\ pc'[c] \notin Running
  BY <1>1, <1>3 DEF Running
<1>5. out[c] = <<>>
  BY <1>4 DEF IInv, RequestInv
<1>6. EncoderInv'
  BY <1>1, <1>3 DEF IInv, EncoderInv, TypeOK
<1> QED BY <1>2, <1>3, <1>4, <1>5, <1>6, StepKeepsInv

\* What a step inside the call has to show: the caller goes on to `to', still
\* inside the mutex, with the request as it was.
LEMMA GoOnKeepsInv ==
  ASSUME IInv, NEW c \in Callers, pc[c] \in Running,
         NEW to \in Running, Goto(c, to),
         UNCHANGED <<request, lockHolder>>,
         \A d \in Callers \ {c} : batch'[d] = batch[d] /\ out'[d] = out[d],
         kv' \in Seq(Tokens), encoded' \in Prompts \cup {<<>>},
         batch' \in [Callers -> Seq(Tokens)],
         out' \in [Callers -> Seq(Tokens \ Eog)],
         pieceCap' \in [Callers -> FirstPiece..(IF FirstPiece > MaxPiece
                                                THEN FirstPiece ELSE MaxPiece)],
         ~HasEncoder => encoded' = <<>>,
         to = "encode" => HasEncoder,
         PhaseInv(c)'
  PROVE  IInv'
<1> USE DEF Goto, request
<1>1. TypeOK
  BY DEF IInv
<1>2. TypeOK'
  <2>1. Serial!TypeOK'
    BY <1>1 DEF TypeOK, Serial!TypeOK
  <2> QED BY <1>1, <2>1 DEF TypeOK
<1>3. pc'[c] = to /\ \A d \in Callers \ {c} : Spared(d)
  BY <1>1 DEF TypeOK, Spared
<1>4. pc[c] # "idle" /\ pc'[c] # "idle"
  BY <1>3 DEF Running
<1>5. /\ status'[c] = "asked" <=> pc'[c] # "idle"
      /\ status'[c] = "asked" => prompt'[c] \in Prompts /\ text'[c] = <<>>
  BY <1>4 DEF IInv, RequestInv
<1>6. EncoderInv'
  BY <1>1, <1>3 DEF IInv, EncoderInv, TypeOK
<1> QED BY <1>2, <1>3, <1>5, <1>6, StepKeepsInv

\* The facts about a running caller that every action starts from.
LEMMA RunningFacts ==
  ASSUME IInv, NEW c \in Callers, pc[c] \in Running
  PROVE  /\ PhaseInv(c) /\ prompt[c] \in Prompts
         /\ batch \in [Callers -> Seq(Tokens)]
         /\ out \in [Callers -> Seq(Tokens \ Eog)]
         /\ pieceCap \in [Callers -> FirstPiece..(IF FirstPiece > MaxPiece
                                                  THEN FirstPiece ELSE MaxPiece)]
         /\ pc \in [Callers -> {"idle", "lock"} \cup Running]
         /\ kv \in Seq(Tokens) /\ encoded \in Prompts \cup {<<>>}
         /\ ~HasEncoder => encoded = <<>>
         /\ out[c] \in Seq(Tokens) /\ batch[c] \in Seq(Tokens)
         /\ Len(out[c]) \in Nat
<1>1. pc[c] # "idle"
  BY DEF Running
<1>2. prompt[c] \in Prompts
  BY <1>1 DEF IInv, RequestInv
<1>3. out[c] \in Seq(Tokens \ Eog)
  BY DEF IInv, TypeOK
<1>4. out[c] \in Seq(Tokens)
  BY <1>3, SeqMonotonic
<1> QED BY <1>2, <1>4, LenProperties DEF IInv, TypeOK, EncoderInv

LEMMA LockKeepsInv ==
  ASSUME IInv, NEW c \in Callers, Lock(c)
  PROVE  IInv'
<1> USE DEF Lock, Goto, request, memory, locals
<1>1. TypeOK /\ pc[c] \notin Running
  BY DEF IInv, Running
<1>2. pc'[c] = "clear" /\ "clear" \in Running /\ "clear" # "encode"
  BY <1>1 DEF TypeOK, Running
<1>3. TypeOK'
  <2>1. Serial!TypeOK'
    BY <1>1 DEF TypeOK, Serial!TypeOK
  <2> QED BY <1>1, <1>2, <2>1 DEF TypeOK
<1>4. \A d \in Callers \ {c} : Spared(d)
  BY <1>1 DEF TypeOK, Spared
<1>5. /\ status[c] = "asked" /\ prompt[c] \in Prompts /\ text[c] = <<>>
      /\ out[c] = <<>>
  BY <1>1 DEF IInv, RequestInv
<1>6. PhaseInv(c)'
  <2>1. Len(<<>>) = 0
    OBVIOUS
  <2> QED BY <1>2, <1>5, <2>1, TranslateAssumption
      DEF PhaseInv, Prepared, Decoding, Output, Generated
<1>7. EncoderInv'
  BY <1>1, <1>2 DEF IInv, EncoderInv, TypeOK
<1> QED BY <1>1, <1>2, <1>3, <1>4, <1>5, <1>6, <1>7, StepKeepsInv

LEMMA ClearMemoryKeepsInv ==
  ASSUME IInv, NEW c \in Callers, ClearMemory(c)
  PROVE  IInv'
<1> USE DEF request, locals, memory
<1>1. pc[c] = "clear" /\ pc[c] \in Running /\ "tokenize" \in Running
  BY DEF ClearMemory, Running
<1>2. CASE /\ kv' = <<>> /\ Goto(c, "tokenize")
           /\ UNCHANGED <<request, lockHolder, encoded, locals>>
  <2>1. pc'[c] = "tokenize"
    BY <1>1, <1>2, RunningFacts DEF Goto
  <2>2. PhaseInv(c)'
    BY <1>1, <1>2, <2>1, RunningFacts
       DEF PhaseInv, Prepared, Decoding, Output, Generated, Serial!Continues,
           EncoderInput, DecoderInput
  <2>3. kv' \in Seq(Tokens)
    BY <1>2
  <2> QED BY <1>1, <1>2, <2>2, <2>3, RunningFacts, GoOnKeepsInv
<1>3. CASE Refuse(c) /\ UNCHANGED memory
  BY <1>1, <1>3, RunningFacts, RefuseKeepsInv
<1> QED BY <1>2, <1>3 DEF ClearMemory

LEMMA TokenizeKeepsInv ==
  ASSUME IInv, NEW c \in Callers, Tokenize(c)
  PROVE  IInv'
<1> USE DEF request, locals, memory
<1>1. pc[c] = "tokenize" /\ pc[c] \in Running /\ "sampler" \in Running
  BY DEF Tokenize, Running
<1>2. CASE /\ FitsWindow(Len(prompt[c]))
           /\ batch' = [batch EXCEPT ![c] = prompt[c]]
           /\ Goto(c, "sampler")
           /\ UNCHANGED <<request, lockHolder, out, pieceCap, memory>>
  <2>1. pc'[c] = "sampler" /\ batch'[c] = prompt[c]
    BY <1>1, <1>2, RunningFacts DEF Goto
  <2>2. PhaseInv(c)'
    BY <1>1, <1>2, <2>1, RunningFacts
       DEF PhaseInv, Prepared, Decoding, Output, Generated, Serial!Continues,
           EncoderInput, DecoderInput, FitsWindow
  <2>3. prompt[c] \in Seq(Tokens)
    BY <1>1, RunningFacts, Inputs
  <2>4. batch' \in [Callers -> Seq(Tokens)]
    BY <1>1, <1>2, <2>3, RunningFacts
  <2>5. \A d \in Callers \ {c} : batch'[d] = batch[d]
    BY <1>1, <1>2, RunningFacts
  <2> QED BY <1>1, <1>2, <2>2, <2>4, <2>5, RunningFacts, GoOnKeepsInv
<1>3. CASE Refuse(c) /\ UNCHANGED memory
  BY <1>1, <1>3, RunningFacts, RefuseKeepsInv
<1> QED BY <1>2, <1>3 DEF Tokenize

LEMMA NewSamplerKeepsInv ==
  ASSUME IInv, NEW c \in Callers, NewSampler(c)
  PROVE  IInv'
<1> USE DEF request, locals, memory
<1>1. pc[c] = "sampler" /\ pc[c] \in Running /\ {"encode", "decode"} \subseteq Running
  BY DEF NewSampler, Running
<1>2. /\ PhaseInv(c) /\ prompt[c] \in Prompts
      /\ kv = <<>> /\ out[c] = <<>> /\ batch[c] = prompt[c]
      /\ FitsWindow(Len(prompt[c]))
  BY <1>1, RunningFacts DEF PhaseInv, Prepared
<1>3. CASE /\ Goto(c, IF HasEncoder THEN "encode" ELSE "decode")
           /\ UNCHANGED <<request, lockHolder, locals, memory>>
  <2>1. pc'[c] = IF HasEncoder THEN "encode" ELSE "decode"
    BY <1>1, <1>3, RunningFacts DEF Goto
  <2>2. Len(<<>>) = 0 /\ MaxOutput > 0
    BY TranslateAssumption
  <2>3. CASE HasEncoder
    <3>1. PhaseInv(c)'
      BY <1>2, <1>3, <2>1, <2>2, <2>3
         DEF PhaseInv, Prepared, Decoding, Output, Generated, FitsWindow
    <3> QED BY <1>1, <1>3, <2>3, <3>1, RunningFacts, GoOnKeepsInv
  <2>4. CASE ~HasEncoder
    <3>1. encoded = EncoderInput(prompt[c])
      BY <1>1, <2>4, RunningFacts DEF EncoderInput
    <3>2. kv \o batch[c] = DecoderInput(prompt[c]) \o out[c]
      BY <1>2, <2>4, Inputs, ConcatEmptySeq DEF DecoderInput
    <3>3. Decoding(c)'
      BY <1>2, <1>3, <2>1, <2>2, <2>4, <3>1, <3>2
         DEF Decoding, EncoderInput, DecoderInput
    <3>4. PhaseInv(c)'
      BY <1>2, <1>3, <2>1, <2>2, <2>4, <3>3
         DEF PhaseInv, Prepared, Output, Generated, FitsWindow
    <3> QED BY <1>1, <1>3, <2>4, <3>4, RunningFacts, GoOnKeepsInv
  <2> QED BY <2>3, <2>4
<1>4. CASE Refuse(c) /\ UNCHANGED memory
  BY <1>1, <1>4, RunningFacts, RefuseKeepsInv
<1> QED BY <1>3, <1>4 DEF NewSampler

LEMMA EncodeKeepsInv ==
  ASSUME IInv, NEW c \in Callers, Encode(c)
  PROVE  IInv'
<1> USE DEF request, locals, memory
<1>1. pc[c] = "encode" /\ pc[c] \in Running /\ "decode" \in Running
  BY DEF Encode, Running
<1>2. /\ PhaseInv(c) /\ prompt[c] \in Prompts /\ HasEncoder
      /\ kv = <<>> /\ out[c] = <<>> /\ batch[c] = prompt[c]
      /\ FitsWindow(Len(prompt[c]))
  BY <1>1, RunningFacts DEF PhaseInv, Prepared, IInv, EncoderInv
<1>3. CASE /\ encoded' = batch[c]
           /\ batch' = [batch EXCEPT ![c] = <<StartToken>>]
           /\ Goto(c, "decode")
           /\ UNCHANGED <<request, lockHolder, kv, out, pieceCap>>
  <2>1. pc'[c] = "decode" /\ batch'[c] = <<StartToken>>
    BY <1>1, <1>3, RunningFacts DEF Goto
  <2>2. Len(<<>>) = 0 /\ MaxOutput > 0 /\ <<StartToken>> \in Seq(Tokens)
    BY TranslateAssumption
  <2>3. <<>> \o <<StartToken>> = <<StartToken>> \o <<>>
    BY <2>2, ConcatEmptySeq
  <2>4. Decoding(c)'
    BY <1>2, <1>3, <2>1, <2>2, <2>3
       DEF Decoding, EncoderInput, DecoderInput
  <2>5. PhaseInv(c)'
    BY <1>2, <1>3, <2>1, <2>2, <2>4
       DEF PhaseInv, Prepared, Output, Generated, FitsWindow
  <2>6. batch' \in [Callers -> Seq(Tokens)]
    BY <1>1, <1>3, <2>2, RunningFacts
  <2>7. \A d \in Callers \ {c} : batch'[d] = batch[d]
    BY <1>1, <1>3, RunningFacts
  <2> QED BY <1>1, <1>2, <1>3, <2>5, <2>6, <2>7, RunningFacts, GoOnKeepsInv
<1>4. CASE Refuse(c) /\ UNCHANGED memory
  BY <1>1, <1>4, RunningFacts, RefuseKeepsInv
<1> QED BY <1>3, <1>4 DEF Encode

LEMMA DecodeKeepsInv ==
  ASSUME IInv, NEW c \in Callers, Decode(c)
  PROVE  IInv'
<1> USE DEF request, locals, memory
<1>1. pc[c] = "decode" /\ pc[c] \in Running /\ "sample" \in Running
  BY DEF Decode, Running
<1>2. PhaseInv(c)
  BY <1>1, RunningFacts
<1>3. kv \o batch[c] \in Seq(Tokens)
  BY <1>1, RunningFacts, ConcatProperties
<1>4. CASE /\ kv' = kv \o batch[c]
           /\ Goto(c, "sample")
           /\ UNCHANGED <<request, lockHolder, encoded, locals>>
  <2>1. pc'[c] = "sample"
    BY <1>1, <1>4, RunningFacts DEF Goto
  <2>2. Decoding(c)'
    BY <1>1, <1>2, <1>4, <2>1
       DEF PhaseInv, Decoding, EncoderInput, DecoderInput
  <2>3. Prepared(c)' /\ Output(c)'
    BY <1>1, <1>2, <1>4, <2>1
       DEF PhaseInv, Prepared, Output, Generated, FitsWindow,
           Serial!Continues, EncoderInput, DecoderInput
  <2> QED BY <1>1, <1>3, <1>4, <2>2, <2>3, RunningFacts, GoOnKeepsInv
          DEF PhaseInv
<1>5. CASE /\ kv' \in {kv, kv \o batch[c]}
           /\ Refuse(c)
           /\ UNCHANGED encoded
  BY <1>1, <1>3, <1>5, RunningFacts, RefuseKeepsInv
<1> QED BY <1>4, <1>5 DEF Decode

\* What a running caller has read fits the context as long as it has budget.
LEMMA ReadFits ==
  ASSUME IInv, NEW c \in Callers, pc[c] \in {"decode", "sample", "append"}
  PROVE  LET read == DecoderInput(prompt[c]) \o out[c]
         IN  /\ read \in Seq(Tokens)
             /\ Len(read) = Len(DecoderInput(prompt[c])) + Len(out[c])
             /\ Len(read) <= Context
<1>1. pc[c] \in Running /\ pc[c] \notin {"clear", "tokenize"}
  BY DEF Running
<1>2. /\ FitsWindow(Len(prompt[c])) /\ Len(out[c]) < MaxOutput
      /\ prompt[c] \in Prompts /\ out[c] \in Seq(Tokens)
  BY <1>1, RunningFacts DEF PhaseInv, Prepared, Decoding
<1>3. /\ DecoderInput(prompt[c]) \in Seq(Tokens)
      /\ Len(DecoderInput(prompt[c])) <= Len(prompt[c])
      /\ Len(prompt[c]) \in Nat
  BY <1>2, Inputs
<1>4. /\ Len(DecoderInput(prompt[c])) \in Nat /\ Len(out[c]) \in Nat
      /\ MaxOutput \in Nat /\ Context \in Nat
  BY <1>2, <1>3, LenProperties, TranslateAssumption
<1>5. /\ DecoderInput(prompt[c]) \o out[c] \in Seq(Tokens)
      /\ Len(DecoderInput(prompt[c]) \o out[c])
           = Len(DecoderInput(prompt[c])) + Len(out[c])
  BY <1>2, <1>3, ConcatProperties
<1>6. Len(prompt[c]) + MaxOutput - 1 <= Context
  BY <1>2 DEF FitsWindow
<1>7. Len(DecoderInput(prompt[c])) + Len(out[c]) <= Context
  <2>1. \A a, b, p, m, w \in Nat :
          a <= p /\ b < m /\ p + m - 1 <= w => a + b <= w
    OBVIOUS
  <2>2. /\ Len(DecoderInput(prompt[c])) <= Len(prompt[c])
        /\ Len(out[c]) < MaxOutput
    BY <1>2, <1>3
  <2> QED BY <1>3, <1>4, <1>6, <2>1, <2>2
<1> QED BY <1>5, <1>7

\* At a sample the model chooses among what may continue the request's own
\* output, and its choice is a token.
LEMMA SampledContinues ==
  ASSUME IInv, NEW c \in Callers, pc[c] = "sample"
  PROVE  /\ Sampleable(encoded, kv) = Serial!Continues(prompt[c], out[c])
         /\ Sampleable(encoded, kv) \subseteq Tokens
<1>1. /\ encoded = EncoderInput(prompt[c])
      /\ kv = DecoderInput(prompt[c]) \o out[c]
  BY RunningFacts DEF Running, PhaseInv, Decoding
<1>2. kv \in Windows
  BY <1>1, ReadFits, WindowsComplete
<1>3. encoded \in Prompts \cup {<<>>}
  BY DEF IInv, TypeOK
<1> QED BY <1>1, <1>2, <1>3, SampleableAssumption DEF Serial!Continues

LEMMA SampleKeepsInv ==
  ASSUME IInv, NEW c \in Callers, Sample(c)
  PROVE  IInv'
<1> USE DEF request, locals, memory
<1>1. /\ pc[c] = "sample" /\ pc[c] \in Running
      /\ {"append", "finish"} \subseteq Running
  BY DEF Sample, Running
<1>2. PhaseInv(c)
  BY <1>1, RunningFacts
<1>3. PICK t \in Sampleable(encoded, kv) :
        /\ IF t \in Eog
           THEN Goto(c, "finish") /\ UNCHANGED batch
           ELSE Goto(c, "append") /\ batch' = [batch EXCEPT ![c] = <<t>>]
        /\ UNCHANGED <<request, lockHolder, memory, out, pieceCap>>
  BY DEF Sample
<1>4. t \in Tokens /\ t \in Serial!Continues(prompt[c], out[c])
  BY <1>1, <1>3, SampledContinues
<1>5. Generated(prompt[c], out[c])'
  BY <1>2, <1>3 DEF PhaseInv, Output, Generated, Serial!Continues,
     EncoderInput, DecoderInput
<1>6. CASE t \in Eog
  <2>1. pc'[c] = "finish"
    BY <1>1, <1>3, <1>6, RunningFacts DEF Goto
  <2>2. MayFinish(prompt[c], out[c])'
    BY <1>3, <1>4, <1>6 DEF MayFinish, Serial!Continues,
       EncoderInput, DecoderInput
  <2>3. PhaseInv(c)'
    BY <1>1, <1>2, <1>3, <1>5, <2>1, <2>2
       DEF PhaseInv, Prepared, Decoding, Output, FitsWindow
  <2> QED BY <1>1, <1>3, <1>6, <2>3, RunningFacts, GoOnKeepsInv
<1>7. CASE t \notin Eog
  <2>1. pc'[c] = "append" /\ batch'[c] = <<t>>
    BY <1>1, <1>3, <1>7, RunningFacts DEF Goto
  <2>2. \E u \in Serial!Continues(prompt'[c], out'[c]) \ Eog :
          u \in Tokens /\ batch'[c] = <<u>>
    BY <1>3, <1>4, <1>7, <2>1
  <2>3. Decoding(c)'
    BY <1>1, <1>2, <1>3, <2>1, <2>2
       DEF PhaseInv, Decoding, Serial!Continues, EncoderInput,
           DecoderInput
  <2>4. PhaseInv(c)'
    BY <1>1, <1>2, <1>3, <1>5, <2>1, <2>3
       DEF PhaseInv, Prepared, Output, FitsWindow
  <2>5. <<t>> \in Seq(Tokens)
    BY <1>4
  <2>6. batch' \in [Callers -> Seq(Tokens)]
    BY <1>1, <1>3, <1>7, <2>5, RunningFacts
  <2>7. \A d \in Callers \ {c} : batch'[d] = batch[d]
    BY <1>1, <1>3, <1>7, RunningFacts
  <2> QED BY <1>1, <1>3, <1>7, <2>4, <2>6, <2>7, RunningFacts, GoOnKeepsInv
<1> QED BY <1>6, <1>7

\* The piece buffer only grows, up to its limit.
LEMMA CapacityType ==
  ASSUME NEW needed \in Nat,
         NEW cap \in FirstPiece..(IF FirstPiece > MaxPiece
                                  THEN FirstPiece ELSE MaxPiece),
         PieceAccepted(needed, cap)
  PROVE  (IF needed <= cap THEN cap ELSE RetryCapacity(needed, cap))
           \in FirstPiece..(IF FirstPiece > MaxPiece
                            THEN FirstPiece ELSE MaxPiece)
BY TranslateAssumption DEF PieceAccepted, RetryCapacity

\* An accepted piece moves its token from the batch to the output; what is read
\* and what is batched stay the request's own.
LEMMA AcceptKeepsInv ==
  ASSUME IInv, NEW c \in Callers, pc[c] = "append",
         PieceAccepted(PieceLen(batch[c][1]), pieceCap[c]),
         out' = [out EXCEPT ![c] = Append(@, batch[c][1])],
         pieceCap' = [pieceCap EXCEPT ![c] =
           IF PieceLen(batch[c][1]) <= pieceCap[c] THEN pieceCap[c]
           ELSE RetryCapacity(PieceLen(batch[c][1]), pieceCap[c])],
         Goto(c, IF Len(out'[c]) < MaxOutput THEN "decode" ELSE "finish"),
         UNCHANGED <<request, lockHolder, batch, memory>>
  PROVE  IInv'
<1> USE DEF request, memory
<1>1. pc[c] \in Running /\ {"decode", "finish"} \subseteq Running
  BY DEF Running
<1>2. PhaseInv(c) /\ prompt[c] \in Prompts /\ out[c] \in Seq(Tokens)
  BY <1>1, RunningFacts
<1>3. PICK t \in Serial!Continues(prompt[c], out[c]) \ Eog :
        t \in Tokens /\ batch[c] = <<t>>
  BY <1>2 DEF PhaseInv, Decoding
<1>4. batch[c][1] = t
  BY <1>3
<1>5. out'[c] = Append(out[c], t)
  BY <1>1, <1>4, RunningFacts
<1>6. /\ Len(out[c]) \in Nat /\ Len(out[c]) < MaxOutput
      /\ Len(out'[c]) = Len(out[c]) + 1
  BY <1>2, <1>3, <1>5, AppendProperties, LenProperties DEF PhaseInv, Decoding
<1>7. kv \o batch[c] = DecoderInput(prompt[c]) \o out'[c]
  <2>1. kv = DecoderInput(prompt[c]) \o out[c]
    BY <1>2 DEF PhaseInv, Decoding
  <2>2. DecoderInput(prompt[c]) \in Seq(Tokens)
    BY <1>2, Inputs
  <2>3. (DecoderInput(prompt[c]) \o out[c]) \o <<t>>
          = DecoderInput(prompt[c]) \o Append(out[c], t)
    <3>1. t \in Tokens /\ out[c] \in Seq(Tokens)
      BY <1>2, <1>3
    <3> QED BY ONLY <2>2, <3>1, TokensGrow
  <2> QED BY <1>3, <1>5, <2>1, <2>3
<1>8. Generated(prompt[c], out[c])'
  <2>1. Generated(prompt[c], out[c])
    BY <1>2 DEF PhaseInv, Output
  <2>2. Generated(prompt[c], Append(out[c], t))
    BY <1>2, <1>3, <2>1, GeneratedAppend
  <2> QED BY <1>5, <2>2 DEF Generated, Serial!Continues,
          EncoderInput, DecoderInput
<1>9. out' \in [Callers -> Seq(Tokens \ Eog)]
  <2>1. t \in Tokens \ Eog /\ out[c] \in Seq(Tokens \ Eog)
    BY <1>1, <1>3, RunningFacts
  <2>2. Append(out[c], t) \in Seq(Tokens \ Eog)
    BY <2>1, AppendProperties
  <2> QED BY <1>1, <1>4, <2>2, RunningFacts
<1>10. pieceCap' \in [Callers -> FirstPiece..(IF FirstPiece > MaxPiece
                                              THEN FirstPiece ELSE MaxPiece)]
  <2>1. PieceLen(batch[c][1]) \in Nat
    BY <1>3, <1>4, TranslateAssumption
  <2> QED BY <1>1, <2>1, RunningFacts, CapacityType
<1>11. \A d \in Callers \ {c} : batch'[d] = batch[d] /\ out'[d] = out[d]
  BY <1>1, RunningFacts
<1>12. CASE Len(out'[c]) < MaxOutput
  <2>1. pc'[c] = "decode" /\ Goto(c, "decode")
    BY <1>1, <1>12, RunningFacts DEF Goto
  <2>2. Decoding(c)'
    BY <1>2, <1>7, <1>12, <2>1
       DEF PhaseInv, Decoding, EncoderInput, DecoderInput
  <2>3. Len(out'[c]) <= MaxOutput
    BY <1>6, TranslateAssumption
  <2>4. Output(c)'
    BY <1>8, <2>1, <2>3 DEF Output
  <2>5. Prepared(c)'
    BY <1>2, <2>1 DEF PhaseInv, Prepared, FitsWindow
  <2>6. PhaseInv(c)'
    BY <2>2, <2>4, <2>5 DEF PhaseInv
  <2> QED BY <1>1, <1>9, <1>10, <1>11, <2>1, <2>6, RunningFacts, GoOnKeepsInv
<1>13. CASE ~(Len(out'[c]) < MaxOutput)
  <2>1. pc'[c] = "finish" /\ Goto(c, "finish")
    BY <1>1, <1>13, RunningFacts DEF Goto
  <2>2. Len(out'[c]) = MaxOutput
    BY <1>6, <1>13, TranslateAssumption
  <2>3. PhaseInv(c)'
    BY <1>2, <1>8, <2>1, <2>2, TranslateAssumption
       DEF PhaseInv, Prepared, Decoding, Output, MayFinish, FitsWindow
  <2> QED BY <1>1, <1>9, <1>10, <1>11, <2>1, <2>3, RunningFacts, GoOnKeepsInv
<1> QED BY <1>12, <1>13

LEMMA AppendPieceKeepsInv ==
  ASSUME IInv, NEW c \in Callers, AppendPiece(c)
  PROVE  IInv'
<1>1. pc[c] = "append" /\ pc[c] \in Running
  BY DEF AppendPiece, Running
<1>2. CASE PieceAccepted(PieceLen(batch[c][1]), pieceCap[c])
  BY <1>1, <1>2, AcceptKeepsInv DEF AppendPiece, memory
<1>3. CASE ~PieceAccepted(PieceLen(batch[c][1]), pieceCap[c])
  BY <1>1, <1>3, RunningFacts, RefuseKeepsInv DEF AppendPiece, memory
<1> QED BY <1>2, <1>3

LEMMA UnwindKeepsInv ==
  ASSUME IInv, NEW c \in Callers, Unwind(c)
  PROVE  IInv'
<1>1. pc[c] \in Running /\ <<>> \in Seq(Tokens)
  BY DEF Unwind, Running
<1> QED BY <1>1, RunningFacts, ReturnKeepsInv DEF Unwind, memory

LEMMA FinishKeepsInv ==
  ASSUME IInv, NEW c \in Callers, Finish(c)
  PROVE  IInv'
<1>1. pc[c] \in Running
  BY DEF Finish, Running
<1>2. CASE Readable(out[c])
  BY <1>1, <1>2, RunningFacts, ReturnKeepsInv DEF Finish, memory
<1>3. CASE ~Readable(out[c])
  BY <1>1, <1>3, RunningFacts, RefuseKeepsInv DEF Finish, memory
<1> QED BY <1>2, <1>3

LEMMA NextInv == IInv /\ [Next]_vars => IInv'
<1> SUFFICES ASSUME IInv, [Next]_vars PROVE IInv'
  OBVIOUS
<1>1. CASE UNCHANGED vars
  BY <1>1 DEF vars, IInv, TypeOK, Serial!TypeOK, LockInv, RequestInv,
     EncoderInv, PhaseInv, Prepared, Decoding, Output, Generated, MayFinish,
     Serial!Continues, EncoderInput, DecoderInput, FitsWindow
<1>2. CASE Next
  <2>1. PICK c \in Callers :
          (\E p \in Prompts : Ask(c, p)) \/ Continue(c) \/ Unwind(c)
    BY <1>2 DEF Next
  <2> QED BY <2>1, AskKeepsInv, LockKeepsInv, ClearMemoryKeepsInv,
        TokenizeKeepsInv, NewSamplerKeepsInv, EncodeKeepsInv, DecodeKeepsInv,
        SampleKeepsInv, AppendPieceKeepsInv, FinishKeepsInv, UnwindKeepsInv
     DEF Continue
<1> QED BY <1>1, <1>2

-------------------------------------------------------------------------------
\* The theorems.

\* The invariant the other theorems rest on holds throughout.
THEOREM Invariance == Spec => []IInv
BY InitInv, NextInv, PTL DEF Spec

\* Requests, outcomes, locals and memory keep their types; no end-of-generation
\* token is ever put out.
THEOREM TypeCorrect == Spec => []TypeOK
<1>1. IInv => TypeOK
  BY DEF IInv
<1> QED BY Invariance, <1>1, PTL

\* Every token of every translation is sampled inside the mutex, from exactly
\* the request's own prompt and its own output so far.
THEOREM OwnInputSampled == Spec => []SampledFromOwnInput
<1>1. IInv => SampledFromOwnInput
  <2> SUFFICES ASSUME IInv, NEW c \in Callers, pc[c] = "sample"
               PROVE  lockHolder = c /\ OwnInput(c)
    BY DEF SampledFromOwnInput
  <2>1. pc[c] \in Running
    BY DEF Running
  <2>2. lockHolder = c /\ PhaseInv(c)
    BY <2>1 DEF IInv, LockInv
  <2> QED BY <2>2 DEF PhaseInv, Decoding, OwnInput
<1> QED BY Invariance, <1>1, PTL

\* The window check before the first token keeps every later batch and the whole
\* memory within the context, for every prompt, budget and window.
THEOREM WindowSuffices == Spec => []WindowIsEnough
<1>1. IInv => WindowIsEnough
  <2> SUFFICES ASSUME IInv, NEW c \in Callers
               PROVE  /\ pc[c] = "decode" => Len(kv) + Len(batch[c]) <= Context
                      /\ pc[c] = "encode" => Len(batch[c]) <= Context
    BY DEF WindowIsEnough
  <2>1. ASSUME pc[c] = "decode" PROVE Len(kv) + Len(batch[c]) <= Context
    <3>1. PhaseInv(c) /\ kv \in Seq(Tokens) /\ batch[c] \in Seq(Tokens)
      BY <2>1, RunningFacts DEF Running
    <3>2. kv \o batch[c] = DecoderInput(prompt[c]) \o out[c]
      BY <2>1, <3>1 DEF PhaseInv, Decoding
    <3>3. Len(kv \o batch[c]) <= Context
      BY <2>1, <3>2, ReadFits
    <3> QED BY <3>1, <3>3, ConcatProperties
  <2>2. ASSUME pc[c] = "encode" PROVE Len(batch[c]) <= Context
    <3>1. PhaseInv(c) /\ prompt[c] \in Prompts
      BY <2>2, RunningFacts DEF Running
    <3>2. batch[c] = prompt[c] /\ Len(prompt[c]) + MaxOutput - 1 <= Context
      BY <2>2, <3>1 DEF PhaseInv, Prepared, FitsWindow
    <3>3. Len(prompt[c]) \in Nat
      BY <3>1, Inputs
    <3> QED BY <3>2, <3>3, TranslateAssumption
  <2> QED BY <2>1, <2>2
<1> QED BY Invariance, <1>1, PTL

-------------------------------------------------------------------------------
\* LlamaTranslate implements SerialTranslator.

\* A finished generation is one the promise allows.
LEMMA FinishedCompletes ==
  ASSUME IInv, NEW c \in Callers, pc[c] = "finish"
  PROVE  out[c] \in Serial!Outputs /\ Serial!Completes(prompt[c], out[c])
<1>1. pc[c] \in Running
  BY DEF Running
<1>2. /\ Len(out[c]) <= MaxOutput
      /\ Generated(prompt[c], out[c]) /\ MayFinish(prompt[c], out[c])
      /\ out[c] \in Seq(Tokens) /\ Len(out[c]) \in Nat
  BY <1>1, RunningFacts DEF PhaseInv, Output
<1>3. out[c] \in Serial!Outputs
  <2>1. Len(out[c]) \in 0..MaxOutput /\ out[c] \in [1..Len(out[c]) -> Tokens]
    BY <1>2, LenProperties, TranslateAssumption
  <2> QED BY <2>1 DEF Serial!Outputs
<1>4. Serial!Completes(prompt[c], out[c])
  BY <1>2 DEF Serial!Completes, Generated, MayFinish
<1> QED BY <1>3, <1>4

\* A refusal, or a panic, inside the mutex is one of the promise's.
LEMMA RefuseRefines ==
  ASSUME IInv, NEW c \in Callers, pc[c] \in Running,
         NEW outcome \in {"error", "panic"}, Return(c, outcome, <<>>)
  PROVE  Serial!Refuse(c)
<1>1. pc[c] # "idle"
  BY DEF Running
<1>2. status[c] = "asked" /\ text[c] = <<>>
  BY <1>1 DEF IInv, RequestInv
<1>3. text \in [Callers -> Seq(Tokens)]
  BY DEF IInv, TypeOK, Serial!TypeOK
<1>4. text' = text
  BY <1>2, <1>3 DEF Return
<1> QED BY <1>2, <1>4 DEF Return, Serial!Refuse

\* Every step is one of the promise's, or leaves its variables alone.
LEMMA StepRefines == IInv /\ [Next]_vars => [Serial!Next]_(Serial!vars)
<1> SUFFICES ASSUME IInv, [Next]_vars
             PROVE  Serial!Next \/ UNCHANGED Serial!vars
  OBVIOUS
<1> USE DEF request, Serial!vars
<1>1. CASE UNCHANGED vars
  BY <1>1 DEF vars
<1>2. CASE Next
  <2>1. PICK c \in Callers :
          (\E p \in Prompts : Ask(c, p)) \/ Continue(c) \/ Unwind(c)
    BY <1>2 DEF Next
  <2>2. CASE \E p \in Prompts : Ask(c, p)
    BY <2>2 DEF Ask, Serial!Next
  <2>3. ASSUME pc[c] \in Running, Refuse(c) \/ Return(c, "panic", <<>>)
        PROVE  Serial!Next
    <3>1. Serial!Refuse(c)
      BY <2>3, RefuseRefines DEF Refuse
    <3> QED BY <3>1 DEF Serial!Next
  <2>4. CASE Finish(c) /\ Readable(out[c])
    <3>1. pc[c] = "finish" /\ Return(c, "ok", out[c])
      BY <2>4 DEF Finish
    <3>2. status[c] = "asked"
      BY <3>1 DEF IInv, RequestInv
    <3>3. out[c] \in Serial!Outputs /\ Serial!Completes(prompt[c], out[c])
      BY <3>1, FinishedCompletes
    <3>4. Serial!Answer(c)
      BY <2>4, <3>1, <3>2, <3>3 DEF Return, Serial!Answer
    <3> QED BY <3>4 DEF Serial!Next
  <2>5. CASE Finish(c) /\ ~Readable(out[c])
    BY <2>3, <2>5 DEF Finish, Running
  <2>6. CASE Unwind(c)
    BY <2>3, <2>6 DEF Unwind, Running
  <2>7. CASE Lock(c) \/ Sample(c)
    BY <2>7 DEF Lock, Sample
  <2>8. CASE ClearMemory(c) \/ Tokenize(c) \/ NewSampler(c)
    BY <2>3, <2>8 DEF ClearMemory, Tokenize, NewSampler, Running
  <2>9. CASE Encode(c) \/ Decode(c) \/ AppendPiece(c)
    BY <2>3, <2>9 DEF Encode, Decode, AppendPiece, Running
  <2> QED BY <2>1, <2>2, <2>4, <2>5, <2>6, <2>7, <2>8, <2>9 DEF Continue
<1> QED BY <1>1, <1>2

\* Whoever else uses the model, whatever was translated before and however it
\* ended, every answer is a completion of the request's own prompt, or a
\* refusal: the code's translator implements the serial one.
THEOREM Implements == Spec => ImplementsSerial
<1>1. Init => Serial!Init
  BY DEF Init
<1> QED BY Invariance, <1>1, StepRefines, PTL
        DEF Spec, ImplementsSerial, Serial!Spec

===============================================================================
