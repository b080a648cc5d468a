-------------------------- MODULE OrtGeneratorProofs --------------------------
(***************************************************************************)
(* The safety properties of OrtGenerator, and that it implements           *)
(* SerialTranslator, for every set of callers, every model and every       *)
(* budget.                                                                 *)
(***************************************************************************)
EXTENDS OrtGenerator, SequenceTheorems, TLAPS

\* Every token of o is the one the model chose after the ones before it, and
\* none of them is the end token.
Chosen(p, o) ==
  \A i \in 1..Len(o) : o[i] \in Serial!Continues(p, SubSeq(o, 1, i - 1)) \ {Eos}

\* The budget is spent, or the model ends the generation here.
MayFinish(p, o) == Len(o) = MaxNewTokens \/ Eos \in Serial!Continues(p, o)

\* What a caller has to say so far, for its latest request.
Output(c) ==
  CASE pc[c] = "idle" -> text[c]
    [] pc[c] = "decode" -> Visible(generated[c])
    [] OTHER -> generated[c]

\* A request is open exactly while its caller is in the call.
RequestInv(c) ==
  /\ status[c] = "asked" <=> pc[c] # "idle"
  /\ status[c] \in {"asked", "ok"} => prompt[c] \in Prompts
  /\ status[c] # "ok" => text[c] = <<>>

\* What the call of a caller has computed, phase by phase.
LoopInv(c) ==
  /\ pc[c] \in {"idle", "encode", "await encoder", "encoder"} =>
       generated[c] = <<>>
  /\ pc[c] \in {"await decoder", "decoder", "accept", "decode"} =>
       hidden[c] = Source(prompt[c])
  /\ pc[c] = "accept" =>
       logits[c] = Best(Source(prompt[c]), Seed(prompt[c]) \o generated[c])
  /\ pc[c] \notin {"idle", "decode"} => Len(generated[c]) < MaxNewTokens
  /\ pc[c] = "decode" => generated[c] # <<>>

OutputInv(c) ==
  /\ Chosen(prompt[c], Output(c))
  /\ pc[c] = "decode" \/ status[c] = "ok" => MayFinish(prompt[c], Output(c))

CallInv(c) == RequestInv(c) /\ LoopInv(c) /\ OutputInv(c)

\* Two sequences are the same as far as both go.
Agree(o1, o2) == \A i \in (1..Len(o1)) \cap (1..Len(o2)) : o1[i] = o2[i]

\* Callers with the same request say the same, one of them perhaps more of it.
SameStart ==
  \A c, d \in Callers : prompt[c] = prompt[d] => Agree(Output(c), Output(d))

IInv ==
  /\ TypeOK
  /\ PoisonedSessionUnused
  /\ \A c \in Callers : CallInv(c)
  /\ SameStart

-------------------------------------------------------------------------------
\* Sequences.

\* The prefixes of a sequence are kept when it grows.
LEMMA PrefixKept ==
  ASSUME NEW S, NEW o \in Seq(S), NEW t \in S, NEW i \in 1..(Len(o) + 1)
  PROVE  SubSeq(Append(o, t), 1, i - 1) = SubSeq(o, 1, i - 1)
<1>1. CASE i = 1
  <2>1. SubSeq(Append(o, t), 1, 0) = << >> /\ SubSeq(o, 1, 0) = << >>
    BY SubSeqEmpty
  <2> QED BY <1>1, <2>1
<1>2. CASE i # 1
  <2>1. Append(o, t) = o \o <<t>> /\ <<t>> \in Seq(S)
    BY AppendIsConcat
  <2>2. 1 \in 1..Len(o) /\ i - 1 \in 1..Len(o)
    BY <1>2, LenProperties
  <2> QED BY <2>1, <2>2, SubSeqOfConcat1
<1> QED BY <1>1, <1>2

\* How long a sequence is after a push.
LEMMA PushLength ==
  \A S : \A o \in Seq(S), t \in S :
    /\ Len(o) \in Nat /\ Len(Append(o, t)) = Len(o) + 1
    /\ Append(o, t) \in Seq(S) /\ Append(o, t) # <<>>
<1> TAKE S
<1> TAKE o \in Seq(S), t \in S
<1>1. Len(o) \in Nat /\ Append(o, t) \in Seq(S) /\ Len(Append(o, t)) = Len(o) + 1
  BY AppendProperties, LenProperties
<1> QED BY <1>1, EmptySeq

\* The token chosen next, unless it is the end token, continues a generation.
LEMMA ChosenAppend ==
  ASSUME NEW p, NEW o \in Seq(Tokens), NEW t \in Tokens \ {Eos}, Chosen(p, o),
         t \in Serial!Continues(p, o)
  PROVE  Chosen(p, Append(o, t))
<1> SUFFICES ASSUME NEW i \in 1..Len(Append(o, t))
             PROVE  Append(o, t)[i] \in
                      Serial!Continues(p, SubSeq(Append(o, t), 1, i - 1)) \ {Eos}
  BY DEF Chosen
<1>1. Len(o) \in Nat /\ Len(Append(o, t)) = Len(o) + 1
  BY AppendProperties, LenProperties
<1>2. SubSeq(Append(o, t), 1, i - 1) = SubSeq(o, 1, i - 1)
  BY <1>1, PrefixKept
<1>3. CASE i = Len(o) + 1
  <2>1. Append(o, t)[i] = t
    BY <1>3, AppendProperties
  <2>2. SubSeq(o, 1, i - 1) = o
    BY <1>1, <1>3, SubSeqFull
  <2> QED BY <1>2, <2>1, <2>2
<1>4. CASE i # Len(o) + 1
  <2>1. i \in 1..Len(o)
    BY <1>1, <1>4
  <2>2. Append(o, t)[i] = o[i]
    BY <2>1, AppendProperties
  <2>3. o[i] \in Serial!Continues(p, SubSeq(o, 1, i - 1)) \ {Eos}
    BY <2>1 DEF Chosen
  <2> QED BY <1>2, <2>2, <2>3
<1> QED BY <1>3, <1>4

\* What decode shows of a finished generation.
LEMMA VisibleAppend ==
  ASSUME NEW o \in Seq(Tokens), NEW t \in Tokens
  PROVE  Visible(Append(o, t)) = IF t = Eos THEN o ELSE Append(o, t)
<1>1. /\ Len(o) \in Nat /\ Len(Append(o, t)) = Len(o) + 1
      /\ Append(o, t) \in Seq(Tokens) /\ Append(o, t)[Len(o) + 1] = t
  BY AppendProperties, LenProperties
<1>2. Append(o, t) # <<>>
  BY <1>1, EmptySeq
<1>3. SubSeq(Append(o, t), 1, Len(o)) = o
  <2>1. Len(o) + 1 \in 1..(Len(o) + 1) /\ (Len(o) + 1) - 1 = Len(o)
    BY <1>1
  <2>2. SubSeq(Append(o, t), 1, Len(o)) = SubSeq(o, 1, Len(o))
    BY <2>1, PrefixKept
  <2> QED BY <2>2, SubSeqFull
<1>4. Len(Append(o, t)) - 1 = Len(o)
  BY <1>1
<1>5. Append(o, t)[Len(Append(o, t))] = t
  BY <1>1
<1>6. SubSeq(Append(o, t), 1, Len(Append(o, t)) - 1) = o
  BY <1>3, <1>4
<1> QED BY <1>2, <1>5, <1>6, Zenon DEF Visible

\* Visible drops at most a token.
LEMMA VisibleType ==
  ASSUME NEW g \in Seq(Tokens)
  PROVE  Visible(g) \in Seq(Tokens) /\ Len(Visible(g)) <= Len(g)
<1>1. Len(g) \in Nat /\ (g # <<>> => Len(g) # 0)
  BY LenProperties, EmptySeq
<1>2. CASE g # <<>> /\ g[Len(g)] = Eos
  <2>1. \A i \in 1..(Len(g) - 1) : g[i] \in Tokens
    BY <1>1, ElementOfSeq
  <2>2. /\ SubSeq(g, 1, Len(g) - 1) \in Seq(Tokens)
        /\ Len(SubSeq(g, 1, Len(g) - 1)) =
             IF 1 <= Len(g) - 1 THEN (Len(g) - 1) - 1 + 1 ELSE 0
    BY <1>1, <2>1, SubSeqProperties
  <2> QED BY <1>1, <1>2, <2>2 DEF Visible
<1>3. CASE ~(g # <<>> /\ g[Len(g)] = Eos)
  BY <1>1, <1>3 DEF Visible
<1> QED BY <1>2, <1>3

\* Selection is greedy: the model never has two tokens to go on with.
LEMMA GreedyUnique ==
  ASSUME NEW p, NEW o, NEW t \in Serial!Continues(p, o),
         NEW u \in Serial!Continues(p, o)
  PROVE  t = u
BY DEF Serial!Continues, Choice

\* A generation that is behind another of the same request takes the token that
\* the other has taken.
LEMMA AgreeAppend ==
  ASSUME NEW p, NEW o \in Seq(Tokens), NEW other \in Seq(Tokens),
         NEW t \in Tokens, t \in Serial!Continues(p, o),
         Chosen(p, other), Agree(o, other)
  PROVE  Agree(Append(o, t), other) /\ Agree(other, Append(o, t))
<1>1. /\ Len(o) \in Nat /\ Len(other) \in Nat
      /\ Len(Append(o, t)) = Len(o) + 1
      /\ \A i \in 1..Len(o) : Append(o, t)[i] = o[i]
      /\ Append(o, t)[Len(o) + 1] = t
  BY AppendProperties, LenProperties
<1>2. SUFFICES ASSUME NEW i \in 1..(Len(o) + 1), i \in 1..Len(other)
               PROVE  Append(o, t)[i] = other[i]
  BY <1>1 DEF Agree
<1>3. CASE i \in 1..Len(o)
  BY <1>1, <1>2, <1>3 DEF Agree
<1>4. CASE i = Len(o) + 1
  <2>1. \A j \in 1..Len(o) : other[j] = o[j] /\ other[j] \in Tokens
    BY <1>1, <1>2, <1>4, ElementOfSeq DEF Agree
  <2>2. /\ SubSeq(other, 1, Len(o)) \in Seq(Tokens)
        /\ Len(SubSeq(other, 1, Len(o))) = Len(o)
        /\ \A j \in 1..Len(o) : SubSeq(other, 1, Len(o))[j] = other[j]
    <3>1. /\ SubSeq(other, 1, Len(o)) \in Seq(Tokens)
          /\ Len(SubSeq(other, 1, Len(o))) =
               IF 1 <= Len(o) THEN Len(o) - 1 + 1 ELSE 0
          /\ \A j \in 1..(Len(o) - 1 + 1) :
               SubSeq(other, 1, Len(o))[j] = other[1 + j - 1]
      BY <1>1, <2>1, SubSeqProperties
    <3> QED BY <1>1, <3>1
  <2>3. SubSeq(other, 1, Len(o)) = o
    BY <2>1, <2>2, SeqEqual
  <2>4. i - 1 = Len(o)
    BY <1>1, <1>4
  <2>5. other[i] \in Serial!Continues(p, o)
    BY <1>2, <2>3, <2>4 DEF Chosen
  <2>6. other[i] = t
    BY <2>5, GreedyUnique
  <2> QED BY <1>1, <1>4, <2>6
<1> QED BY <1>1, <1>3, <1>4
-------------------------------------------------------------------------------
\* What a step of one caller leaves alone.

\* A caller that does not take the step keeps its request and its locals.
Spared(d) ==
  /\ pc'[d] = pc[d]
  /\ prompt'[d] = prompt[d]
  /\ status'[d] = status[d]
  /\ text'[d] = text[d]
  /\ hidden'[d] = hidden[d]
  /\ generated'[d] = generated[d]
  /\ logits'[d] = logits[d]

\* What its caller has to say is dropped, stays, or grows by the chosen token.
Follows(c) ==
  \/ Output(c)' = <<>>
  \/ prompt'[c] = prompt[c] /\ Output(c)' = Output(c)
  \/ /\ prompt'[c] = prompt[c]
     /\ \E t \in Tokens :
          /\ t \in Serial!Continues(prompt[c], Output(c))
          /\ Output(c)' = Append(Output(c), t)

\* A slot changes hands as its mutex allows.
SlotStep(c) ==
  \/ /\ UNCHANGED slots
     /\ pc[c] \notin Slots /\ pc'[c] \notin Slots
  \/ \E s \in Slots :
       /\ holder[s] = Nobody /\ s \notin poisoned
       /\ holder' = [holder EXCEPT ![s] = c]
       /\ pc[c] \notin Slots /\ pc'[c] = s
       /\ UNCHANGED poisoned
  \/ \E s \in Slots :
       /\ pc[c] = s /\ pc'[c] \notin Slots
       /\ Unlock(s)
       /\ poisoned' \in {poisoned, poisoned \cup {s}}

\* A caller's output is a sequence of tokens within the budget.
LEMMA OutputType ==
  ASSUME TypeOK, NEW c \in Callers
  PROVE  Output(c) \in Seq(Tokens)
<1>1. text[c] \in Seq(Tokens) /\ generated[c] \in Seq(Tokens)
  BY DEF TypeOK, Serial!TypeOK
<1> QED BY <1>1, VisibleType DEF Output

LEMMA SparedInv ==
  ASSUME NEW d \in Callers, CallInv(d), Spared(d)
  PROVE  CallInv(d)' /\ Output(d)' = Output(d)
<1> USE DEF Spared
<1>1. RequestInv(d)' /\ LoopInv(d)'
  BY DEF CallInv, RequestInv, LoopInv
<1>2. Output(d)' = Output(d)
  BY DEF Output, Visible
<1>3. OutputInv(d)'
  BY <1>2 DEF CallInv, OutputInv, Chosen, MayFinish, Serial!Continues
<1> QED BY <1>1, <1>2, <1>3 DEF CallInv

LEMMA SlotsKeepInv ==
  ASSUME TypeOK, PoisonedSessionUnused, NEW c \in Callers, SlotStep(c),
         \A d \in Callers \ {c} : pc'[d] = pc[d]
  PROVE  PoisonedSessionUnused'
<1> SUFFICES ASSUME NEW s \in Slots
             PROVE  /\ s \in poisoned' => holder'[s] = Nobody
                    /\ \A d \in Callers : pc'[d] = s <=> holder'[s] = d
  BY DEF PoisonedSessionUnused
<1>1. /\ s \in poisoned => holder[s] = Nobody
      /\ \A d \in Callers : pc[d] = s <=> holder[s] = d
      /\ holder \in [Slots -> Callers \cup {Nobody}]
      /\ Nobody \notin Callers
  BY GeneratorAssumption DEF PoisonedSessionUnused, TypeOK
<1>2. CASE /\ UNCHANGED slots
           /\ pc[c] \notin Slots /\ pc'[c] \notin Slots
  BY <1>1, <1>2 DEF slots
<1>3. CASE \E r \in Slots :
             /\ holder[r] = Nobody /\ r \notin poisoned
             /\ holder' = [holder EXCEPT ![r] = c]
             /\ pc[c] \notin Slots /\ pc'[c] = r
             /\ UNCHANGED poisoned
  <2>1. PICK r \in Slots :
             /\ holder[r] = Nobody /\ r \notin poisoned
             /\ holder' = [holder EXCEPT ![r] = c]
             /\ pc[c] \notin Slots /\ pc'[c] = r
             /\ UNCHANGED poisoned
    BY <1>3
  <2>2. CASE r = s
    BY <1>1, <2>1, <2>2
  <2>3. CASE r # s
    BY <1>1, <2>1, <2>3
  <2> QED BY <2>2, <2>3
<1>4. CASE \E r \in Slots :
             /\ pc[c] = r /\ pc'[c] \notin Slots
             /\ Unlock(r)
             /\ poisoned' \in {poisoned, poisoned \cup {r}}
  <2>1. PICK r \in Slots :
             /\ pc[c] = r /\ pc'[c] \notin Slots
             /\ holder' = [holder EXCEPT ![r] = Nobody]
             /\ poisoned' \in {poisoned, poisoned \cup {r}}
    BY <1>4 DEF Unlock
  <2>2. CASE r = s
    BY <1>1, <2>1, <2>2
  <2>3. CASE r # s
    BY <1>1, <2>1, <2>3
  <2> QED BY <2>2, <2>3
<1> QED BY <1>2, <1>3, <1>4 DEF SlotStep

\* What a caller says still agrees with what the others say.
LEMMA FollowsAgrees ==
  ASSUME TypeOK, SameStart, NEW c \in Callers, NEW d \in Callers \ {c},
         CallInv(d), Follows(c), Spared(d), prompt'[c] = prompt'[d]
  PROVE  Agree(Output(c), Output(d))' /\ Agree(Output(d), Output(c))'
<1>1. Output(d)' = Output(d) /\ prompt'[d] = prompt[d]
  BY SparedInv DEF Spared
<1>2. Output(c) \in Seq(Tokens) /\ Output(d) \in Seq(Tokens)
  BY OutputType
<1>3. CASE Output(c)' = <<>>
  BY <1>3 DEF Agree
<1>4. CASE prompt'[c] = prompt[c] /\ Output(c)' = Output(c)
  <2>1. Agree(Output(c), Output(d)) /\ Agree(Output(d), Output(c))
    BY <1>1, <1>4 DEF SameStart
  <2> QED BY <1>1, <1>4, <2>1 DEF Agree
<1>5. CASE /\ prompt'[c] = prompt[c]
           /\ \E t \in Tokens :
                /\ t \in Serial!Continues(prompt[c], Output(c))
                /\ Output(c)' = Append(Output(c), t)
  <2>1. PICK t \in Tokens :
          /\ t \in Serial!Continues(prompt[c], Output(c))
          /\ Output(c)' = Append(Output(c), t)
    BY <1>5
  <2>2. prompt[c] = prompt[d] /\ Agree(Output(c), Output(d))
    BY <1>1, <1>5 DEF SameStart
  <2>3. Chosen(prompt[c], Output(d))
    BY <2>2 DEF CallInv, OutputInv
  <2>4. /\ Agree(Append(Output(c), t), Output(d))
        /\ Agree(Output(d), Append(Output(c), t))
    BY <1>2, <2>1, <2>2, <2>3, AgreeAppend
  <2> QED BY <1>1, <2>1, <2>4 DEF Agree
<1> QED BY <1>3, <1>4, <1>5 DEF Follows

\* What a step has to show.
LEMMA StepKeepsInv ==
  ASSUME IInv, NEW c \in Callers, TypeOK', SlotStep(c),
         \A d \in Callers \ {c} : Spared(d),
         CallInv(c)', Follows(c)
  PROVE  IInv'
<1>1. PoisonedSessionUnused'
  BY SlotsKeepInv DEF IInv, Spared
<1>2. \A d \in Callers : CallInv(d)'
  BY SparedInv DEF IInv
<1>3. SameStart'
  <2> SUFFICES ASSUME NEW d \in Callers, NEW e \in Callers,
                      prompt'[d] = prompt'[e]
               PROVE  Agree(Output(d), Output(e))'
    BY DEF SameStart
  <2>1. CASE d = e
    BY <2>1 DEF Agree
  <2>2. CASE d = c /\ e # c
    BY <2>2, FollowsAgrees DEF IInv
  <2>3. CASE d # c /\ e = c
    BY <2>3, FollowsAgrees DEF IInv
  <2>4. CASE d # c /\ e # c
    <3>1. /\ Output(d)' = Output(d) /\ Output(e)' = Output(e)
          /\ prompt[d] = prompt[e]
      BY <2>4, SparedInv DEF IInv, Spared
    <3>2. Agree(Output(d), Output(e))
      BY <3>1 DEF IInv, SameStart
    <3> QED BY <3>1, <3>2 DEF Agree
  <2> QED BY <2>1, <2>2, <2>3, <2>4
<1> QED BY <1>1, <1>2, <1>3 DEF IInv

-------------------------------------------------------------------------------
\* The invariant holds initially and every step keeps it.

LEMMA InitInv == Init => IInv
<1> SUFFICES ASSUME Init PROVE IInv
  OBVIOUS
<1> USE DEF Init, Serial!Init
<1>1. <<>> \in Seq(Tokens) /\ Len(<<>>) = 0
  OBVIOUS
<1>2. TypeOK
  BY <1>1, GeneratorAssumption DEF TypeOK, Serial!TypeOK, Slots
<1>3. PoisonedSessionUnused
  BY GeneratorAssumption DEF PoisonedSessionUnused, Slots
<1>4. \A c \in Callers : Output(c) = <<>>
  BY DEF Output
<1>5. \A c \in Callers : CallInv(c)
  <2> TAKE c \in Callers
  <2>1. /\ pc[c] = "idle" /\ status[c] = "idle" /\ text[c] = <<>>
        /\ generated[c] = <<>> /\ Output(c) = <<>>
    BY <1>4
  <2>2. RequestInv(c) /\ LoopInv(c)
    BY <2>1 DEF RequestInv, LoopInv
  <2>3. OutputInv(c)
    BY <1>1, <2>1 DEF OutputInv, Chosen
  <2> QED BY <2>2, <2>3 DEF CallInv
<1>6. SameStart
  BY <1>1, <1>4 DEF SameStart, Agree
<1> QED BY <1>2, <1>3, <1>5, <1>6 DEF IInv

\* A call that returns or unwinds, saying what it had to say or nothing.
LEMMA ReturnKeepsInv ==
  ASSUME IInv, NEW c \in Callers, pc[c] # "idle", SlotStep(c),
         NEW outcome \in {"ok", "error", "panic"}, NEW tokens \in Seq(Tokens),
         Return(c, outcome, tokens),
         holder' \in [Slots -> Callers \cup {Nobody}], poisoned' \subseteq Slots,
         IF outcome = "ok"
         THEN pc[c] = "decode" /\ tokens = Output(c)
         ELSE tokens = <<>>
  PROVE  IInv'
<1> USE DEF Return, Goto
<1>1. TypeOK /\ CallInv(c)
  BY DEF IInv
<1>2. <<>> \in Seq(Tokens) /\ Len(<<>>) = 0 /\ 0 <= MaxNewTokens
  BY GeneratorAssumption
<1>3. TypeOK'
  <2>1. Serial!TypeOK'
    BY <1>1 DEF TypeOK, Serial!TypeOK
  <2>2. /\ pc' \in [Callers -> {"idle", "encode", "await encoder", "encoder",
                                "await decoder", "decoder", "accept", "decode"}]
        /\ hidden' \in [Callers -> Seq(Tokens)]
        /\ generated' \in [Callers -> Seq(Tokens)]
        /\ logits' \in [Callers -> Tokens \cup {NoToken}]
    BY <1>1, <1>2 DEF TypeOK
  <2>3. \A d \in Callers : Len(generated'[d]) <= MaxNewTokens
    BY <1>1, <1>2 DEF TypeOK
  <2> QED BY <2>1, <2>2, <2>3 DEF TypeOK
<1>4. /\ pc'[c] = "idle" /\ status'[c] = outcome /\ text'[c] = tokens
      /\ generated'[c] = <<>> /\ prompt'[c] = prompt[c]
      /\ \A d \in Callers \ {c} : Spared(d)
  BY <1>1 DEF TypeOK, Serial!TypeOK, Spared
<1>5. Output(c)' = tokens
  BY <1>4 DEF Output
<1>6. Follows(c)
  BY <1>4, <1>5 DEF Follows
<1>7. CallInv(c)'
  <2>1. RequestInv(c)' /\ LoopInv(c)'
    BY <1>1, <1>4 DEF CallInv, RequestInv, LoopInv
  <2>2. OutputInv(c)'
    <3>1. CASE outcome = "ok"
      BY <1>1, <1>4, <1>5, <3>1
         DEF CallInv, OutputInv, Chosen, MayFinish, Serial!Continues
    <3>2. CASE outcome # "ok"
      BY <1>2, <1>4, <1>5, <3>2 DEF OutputInv, Chosen
    <3> QED BY <3>1, <3>2
  <2> QED BY <2>1, <2>2 DEF CallInv
<1> QED BY <1>3, <1>4, <1>6, <1>7, StepKeepsInv

\* A refusal outside the sessions.
LEMMA RefuseKeepsInv ==
  ASSUME IInv, NEW c \in Callers, pc[c] # "idle", pc[c] \notin Slots,
         Refuse(c), UNCHANGED slots
  PROVE  IInv'
<1>1. <<>> \in Seq(Tokens)
  OBVIOUS
<1>2. TypeOK
  BY DEF IInv
<1>3. SlotStep(c)
  BY <1>2 DEF SlotStep, Refuse, Return, Goto, TypeOK, Slots
<1>4. holder' \in [Slots -> Callers \cup {Nobody}] /\ poisoned' \subseteq Slots
  BY <1>2 DEF slots, TypeOK
<1> QED BY <1>1, <1>3, <1>4, ReturnKeepsInv DEF Refuse

\* A refusal or a panic inside a session, which gives its slot back.
LEMMA LeaveKeepsInv ==
  ASSUME IInv, NEW c \in Callers, NEW s \in Slots, pc[c] = s,
         NEW outcome \in {"error", "panic"}, Return(c, outcome, <<>>),
         Unlock(s), poisoned' \in {poisoned, poisoned \cup {s}}
  PROVE  IInv'
<1>1. <<>> \in Seq(Tokens)
  OBVIOUS
<1>2. TypeOK /\ pc[c] # "idle"
  BY DEF IInv, Slots
<1>3. SlotStep(c)
  BY <1>2 DEF SlotStep, Return, Goto, TypeOK, Slots
<1>4. holder' \in [Slots -> Callers \cup {Nobody}] /\ poisoned' \subseteq Slots
  BY <1>2 DEF Unlock, TypeOK
<1> QED BY <1>1, <1>2, <1>3, <1>4, ReturnKeepsInv

LEMMA AskKeepsInv ==
  ASSUME IInv, NEW c \in Callers, NEW p \in Prompts, Ask(c, p)
  PROVE  IInv'
<1> USE DEF Ask, Serial!Ask, Goto
<1>1. TypeOK /\ CallInv(c) /\ pc[c] = "idle"
  BY DEF IInv, CallInv, RequestInv
<1>2. TypeOK'
  <2>1. Serial!TypeOK'
    <3>1. Serial!TypeOK
      BY <1>1, Zenon DEF TypeOK
    <3>2. text' \in [Callers -> Seq(Tokens)]
      BY <3>1 DEF Serial!TypeOK
    <3> QED BY <3>1, <3>2 DEF Serial!TypeOK
  <2>2. pc' \in [Callers -> {"idle", "encode", "await encoder", "encoder",
                              "await decoder", "decoder", "accept", "decode"}]
    BY <1>1 DEF TypeOK
  <2>3. UNCHANGED <<hidden, generated, logits, holder, poisoned>>
    BY DEF slots
  <2> QED BY <1>1, <2>1, <2>2, <2>3 DEF TypeOK
<1>3. /\ pc'[c] = "encode" /\ status'[c] = "asked" /\ prompt'[c] = p
      /\ text'[c] = <<>> /\ generated'[c] = <<>>
      /\ \A d \in Callers \ {c} : Spared(d)
  BY <1>1 DEF TypeOK, Serial!TypeOK, Spared, CallInv, LoopInv
<1>4. Output(c)' = <<>> /\ Len(<<>>) = 0
  BY <1>3 DEF Output
<1>5. Follows(c)
  BY <1>4 DEF Follows
<1>6. CallInv(c)'
  <2>1. RequestInv(c)'
    BY <1>3 DEF RequestInv
  <2>2. 0 < MaxNewTokens
    BY GeneratorAssumption
  <2>3. LoopInv(c)'
    BY <1>3, <1>4, <2>2 DEF LoopInv
  <2>4. OutputInv(c)'
    BY <1>3, <1>4 DEF OutputInv, Chosen
  <2> QED BY <2>1, <2>3, <2>4 DEF CallInv
<1>7. SlotStep(c)
  BY <1>1, <1>3 DEF SlotStep, slots, Slots
<1> QED BY <1>2, <1>3, <1>5, <1>6, <1>7, StepKeepsInv

\* A step inside the call that leaves the request and the tokens alone.
LEMMA GoOnKeepsInv ==
  ASSUME IInv, NEW c \in Callers, pc[c] \notin {"idle", "decode"},
         NEW to \in {"await encoder", "encoder", "await decoder", "decoder",
                     "accept"},
         Goto(c, to), UNCHANGED <<request, generated>>,
         hidden' \in [Callers -> Seq(Tokens)],
         logits' \in [Callers -> Tokens \cup {NoToken}],
         holder' \in [Slots -> Callers \cup {Nobody}], poisoned' \subseteq Slots,
         \A d \in Callers \ {c} : hidden'[d] = hidden[d] /\ logits'[d] = logits[d],
         SlotStep(c), LoopInv(c)'
  PROVE  IInv'
<1> USE DEF Goto, request
<1>1. TypeOK /\ CallInv(c)
  BY DEF IInv
<1>2. TypeOK'
  <2>1. Serial!TypeOK'
    BY <1>1 DEF TypeOK, Serial!TypeOK
  <2> QED BY <1>1, <2>1 DEF TypeOK
<1>3. pc'[c] = to /\ \A d \in Callers \ {c} : Spared(d)
  BY <1>1 DEF TypeOK, Spared
<1>4. Output(c)' = generated[c] /\ Output(c) = generated[c]
  BY <1>3 DEF Output
<1>5. Follows(c)
  BY <1>4 DEF Follows
<1>6. RequestInv(c)'
  BY <1>1, <1>3 DEF CallInv, RequestInv
<1>7. OutputInv(c)'
  BY <1>1, <1>3, <1>4, <1>6
     DEF CallInv, OutputInv, RequestInv, Chosen, MayFinish, Serial!Continues
<1>8. CallInv(c)'
  BY <1>6, <1>7 DEF CallInv
<1> QED BY <1>2, <1>3, <1>5, <1>8, StepKeepsInv

LEMMA EncodeKeepsInv ==
  ASSUME IInv, NEW c \in Callers, Encode(c)
  PROVE  IInv'
<1>1. pc[c] = "encode" /\ pc[c] \notin Slots /\ UNCHANGED slots
  BY DEF Encode, Slots
<1>2. TypeOK /\ CallInv(c)
  BY DEF IInv
<1>3. CASE /\ Goto(c, "await encoder")
           /\ UNCHANGED <<request, hidden, generated, logits>>
  <2>1. pc'[c] = "await encoder"
    BY <1>2, <1>3 DEF Goto, TypeOK
  <2>2. SlotStep(c)
    BY <1>1, <2>1 DEF SlotStep, Slots
  <2>3. LoopInv(c)'
    BY <1>1, <1>2, <1>3, <2>1 DEF CallInv, LoopInv
  <2>4. /\ hidden' \in [Callers -> Seq(Tokens)]
        /\ logits' \in [Callers -> Tokens \cup {NoToken}]
        /\ holder' \in [Slots -> Callers \cup {Nobody}] /\ poisoned' \subseteq Slots
    BY <1>1, <1>2, <1>3 DEF TypeOK, slots
  <2> QED BY <1>1, <1>3, <2>2, <2>3, <2>4, GoOnKeepsInv
<1>4. CASE Refuse(c)
  BY <1>1, <1>4, RefuseKeepsInv
<1> QED BY <1>3, <1>4 DEF Encode

LEMMA LockKeepsInv ==
  ASSUME IInv, NEW c \in Callers, NEW s \in Slots, Lock(c, s)
  PROVE  IInv'
<1>1. /\ pc[c] = Awaiting(s) /\ pc[c] \notin Slots
      /\ pc[c] \in {"await encoder", "await decoder"}
      /\ s \in {"encoder", "decoder"} /\ holder[s] = Nobody
  BY DEF Lock, Slots, Awaiting
<1>2. TypeOK /\ CallInv(c)
  BY DEF IInv
<1>3. CASE s \in poisoned
  BY <1>1, <1>3, RefuseKeepsInv DEF Lock, slots
<1>4. CASE s \notin poisoned
  <2>1. /\ holder' = [holder EXCEPT ![s] = c] /\ Goto(c, s)
        /\ UNCHANGED <<request, hidden, generated, logits, poisoned>>
    BY <1>4 DEF Lock
  <2>2. pc'[c] = s
    BY <1>2, <2>1 DEF Goto, TypeOK
  <2>3. SlotStep(c)
    BY <1>1, <1>4, <2>1, <2>2 DEF SlotStep
  <2>4. LoopInv(c)'
    <3>1. CASE s = "encoder"
      BY <1>1, <1>2, <2>1, <2>2, <3>1 DEF CallInv, LoopInv, Awaiting
    <3>2. CASE s = "decoder"
      BY <1>1, <1>2, <2>1, <2>2, <3>2 DEF CallInv, LoopInv, Awaiting, request
    <3> QED BY <1>1, <3>1, <3>2
  <2>5. /\ hidden' \in [Callers -> Seq(Tokens)]
        /\ logits' \in [Callers -> Tokens \cup {NoToken}]
        /\ holder' \in [Slots -> Callers \cup {Nobody}] /\ poisoned' \subseteq Slots
    BY <1>2, <2>1 DEF TypeOK
  <2> QED BY <1>1, <2>1, <2>3, <2>4, <2>5, GoOnKeepsInv
<1> QED BY <1>3, <1>4

\* The request of a running call, and what its next token is chosen from.
LEMMA RunningFacts ==
  ASSUME IInv, NEW c \in Callers, pc[c] # "idle"
  PROVE  /\ prompt[c] \in Prompts
         /\ Source(prompt[c]) \in Seq(Tokens)
         /\ Best(Source(prompt[c]), Seed(prompt[c]) \o generated[c])
              \in Tokens \cup {NoToken}
<1>1. prompt[c] \in Prompts
  BY DEF IInv, CallInv, RequestInv
<1>2. generated[c] \in Seq(Tokens) /\ Len(generated[c]) <= MaxNewTokens
  BY DEF IInv, TypeOK
<1>3. generated[c] \in Generations
  <2>1. Len(generated[c]) \in Nat /\ generated[c] \in [1..Len(generated[c]) -> Tokens]
    BY <1>2, LenProperties
  <2>2. Len(generated[c]) \in 0..MaxNewTokens
    BY <1>2, <2>1, GeneratorAssumption
  <2> QED BY <2>1, <2>2 DEF Generations
<1> QED BY <1>1, <1>3, GeneratorAssumption, BestAssumption

LEMMA RunEncoderKeepsInv ==
  ASSUME IInv, NEW c \in Callers, RunEncoder(c)
  PROVE  IInv'
<1>1. /\ pc[c] = "encoder" /\ "encoder" \in Slots /\ Unlock("encoder")
      /\ UNCHANGED poisoned
  BY DEF RunEncoder, Slots
<1>2. TypeOK /\ CallInv(c)
  BY DEF IInv
<1>3. CASE /\ hidden' = [hidden EXCEPT ![c] = Source(prompt[c])]
           /\ Goto(c, "await decoder")
           /\ UNCHANGED <<request, generated, logits>>
  <2>1. pc'[c] = "await decoder" /\ hidden'[c] = Source(prompt[c])
    BY <1>2, <1>3 DEF Goto, TypeOK
  <2>2. SlotStep(c)
    BY <1>1, <2>1 DEF SlotStep, Slots
  <2>3. LoopInv(c)'
    BY <1>1, <1>2, <1>3, <2>1 DEF CallInv, LoopInv, request
  <2>4. /\ hidden' \in [Callers -> Seq(Tokens)]
        /\ \A d \in Callers \ {c} : hidden'[d] = hidden[d]
    BY <1>1, <1>2, <1>3, RunningFacts DEF TypeOK
  <2>5. /\ logits' \in [Callers -> Tokens \cup {NoToken}]
        /\ holder' \in [Slots -> Callers \cup {Nobody}] /\ poisoned' \subseteq Slots
    BY <1>1, <1>2, <1>3 DEF TypeOK, Unlock
  <2> QED BY <1>1, <1>3, <2>2, <2>3, <2>4, <2>5, GoOnKeepsInv
<1>4. CASE Refuse(c)
  BY <1>1, <1>4, LeaveKeepsInv DEF Refuse
<1> QED BY <1>3, <1>4 DEF RunEncoder

LEMMA RunDecoderKeepsInv ==
  ASSUME IInv, NEW c \in Callers, RunDecoder(c)
  PROVE  IInv'
<1>1. /\ pc[c] = "decoder" /\ "decoder" \in Slots /\ Unlock("decoder")
      /\ UNCHANGED poisoned
  BY DEF RunDecoder, Slots
<1>2. TypeOK /\ CallInv(c)
  BY DEF IInv
<1>3. CASE /\ logits' = [logits EXCEPT ![c] =
                           Best(hidden[c], Seed(prompt[c]) \o generated[c])]
           /\ Goto(c, "accept")
           /\ UNCHANGED <<request, hidden, generated>>
  <2>1. hidden[c] = Source(prompt[c])
    BY <1>1, <1>2 DEF CallInv, LoopInv
  <2>2. /\ pc'[c] = "accept"
        /\ logits'[c] = Best(Source(prompt[c]), Seed(prompt[c]) \o generated[c])
    BY <1>2, <1>3, <2>1 DEF Goto, TypeOK
  <2>3. SlotStep(c)
    BY <1>1, <2>2 DEF SlotStep, Slots
  <2>4. LoopInv(c)'
    BY <1>1, <1>2, <1>3, <2>1, <2>2 DEF CallInv, LoopInv, request
  <2>5. /\ logits' \in [Callers -> Tokens \cup {NoToken}]
        /\ \A d \in Callers \ {c} : logits'[d] = logits[d]
    BY <1>1, <1>2, <1>3, <2>1, RunningFacts DEF TypeOK
  <2>6. /\ hidden' \in [Callers -> Seq(Tokens)]
        /\ holder' \in [Slots -> Callers \cup {Nobody}] /\ poisoned' \subseteq Slots
    BY <1>1, <1>2, <1>3 DEF TypeOK, Unlock
  <2> QED BY <1>1, <1>3, <2>3, <2>4, <2>5, <2>6, GoOnKeepsInv
<1>4. CASE Refuse(c)
  BY <1>1, <1>4, LeaveKeepsInv DEF Refuse
<1> QED BY <1>3, <1>4 DEF RunDecoder

LEMMA PanicKeepsInv ==
  ASSUME IInv, NEW c \in Callers, Panic(c)
  PROVE  IInv'
BY LeaveKeepsInv DEF Panic

\* What ends the loop.
Over(t, g) == t = Eos \/ Len(g) >= MaxNewTokens

\* The chosen token goes to the end of the generation; the end token is not
\* shown, and with it or the last token of the budget the loop is over.
LEMMA PushKeepsInv ==
  ASSUME IInv, NEW c \in Callers, pc[c] = "accept", UNCHANGED slots,
         NEW t \in Tokens, t = logits[c],
         NEW g \in Seq(Tokens), g = Append(generated[c], t),
         generated' = [generated EXCEPT ![c] = g],
         NEW to, to \in {"decode", "await decoder"}, Goto(c, to),
         to = "decode" <=> Over(t, g),
         UNCHANGED <<request, hidden, logits>>
  PROVE  IInv'
<1> USE DEF Goto, request
<1>1. TypeOK /\ CallInv(c) /\ NoToken \notin Tokens
  BY GeneratorAssumption DEF IInv
<1>2. generated[c] \in Seq(Tokens) /\ MaxNewTokens \in Nat
  <2>1. MaxNewTokens \in Nat
    BY ONLY GeneratorAssumption
  <2> QED BY <1>1, <2>1 DEF TypeOK
<1>3. Len(generated[c]) \in Nat /\ Len(g) = Len(generated[c]) + 1 /\ g # <<>>
  <2>1. t \in Tokens /\ g = Append(generated[c], t)
    OBVIOUS
  <2> QED BY ONLY <1>2, <2>1, PushLength
<1>4. Len(generated[c]) < MaxNewTokens /\ Len(g) <= MaxNewTokens
  <2>1. Len(generated[c]) < MaxNewTokens
    <3>1. pc[c] = "accept"
      OBVIOUS
    <3> QED BY ONLY <1>1, <3>1 DEF CallInv, LoopInv
  <2> QED BY ONLY <1>2, <1>3, <2>1
<1>5. /\ Chosen(prompt[c], generated[c]) /\ Output(c) = generated[c]
      /\ t = Best(Source(prompt[c]), Seed(prompt[c]) \o generated[c])
      /\ hidden[c] = Source(prompt[c]) /\ status[c] = "asked"
  BY <1>1 DEF CallInv, RequestInv, LoopInv, OutputInv, Output
<1>6. t \in Serial!Continues(prompt[c], generated[c])
  BY <1>1, <1>5 DEF Serial!Continues, Choice
<1>7. /\ pc'[c] = to /\ generated'[c] = g
      /\ \A d \in Callers \ {c} : Spared(d)
  BY <1>1 DEF TypeOK, Spared
<1>8. TypeOK'
  <2>1. Serial!TypeOK'
    BY <1>1 DEF TypeOK, Serial!TypeOK
  <2>2. \A d \in Callers : Len(generated'[d]) <= MaxNewTokens
    BY <1>1, <1>4 DEF TypeOK
  <2> QED BY <1>1, <2>1, <2>2 DEF TypeOK, slots
<1>9. SlotStep(c)
  BY <1>7 DEF SlotStep, Slots
<1>10. RequestInv(c)'
  BY <1>1, <1>7 DEF CallInv, RequestInv
<1>11. LoopInv(c)'
  <2>1. to = "await decoder" => Len(g) < MaxNewTokens
    <3>1. to = "await decoder" => ~Over(t, g)
      OBVIOUS
    <3>2. Len(g) \in Nat /\ (~Over(t, g) => ~(Len(g) >= MaxNewTokens))
      BY ONLY <1>3 DEF Over
    <3>3. ~Over(t, g) => Len(g) < MaxNewTokens
      BY ONLY <1>2, <3>2
    <3> QED BY <3>1, <3>3
  <2> QED BY <1>3, <1>5, <1>7, <2>1 DEF LoopInv
<1>12. Visible(g) = IF t = Eos THEN generated[c] ELSE g
  BY <1>2, VisibleAppend
<1>13. CASE t = Eos
  <2>1. Output(c)' = generated[c]
    <3>1. pc'[c] = "decode" /\ generated'[c] = g
      BY <1>7, <1>13 DEF Over
    <3> QED BY ONLY <1>12, <1>13, <3>1 DEF Output, Visible
  <2>2. Follows(c)
    BY <1>5, <2>1 DEF Follows
  <2>3. OutputInv(c)'
    BY <1>5, <1>6, <1>13, <2>1
       DEF OutputInv, Chosen, MayFinish, Serial!Continues
  <2> QED BY <1>7, <1>8, <1>9, <1>10, <1>11, <2>2, <2>3, StepKeepsInv
       DEF CallInv
<1>14. CASE t # Eos
  <2>1. Output(c)' = g
    BY <1>7, <1>12, <1>14 DEF Output, Visible
  <2>2. Follows(c)
    BY <1>5, <1>6, <2>1 DEF Follows
  <2>3. Chosen(prompt[c], g)
    BY <1>2, <1>5, <1>6, <1>14, ChosenAppend
  <2>4. to = "decode" => Len(g) = MaxNewTokens
    <3>1. to = "decode" => Over(t, g)
      OBVIOUS
    <3> QED BY ONLY <1>2, <1>3, <1>4, <1>14, <3>1 DEF Over
  <2>5. OutputInv(c)'
    BY <1>5, <1>7, <2>1, <2>3, <2>4
       DEF OutputInv, Chosen, MayFinish, Serial!Continues
  <2> QED BY <1>7, <1>8, <1>9, <1>10, <1>11, <2>2, <2>5, StepKeepsInv
       DEF CallInv
<1> QED BY <1>13, <1>14

LEMMA AcceptKeepsInv ==
  ASSUME IInv, NEW c \in Callers, Accept(c)
  PROVE  IInv'
<1>1. /\ pc[c] = "accept" /\ pc[c] \notin Slots /\ UNCHANGED slots
      /\ pc[c] # "idle"
  BY DEF Accept, Slots
<1>2. CASE logits[c] = NoToken
  BY <1>1, <1>2, RefuseKeepsInv DEF Accept
<1>3. CASE logits[c] # NoToken
  <2>1. TypeOK
    BY DEF IInv
  <2>2. logits[c] \in Tokens /\ generated[c] \in Seq(Tokens)
    BY <1>3, <2>1 DEF TypeOK
  <2>3. Append(generated[c], logits[c]) \in Seq(Tokens)
    BY <2>2, AppendProperties
  <2>4. /\ generated' = [generated EXCEPT ![c] = Append(generated[c], logits[c])]
        /\ UNCHANGED <<request, hidden, logits>>
    BY <1>3 DEF Accept
  <2>5. generated'[c] = Append(generated[c], logits[c])
    BY <2>1, <2>4 DEF TypeOK
  <2>6. CASE logits[c] = Eos \/ Len(generated'[c]) >= MaxNewTokens
    <3>1. Goto(c, "decode")
      BY <1>3, <2>6 DEF Accept
    <3> QED BY <1>1, <2>2, <2>3, <2>4, <2>5, <2>6, <3>1, PushKeepsInv DEF Over
  <2>7. CASE ~(logits[c] = Eos \/ Len(generated'[c]) >= MaxNewTokens)
    <3>1. Goto(c, "await decoder")
      BY <1>3, <2>7 DEF Accept
    <3> QED BY <1>1, <2>2, <2>3, <2>4, <2>5, <2>7, <3>1, PushKeepsInv DEF Over
  <2> QED BY <2>6, <2>7
<1> QED BY <1>2, <1>3

LEMMA DecodeKeepsInv ==
  ASSUME IInv, NEW c \in Callers, Decode(c)
  PROVE  IInv'
<1>1. /\ pc[c] = "decode" /\ pc[c] \notin Slots /\ UNCHANGED slots
      /\ pc[c] # "idle"
  BY DEF Decode, Slots
<1>2. TypeOK
  BY DEF IInv
<1>3. CASE Return(c, "ok", Visible(generated[c]))
  <2>1. Output(c) = Visible(generated[c]) /\ Output(c) \in Seq(Tokens)
    BY <1>1, <1>2, OutputType DEF Output
  <2>2. SlotStep(c)
    BY <1>1, <1>2, <1>3 DEF SlotStep, Return, Goto, TypeOK, Slots
  <2>3. holder' \in [Slots -> Callers \cup {Nobody}] /\ poisoned' \subseteq Slots
    BY <1>1, <1>2 DEF slots, TypeOK
  <2> QED BY <1>1, <1>3, <2>1, <2>2, <2>3, ReturnKeepsInv
<1>4. CASE Refuse(c)
  BY <1>1, <1>4, RefuseKeepsInv
<1> QED BY <1>3, <1>4 DEF Decode

LEMMA NextInv == IInv /\ [Next]_vars => IInv'
<1> SUFFICES ASSUME IInv, [Next]_vars PROVE IInv'
  OBVIOUS
<1>1. CASE UNCHANGED vars
  <2> USE <1>1 DEF vars
  <2>1. TypeOK' /\ PoisonedSessionUnused'
    BY DEF IInv, TypeOK, Serial!TypeOK, PoisonedSessionUnused
  <2>2. \A c \in Callers : Spared(c)
    BY DEF Spared
  <2>3. \A c \in Callers : CallInv(c)' /\ Output(c)' = Output(c)
    BY <2>2, SparedInv DEF IInv
  <2>4. SameStart'
    BY <2>3 DEF IInv, SameStart, Agree
  <2> QED BY <2>1, <2>3, <2>4 DEF IInv
<1>2. CASE Next
  <2>1. PICK c \in Callers :
          (\E p \in Prompts : Ask(c, p)) \/ Continue(c) \/ Panic(c)
    BY <1>2 DEF Next
  <2> QED BY <2>1, AskKeepsInv, EncodeKeepsInv, LockKeepsInv,
        RunEncoderKeepsInv, RunDecoderKeepsInv, AcceptKeepsInv,
        DecodeKeepsInv, PanicKeepsInv
     DEF Continue
<1> QED BY <1>1, <1>2

-------------------------------------------------------------------------------
\* The theorems.

\* The invariant the other theorems rest on holds throughout.
THEOREM Invariance == Spec => []IInv
BY InitInv, NextInv, PTL DEF Spec

\* Requests, outcomes, locals and slots keep their types, and no generation
\* outgrows the budget.
THEOREM TypeCorrect == Spec => []TypeOK
<1>1. IInv => TypeOK
  BY DEF IInv
<1> QED BY Invariance, <1>1, PTL

\* Whatever runs in between on the shared sessions, every token is chosen from
\* the encoder output and the history of its own request.
THEOREM OwnStateOnly == Spec => []OwnStateDecoded
<1>1. IInv => OwnStateDecoded
  BY DEF IInv, CallInv, LoopInv, OwnStateDecoded
<1> QED BY Invariance, <1>1, PTL

\* A session that a panic left half way is never entered again, and at most one
\* call is in a session.
THEOREM PoisonedStaysClosed == Spec => []PoisonedSessionUnused
<1>1. IInv => PoisonedSessionUnused
  BY DEF IInv
<1> QED BY Invariance, <1>1, PTL

\* A generation that has ended always makes a TokenSequence.
THEOREM GenerationFits == Spec => []GeneratedFits
<1>1. IInv => GeneratedFits
  <2> SUFFICES ASSUME IInv, NEW c \in Callers, pc[c] = "decode"
               PROVE  ValidSequence(generated[c])
    BY DEF GeneratedFits
  <2>1. generated[c] \in Seq(Tokens) /\ Len(generated[c]) <= MaxNewTokens
        /\ generated[c] # <<>>
    BY DEF IInv, TypeOK, CallInv, LoopInv
  <2>2. Len(generated[c]) \in Nat \ {0}
    BY <2>1, EmptySeq
  <2>3. MaxNewTokens \in 1..MaxTokens /\ MaxTokens \in Nat
    BY GeneratorAssumption
  <2>4. Len(generated[c]) \in 1..MaxTokens
    BY ONLY <2>1, <2>2, <2>3
  <2> QED BY <2>4 DEF ValidSequence
<1> QED BY Invariance, <1>1, PTL

\* Two finished generations of one request that agree as far as both go are the
\* same: the shorter one ended where the longer one would have had to.
LEMMA FinishedSame ==
  ASSUME NEW p, NEW o1 \in Seq(Tokens), NEW o2 \in Seq(Tokens),
         Len(o1) <= MaxNewTokens, Len(o2) <= MaxNewTokens,
         Chosen(p, o2), MayFinish(p, o1), Agree(o1, o2)
  PROVE  Len(o2) <= Len(o1)
<1> SUFFICES ASSUME ~(Len(o2) <= Len(o1)) PROVE FALSE
  OBVIOUS
<1>1. /\ Len(o1) \in Nat /\ Len(o2) \in Nat /\ Len(o1) < Len(o2)
      /\ MaxNewTokens \in Nat
  BY LenProperties, GeneratorAssumption
<1>2. Eos \in Serial!Continues(p, o1)
  BY <1>1 DEF MayFinish
<1>3. \A j \in 1..Len(o1) : o2[j] = o1[j] /\ o2[j] \in Tokens
  BY <1>1, ElementOfSeq DEF Agree
<1>4. SubSeq(o2, 1, Len(o1)) = o1
  <2>1. /\ SubSeq(o2, 1, Len(o1)) \in Seq(Tokens)
        /\ Len(SubSeq(o2, 1, Len(o1))) =
             IF 1 <= Len(o1) THEN Len(o1) - 1 + 1 ELSE 0
        /\ \A j \in 1..(Len(o1) - 1 + 1) :
             SubSeq(o2, 1, Len(o1))[j] = o2[1 + j - 1]
    BY <1>1, <1>3, SubSeqProperties
  <2>2. /\ Len(SubSeq(o2, 1, Len(o1))) = Len(o1)
        /\ \A j \in 1..Len(o1) : SubSeq(o2, 1, Len(o1))[j] = o2[j]
    BY <1>1, <2>1
  <2> QED BY <1>3, <2>1, <2>2, SeqEqual
<1>5. Len(o1) + 1 \in 1..Len(o2) /\ (Len(o1) + 1) - 1 = Len(o1)
  BY <1>1
<1>6. o2[Len(o1) + 1] \in Serial!Continues(p, o1) \ {Eos}
  BY <1>4, <1>5 DEF Chosen
<1> QED BY <1>2, <1>6, GreedyUnique

\* A translation that was answered is within the budget.
OkFits(c) == status[c] = "ok" => Len(text[c]) <= MaxNewTokens

LEMMA OkFitsInit == Init => \A c \in Callers : OkFits(c)
BY DEF Init, Serial!Init, OkFits

LEMMA OkFitsNext ==
  IInv /\ (\A c \in Callers : OkFits(c)) /\ [Next]_vars
    => (\A c \in Callers : OkFits(c))'
<1> SUFFICES ASSUME IInv, \A c \in Callers : OkFits(c), [Next]_vars,
                    NEW c \in Callers, status'[c] = "ok"
             PROVE  Len(text'[c]) <= MaxNewTokens
  BY DEF OkFits
<1>1. CASE status'[c] = status[c] /\ text'[c] = text[c]
  BY <1>1 DEF OkFits
<1>2. CASE text'[c] = Visible(generated[c])
  <2>1. generated[c] \in Seq(Tokens) /\ Len(generated[c]) <= MaxNewTokens
    BY DEF IInv, TypeOK
  <2>2. /\ Len(Visible(generated[c])) <= Len(generated[c])
        /\ Len(Visible(generated[c])) \in Nat /\ Len(generated[c]) \in Nat
        /\ MaxNewTokens \in Nat
    BY <2>1, VisibleType, LenProperties, GeneratorAssumption
  <2> QED BY <1>2, <2>1, <2>2
<1>3. status \in [Callers -> {"idle", "asked", "ok", "error", "panic"}]
      /\ text \in [Callers -> Seq(Tokens)]
  BY DEF IInv, TypeOK, Serial!TypeOK
<1>4. \/ status'[c] = status[c] /\ text'[c] = text[c]
      \/ text'[c] = Visible(generated[c])
  <2>1. CASE UNCHANGED vars
    BY <2>1 DEF vars
  <2>2. CASE Next
    <3>1. PICK d \in Callers :
            (\E p \in Prompts : Ask(d, p)) \/ Continue(d) \/ Panic(d)
      BY <2>2 DEF Next
    <3>2. CASE \E p \in Prompts : Ask(d, p)
      BY <1>3, <3>2 DEF Ask, Serial!Ask
    <3>3. ASSUME Refuse(d) \/ Return(d, "panic", <<>>)
          PROVE  status'[c] = status[c] /\ text'[c] = text[c]
      BY <1>3, <3>3 DEF Refuse, Return
    <3>4. CASE Panic(d)
      BY <3>3, <3>4 DEF Panic
    <3>5. CASE Encode(d) \/ (\E s \in Slots : Lock(d, s)) \/ RunEncoder(d)
      BY <3>3, <3>5 DEF Encode, Lock, RunEncoder, request
    <3>6. CASE RunDecoder(d) \/ Accept(d)
      BY <3>3, <3>6 DEF RunDecoder, Accept, request
    <3>7. CASE Decode(d)
      BY <1>3, <3>3, <3>7 DEF Decode, Return
    <3> QED BY <3>1, <3>2, <3>4, <3>5, <3>6, <3>7 DEF Continue
  <2> QED BY <2>1, <2>2
<1> QED BY <1>1, <1>2, <1>4

\* Greedy generation is a function of the request, for any number of callers and
\* however their runs interleave.
THEOREM AnswersAgree == Spec => []SameRequestSameAnswer
<1>1. IInv /\ (\A c \in Callers : OkFits(c)) => SameRequestSameAnswer
  <2> SUFFICES ASSUME IInv, \A c \in Callers : OkFits(c),
                      NEW c \in Callers, NEW d \in Callers,
                      prompt[c] = prompt[d], status[c] = "ok", status[d] = "ok"
               PROVE  text[c] = text[d]
    BY DEF SameRequestSameAnswer
  <2>1. \A e \in {c, d} :
          /\ text[e] \in Seq(Tokens) /\ Len(text[e]) <= MaxNewTokens
          /\ Output(e) = text[e]
          /\ Chosen(prompt[e], text[e]) /\ MayFinish(prompt[e], text[e])
    BY DEF IInv, TypeOK, Serial!TypeOK, OkFits, CallInv, RequestInv, OutputInv,
           Output
  <2>2. Agree(text[c], text[d]) /\ Agree(text[d], text[c])
    BY <2>1 DEF IInv, SameStart
  <2>3. Len(text[d]) <= Len(text[c]) /\ Len(text[c]) <= Len(text[d])
    BY <2>1, <2>2, FinishedSame
  <2>4. Len(text[c]) \in Nat /\ Len(text[d]) \in Nat
    BY <2>1, LenProperties
  <2>5. Len(text[c]) = Len(text[d])
    BY <2>3, <2>4
  <2>6. \A i \in 1..Len(text[c]) : text[c][i] = text[d][i]
    BY <2>2, <2>5 DEF Agree
  <2> QED BY <2>1, <2>5, <2>6, SeqEqual
<1> QED BY Invariance, OkFitsInit, OkFitsNext, <1>1, PTL DEF Spec

-------------------------------------------------------------------------------
\* OrtGenerator implements SerialTranslator.

\* What decode shows of a finished generation is what the promise allows.
LEMMA FinishedCompletes ==
  ASSUME IInv, NEW c \in Callers, pc[c] = "decode"
  PROVE  /\ Visible(generated[c]) \in Serial!Outputs
         /\ Serial!Completes(prompt[c], Visible(generated[c]))
<1> DEFINE o == Visible(generated[c])
<1>1. /\ generated[c] \in Seq(Tokens) /\ Len(generated[c]) <= MaxNewTokens
      /\ Chosen(prompt[c], o) /\ MayFinish(prompt[c], o)
  BY DEF IInv, TypeOK, CallInv, OutputInv, Output
<1>2. o \in Seq(Tokens) /\ Len(o) <= Len(generated[c])
  BY <1>1, VisibleType
<1>3. o \in Serial!Outputs
  <2>1. Len(o) \in Nat /\ Len(generated[c]) \in Nat /\ MaxNewTokens \in Nat
    BY <1>1, <1>2, LenProperties, GeneratorAssumption
  <2>2. Len(o) \in 0..MaxNewTokens
    BY <1>1, <1>2, <2>1
  <2>3. o \in [1..Len(o) -> Tokens]
    BY <1>2, LenProperties
  <2> QED BY <2>2, <2>3 DEF Serial!Outputs
<1>4. Serial!Completes(prompt[c], o)
  BY <1>1 DEF Serial!Completes, Chosen, MayFinish
<1> QED BY <1>3, <1>4

\* A refusal, or a panic, inside the call is one of the promise's.
LEMMA RefuseRefines ==
  ASSUME IInv, NEW c \in Callers, pc[c] # "idle",
         Refuse(c) \/ Return(c, "panic", <<>>)
  PROVE  Serial!Refuse(c)
<1>1. PICK outcome \in {"error", "panic"} : Return(c, outcome, <<>>)
  BY DEF Refuse
<1>2. status[c] = "asked" /\ text[c] = <<>>
  BY DEF IInv, CallInv, RequestInv
<1>3. text \in [Callers -> Seq(Tokens)]
  BY DEF IInv, TypeOK, Serial!TypeOK
<1>4. text' = text
  BY <1>1, <1>2, <1>3 DEF Return
<1> QED BY <1>1, <1>2, <1>4 DEF Return, Serial!Refuse

\* Every step is one of the promise's, or leaves its variables alone.
LEMMA StepRefines == IInv /\ [Next]_vars => [Serial!Next]_(Serial!vars)
<1> SUFFICES ASSUME IInv, [Next]_vars
             PROVE  Serial!Next \/ UNCHANGED Serial!vars
  OBVIOUS
<1> USE DEF request, Serial!vars
<1>1. CASE UNCHANGED vars
  BY <1>1 DEF vars
<1>2. CASE Next
  <2>1. PICK c \in Callers :
          (\E p \in Prompts : Ask(c, p)) \/ Continue(c) \/ Panic(c)
    BY <1>2 DEF Next
  <2>2. CASE \E p \in Prompts : Ask(c, p)
    BY <2>2 DEF Ask, Serial!Next
  <2>3. ASSUME pc[c] # "idle", Refuse(c) \/ Return(c, "panic", <<>>)
        PROVE  Serial!Next
    <3>1. Serial!Refuse(c)
      BY <2>3, RefuseRefines
    <3> QED BY <3>1 DEF Serial!Next
  <2>4. CASE Panic(c)
    <3>1. pc[c] # "idle"
      BY <2>4 DEF Panic, Slots
    <3> QED BY <2>3, <2>4, <3>1 DEF Panic
  <2>5. CASE Decode(c)
    <3>1. pc[c] = "decode"
      BY <2>5 DEF Decode
    <3>2. CASE Refuse(c)
      BY <2>3, <3>1, <3>2
    <3>3. CASE /\ Readable(Visible(generated[c]))
               /\ Return(c, "ok", Visible(generated[c]))
      <4>1. status[c] = "asked"
        BY <3>1 DEF IInv, CallInv, RequestInv
      <4>2. /\ Visible(generated[c]) \in Serial!Outputs
            /\ Serial!Completes(prompt[c], Visible(generated[c]))
        BY <3>1, FinishedCompletes
      <4>3. Serial!Answer(c)
        BY <3>3, <4>1, <4>2 DEF Return, Serial!Answer
      <4> QED BY <4>3 DEF Serial!Next
    <3> QED BY <2>5, <3>2, <3>3 DEF Decode
  <2>6. CASE Encode(c) \/ RunEncoder(c) \/ RunDecoder(c) \/ Accept(c)
    BY <2>3, <2>6 DEF Encode, RunEncoder, RunDecoder, Accept
  <2>7. CASE \E s \in Slots : Lock(c, s)
    <3>1. pc[c] # "idle"
      BY <2>7 DEF Lock, Awaiting
    <3> QED BY <2>3, <2>7, <3>1 DEF Lock
  <2> QED BY <2>1, <2>2, <2>4, <2>5, <2>6, <2>7 DEF Continue
<1> QED BY <1>1, <1>2

\* Callers that share a loaded generator get answers as if each had it alone:
\* the code's generator implements the serial translator.
THEOREM Implements == Spec => ImplementsSerial
<1>1. Init => Serial!Init
  BY DEF Init
<1> QED BY Invariance, <1>1, StepRefines, PTL
        DEF Spec, ImplementsSerial, Serial!Spec

===============================================================================
