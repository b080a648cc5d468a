---------------------------- MODULE ConfigProofs ----------------------------
(***************************************************************************)
(* What the pure parts compute, proved for every set of token ids, every   *)
(* width of the C types and tensors of every shape.  A validated           *)
(* constructor is a sequence of checks with an early return each (Checked);*)
(* the order of the checks decides which error is told, and the theorems   *)
(* say that it decides nothing else.                                       *)
(***************************************************************************)
EXTENDS OrtTensors, LlamaRuntimeConfig, ManifestWriter, JniUtf, SequenceTheorems,
        WellFoundedInduction, TLAPS

----------------------------------------------------------------------------
(* Every set of numbers that is not empty has a least element: what a      *)
(* CHOOSE of the first index finds, and how a loop is followed to its end. *)
LEMMA NatWellOrdered ==
  ASSUME NEW T, T \subseteq Nat, T # {}
  PROVE  \E m \in T : \A n \in T : m <= n
<1> DEFINE R == OpToRel(<, Nat)
<1>1. IsWellFoundedOn(R, Nat)
  BY NatLessThanWellFounded
<1>2. \A x, y \in Nat : x < y => <<x, y>> \in R
  BY DEF OpToRel
<1> HIDE DEF R
<1>3. \E x \in T : \A y \in T : ~ (<<y, x>> \in R)
  BY <1>1, WFMin
<1>4. PICK m \in T : \A y \in T : ~ (<<y, m>> \in R)
  BY <1>3
<1>5. ASSUME NEW n \in T PROVE m <= n
  <2>1. ~ (n < m)
    BY <1>2, <1>4
  <2> QED BY <2>1
<1> QED BY <1>5

(* Induction, as a fact about sets.                                        *)
LEMMA SetInduction ==
  ASSUME NEW S, S \subseteq Nat, 0 \in S, \A n \in Nat : n \in S => n + 1 \in S
  PROVE  S = Nat
<1>1. SUFFICES ASSUME Nat \ S # {} PROVE FALSE
  OBVIOUS
<1>2. PICK m \in Nat \ S : \A n \in Nat \ S : m <= n
  BY <1>1, NatWellOrdered
<1>3. m # 0 /\ m - 1 \in Nat
  BY <1>2
<1>4. m - 1 \in S
  BY <1>2, <1>3
<1> QED BY <1>2, <1>3, <1>4

----------------------------------------------------------------------------
(* Checks.  Only sequences of them are put together.                       *)
IsSeq(s) == \E n \in Nat : s = [i \in 1 .. n |-> s[i]]
Clean(checks) == \A i \in DOMAIN checks : ~ checks[i][1]

LEMMA SeqOfItsRange ==
  ASSUME NEW s, IsSeq(s)
  PROVE  s \in Seq({s[i] : i \in DOMAIN s})
<1>1. PICK n \in Nat : s = [i \in 1 .. n |-> s[i]]
  BY DEF IsSeq
<1>2. DOMAIN s = 1 .. n
  BY <1>1
<1> DEFINE R == {s[i] : i \in DOMAIN s}
<1>3. \A i \in 1 .. n : s[i] \in R
  BY <1>2
<1> HIDE DEF R
<1>4. s \in [1 .. n -> R]
  BY <1>1, <1>3
<1>5. s \in Seq(R)
  BY <1>4
<1> QED BY <1>5 DEF R

LEMMA SeqIsSeq ==
  ASSUME NEW R, NEW s \in Seq(R)
  PROVE  IsSeq(s)
<1>1. Len(s) \in Nat /\ s = [i \in 1 .. Len(s) |-> s[i]]
  OBVIOUS
<1> QED BY <1>1 DEF IsSeq

(* A chain of `?` passes if and only if no check of it fails.              *)
LEMMA CheckedOk ==
  ASSUME NEW checks, NEW value
  PROVE  /\ Checked(checks, value).ok \in BOOLEAN
         /\ Checked(checks, value).ok <=> Clean(checks)
         /\ Clean(checks) => Checked(checks, value) = Ok(value)
BY DEF Checked, Fails, Ok, Err, Clean

LEMMA Results ==
  ASSUME NEW x
  PROVE  Ok(x).ok /\ Ok(x).value = x /\ ~ Err(x).ok
BY DEF Ok, Err

(* Two chains, one after the other.                                        *)
LEMMA CleanConcat ==
  ASSUME NEW s, NEW t, IsSeq(s), IsSeq(t)
  PROVE  /\ IsSeq(s \o t)
         /\ Clean(s \o t) <=> Clean(s) /\ Clean(t)
<1> DEFINE R == {s[i] : i \in DOMAIN s} \cup {t[i] : i \in DOMAIN t}
<1>1. s \in Seq(R) /\ t \in Seq(R)
  <2>1. s \in Seq({s[i] : i \in DOMAIN s}) /\ t \in Seq({t[i] : i \in DOMAIN t})
    BY SeqOfItsRange
  <2> QED BY <2>1
<1> HIDE DEF R
<1>2. s \o t \in Seq(R) /\ Len(s \o t) = Len(s) + Len(t)
  BY <1>1
<1>3. \A i \in 1 .. Len(s) : (s \o t)[i] = s[i]
  BY <1>1
<1>4. \A i \in 1 .. Len(t) : (s \o t)[Len(s) + i] = t[i]
  BY <1>1
<1>5. IsSeq(s \o t)
  BY <1>2, SeqIsSeq
<1>6. Clean(s \o t) => Clean(s) /\ Clean(t)
  <2> SUFFICES ASSUME Clean(s \o t) PROVE Clean(s) /\ Clean(t)
    OBVIOUS
  <2>1. Clean(s)
    BY <1>1, <1>2, <1>3 DEF Clean
  <2>2. ASSUME NEW i \in DOMAIN t PROVE ~ t[i][1]
    <3>1. i \in 1 .. Len(t) /\ Len(s) + i \in DOMAIN (s \o t)
      BY <1>1, <1>2
    <3> QED BY <3>1, <1>4 DEF Clean
  <2> QED BY <2>1, <2>2 DEF Clean
<1>7. Clean(s) /\ Clean(t) => Clean(s \o t)
  <2> SUFFICES ASSUME Clean(s), Clean(t), NEW i \in DOMAIN (s \o t)
               PROVE  ~ (s \o t)[i][1]
    BY DEF Clean
  <2>1. CASE i <= Len(s)
    BY <2>1, <1>1, <1>2, <1>3 DEF Clean
  <2>2. CASE i > Len(s)
    <3>1. i - Len(s) \in 1 .. Len(t) /\ i = Len(s) + (i - Len(s))
      BY <2>2, <1>1, <1>2
    <3>2. (s \o t)[i] = t[i - Len(s)]
      BY <3>1, <1>4
    <3> QED BY <3>1, <3>2, <1>1 DEF Clean
  <2> QED BY <2>1, <2>2, <1>1, <1>2
<1> QED BY <1>5, <1>6, <1>7

----------------------------------------------------------------------------
(* The generation config.                                                  *)
LEMMA LimitChecked ==
  ASSUME NEW value \in Nat
  PROVE  /\ IsSeq(MaxNewTokensChecks(value))
         /\ Clean(MaxNewTokensChecks(value)) <=> value \in 1 .. MAX_TOKENS
<1>1. MAX_TOKENS = 16384
  BY DEF MAX_TOKENS, MAX_TEXT_CHARS
<1>2. IsSeq(MaxNewTokensChecks(value))
  BY DEF IsSeq, MaxNewTokensChecks
<1>3. /\ DOMAIN MaxNewTokensChecks(value) = 1 .. 2
      /\ MaxNewTokensChecks(value)[1] = <<value = 0, [kind |-> "EmptyMaxNewTokens"]>>
      /\ MaxNewTokensChecks(value)[2] =
           <<value > MAX_TOKENS, [kind |-> "MaxNewTokensTooLarge", actual |-> value]>>
  BY DEF MaxNewTokensChecks
<1>4. /\ MaxNewTokensChecks(value)[1][1] = (value = 0)
      /\ MaxNewTokensChecks(value)[2][1] = (value > MAX_TOKENS)
  BY <1>3
<1>5. Clean(MaxNewTokensChecks(value)) <=>
        ~ MaxNewTokensChecks(value)[1][1] /\ ~ MaxNewTokensChecks(value)[2][1]
  <2>1. DOMAIN MaxNewTokensChecks(value) = {1, 2}
    BY <1>3
  <2> QED BY <2>1, Zenon DEF Clean
<1>6. Clean(MaxNewTokensChecks(value)) <=> ~ (value = 0) /\ ~ (value > MAX_TOKENS)
  BY <1>4, <1>5, Zenon
<1> QED BY <1>1, <1>2, <1>6

LEMMA SpecialTokensChecked ==
  ASSUME NEW bos, NEW eos
  PROVE  /\ IsSeq(SpecialTokensChecks(bos, eos))
         /\ Clean(SpecialTokensChecks(bos, eos)) <=> bos # eos
<1>1. IsSeq(SpecialTokensChecks(bos, eos))
  BY DEF IsSeq, SpecialTokensChecks
<1>2. /\ DOMAIN SpecialTokensChecks(bos, eos) = {1}
      /\ SpecialTokensChecks(bos, eos)[1][1] = (bos = eos)
  BY DEF SpecialTokensChecks
<1>3. Clean(SpecialTokensChecks(bos, eos)) <=> ~ (bos = eos)
  BY <1>2 DEF Clean
<1> QED BY <1>1, <1>3

(* The ten pairs of the two loops are all pairs of languages.              *)
LEMMA LanguageTokensChecked ==
  ASSUME NEW ids
  PROVE  /\ IsSeq(LanguageTokensChecks(ids))
         /\ Clean(LanguageTokensChecks(ids)) <=> DistinctTokens(ids)
<1>1. DOMAIN LaterPairs = 1 .. 10 /\ DOMAIN LanguageOrder = 1 .. 5
  BY DEF LaterPairs, LanguageOrder
<1>2. IsSeq(LanguageTokensChecks(ids))
  BY <1>1 DEF IsSeq, LanguageTokensChecks
<1>3. Clean(LanguageTokensChecks(ids)) <=>
        \A i \in 1 .. 10 :
          ids[LanguageOrder[LaterPairs[i][1]]] # ids[LanguageOrder[LaterPairs[i][2]]]
  BY <1>1 DEF Clean, LanguageTokensChecks
<1>4. \A i, j \in 1 .. 5 : i < j => \E k \in 1 .. 10 : LaterPairs[k] = <<i, j>>
  BY DEF LaterPairs
<1>5. \A k \in 1 .. 10 : /\ LaterPairs[k][1] \in 1 .. 5 /\ LaterPairs[k][2] \in 1 .. 5
                         /\ LaterPairs[k][1] # LaterPairs[k][2]
  BY DEF LaterPairs
<1>6. DistinctTokens(ids) <=> 
        \A i, j \in 1 .. 5 : i # j => ids[LanguageOrder[i]] # ids[LanguageOrder[j]]
  BY <1>1 DEF DistinctTokens
<1>7. Clean(LanguageTokensChecks(ids)) => DistinctTokens(ids)
  <2> SUFFICES ASSUME Clean(LanguageTokensChecks(ids)),
                      NEW i \in 1 .. 5, NEW j \in 1 .. 5, i # j
               PROVE  ids[LanguageOrder[i]] # ids[LanguageOrder[j]]
    BY <1>6
  <2>1. CASE i < j
    <3>1. PICK k \in 1 .. 10 : LaterPairs[k] = <<i, j>>
      BY <1>4, <2>1
    <3> QED BY <1>3, <3>1
  <2>2. CASE j < i
    <3>1. PICK k \in 1 .. 10 : LaterPairs[k] = <<j, i>>
      BY <1>4, <2>2
    <3> QED BY <1>3, <3>1
  <2> QED BY <2>1, <2>2
<1>8. DistinctTokens(ids) => Clean(LanguageTokensChecks(ids))
  BY <1>3, <1>5, <1>6
<1> QED BY <1>2, <1>7, <1>8

(* Ten comparisons: each language with BOS and with EOS.                   *)
LEMMA CollisionsChecked ==
  ASSUME NEW bos, NEW eos, NEW ids
  PROVE  /\ IsSeq(CollisionChecks(bos, eos, ids))
         /\ Clean(CollisionChecks(bos, eos, ids)) <=>
              \A language \in Language : ids[language] \notin {bos, eos}
<1>1. Len(LanguageOrder) = 5 /\ DOMAIN LanguageOrder = 1 .. 5
  BY DEF LanguageOrder
<1>2. IsSeq(CollisionChecks(bos, eos, ids))
  BY <1>1 DEF IsSeq, CollisionChecks
<1>3. DOMAIN CollisionChecks(bos, eos, ids) = 1 .. 10
  BY <1>1 DEF CollisionChecks
<1>4. ASSUME NEW i \in 1 .. 10
      PROVE  CollisionChecks(bos, eos, ids)[i][1] =
               (ids[LanguageOrder[(i + 1) \div 2]] = IF i % 2 = 1 THEN bos ELSE eos)
  <2>1. 1 .. 2 * Len(LanguageOrder) = 1 .. 10
    BY <1>1
  <2>2. i \in 1 .. 2 * Len(LanguageOrder)
    BY <2>1
  <2> QED BY <2>2, Zenon DEF CollisionChecks
<1>5. Clean(CollisionChecks(bos, eos, ids)) <=>
        \A i \in 1 .. 10 :
          ids[LanguageOrder[(i + 1) \div 2]] # IF i % 2 = 1 THEN bos ELSE eos
  BY <1>3, <1>4, Zenon DEF Clean
<1>6. \A i \in 1 .. 10 : (i + 1) \div 2 \in 1 .. 5
  OBVIOUS
<1>7. \A k \in 1 .. 5 : /\ 2 * k \in 1 .. 10 /\ (2 * k + 1) \div 2 = k /\ (2 * k) % 2 = 0
                        /\ 2 * k - 1 \in 1 .. 10 /\ (2 * k - 1 + 1) \div 2 = k
                        /\ (2 * k - 1) % 2 = 1
  OBVIOUS
<1>8. Language = {LanguageOrder[k] : k \in 1 .. 5}
  BY <1>1 DEF Language
<1>9. Clean(CollisionChecks(bos, eos, ids)) =>
        \A language \in Language : ids[language] \notin {bos, eos}
  <2> SUFFICES ASSUME Clean(CollisionChecks(bos, eos, ids)), NEW k \in 1 .. 5
               PROVE  ids[LanguageOrder[k]] \notin {bos, eos}
    BY <1>8
  <2>1. ids[LanguageOrder[k]] # bos
    BY <1>5, <1>7
  <2>2. ids[LanguageOrder[k]] # eos
    BY <1>5, <1>7
  <2> QED BY <2>1, <2>2
<1>10. (\A language \in Language : ids[language] \notin {bos, eos}) =>
         Clean(CollisionChecks(bos, eos, ids))
  BY <1>5, <1>6, <1>8
<1> QED BY <1>2, <1>9, <1>10

(* A generation config is accepted if and only if it is usable: its limit  *)
(* is in range and its seven tokens are seven (TryFrom for                 *)
(* GenerationConfig), whatever the vocabulary.                             *)
THEOREM AcceptedIffUsable ==
  ASSUME None \notin Nat,
         NEW raw \in RawGenerationConfig
  PROVE  TryIntoConfig(raw).ok <=> Usable(raw)
<1> DEFINE limit == MaxNewTokensChecks(LimitOf(raw))
           special == SpecialTokensChecks(raw.bos_token_id, raw.eos_token_id)
           languages == LanguageTokensChecks(raw.language_token_ids)
           collisions == CollisionChecks(raw.bos_token_id, raw.eos_token_id,
                                         raw.language_token_ids)
<1>1. LimitOf(raw) \in Nat
  BY DEF LimitOf, RawGenerationConfig, DEFAULT_MAX_NEW_TOKENS
<1>2. IsSeq(limit) /\ (Clean(limit) <=> LimitOf(raw) \in 1 .. MAX_TOKENS)
  BY <1>1, LimitChecked
<1>3. IsSeq(special) /\ (Clean(special) <=> raw.bos_token_id # raw.eos_token_id)
  BY SpecialTokensChecked
<1>4. IsSeq(languages) /\ (Clean(languages) <=> DistinctTokens(raw.language_token_ids))
  BY LanguageTokensChecked
<1>5. IsSeq(collisions) /\ 
      (Clean(collisions) <=>
         \A language \in Language :
           raw.language_token_ids[language] \notin {raw.bos_token_id, raw.eos_token_id})
  BY CollisionsChecked
<1>6. TryIntoConfig(raw).ok <=> Clean(limit \o special \o languages \o collisions)
  BY CheckedOk DEF TryIntoConfig
<1> HIDE DEF limit, special, languages, collisions
<1>7. IsSeq(limit \o special) /\ (Clean(limit \o special) <=> Clean(limit) /\ Clean(special))
  BY <1>2, <1>3, CleanConcat
<1>8. /\ IsSeq(limit \o special \o languages)
      /\ Clean(limit \o special \o languages) <=> Clean(limit \o special) /\ Clean(languages)
  BY <1>4, <1>7, CleanConcat
<1>9. Clean(limit \o special \o languages \o collisions) <=>
        Clean(limit \o special \o languages) /\ Clean(collisions)
  BY <1>5, <1>8, CleanConcat
<1> QED BY <1>2, <1>3, <1>4, <1>5, <1>6, <1>7, <1>8, <1>9 DEF Usable

----------------------------------------------------------------------------
(* The llama.cpp runtime config and the C interface.                       *)

LEMMA FourClean ==
  ASSUME NEW a, NEW b, NEW c, NEW d, Clean(<<a, b, c, d>>)
  PROVE  ~ a[1] /\ ~ b[1]
<1> DEFINE checks == <<a, b, c, d>>
<1>1. 1 \in DOMAIN checks /\ checks[1] = a /\ 2 \in DOMAIN checks /\ checks[2] = b
  OBVIOUS
<1>2. ~ checks[1][1] /\ ~ checks[2][1]
  <2> HIDE DEF checks
  <2>1. Clean(checks)
    BY DEF checks
  <2> QED BY <1>1, <2>1, Zenon DEF Clean
<1> HIDE DEF checks
<1> QED BY <1>1, <1>2

(* Every config that is accepted and every context made from it stays in   *)
(* what llama.cpp can hold: the narrowing casts lose nothing, the micro    *)
(* batch is never empty and never larger than the batch.                   *)
THEOREM ContextParamsFit ==
  ASSUME NEW config \in [context_tokens : Nat, cpu_threads : Nat, max_output_tokens : Nat,
                         temperature : Int \cup {NonFinite}],
         U32_MAX \in Nat, I32_MAX \in Nat,
         NEW proposed \in 0 .. U32_MAX,
         Clean(LlamaConfigChecks(config)),
         ContextParams(config, proposed).ok
  PROVE  LET params == ContextParams(config, proposed).value IN
         /\ params.n_ctx \in 1 .. U32_MAX /\ params.n_ctx = config.context_tokens
         /\ params.n_threads \in 1 .. I32_MAX /\ params.n_threads = config.cpu_threads
         /\ params.n_ubatch \in 1 .. params.n_batch
<1> DEFINE params == [n_ctx |-> config.context_tokens, n_batch |-> config.context_tokens,
                      n_ubatch |-> IF proposed = 0 \/ proposed > config.context_tokens
                                   THEN config.context_tokens ELSE proposed,
                      n_threads |-> config.cpu_threads]
           narrow == << <<config.context_tokens > U32_MAX,
                          <<"context_tokens", "must fit into u32">> >>,
                        <<config.cpu_threads > I32_MAX,
                          <<"cpu_threads", "must fit into i32">> >> >>
<1>1. ContextParams(config, proposed) = Checked(narrow, params)
  BY DEF ContextParams
<1>2. Clean(narrow) /\ ContextParams(config, proposed) = Ok(params)
  <2> HIDE DEF narrow, params
  <2> QED BY <1>1, CheckedOk
<1>3. ~ (config.context_tokens > U32_MAX) /\ ~ (config.cpu_threads > I32_MAX)
  <2>1. /\ 1 \in DOMAIN narrow /\ narrow[1][1] = (config.context_tokens > U32_MAX)
        /\ 2 \in DOMAIN narrow /\ narrow[2][1] = (config.cpu_threads > I32_MAX)
    OBVIOUS
  <2> HIDE DEF narrow
  <2> QED BY <1>2, <2>1, Zenon DEF Clean
<1>4. ~ (config.context_tokens = 0) /\ ~ (config.cpu_threads = 0)
  <2>1. /\ ~ ZeroCheck("context_tokens", config.context_tokens)[1]
        /\ ~ ZeroCheck("cpu_threads", config.cpu_threads)[1]
    BY FourClean DEF LlamaConfigChecks
  <2> QED BY <2>1 DEF ZeroCheck
<1>5. config.context_tokens \in Nat /\ config.cpu_threads \in Nat
  OBVIOUS
<1>6. /\ params.n_ctx = config.context_tokens /\ params.n_batch = config.context_tokens
      /\ params.n_threads = config.cpu_threads /\ params.n_ubatch \in 1 .. params.n_batch
  BY <1>4, <1>5
<1>7. ContextParams(config, proposed).value = params
  <2> HIDE DEF params
  <2> QED BY <1>2, Results
<1> HIDE DEF params
<1> QED BY <1>3, <1>4, <1>5, <1>6, <1>7

(* The size llama_tokenize asks for is the size that is allocated, for     *)
(* every count the interface can tell and for none it cannot.              *)
THEOREM TokenCapacityIsCount ==
  ASSUME I32_MAX \in Nat, NEW count \in Nat
  PROVE  /\ TokenCapacity(TokenizeSizeResult(count)).ok <=> count \in 1 .. I32_MAX
         /\ TokenCapacity(TokenizeSizeResult(count)).ok =>
              TokenCapacity(TokenizeSizeResult(count)).value = count
<1> DEFINE result == TokenizeSizeResult(count)
<1>1. CASE count > I32_MAX
  <2>1. result = I32_MIN
    BY <1>1 DEF TokenizeSizeResult
  <2>2. I32_MIN # 0 /\ ~ (I32_MIN > 0)
    BY DEF I32_MIN
  <2>3. TokenCapacity(result) = Err("tokenization size overflow")
    BY <2>1, <2>2, Zenon DEF TokenCapacity
  <2>4. ~ TokenCapacity(result).ok
    BY <2>3, Results, Zenon
  <2> QED BY <1>1, <2>4
<1>2. CASE count = 0
  <2>1. result = 0
    <3>1. ~ (count > I32_MAX)
      BY <1>2
    <3>2. \A n \in Nat : - n \in Int /\ n + (- n) = 0
      OBVIOUS
    <3>3. - count \in Int /\ count + (- count) = 0
      BY <3>2, Zenon
    <3>4. \A m \in Int : 0 + m = 0 => m = 0
      OBVIOUS
    <3>5. - count = 0
      BY <1>2, <3>3, <3>4, Zenon
    <3> QED BY <3>1, <3>5, Zenon DEF TokenizeSizeResult
  <2>2. TokenCapacity(result) = Err("no tokens")
    BY <2>1, Zenon DEF TokenCapacity
  <2>3. ~ TokenCapacity(result).ok
    BY <2>2, Results, Zenon
  <2> QED BY <1>2, <2>3
<1>3. CASE count \in 1 .. I32_MAX
  <2>1. ~ (count > I32_MAX)
    BY <1>3
  <2>2. result = - count
    BY <2>1, Zenon DEF TokenizeSizeResult
  <2>3. - count # 0 /\ ~ (- count > 0) /\ - count # I32_MIN /\ - (- count) = count
    BY <1>3 DEF I32_MIN
  <2>4. TokenCapacity(result) = Ok(count)
    BY <2>2, <2>3, Zenon DEF TokenCapacity
  <2>5. TokenCapacity(result).ok /\ TokenCapacity(result).value = count
    BY <2>4, Results, Zenon
  <2> QED BY <1>3, <2>5
<1> QED BY <1>1, <1>2, <1>3

----------------------------------------------------------------------------
(* The mock translator echoes every text that made it into a request: no   *)
(* text is too long for it, the longest in four bytes a character included *)
(* (TokenSequence::new, MAX_TOKENS).                                       *)
THEOREM MockEchoes ==
  ASSUME NEW text \in [chars : Nat, trimmed : Nat, bytes : Nat], text # None,
         text.trimmed <= text.chars, text.chars <= text.bytes, text.bytes <= 4 * text.chars,
         NonEmptyText(text).ok,
         NEW source, NEW target, source # target
  PROVE  MockPipeline(TranslateRequest(source, target, text).value) = Ok(text)
<1> DEFINE request == TranslateRequest(source, target, text).value
           sequence == MockSequence(text.bytes, TRUE, text)
<1>1. request.text = text
  <2> DEFINE checks == << <<source = target, "SameLanguage">> >>
  <2>1. DOMAIN checks = {1} /\ checks[1][1] = (source = target)
    OBVIOUS
  <2>2. Clean(checks)
    <3> HIDE DEF checks
    <3> QED BY <2>1, Zenon DEF Clean
  <2>3. LanguagePair(source, target).ok
    BY <2>2, CheckedOk DEF LanguagePair
  <2> QED BY <2>3 DEF TranslateRequest, Ok
<1>2. text.trimmed > 0 /\ text.chars <= 4096 /\ NonEmptyText(text) = Ok(text)
  <2> DEFINE checks == << <<text.trimmed = 0, "Empty">>,
                          <<text.chars > MAX_TEXT_CHARS, "TooLong">> >>
  <2>1. Clean(checks) /\ NonEmptyText(text) = Ok(text)
    BY CheckedOk DEF NonEmptyText
  <2>2. /\ 1 \in DOMAIN checks /\ checks[1][1] = (text.trimmed = 0)
        /\ 2 \in DOMAIN checks /\ checks[2][1] = (text.chars > MAX_TEXT_CHARS)
    OBVIOUS
  <2>3. ~ (text.trimmed = 0) /\ ~ (text.chars > MAX_TEXT_CHARS)
    <3> HIDE DEF checks
    <3> QED BY <2>1, <2>2, Zenon DEF Clean
  <2> QED BY <2>1, <2>3 DEF MAX_TEXT_CHARS
<1>3. ~ (text.bytes = 0) /\ ~ (text.bytes > MAX_TOKENS)
  BY <1>2 DEF MAX_TOKENS, MAX_TEXT_CHARS
<1>4. TokenSequence(text.bytes, sequence) = Ok(sequence)
  <2> DEFINE checks == << <<text.bytes = 0, "EmptyTokenSequence">>,
                          <<text.bytes > MAX_TOKENS, "TokenSequenceTooLong">> >>
  <2>1. /\ DOMAIN checks = {1, 2} 
        /\ checks[1][1] = (text.bytes = 0) /\ checks[2][1] = (text.bytes > MAX_TOKENS)
    OBVIOUS
  <2>2. Clean(checks)
    <3> HIDE DEF checks
    <3> QED BY <1>3, <2>1, Zenon DEF Clean
  <2> QED BY <2>2, CheckedOk DEF TokenSequence
<1>5. MockEncode(request) = Ok(sequence)
  BY <1>1, <1>4 DEF MockEncode
<1>6. MockDecode(sequence) = Ok(text)
  BY <1>2 DEF MockDecode, MockSequence
<1> HIDE DEF sequence, request
<1> QED BY <1>5, <1>6 DEF MockPipeline, MockGenerate, Ok, request

----------------------------------------------------------------------------
(* The logits of a decoder run.  A tensor that passes the shape checks is  *)
(* cut inside its values, without a product that wraps, and the cut is the *)
(* last row, the whole of it (validate_logits_shape, final_token_logits).  *)
THEOREM LastRowIsWhole ==
  ASSUME USIZE_MAX \in Nat,
         NEW Score, NEW values \in Seq(Score), NEW shape \in Seq(Nat),
         FinalTokenLogits([shape |-> shape, values |-> values]).ok
  PROVE  /\ Len(shape) = 3 /\ shape[3] \in 1 .. Len(values) /\ Len(values) <= USIZE_MAX
         /\ FinalTokenLogits([shape |-> shape, values |-> values]).value =
              SubSeq(values, Len(values) - shape[3] + 1, Len(values))
<1> DEFINE output == [shape |-> shape, values |-> values]
           batch == shape[1]
           sequence == shape[2]
           vocabulary == shape[3]
           start == (sequence - 1) * vocabulary
           row == SubSeq(values, start + 1, start + vocabulary)
           checks == LogitsShapeChecks(batch, sequence, vocabulary, Len(values))
<1>1. Len(shape) = 3
  <2> SUFFICES ASSUME Len(shape) # 3 PROVE FALSE
    OBVIOUS
  <2>1. Len(output.shape) # 3
    OBVIOUS
  <2> HIDE DEF output
  <2>2. FinalTokenLogits(output) = Err("InvalidRank")
    BY <2>1, Zenon DEF FinalTokenLogits
  <2>3. FinalTokenLogits(output).ok
    BY DEF output
  <2> QED BY <2>2, <2>3, Results, Zenon
<1>2. FinalTokenLogits(output) = Checked(checks, row)
  <2>1. output.shape = shape /\ output.values = values
    OBVIOUS
  <2> HIDE DEF output
  <2> QED BY <1>1, <2>1, Zenon DEF FinalTokenLogits
<1>3. Clean(checks) /\ FinalTokenLogits(output).value = row
  <2> HIDE DEF output, checks, row
  <2>1. FinalTokenLogits(output).ok
    BY DEF output
  <2>2. Clean(checks)
    BY <1>2, <2>1, CheckedOk, Zenon
  <2>3. FinalTokenLogits(output) = Ok(row)
    BY <1>2, <2>2, CheckedOk, Zenon
  <2> QED BY <2>2, <2>3, Results, Zenon
<1>4. batch \in Nat /\ sequence \in Nat /\ vocabulary \in Nat /\ Len(values) \in Nat
  <2>1. 1 \in DOMAIN shape /\ 2 \in DOMAIN shape /\ 3 \in DOMAIN shape
    BY <1>1
  <2>2. \A i \in DOMAIN shape : shape[i] \in Nat
    OBVIOUS
  <2> QED BY <2>1, <2>2
<1> HIDE DEF batch, sequence, vocabulary
<1>5. DOMAIN checks = {1, 2, 3, 4, 5}
  BY DEF LogitsShapeChecks
<1>6. /\ ~ (batch # 1) /\ ~ (sequence = 0) /\ ~ (vocabulary = 0)
      /\ ~ ElementCountOverflow(batch, sequence, vocabulary)
      /\ ~ (batch * sequence * vocabulary # Len(values))
  <2>1. /\ checks[1][1] = (batch # 1) /\ checks[2][1] = (sequence = 0)
        /\ checks[3][1] = (vocabulary = 0)
        /\ checks[4][1] = ElementCountOverflow(batch, sequence, vocabulary)
        /\ checks[5][1] = (batch * sequence * vocabulary # Len(values))
    BY Zenon DEF LogitsShapeChecks
  <2> HIDE DEF checks
  <2> QED BY <1>3, <1>5, <2>1, Zenon DEF Clean
<1>7. sequence * vocabulary = Len(values) /\ Len(values) <= USIZE_MAX
  <2>1. batch * sequence = sequence
    BY <1>4, <1>6
  <2>2. ~ (batch * sequence * vocabulary > USIZE_MAX)
    BY <1>6, Zenon DEF ElementCountOverflow, Overflows
  <2> QED BY <1>4, <1>6, <2>1, <2>2
<1>8. start = Len(values) - vocabulary /\ vocabulary >= 1 /\ vocabulary <= Len(values)
  <2>1. \A s, v \in Nat : (s - 1) * v = s * v - v
    OBVIOUS
  <2>2. \A s, v \in Nat : s >= 1 => s * v >= v
    OBVIOUS
  <2>3. sequence >= 1 /\ vocabulary >= 1
    BY <1>4, <1>6
  <2> QED BY <1>4, <1>7, <2>1, <2>2, <2>3
<1>9. row = SubSeq(values, Len(values) - vocabulary + 1, Len(values))
  <2>1. start + vocabulary = Len(values)
    BY <1>4, <1>8
  <2> HIDE DEF start
  <2> QED BY <1>8, <2>1, Zenon
<1>10. vocabulary \in 1 .. Len(values)
  BY <1>4, <1>8
<1> HIDE DEF row, start, checks
<1> QED BY <1>1, <1>3, <1>7, <1>9, <1>10, Zenon DEF vocabulary

----------------------------------------------------------------------------
(* The token that a row selects: the pass over the row is followed, and    *)
(* what it keeps is the first of the highest scores so far (select_argmax).*)
Keep(logits, n, kept) == IF kept = 0 \/ logits[n] > logits[kept] THEN n ELSE kept

LEMMA BestIsAPass ==
  ASSUME NEW logits, Len(logits) \in Nat
  PROVE  \E best : /\ Best(logits) = best[Len(logits)]
                   /\ best[0] = 0
                   /\ \A n \in 1 .. Len(logits) : best[n] = Keep(logits, n, best[n - 1])
<1> DEFINE Pass(best, N) == best = [n \in 0 .. N |-> IF n = 0 THEN 0 ELSE Keep(logits, n, best[n - 1])]
           S == {N \in Nat : \E best : Pass(best, N)}
<1>1. 0 \in S
  <2>1. Pass([n \in 0 .. 0 |-> 0], 0)
    OBVIOUS
  <2> QED BY <2>1
<1>2. ASSUME NEW N \in Nat, N \in S PROVE N + 1 \in S
  <2>1. PICK best : Pass(best, N)
    BY <1>2
  <2> DEFINE next == [n \in 0 .. N + 1 |-> IF n = N + 1 THEN Keep(logits, N + 1, best[N]) ELSE best[n]]
             full == [n \in 0 .. N + 1 |-> IF n = 0 THEN 0 ELSE Keep(logits, n, next[n - 1])]
  <2>2. ASSUME NEW n \in 0 .. N + 1 PROVE next[n] = full[n]
    <3>1. CASE n = N + 1
      BY <3>1, <2>1
    <3>2. CASE n \in 1 .. N
      <4>1. n # N + 1 /\ n - 1 \in 0 .. N /\ n - 1 # N + 1 /\ n # 0 /\ n \in 0 .. N
        BY <3>2
      <4>2. next[n] = best[n] /\ next[n - 1] = best[n - 1] /\ full[n] = Keep(logits, n, next[n - 1])
        BY <4>1
      <4>3. best[n] = Keep(logits, n, best[n - 1])
        BY <4>1, <2>1
      <4> QED BY <4>2, <4>3
    <3>3. CASE n = 0
      BY <3>3, <2>1
    <3> QED BY <3>1, <3>2, <3>3
  <2>3. next = full
    BY <2>2
  <2> HIDE DEF next
  <2> QED BY <2>3
<1>3. \E best : Pass(best, Len(logits))
  <2>1. S \subseteq Nat
    OBVIOUS
  <2> HIDE DEF Pass, S
  <2>2. S = Nat
    BY <1>1, <1>2, <2>1, SetInduction
  <2> QED BY <2>2 DEF S
<1> DEFINE found == CHOOSE best : Pass(best, Len(logits))
<1>4. Pass(found, Len(logits))
  BY <1>3
<1>5. Best(logits) = found[Len(logits)]
  BY DEF Best, Keep
<1> HIDE DEF found
<1> QED BY <1>4, <1>5

LEMMA BestIsFirst ==
  ASSUME NEW logits \in Seq(Int), Len(logits) > 0
  PROVE  Best(logits) \in DOMAIN logits /\ FirstMaximum(logits, Best(logits))
<1> DEFINE len == Len(logits)
           FirstOf(n, k) == k \in 1 .. n /\ \A j \in 1 .. n : logits[j] <= logits[k] /\ (j < k => logits[j] < logits[k])
<1>1. len \in Nat /\ DOMAIN logits = 1 .. len /\ \A j \in 1 .. len : logits[j] \in Int
  OBVIOUS
<1> HIDE DEF len
<1>2. PICK best : /\ Best(logits) = best[len]
                  /\ best[0] = 0
                  /\ \A n \in 1 .. len : best[n] = Keep(logits, n, best[n - 1])
  BY <1>1, BestIsAPass DEF len
<1> DEFINE S == {n \in Nat : n \in 1 .. len => FirstOf(n, best[n])}
<1>3. S \subseteq Nat /\ 0 \in S
  OBVIOUS
<1>4. ASSUME NEW n \in Nat, n \in S PROVE n + 1 \in S
  <2> SUFFICES ASSUME n + 1 \in 1 .. len PROVE FirstOf(n + 1, best[n + 1])
    OBVIOUS
  <2>1. best[n + 1] = Keep(logits, n + 1, best[n])
    BY <1>2
  <2>2. CASE n = 0
    BY <1>1, <1>2, <2>1, <2>2 DEF Keep
  <2>3. CASE n \in 1 .. len
    <3> DEFINE k == best[n]
    <3>1. k \in 1 .. n /\ \A j \in 1 .. n : logits[j] <= logits[k] /\ (j < k => logits[j] < logits[k])
      BY <1>4, <2>3
    <3>2. best[n + 1] = IF logits[n + 1] > logits[k] THEN n + 1 ELSE k
      BY <2>1, <3>1 DEF Keep
    <3> HIDE DEF k
    <3>3. \A j \in 1 .. n + 1 : j \in 1 .. n \/ j = n + 1
      OBVIOUS
    <3>4. k \in 1 .. len /\ logits[k] \in Int /\ logits[n + 1] \in Int
      BY <1>1, <2>3, <3>1
    <3>5. CASE logits[n + 1] > logits[k]
      <4>1. \A j \in 1 .. n : logits[j] < logits[n + 1]
        BY <1>1, <2>3, <3>1, <3>4, <3>5
      <4>2. best[n + 1] = n + 1 /\ n + 1 \in 1 .. n + 1 /\ logits[n + 1] <= logits[n + 1]
        BY <3>2, <3>4, <3>5
      <4>3. \A j \in 1 .. n + 1 : logits[j] <= logits[n + 1] /\ (j < n + 1 => logits[j] < logits[n + 1])
        BY <1>1, <2>3, <3>3, <4>1, <4>2
      <4> QED BY <4>2, <4>3
    <3>6. CASE ~ (logits[n + 1] > logits[k])
      BY <3>1, <3>2, <3>3, <3>4, <3>6
    <3> QED BY <3>5, <3>6
  <2> QED BY <1>1, <2>2, <2>3
<1>5. FirstOf(len, best[len])
  <2>1. len \in 1 .. len
    BY <1>1 DEF len
  <2> HIDE DEF FirstOf
  <2> HIDE DEF S
  <2>2. S = Nat
    BY <1>3, <1>4, SetInduction
  <2> QED BY <1>1, <2>1, <2>2 DEF S
<1> QED BY <1>1, <1>2, <1>5 DEF FirstMaximum

LEMMA FirstMaximumIsUnique ==
  ASSUME NEW row \in Seq(Int), NEW k \in DOMAIN row, NEW m \in DOMAIN row,
         FirstMaximum(row, k), FirstMaximum(row, m)
  PROVE  k = m
<1>1. k \in Nat /\ m \in Nat /\ row[k] \in Int /\ row[m] \in Int
  OBVIOUS
<1> QED BY <1>1 DEF FirstMaximum

LEMMA OneCheck ==
  ASSUME NEW check
  PROVE  DOMAIN << check >> = {1} /\ << check >>[1] = check
OBVIOUS

LEMMA ArgmaxIsFirst ==
  ASSUME NonFinite \notin Int, NEW row \in Seq(Int \cup {NonFinite}), row # <<>>
  PROVE  LET answer == SelectArgmax(row) IN
         /\ answer.ok <=> /\ \A i \in DOMAIN row : row[i] # NonFinite
                          /\ \E k \in DOMAIN row : FirstMaximum(row, k) /\ k - 1 \in TokenId
         /\ answer.ok => FirstMaximum(row, answer.value + 1)
<1> DEFINE best == Best(row)
           check == << <<best - 1 \notin TokenId, "VocabularyIndexTooLarge">> >>
           answer == SelectArgmax(row)
<1>1. CASE \E i \in DOMAIN row : row[i] = NonFinite
  <2>1. answer = Err("NonFiniteLogit")
    BY <1>1, Zenon DEF SelectArgmax
  <2>2. ~ answer.ok
    BY <2>1, Results, Zenon
  <2> QED BY <1>1, <2>2, Zenon
<1>2. CASE \A i \in DOMAIN row : row[i] # NonFinite
  <2>1. row \in Seq(Int) /\ Len(row) > 0
    <3>1. \A i \in 1 .. Len(row) : row[i] \in Int
      BY <1>2
    <3>2. Len(row) \in Nat /\ row = [i \in 1 .. Len(row) |-> row[i]]
      OBVIOUS
    <3> QED BY <3>1, <3>2
  <2>2. best \in DOMAIN row /\ FirstMaximum(row, best)
    BY <2>1, BestIsFirst
  <2>3. answer = Checked(check, best - 1)
    BY <1>2, Zenon DEF SelectArgmax
  <2>4. Clean(check) <=> best - 1 \in TokenId
    <3> HIDE DEF best
    <3>1. DOMAIN check = {1} /\ check[1] = <<best - 1 \notin TokenId, "VocabularyIndexTooLarge">>
      BY OneCheck
    <3>2. check[1][1] = (best - 1 \notin TokenId)
      BY <3>1, Zenon
    <3> HIDE DEF check
    <3> QED BY <3>1, <3>2, Zenon DEF Clean
  <2>5. /\ answer.ok <=> best - 1 \in TokenId
        /\ answer.ok => answer.value = best - 1
    <3> HIDE DEF check, answer
    <3> QED BY <2>3, <2>4, CheckedOk, Results
  <2>6. best - 1 + 1 = best
    BY <2>1, <2>2
  <2> HIDE DEF answer, best
  <2>7. answer.ok <=> \E k \in DOMAIN row : FirstMaximum(row, k) /\ k - 1 \in TokenId
    BY <2>1, <2>2, <2>5, FirstMaximumIsUnique
  <2>8. answer.ok => FirstMaximum(row, answer.value + 1)
    BY <2>2, <2>5, <2>6
  <2> QED BY <1>2, <2>7, <2>8 DEF answer
<1> QED BY <1>1, <1>2, Zenon

LEMMA ShapeAccepted ==
  ASSUME USIZE_MAX \in Nat,
         NEW shape \in Seq(Nat), NEW values, Len(values) \in 0 .. USIZE_MAX
  PROVE  FinalTokenLogits([shape |-> shape, values |-> values]).ok <=>
           /\ Len(shape) = 3 /\ shape[1] = 1 /\ shape[2] > 0 /\ shape[3] > 0
           /\ shape[2] * shape[3] = Len(values)
<1> DEFINE output == [shape |-> shape, values |-> values]
           batch == shape[1]
           sequence == shape[2]
           vocabulary == shape[3]
           start == (sequence - 1) * vocabulary
           row == SubSeq(values, start + 1, start + vocabulary)
           checks == LogitsShapeChecks(batch, sequence, vocabulary, Len(values))
<1>1. output.shape = shape /\ output.values = values
  OBVIOUS
<1>2. CASE Len(shape) # 3
  <2> HIDE DEF output
  <2>1. FinalTokenLogits(output) = Err("InvalidRank")
    BY <1>1, <1>2, Zenon DEF FinalTokenLogits
  <2>2. ~ FinalTokenLogits(output).ok
    BY <2>1, Results, Zenon
  <2> QED BY <1>2, <2>2, Zenon DEF output
<1>3. CASE Len(shape) = 3
  <2> HIDE DEF output
  <2>1. FinalTokenLogits(output) = Checked(checks, row)
    BY <1>1, <1>3, Zenon DEF FinalTokenLogits
  <2>2. FinalTokenLogits(output).ok <=> Clean(checks)
    <3> HIDE DEF checks, row
    <3> QED BY <2>1, CheckedOk, Zenon
  <2>3. DOMAIN checks = {1, 2, 3, 4, 5}
    BY DEF LogitsShapeChecks
  <2>4. /\ checks[1][1] = (batch # 1) /\ checks[2][1] = (sequence = 0)
        /\ checks[3][1] = (vocabulary = 0)
        /\ checks[4][1] = ElementCountOverflow(batch, sequence, vocabulary)
        /\ checks[5][1] = (batch * sequence * vocabulary # Len(values))
    BY Zenon DEF LogitsShapeChecks
  <2>5. Clean(checks) <=> /\ ~ (batch # 1) /\ ~ (sequence = 0) /\ ~ (vocabulary = 0)
                          /\ ~ ElementCountOverflow(batch, sequence, vocabulary)
                          /\ ~ (batch * sequence * vocabulary # Len(values))
    <3> HIDE DEF checks
    <3> QED BY <2>3, <2>4, Zenon DEF Clean
  <2>6. batch \in Nat /\ sequence \in Nat /\ vocabulary \in Nat
    <3>1. 1 \in DOMAIN shape /\ 2 \in DOMAIN shape /\ 3 \in DOMAIN shape
      BY <1>3
    <3> QED BY <3>1
  <2> HIDE DEF checks, batch, sequence, vocabulary
  <2>7. Clean(checks) <=> /\ batch = 1 /\ sequence > 0 /\ vocabulary > 0
                          /\ sequence * vocabulary = Len(values)
    <3>1. CASE batch = 1 /\ sequence > 0 /\ vocabulary > 0
      <4>1. batch * sequence = sequence /\ batch * sequence * vocabulary = sequence * vocabulary
        BY <2>6, <3>1
      <4>2. \A s, v \in Nat : v > 0 => s * v >= s
        OBVIOUS
      <4>3. sequence * vocabulary \in Nat /\ sequence * vocabulary >= sequence
        BY <2>6, <3>1, <4>2
      <4> DEFINE product == sequence * vocabulary
      <4>4. ElementCountOverflow(batch, sequence, vocabulary) <=>
              sequence > USIZE_MAX \/ product > USIZE_MAX
        BY <3>1, <4>1, <2>6 DEF ElementCountOverflow, Overflows
      <4> HIDE DEF product
      <4>5. product = Len(values) => ~ ElementCountOverflow(batch, sequence, vocabulary)
        <5>1. product \in Nat /\ product >= sequence
          BY <4>3 DEF product
        <5> QED BY <2>6, <4>4, <5>1
      <4>6. batch * sequence * vocabulary = product
        BY <4>1 DEF product
      <4> QED BY <2>5, <2>6, <3>1, <4>5, <4>6 DEF product
    <3>2. CASE ~ (batch = 1 /\ sequence > 0 /\ vocabulary > 0)
      BY <2>5, <2>6, <3>2
    <3> QED BY <3>1, <3>2
  <2> QED BY <1>3, <2>2, <2>7, Zenon DEF output, batch, sequence, vocabulary
<1> QED BY <1>2, <1>3

LEMMA EndOfSeq ==
  ASSUME NEW S, NEW s \in Seq(S), NEW i \in 1 .. Len(s)
  PROVE  SubSeq(s, i, Len(s)) \in Seq(S) /\ Len(SubSeq(s, i, Len(s))) = Len(s) + 1 - i
OBVIOUS

(* The next token is the first of the highest scores of the last position, *)
(* and it is refused only for a tensor of another shape, a score that is   *)
(* not finite or a token that does not exist: for every row, every shape   *)
(* and every size of usize (final_token_logits, select_argmax).            *)
THEOREM FirstMaximumSelected ==
  ASSUME USIZE_MAX \in Nat, NonFinite \notin Int,
         NEW shape \in Seq(Nat), NEW values \in Seq(Int \cup {NonFinite}),
         Len(values) <= USIZE_MAX
  PROVE  SelectsFirstMaximum([shape |-> shape, values |-> values])
<1> DEFINE output == [shape |-> shape, values |-> values]
           logits == FinalTokenLogits(output)
           answer == SelectNextToken(output)
           len == Len(values)
           row == SubSeq(values, len - shape[3] + 1, len)
           shaped == /\ Len(shape) = 3 /\ shape[1] = 1 /\ shape[2] > 0 /\ shape[3] > 0
                     /\ shape[2] * shape[3] = len
           finite == \A i \in DOMAIN row : row[i] # NonFinite
           exists == \E k \in DOMAIN row : FirstMaximum(row, k) /\ k - 1 \in TokenId
<1>1. output.shape = shape /\ output.values = values
  OBVIOUS
<1>2. logits.ok => shaped /\ logits.value = row /\ row \in Seq(Int \cup {NonFinite}) /\ row # <<>>
  <2> SUFFICES ASSUME logits.ok
               PROVE  shaped /\ logits.value = row /\ row \in Seq(Int \cup {NonFinite}) /\ row # <<>>
    OBVIOUS
  <2>1. Len(shape) = 3 /\ shape[3] \in 1 .. len /\ len \in Nat /\ logits.value = row
    <3> DEFINE Score == Int \cup {NonFinite}
    <3>1. values \in Seq(Score)
      OBVIOUS
    <3>2. len \in Nat
      OBVIOUS
    <3> HIDE DEF Score, shaped, finite, exists, answer
    <3>3. Len(shape) = 3 /\ shape[3] \in 1 .. Len(values) /\ logits.value = row
      BY <3>1, LastRowIsWhole, Zenon
    <3> QED BY <3>2, <3>3, Zenon
  <2>2. shaped
    BY ShapeAccepted
  <2>3. row \in Seq(Int \cup {NonFinite}) /\ Len(row) = shape[3]
    <3> DEFINE first == len - shape[3] + 1
    <3>1. first \in 1 .. len /\ len + 1 - first = shape[3]
      BY <2>1
    <3> HIDE DEF first
    <3>2. SubSeq(values, first, len) \in Seq(Int \cup {NonFinite})
          /\ Len(SubSeq(values, first, len)) = len + 1 - first
      BY <3>1, EndOfSeq
    <3> QED BY <3>1, <3>2, Zenon DEF first
  <2> HIDE DEF row, shaped
  <2>4. row # <<>>
    BY <2>1, <2>3
  <2> QED BY <2>1, <2>2, <2>3, <2>4, Zenon
<1>3. shaped => logits.ok
  BY ShapeAccepted
<1>4. ~ logits.ok => answer = logits
  BY Zenon DEF SelectNextToken
<1>5. logits.ok => answer = SelectArgmax(logits.value)
  BY Zenon DEF SelectNextToken
<1>6. ASSUME logits.ok
      PROVE  /\ answer.ok <=> finite /\ exists
             /\ answer.ok => FirstMaximum(row, answer.value + 1)
  <2>1. answer = SelectArgmax(row) /\ row \in Seq(Int \cup {NonFinite}) /\ row # <<>>
    BY <1>2, <1>5, <1>6, Zenon
  <2> HIDE DEF row, answer
  <2> QED BY <2>1, ArgmaxIsFirst
<1> HIDE DEF logits, shaped, finite, exists
<1>7. answer.ok <=> shaped /\ finite /\ exists
  BY <1>2, <1>3, <1>4, <1>6, Zenon
<1>8. answer.ok => FirstMaximum(row, answer.value + 1)
  BY <1>4, <1>6, Zenon
<1> HIDE DEF output
<1>9. SelectsFirstMaximum(output)
  BY <1>1, <1>7, <1>8, Zenon DEF SelectsFirstMaximum, shaped, finite, exists
<1> QED BY <1>9 DEF output

----------------------------------------------------------------------------
(* The manifest.                                                           *)
RawManifest(String) ==
  [schema_version : Nat, model_id : String, version : String, architecture : String,
   runtime : String, license : String, languages : Seq(String),
   files : Seq([path : String, kind : String, sha256 : String])]

LEMMA CodesChecked ==
  ASSUME NEW String, NEW codes \in Seq(String)
  PROVE  /\ IsSeq(LanguageCodeChecks(codes))
         /\ Clean(LanguageCodeChecks(codes)) =>
              \A i \in DOMAIN codes : FromIso639_1(codes[i]).ok
<1>1. DOMAIN codes = 1 .. Len(codes) /\ Len(codes) \in Nat
  OBVIOUS
<1>2. IsSeq(LanguageCodeChecks(codes))
  BY <1>1 DEF IsSeq, LanguageCodeChecks
<1>3. ASSUME Clean(LanguageCodeChecks(codes)), NEW i \in DOMAIN codes
      PROVE  FromIso639_1(codes[i]).ok
  <2>1. LanguageCodeChecks(codes)[i][1] = ~ FromIso639_1(codes[i]).ok
    BY <1>3, Zenon DEF LanguageCodeChecks
  <2>2. i \in DOMAIN LanguageCodeChecks(codes)
    BY <1>3 DEF LanguageCodeChecks
  <2> QED BY <1>3, <2>1, <2>2, Zenon DEF Clean
<1> QED BY <1>2, <1>3

LEMMA FilesChecked ==
  ASSUME NEW File, NEW files \in Seq(File)
  PROVE  /\ IsSeq(FileChecks(files))
         /\ Clean(FileChecks(files)) =>
              \A i \in DOMAIN files :
                \E role \in ModelFileRole : RoleName[role] = files[i].kind
<1>1. DOMAIN files = 1 .. Len(files) /\ Len(files) \in Nat
  OBVIOUS
<1>2. 3 * Len(files) \in Nat
  BY <1>1
<1>3. IsSeq(FileChecks(files))
  <2>1. PICK n \in Nat : n = 3 * Len(files)
    BY <1>2
  <2>2. PICK checks : checks = FileChecks(files)
    OBVIOUS
  <2>3. checks = [i \in 1 .. n |-> checks[i]]
    BY <2>1, <2>2 DEF FileChecks
  <2>4. IsSeq(checks)
    BY <2>3, Zenon DEF IsSeq
  <2> QED BY <2>2, <2>4, Zenon
<1>4. ASSUME Clean(FileChecks(files)), NEW i \in DOMAIN files
      PROVE  \E role \in ModelFileRole : RoleName[role] = files[i].kind
  <2> DEFINE n == 3 * (i - 1) + 2
  <2>1. n \in 1 .. 3 * Len(files) /\ 1 + (n - 1) \div 3 = i /\ 1 + ((n - 1) % 3) = 2
    <3>1. PICK j \in Nat : i = j + 1 /\ j + 1 <= Len(files)
      <4>1. i - 1 \in Nat /\ i = (i - 1) + 1 /\ (i - 1) + 1 <= Len(files)
        BY <1>1, <1>4
      <4> QED BY <4>1
    <3>2. n - 1 = 3 * j + 1 /\ n = 3 * j + 2
      BY <3>1
    <3>3. (3 * j + 1) \div 3 = j /\ (3 * j + 1) % 3 = 1
      BY <3>1
    <3>4. n \in 1 .. 3 * Len(files)
      <4> HIDE DEF n
      <4> QED BY <1>1, <3>1, <3>2
    <3> HIDE DEF n
    <3> QED BY <3>1, <3>2, <3>3, <3>4
  <2> HIDE DEF n
  <2>2. n \in DOMAIN FileChecks(files)
    BY <2>1 DEF FileChecks
  <2>3. FileChecks(files)[n] = ParseFileChecks(files[i])[2]
    BY <2>1, Zenon DEF FileChecks
  <2>4. ParseFileChecks(files[i])[2][1] =
          \A role \in ModelFileRole : RoleName[role] # files[i].kind
    BY Zenon DEF ParseFileChecks
  <2>5. ~ \A role \in ModelFileRole : RoleName[role] # files[i].kind
    BY <1>4, <2>2, <2>3, <2>4, Zenon DEF Clean
  <2> QED BY <2>5
<1> QED BY <1>3, <1>4

(* A manifest that is read and written again is the manifest that was on   *)
(* disk: no language, no role and no digest changes on the way through the *)
(* typed form, and so verification of the copy is verification of the      *)
(* original (from_raw, to_json_string_pretty).                             *)
THEOREM ManifestSurvives ==
  ASSUME NEW String, NEW raw \in RawManifest(String), FromRaw(raw).ok
  PROVE  ToRaw(FromRaw(raw).value) = raw
<1> DEFINE schema == << <<raw.schema_version # SCHEMA_VERSION, "UnsupportedSchema">> >>
           codes == LanguageCodeChecks(raw.languages)
           distinct == DistinctLanguagesChecks(raw.languages)
           parsed == FileChecks(raw.files)
           valid == ValidFilesChecks(Kinds(raw.files))
           named == NameChecks(raw)
           languages == [i \in DOMAIN raw.languages |-> FromIso639_1(raw.languages[i]).value]
           files == [i \in DOMAIN raw.files |-> ParsedFile(raw.files[i])]
           manifest == [raw EXCEPT !.languages = languages, !.files = files]
<1>1. /\ raw.languages \in Seq(String)
      /\ raw.files \in Seq([path : String, kind : String, sha256 : String])
  BY DEF RawManifest
<1>2. FromRaw(raw) = Checked(schema \o codes \o distinct \o parsed \o valid \o named, manifest)
  BY DEF FromRaw
<1>3. IsSeq(codes) /\ IsSeq(parsed)
  BY <1>1, CodesChecked, FilesChecked
<1>4. IsSeq(schema) /\ IsSeq(distinct) /\ IsSeq(valid) /\ IsSeq(named)
  <2>1. IsSeq(schema)
    BY DEF IsSeq
  <2>2. IsSeq(distinct)
    BY DEF IsSeq, DistinctLanguagesChecks
  <2>3. IsSeq(valid)
    BY DEF IsSeq, ValidFilesChecks
  <2>4. IsSeq(named)
    BY DEF IsSeq, NameChecks, NAMES
  <2> QED BY <2>1, <2>2, <2>3, <2>4
<1>5. /\ Clean(schema \o codes \o distinct \o parsed \o valid \o named)
      /\ FromRaw(raw).value = manifest
  <2> HIDE DEF schema, codes, distinct, parsed, valid, named, manifest
  <2>1. Clean(schema \o codes \o distinct \o parsed \o valid \o named)
    BY <1>2, CheckedOk, Zenon
  <2>2. FromRaw(raw) = Ok(manifest)
    BY <1>2, <2>1, CheckedOk, Zenon
  <2> QED BY <2>1, <2>2, Results, Zenon
<1>6. Clean(codes) /\ Clean(parsed)
  <2> HIDE DEF schema, codes, distinct, parsed, valid, named
  <2>1. IsSeq(schema \o codes)
    BY <1>3, <1>4, CleanConcat, Zenon
  <2>2. IsSeq(schema \o codes \o distinct)
    BY <1>4, <2>1, CleanConcat, Zenon
  <2>3. IsSeq(schema \o codes \o distinct \o parsed)
    BY <1>3, <2>2, CleanConcat, Zenon
  <2>4. IsSeq(schema \o codes \o distinct \o parsed \o valid)
    BY <1>4, <2>3, CleanConcat, Zenon
  <2>5. Clean(schema \o codes \o distinct \o parsed \o valid)
    BY <1>4, <1>5, <2>4, CleanConcat, Zenon
  <2>6. Clean(schema \o codes \o distinct \o parsed)
    BY <1>4, <2>3, <2>5, CleanConcat, Zenon
  <2>7. Clean(schema \o codes \o distinct) /\ Clean(parsed)
    BY <1>3, <2>2, <2>6, CleanConcat, Zenon
  <2>8. Clean(schema \o codes)
    BY <1>4, <2>1, <2>7, CleanConcat, Zenon
  <2> QED BY <1>3, <1>4, <2>7, <2>8, CleanConcat, Zenon
<1>7. \A i \in DOMAIN raw.languages : Iso639_1[languages[i]] = raw.languages[i]
  <2> SUFFICES ASSUME NEW i \in DOMAIN raw.languages
               PROVE  Iso639_1[languages[i]] = raw.languages[i]
    OBVIOUS
  <2> DEFINE code == raw.languages[i]
  <2>1. FromIso639_1(code).ok
    BY <1>1, <1>6, CodesChecked
  <2>2. \E language \in Language : Iso639_1[language] = code
    <3> SUFFICES ASSUME ~ \E language \in Language : Iso639_1[language] = code PROVE FALSE
      OBVIOUS
    <3>1. FromIso639_1(code) = Err("UnsupportedLanguageCode")
      BY Zenon DEF FromIso639_1
    <3> QED BY <2>1, <3>1, Results, Zenon
  <2>3. FromIso639_1(code) = Ok(CHOOSE language \in Language : Iso639_1[language] = code)
    BY <2>2, Zenon DEF FromIso639_1
  <2>4. Iso639_1[FromIso639_1(code).value] = code
    BY <2>2, <2>3, Results, Zenon
  <2> QED BY <2>4
<1>8. \A i \in DOMAIN raw.files : RawFile(files[i]) = raw.files[i]
  <2> SUFFICES ASSUME NEW i \in DOMAIN raw.files
               PROVE  RawFile(files[i]) = raw.files[i]
    OBVIOUS
  <2> DEFINE file == raw.files[i]
  <2>1. \E role \in ModelFileRole : RoleName[role] = file.kind
    BY <1>1, <1>6, FilesChecked
  <2>2. RoleName[RoleNamed(file.kind)] = file.kind
    BY <2>1, Zenon DEF RoleNamed
  <2>3. file \in [path : String, kind : String, sha256 : String]
    <3>1. \A S : \A s \in Seq(S) : \A k \in DOMAIN s : s[k] \in S
      OBVIOUS
    <3> QED BY <1>1, <3>1, Zenon
  <2>4. files[i] = ParsedFile(file)
    OBVIOUS
  <2> HIDE DEF file, files
  <2> QED BY <2>2, <2>3, <2>4 DEF RawFile, ParsedFile, file
<1>9. Codes(languages) = raw.languages
  <2>1. DOMAIN languages = DOMAIN raw.languages
    OBVIOUS
  <2> HIDE DEF languages
  <2> QED BY <1>1, <1>7, <2>1 DEF Codes
<1>10. [i \in DOMAIN files |-> RawFile(files[i])] = raw.files
  <2>1. DOMAIN files = DOMAIN raw.files
    OBVIOUS
  <2> HIDE DEF files
  <2> QED BY <1>1, <1>8, <2>1
<1>11. ToRaw(manifest) = [raw EXCEPT !.languages = Codes(languages),
                                     !.files = [i \in DOMAIN files |-> RawFile(files[i])]]
  <2>1. manifest.languages = languages /\ manifest.files = files
    <3> HIDE DEF languages, files
    <3> QED BY DEF RawManifest
  <2> HIDE DEF languages, files
  <2> QED BY <2>1 DEF ToRaw, RawManifest
<1>12. [raw EXCEPT !.languages = raw.languages, !.files = raw.files] = raw
  BY DEF RawManifest
<1> HIDE DEF manifest, languages, files
<1> QED BY <1>5, <1>9, <1>10, <1>11, <1>12, Zenon
----------------------------------------------------------------------------
(* The text of the JNI adapter.  A conversion is a loop over a string: one *)
(* turn reads a code point and appends it in the other encoding.  The proof*)
(* has four parts: a loop over turns is its first turn and the loop over   *)
(* the rest; what is read as a code point is the one way of writing it, in *)
(* bytes and in units; a turn depends on what starts at it only; and by    *)
(* induction on the length of a string the two loops undo each other.      *)
(*                                                                         *)
(* Induction on lengths, and downwards on positions.                       *)
LEMMA LengthInduction ==
  ASSUME NEW S, \A n \in Nat : (\A m \in Nat : m < n => m \in S) => n \in S
  PROVE  Nat \subseteq S
<1>1. SUFFICES ASSUME Nat \ S # {} PROVE FALSE
  OBVIOUS
<1>2. PICK n \in Nat \ S : \A m \in Nat \ S : n <= m
  BY <1>1, NatWellOrdered
<1>3. \A m \in Nat : m < n => m \in S
  BY <1>2
<1> QED BY <1>2, <1>3

LEMMA DownInduction ==
  ASSUME NEW N \in Nat, NEW S, \A i \in 1 .. N : (\A j \in i + 1 .. N : j \in S) => i \in S
  PROVE  \A i \in 1 .. N : i \in S
<1> DEFINE C == {n \in Nat : N - n \in 1 .. N /\ N - n \notin S}
<1>1. SUFFICES ASSUME NEW i \in 1 .. N, i \notin S PROVE FALSE
  OBVIOUS
<1>2. N - i \in Nat /\ N - (N - i) = i
  BY <1>1
<1>3. C \subseteq Nat /\ C # {}
  BY <1>1, <1>2
<1>4. PICK n \in C : \A m \in C : n <= m
  <2> HIDE DEF C
  <2> QED BY <1>3, NatWellOrdered
<1>5. n \in Nat /\ N - n \in 1 .. N /\ N - n \notin S
  OBVIOUS
<1>6. ASSUME NEW j \in N - n + 1 .. N PROVE j \in S
  <2>1. N - j \in Nat /\ N - (N - j) = j /\ j \in 1 .. N /\ ~ (n <= N - j)
    BY <1>5, <1>6
  <2> QED BY <1>4, <2>1
<1> QED BY <1>5, <1>6

(* What a turn reads is there.                                             *)
InTurns(turns) ==
  /\ Len(turns) \in Nat /\ turns = [i \in 1 .. Len(turns) |-> turns[i]]
  /\ \A i \in 1 .. Len(turns) :
       turns[i].ok => turns[i].value.width \in 1 .. Len(turns) + 1 - i
TurnAt(turns, from, i) ==
  IF i = Len(turns) + 1 THEN Ok(<<>>)
  ELSE IF turns[i].ok THEN Before(turns[i].value.out, from[i + turns[i].value.width])
  ELSE turns[i]

LEMMA TurnsAreTaken ==
  ASSUME NEW turns, InTurns(turns)
  PROVE  \E from : /\ AllTurns(turns) = from[1]
                   /\ \A i \in 1 .. Len(turns) + 1 : from[i] = TurnAt(turns, from, i)
<1> DEFINE N == Len(turns) + 1
           Pass(from, i) == from = [j \in i .. N |-> TurnAt(turns, from, j)]
           S == {i \in Nat : \E from : Pass(from, i)}
<1>1. /\ N \in Nat /\ 1 \in 1 .. N
      /\ \A i \in 1 .. N - 1 : turns[i].ok => turns[i].value.width \in 1 .. N - i
  BY DEF InTurns
<1>2. ASSUME NEW i \in 1 .. N, \A j \in i + 1 .. N : j \in S PROVE i \in S
  <2>1. PICK from : i = N \/ Pass(from, i + 1)
    <3>1. CASE i = N
      BY <3>1
    <3>2. CASE i # N
      <4>1. i + 1 \in i + 1 .. N
        BY <1>1, <3>2
      <4> HIDE DEF Pass
      <4> QED BY <1>2, <4>1
    <3> QED BY <3>1, <3>2
  <2> DEFINE next == [j \in i .. N |-> IF j = i THEN TurnAt(turns, from, i) ELSE from[j]]
             full == [j \in i .. N |-> TurnAt(turns, next, j)]
  <2>2. ASSUME NEW j \in i .. N PROVE next[j] = full[j]
    <3>1. TurnAt(turns, next, j) = TurnAt(turns, from, j)
      <4>1. CASE j = N
        BY <4>1 DEF TurnAt
      <4>2. CASE j # N /\ turns[j].ok
        <5> DEFINE k == j + turns[j].value.width
        <5>1. k \in i .. N /\ k # i
          BY <1>1, <4>2
        <5>2. next[k] = from[k]
          BY <5>1
        <5> HIDE DEF next, k
        <5>3. j # Len(turns) + 1
          BY <4>2
        <5> QED BY <4>2, <5>2, <5>3, Zenon DEF TurnAt, k
      <4>3. CASE j # N /\ ~ turns[j].ok
        <5> HIDE DEF next
        <5>3. j # Len(turns) + 1
          BY <4>3
        <5> QED BY <4>3, <5>3, Zenon DEF TurnAt
      <4> QED BY <4>1, <4>2, <4>3
    <3>2. next[j] = TurnAt(turns, from, j)
      <4>1. CASE j = i
        BY <4>1
      <4>2. CASE j # i
        <5>1. j \in i + 1 .. N /\ i # N
          BY <1>1, <4>2
        <5>2. from[j] = TurnAt(turns, from, j)
          <6> DEFINE rest == [l \in i + 1 .. N |-> TurnAt(turns, from, l)]
          <6>1. from = rest /\ rest[j] = TurnAt(turns, from, j)
            BY <2>1, <5>1
          <6> HIDE DEF rest
          <6> QED BY <6>1
        <5> QED BY <4>2, <5>2
      <4> QED BY <4>1, <4>2
    <3> HIDE DEF next
    <3>3. full[j] = TurnAt(turns, next, j)
      OBVIOUS
    <3> QED BY <3>1, <3>2, <3>3
  <2>3. next = full
    <3>1. DOMAIN next = DOMAIN full
      OBVIOUS
    <3> QED BY <2>2
  <2>4. Pass(next, i)
    <3> HIDE DEF next
    <3> QED BY <2>3
  <2> HIDE DEF next, Pass
  <2> QED BY <2>4
<1>3. \E from : Pass(from, 1)
  <2> HIDE DEF Pass, S, N
  <2>1. 1 \in S
    BY <1>1, <1>2, DownInduction
  <2> QED BY <2>1 DEF S
<1> DEFINE found == CHOOSE from : Pass(from, 1)
<1>4. Pass(found, 1)
  BY <1>3
<1>5. AllTurns(turns) = found[1]
  BY DEF AllTurns, TurnAt
<1> HIDE DEF found
<1>6. \A i \in 1 .. N : found[i] = TurnAt(turns, found, i)
  <2> DEFINE all == [i \in 1 .. N |-> TurnAt(turns, found, i)]
  <2>1. found = all
    BY <1>4
  <2>2. \A i \in 1 .. N : all[i] = TurnAt(turns, found, i)
    OBVIOUS
  <2> HIDE DEF all
  <2> QED BY <2>1, <2>2
<1> QED BY <1>5, <1>6

(* The first turn, and the rest of the string on its own.                  *)
Rest(s, w) == [i \in 1 .. Len(s) - w |-> s[i + w]]

LEMMA RestIsTail ==
  ASSUME NEW s, Len(s) \in Nat, NEW w \in 0 .. Len(s)
  PROVE  /\ Len(Rest(s, w)) = Len(s) - w /\ DOMAIN Rest(s, w) = 1 .. Len(s) - w
         /\ \A i \in 1 .. Len(s) - w : Rest(s, w)[i] = s[i + w]
<1>1. Len(s) - w \in Nat
  OBVIOUS
<1> QED BY <1>1 DEF Rest

LEMMA TurnsOneByOne ==
  ASSUME NEW turns, InTurns(turns)
  PROVE  /\ Len(turns) = 0 => AllTurns(turns) = Ok(<<>>)
         /\ Len(turns) > 0 /\ ~ turns[1].ok => AllTurns(turns) = turns[1]
         /\ Len(turns) > 0 /\ turns[1].ok =>
              AllTurns(turns) =
                Before(turns[1].value.out, AllTurns(Rest(turns, turns[1].value.width)))
<1>1. PICK from : /\ AllTurns(turns) = from[1]
                  /\ \A i \in 1 .. Len(turns) + 1 : from[i] = TurnAt(turns, from, i)
  BY TurnsAreTaken
<1>2. Len(turns) \in Nat /\ 1 \in 1 .. Len(turns) + 1
  BY DEF InTurns
<1>3. AllTurns(turns) = TurnAt(turns, from, 1)
  BY <1>1, <1>2
<1>4. CASE Len(turns) = 0
  BY <1>3, <1>4 DEF TurnAt
<1>5. CASE Len(turns) > 0 /\ ~ turns[1].ok
  <2>1. 1 # Len(turns) + 1
    BY <1>2, <1>5
  <2> QED BY <1>3, <1>5, <2>1 DEF TurnAt
<1>6. CASE Len(turns) > 0 /\ turns[1].ok
  <2> DEFINE w == turns[1].value.width
             rest == Rest(turns, w)
             M == Len(turns) - w
  <2>1. w \in 1 .. Len(turns) /\ M \in Nat
    BY <1>2, <1>6 DEF InTurns
  <2>2. Len(rest) = M /\ DOMAIN rest = 1 .. M /\ \A i \in 1 .. M : rest[i] = turns[i + w]
    <3> HIDE DEF w
    <3> QED BY <1>2, <2>1, RestIsTail
  <2>3. \A i \in 1 .. M : rest[i].ok => rest[i].value.width \in 1 .. M + 1 - i
    <3> SUFFICES ASSUME NEW i \in 1 .. M, rest[i].ok
                 PROVE  rest[i].value.width \in 1 .. M + 1 - i
      OBVIOUS
    <3>1. rest[i] = turns[i + w] /\ i + w \in 1 .. Len(turns)
      <4>1. w \in 1 .. Len(turns) /\ M = Len(turns) - w /\ rest[i] = turns[i + w]
        BY <2>1, <2>2, Zenon
      <4> HIDE DEF rest, w, M
      <4> QED BY <1>2, <4>1
    <3>2. turns[i + w].value.width \in 1 .. Len(turns) + 1 - (i + w)
      BY <3>1 DEF InTurns
    <3>3. Len(turns) + 1 - (i + w) = M + 1 - i
      BY <1>2, <2>1
    <3> QED BY <3>1, <3>2, <3>3
  <2>4. InTurns(rest)
    <3>1. rest = [i \in 1 .. Len(rest) |-> rest[i]]
      BY <2>1, <2>2 DEF Rest
    <3> HIDE DEF rest, w
    <3> QED BY <2>1, <2>2, <2>3, <3>1 DEF InTurns
  <2> HIDE DEF rest
  <2>5. PICK last : /\ AllTurns(rest) = last[1]
                    /\ \A i \in 1 .. Len(rest) + 1 : last[i] = TurnAt(rest, last, i)
    BY <2>4, TurnsAreTaken
  <2> DEFINE S == {i \in 1 .. M + 1 : last[i] = from[i + w]}
  <2>12. w \in Nat /\ w >= 1 /\ M \in Nat /\ Len(turns) = M + w /\ Len(rest) = M
    <3> HIDE DEF w
    <3> QED BY <1>2, <2>1, <2>2
  <2> HIDE DEF w, M
  <2>6. ASSUME NEW i \in 1 .. M + 1, \A j \in i + 1 .. M + 1 : j \in S PROVE i \in S
    <3>1. i + w \in 1 .. Len(turns) + 1
      BY <1>2, <2>1 DEF M
    <3>2. last[i] = TurnAt(rest, last, i) /\ from[i + w] = TurnAt(turns, from, i + w)
      BY <1>1, <2>2, <2>5, <3>1
    <3>3. CASE i = M + 1
      <4>1. i + w = Len(turns) + 1
        BY <1>2, <2>1, <3>3 DEF M
      <4> QED BY <2>2, <3>2, <3>3, <4>1 DEF TurnAt
    <3>4. CASE i # M + 1
      <4>4. i \in 1 .. M /\ i # Len(rest) + 1 /\ i + w # Len(turns) + 1
        BY <2>12, <3>4
      <4>1. i \in 1 .. M /\ i # Len(rest) + 1 /\ i + w # Len(turns) + 1 /\ rest[i] = turns[i + w]
        BY <2>2, <4>4
      <4>2. CASE ~ rest[i].ok
        BY <3>2, <4>1, <4>2 DEF TurnAt
      <4>3. CASE rest[i].ok
        <5> DEFINE j == i + rest[i].value.width
        <5>1. j \in i + 1 .. M + 1 /\ j + w = i + w + rest[i].value.width
          <6> DEFINE width == rest[i].value.width
          <6>1. width \in 1 .. M + 1 - i
            BY <2>3, <4>1, <4>3, Zenon
          <6>2. i \in 1 .. M /\ M \in Nat /\ w \in Nat
            BY <2>12, <4>1, Zenon
          <6> HIDE DEF width
          <6>3. i + width \in i + 1 .. M + 1 /\ i + width + w = i + w + width
            BY <6>1, <6>2
          <6> QED BY <6>3 DEF width
        <5> HIDE DEF j
        <5>2. last[j] = from[j + w]
          BY <2>6, <5>1
        <5>3. last[i] = Before(rest[i].value.out, last[j])
          BY <3>2, <4>1, <4>3, Zenon DEF TurnAt, j
        <5>4. from[i + w] = Before(rest[i].value.out, from[j + w])
          BY <3>2, <4>1, <4>3, <5>1 DEF TurnAt
        <5> QED BY <5>2, <5>3, <5>4
      <4> QED BY <4>2, <4>3
    <3> QED BY <3>3, <3>4
  <2>7. last[1] = from[1 + w]
    <3>1. M + 1 \in Nat /\ 1 \in 1 .. M + 1
      BY <2>1
    <3> HIDE DEF S
    <3>2. 1 \in S
      BY <2>6, <3>1, DownInduction
    <3> QED BY <3>2 DEF S
  <2>8. AllTurns(turns) = Before(turns[1].value.out, from[1 + w])
    <3>1. 1 # Len(turns) + 1
      BY <1>2, <1>6
    <3> QED BY <1>3, <1>6, <3>1, Zenon DEF TurnAt, w
  <2>9. AllTurns(turns) = Before(turns[1].value.out, AllTurns(rest))
    BY <2>5, <2>7, <2>8
  <2>10. AllTurns(turns) =
           Before(turns[1].value.out, AllTurns(Rest(turns, turns[1].value.width)))
    BY <2>9, Zenon DEF rest, w
  <2>11. Len(turns) # 0
    BY <1>6
  <2> QED BY <1>6, <2>10, <2>11, Zenon
<1> QED BY <1>2, <1>4, <1>5, <1>6

----------------------------------------------------------------------------
(* Code points and their bytes.                                            *)
Scalar == {c \in Nat : c <= MaxCodePoint /\ c \notin Surrogates}

LEMMA PayloadIs ==
  ASSUME NEW bytes, NEW i \in Nat, NEW lead, lead.width \in 1 .. 4
  PROVE  Payload(bytes, i, lead) =
           IF lead.width = 1 THEN lead.bits
           ELSE IF lead.width = 2 THEN lead.bits * 64 + (bytes[i + 1] % 64)
           ELSE IF lead.width = 3
                THEN (lead.bits * 64 + (bytes[i + 1] % 64)) * 64 + (bytes[i + 2] % 64)
           ELSE ((lead.bits * 64 + (bytes[i + 1] % 64)) * 64 + (bytes[i + 2] % 64)) * 64
                + (bytes[i + 3] % 64)
<1> DEFINE Next6(value, n) ==
             IF n = 1 THEN lead.bits ELSE value[n - 1] * 64 + (bytes[i + n - 1] % 64)
           Pass(value) == value = [n \in 1 .. lead.width |-> Next6(value, n)]
           first == lead.bits
           second == first * 64 + (bytes[i + 2 - 1] % 64)
           third == second * 64 + (bytes[i + 3 - 1] % 64)
           fourth == third * 64 + (bytes[i + 4 - 1] % 64)
           all == [n \in 1 .. lead.width |->
                     IF n = 1 THEN first ELSE IF n = 2 THEN second
                     ELSE IF n = 3 THEN third ELSE fourth]
           full == [n \in 1 .. lead.width |-> Next6(all, n)]
<1>1. ASSUME NEW n \in 1 .. lead.width PROVE all[n] = full[n]
  <2>1. full[n] = Next6(all, n)
    BY Zenon
  <2>2. n = 1 \/ n = 2 \/ n = 3 \/ n = 4
    OBVIOUS
  <2>3. CASE n = 1
    BY <2>1, <2>3
  <2>4. CASE n = 2
    <3>1. all[1] = first /\ all[2] = second
      BY <2>4
    <3> HIDE DEF all, first
    <3> QED BY <2>1, <2>4, <3>1
  <2>5. CASE n = 3
    <3>1. all[2] = second /\ all[3] = third
      BY <2>5
    <3> HIDE DEF all, second
    <3> QED BY <2>1, <2>5, <3>1
  <2>6. CASE n = 4
    <3>1. all[3] = third /\ all[4] = fourth
      BY <2>6
    <3> HIDE DEF all, third
    <3> QED BY <2>1, <2>6, <3>1
  <2> QED BY <2>2, <2>3, <2>4, <2>5, <2>6
<1>2. Pass(all)
  <2>1. all = full
    <3> HIDE DEF Next6
    <3> QED BY <1>1
  <2> HIDE DEF all
  <2> QED BY <2>1
<1> DEFINE value == CHOOSE v : Pass(v)
<1>3. Pass(value)
  <2> HIDE DEF Pass, all
  <2> QED BY <1>2
<1>4. Payload(bytes, i, lead) = value[lead.width]
  BY DEF Payload
<1>5. \A n \in 1 .. lead.width : value[n] = Next6(value, n)
  <2> DEFINE steps == [n \in 1 .. lead.width |-> Next6(value, n)]
  <2>1. value = steps
    BY <1>3
  <2>2. \A n \in 1 .. lead.width : steps[n] = Next6(value, n)
    BY Zenon
  <2> HIDE DEF steps, value, Next6
  <2> QED BY <2>1, <2>2
<1> HIDE DEF value
<1>6. i + 2 - 1 = i + 1 /\ i + 3 - 1 = i + 2 /\ i + 4 - 1 = i + 3
  OBVIOUS
<1>7. value[1] = first
  BY <1>5
<1>8. lead.width >= 2 => value[2] = second
  <2> HIDE DEF first
  <2> QED BY <1>5, <1>7
<1>9. lead.width >= 3 => value[3] = third
  <2> HIDE DEF second
  <2> QED BY <1>5, <1>8
<1>10. lead.width = 4 => value[4] = fourth
  <2> HIDE DEF third
  <2> QED BY <1>5, <1>9
<1>11. lead.width = 1 \/ lead.width = 2 \/ lead.width = 3 \/ lead.width = 4
  OBVIOUS
<1> QED BY <1>4, <1>6, <1>7, <1>8, <1>9, <1>10, <1>11

(* A number in base 64.                                                    *)
LEMMA Digits ==
  /\ \A c \in Nat : /\ c = 64 * (c \div 64) + (c % 64) /\ c % 64 \in 0 .. 63 /\ c \div 64 \in Nat
                    /\ c \div 4096 = (c \div 64) \div 64
                    /\ c \div 262144 = ((c \div 64) \div 64) \div 64
  /\ \A q \in Nat, r \in 0 .. 63 : (q * 64 + r) \div 64 = q /\ (q * 64 + r) % 64 = r
<1>1. \A c \in Nat : c = 64 * (c \div 64) + (c % 64) /\ c % 64 \in 0 .. 63 /\ c \div 64 \in Nat
  BY SMT
<1>2. \A c \in Nat : c \div 4096 = (c \div 64) \div 64
  BY SMT
<1>3. \A c \in Nat : c \div 262144 = (c \div 4096) \div 64
  BY SMT
<1>4. \A q \in Nat, r \in 0 .. 63 : (q * 64 + r) \div 64 = q /\ (q * 64 + r) % 64 = r
  BY SMT
<1> QED BY <1>1, <1>2, <1>3, <1>4, SMT

(* The one way to write a code point, in base 64.                          *)
BytesOf(c) ==
  IF c <= 127 THEN <<c>>
  ELSE IF c <= 2047 THEN <<192 + (c \div 64), 128 + (c % 64)>>
  ELSE IF c <= 65535
       THEN <<224 + ((c \div 64) \div 64), 128 + ((c \div 64) % 64), 128 + (c % 64)>>
  ELSE <<240 + (((c \div 64) \div 64) \div 64), 128 + (((c \div 64) \div 64) % 64),
         128 + ((c \div 64) % 64), 128 + (c % 64)>>
UnitsOf(c) ==
  IF c <= 65535 THEN <<c>>
  ELSE <<55296 + ((c - 65536) \div 1024), 56320 + ((c - 65536) % 1024)>>

LEMMA CodePointsAreWritten ==
  ASSUME NEW c \in Scalar
  PROVE  AppendUtf8(c) = Ok(BytesOf(c)) /\ AppendUtf16(c) = Ok(UnitsOf(c))
<1>1. c \in Nat /\ c <= MaxCodePoint /\ c \notin Surrogates
  BY DEF Scalar
<1>2. AppendUtf16(c) = Ok(UnitsOf(c))
  BY <1>1, SMT DEF AppendUtf16, UnitsOf, MaxCodePoint
<1>3. c \div 4096 = (c \div 64) \div 64 /\ c \div 262144 = ((c \div 64) \div 64) \div 64
  BY <1>1, Digits
<1>4. AppendUtf8(c) = Ok(BytesOf(c))
  BY <1>1, <1>3, SMT DEF AppendUtf8, BytesOf, Continuation, MaxCodePoint
<1> QED BY <1>2, <1>4

LEMMA LeadIs ==
  ASSUME NEW b \in Byte
  PROVE  /\ b \in 0 .. 127 => Lead(b) = [width |-> 1, bits |-> b, least |-> 0]
         /\ b \in 192 .. 223 => Lead(b) = [width |-> 2, bits |-> b - 192, least |-> 128]
         /\ b \in 224 .. 239 => Lead(b) = [width |-> 3, bits |-> b - 224, least |-> 2048]
         /\ b \in 240 .. 247 => Lead(b) = [width |-> 4, bits |-> b - 240, least |-> 65536]
         /\ b \in 128 .. 191 \cup 248 .. 255 => Lead(b).width = 0
<1>1. b \in 0 .. 255
  BY DEF Byte
<1>2. CASE b \in 0 .. 127
  BY <1>2 DEF Lead
<1>3. CASE b \in 192 .. 223
  <2>1. ~ (b <= 127) /\ b \div 32 = 6 /\ b % 32 = b - 192
    BY <1>3
  <2> QED BY <1>3, <2>1 DEF Lead
<1>4. CASE b \in 224 .. 239
  <2>1. ~ (b <= 127) /\ b \div 32 # 6 /\ b \div 16 = 14 /\ b % 16 = b - 224
    BY <1>4
  <2> QED BY <1>4, <2>1 DEF Lead
<1>5. CASE b \in 240 .. 247
  <2>1. ~ (b <= 127) /\ b \div 32 # 6 /\ b \div 16 # 14 /\ b \div 8 = 30 /\ b % 8 = b - 240
    BY <1>5
  <2> QED BY <1>5, <2>1 DEF Lead
<1>6. CASE b \in 128 .. 191 \cup 248 .. 255
  <2>1. ~ (b <= 127) /\ b \div 32 # 6 /\ b \div 16 # 14 /\ b \div 8 # 30
    BY <1>6
  <2> QED BY <1>6, <2>1 DEF Lead
<1> QED BY <1>1, <1>2, <1>3, <1>4, <1>5, <1>6

LEMMA ContinuationIs ==
  \A b \in Byte : /\ IsContinuation(b) <=> b \in 128 .. 191
                  /\ b \in 128 .. 191 => b % 64 = b - 128
BY DEF Byte, IsContinuation

(* A continuation byte carries six bits.                                   *)
LEMMA SixBits ==
  \A d \in 0 .. 63 : 128 + d \in Byte /\ IsContinuation(128 + d) /\ (128 + d) % 64 = d
<1>1. \A d \in 0 .. 63 : 128 + d \in 128 .. 191 /\ 128 + d \in Byte /\ (128 + d) % 64 = d
  BY DEF Byte
<1> QED BY <1>1, ContinuationIs

(* The least code point of a width.                                        *)
LeastOf(width) ==
  IF width = 1 THEN 0 ELSE IF width = 2 THEN 128 ELSE IF width = 3 THEN 2048 ELSE 65536

(* A code point in base 64: its digits, the bytes they are written as and   *)
(* where a string holds them.                                              *)
Digit == 0 .. 63
High2 == 0 .. 31
High3 == 0 .. 15
High4 == 0 .. 7
Leads1 == 0 .. 127
Leads2 == 192 .. 223
Leads3 == 224 .. 239
Leads4 == 240 .. 247
Two(a, b) == a * 64 + b
Three(a, b, d) == (a * 64 + b) * 64 + d
Four(a, b, d, e) == ((a * 64 + b) * 64 + d) * 64 + e
TwoWritten(a, b) == <<192 + a, 128 + b>>
ThreeWritten(a, b, d) == <<224 + a, 128 + b, 128 + d>>
FourWritten(a, b, d, e) == <<240 + a, 128 + b, 128 + d, 128 + e>>
TwoOf(c, a, b) == a \in High2 /\ b \in Digit /\ c = Two(a, b) /\ LeastOf(2) <= c
ThreeOf(c, a, b, d) ==
  a \in High3 /\ b \in Digit /\ d \in Digit /\ c = Three(a, b, d) /\ LeastOf(3) <= c
FourOf(c, a, b, d, e) ==
  /\ a \in High4 /\ b \in Digit /\ d \in Digit /\ e \in Digit
  /\ c = Four(a, b, d, e) /\ LeastOf(4) <= c
TwoAt(s, i, a, b) ==
  /\ a \in High2 /\ b \in Digit
  /\ s[i] = 192 + a
  /\ s[i + 1] = 128 + b
ThreeAt(s, i, a, b, d) ==
  /\ a \in High3 /\ b \in Digit /\ d \in Digit
  /\ s[i] = 224 + a
  /\ s[i + 1] = 128 + b
  /\ s[i + 2] = 128 + d
FourAt(s, i, a, b, d, e) ==
  /\ a \in High4 /\ b \in Digit /\ d \in Digit /\ e \in Digit
  /\ s[i] = 240 + a
  /\ s[i + 1] = 128 + b
  /\ s[i + 2] = 128 + d
  /\ s[i + 3] = 128 + e

(* What the first byte says, and what the bytes after it add.              *)
LEMMA LeadIsShort ==
  ASSUME NEW b \in Byte
  PROVE  /\ Lead(b).width \in 0 .. 4
         /\ Lead(b).width # 0 => Lead(b).least = LeastOf(Lead(b).width)
         /\ Lead(b).width = 1 <=> b \in 0 .. 127
         /\ Lead(b).width = 2 <=> b \in 192 .. 223
         /\ Lead(b).width = 3 <=> b \in 224 .. 239
         /\ Lead(b).width = 4 <=> b \in 240 .. 247
         /\ Lead(b).width = 1 => Lead(b).bits = b
         /\ Lead(b).width = 2 => Lead(b).bits = b - 192
         /\ Lead(b).width = 3 => Lead(b).bits = b - 224
         /\ Lead(b).width = 4 => Lead(b).bits = b - 240
<1>1. \/ b \in 0 .. 127 \/ b \in 192 .. 223 \/ b \in 224 .. 239 \/ b \in 240 .. 247
      \/ b \in 128 .. 191 \cup 248 .. 255
  BY SMT DEF Byte
<1>2. CASE b \in 0 .. 127
  BY <1>2, LeadIs, SMT DEF LeastOf
<1>3. CASE b \in 192 .. 223
  BY <1>3, LeadIs, SMT DEF LeastOf
<1>4. CASE b \in 224 .. 239
  BY <1>4, LeadIs, SMT DEF LeastOf
<1>5. CASE b \in 240 .. 247
  BY <1>5, LeadIs, SMT DEF LeastOf
<1>6. CASE b \in 128 .. 191 \cup 248 .. 255
  BY <1>6, LeadIs, SMT DEF LeastOf
<1> QED BY <1>1, <1>2, <1>3, <1>4, <1>5, <1>6

LEMMA PayloadOfTwo ==
  ASSUME NEW bytes, NEW i \in Nat, NEW lead, lead.width = 2
  PROVE  Payload(bytes, i, lead) =
           lead.bits * 64 + (bytes[i + 1] % 64)
BY PayloadIs, SMT

LEMMA PayloadOfThree ==
  ASSUME NEW bytes, NEW i \in Nat, NEW lead, lead.width = 3
  PROVE  Payload(bytes, i, lead) =
           (lead.bits * 64 + (bytes[i + 1] % 64)) * 64 + (bytes[i + 2] % 64)
BY PayloadIs, SMT

LEMMA PayloadOfFour ==
  ASSUME NEW bytes, NEW i \in Nat, NEW lead, lead.width = 4
  PROVE  Payload(bytes, i, lead) =
           ((lead.bits * 64 + (bytes[i + 1] % 64)) * 64 + (bytes[i + 2] % 64)) * 64 + (bytes[i + 3] % 64)
BY PayloadIs, SMT

LEMMA OneByte ==
  ASSUME NEW bytes, NEW i \in Nat, bytes[i] \in Leads1
  PROVE  /\ Lead(bytes[i]).width = 1 /\ Payload(bytes, i, Lead(bytes[i])) = bytes[i]
         /\ \A n \in 1 .. 1 - 1 : IsContinuation(bytes[i + n])
<1> DEFINE lead == Lead(bytes[i])
<1>1. bytes[i] \in 0 .. 127 /\ bytes[i] \in Byte
  BY SMT DEF Byte, Leads1
<1>2. lead.width = 1 /\ lead.bits = bytes[i]
  BY <1>1, LeadIsShort
<1> HIDE DEF lead
<1>3. Payload(bytes, i, lead) = bytes[i]
  BY <1>2, PayloadIs
<1>4. 1 .. 1 - 1 = {}
  BY SMT
<1> QED BY <1>2, <1>3, <1>4 DEF lead

LEMMA TwoBytes ==
  ASSUME NEW bytes, NEW i \in Nat, NEW a, NEW b,
         TwoAt(bytes, i, a, b)
  PROVE  /\ Lead(bytes[i]).width = 2 /\ Payload(bytes, i, Lead(bytes[i])) = Two(a, b)
         /\ \A n \in 1 .. 2 - 1 : IsContinuation(bytes[i + n])
<1> DEFINE lead == Lead(bytes[i])
<1>1. bytes[i] = 192 + a /\ bytes[i + 1] = 128 + b
  BY DEF TwoAt
<1>2. a \in 0 .. 31 /\ b \in 0 .. 63
  BY SMT DEF TwoAt, High2, Digit
<1>3. 192 + a \in Byte /\ 192 + a \in 192 .. 223 /\ 192 + a - 192 = a
  BY <1>2 DEF Byte
<1>4. lead.width = 2 /\ lead.bits = a
  BY <1>1, <1>2, <1>3, LeadIsShort
<1> HIDE DEF lead
<1>5. bytes[i + 1] % 64 = b
  BY <1>1, <1>2, SixBits
<1>6. IsContinuation(bytes[i + 1])
  BY <1>1, <1>2, SixBits
<1>7. Payload(bytes, i, lead) =
        lead.bits * 64 + (bytes[i + 1] % 64)
  BY <1>4, PayloadOfTwo
<1>8. Payload(bytes, i, lead) = Two(a, b)
  BY <1>4, <1>5, <1>7, Zenon DEF Two
<1>9. \A n \in 1 .. 2 - 1 : n = 1
  BY SMT
<1>10. \A n \in 1 .. 2 - 1 : IsContinuation(bytes[i + n])
  BY <1>6, <1>9, Zenon
<1> QED BY <1>4, <1>8, <1>10, Zenon DEF lead

LEMMA ThreeBytes ==
  ASSUME NEW bytes, NEW i \in Nat, NEW a, NEW b, NEW d,
         ThreeAt(bytes, i, a, b, d)
  PROVE  /\ Lead(bytes[i]).width = 3 /\ Payload(bytes, i, Lead(bytes[i])) = Three(a, b, d)
         /\ \A n \in 1 .. 3 - 1 : IsContinuation(bytes[i + n])
<1> DEFINE lead == Lead(bytes[i])
<1>1. bytes[i] = 224 + a /\ bytes[i + 1] = 128 + b /\ bytes[i + 2] = 128 + d
  BY DEF ThreeAt
<1>2. a \in 0 .. 15 /\ b \in 0 .. 63 /\ d \in 0 .. 63
  BY SMT DEF ThreeAt, High3, Digit
<1>3. 224 + a \in Byte /\ 224 + a \in 224 .. 239 /\ 224 + a - 224 = a
  BY <1>2 DEF Byte
<1>4. lead.width = 3 /\ lead.bits = a
  BY <1>1, <1>2, <1>3, LeadIsShort
<1> HIDE DEF lead
<1>5. bytes[i + 1] % 64 = b /\ bytes[i + 2] % 64 = d
  BY <1>1, <1>2, SixBits
<1>6. IsContinuation(bytes[i + 1]) /\ IsContinuation(bytes[i + 2])
  BY <1>1, <1>2, SixBits
<1>7. Payload(bytes, i, lead) =
        (lead.bits * 64 + (bytes[i + 1] % 64)) * 64 + (bytes[i + 2] % 64)
  BY <1>4, PayloadOfThree
<1>8. Payload(bytes, i, lead) = Three(a, b, d)
  BY <1>4, <1>5, <1>7, Zenon DEF Three
<1>9. \A n \in 1 .. 3 - 1 : n = 1 \/ n = 2
  BY SMT
<1>10. \A n \in 1 .. 3 - 1 : IsContinuation(bytes[i + n])
  BY <1>6, <1>9, Zenon
<1> QED BY <1>4, <1>8, <1>10, Zenon DEF lead

LEMMA FourBytes ==
  ASSUME NEW bytes, NEW i \in Nat, NEW a, NEW b, NEW d, NEW e,
         FourAt(bytes, i, a, b, d, e)
  PROVE  /\ Lead(bytes[i]).width = 4 /\ Payload(bytes, i, Lead(bytes[i])) = Four(a, b, d, e)
         /\ \A n \in 1 .. 4 - 1 : IsContinuation(bytes[i + n])
<1> DEFINE lead == Lead(bytes[i])
<1>1. bytes[i] = 240 + a /\ bytes[i + 1] = 128 + b /\ bytes[i + 2] = 128 + d /\ bytes[i + 3] = 128 + e
  BY DEF FourAt
<1>2. a \in 0 .. 7 /\ b \in 0 .. 63 /\ d \in 0 .. 63 /\ e \in 0 .. 63
  BY SMT DEF FourAt, High4, Digit
<1>3. 240 + a \in Byte /\ 240 + a \in 240 .. 247 /\ 240 + a - 240 = a
  BY <1>2 DEF Byte
<1>4. lead.width = 4 /\ lead.bits = a
  BY <1>1, <1>2, <1>3, LeadIsShort
<1> HIDE DEF lead
<1>5. bytes[i + 1] % 64 = b /\ bytes[i + 2] % 64 = d /\ bytes[i + 3] % 64 = e
  BY <1>1, <1>2, SixBits
<1>6. IsContinuation(bytes[i + 1]) /\ IsContinuation(bytes[i + 2]) /\ IsContinuation(bytes[i + 3])
  BY <1>1, <1>2, SixBits
<1>7. Payload(bytes, i, lead) =
        ((lead.bits * 64 + (bytes[i + 1] % 64)) * 64 + (bytes[i + 2] % 64)) * 64 + (bytes[i + 3] % 64)
  BY <1>4, PayloadOfFour
<1>8. Payload(bytes, i, lead) = Four(a, b, d, e)
  BY <1>4, <1>5, <1>7, Zenon DEF Four
<1>9. \A n \in 1 .. 4 - 1 : n = 1 \/ n = 2 \/ n = 3
  BY SMT
<1>10. \A n \in 1 .. 4 - 1 : IsContinuation(bytes[i + n])
  BY <1>6, <1>9, Zenon
<1> QED BY <1>4, <1>8, <1>10, Zenon DEF lead

(* One turn of utf8_to_utf16, case by case.                                *)
LEMMA NextUtf8Is ==
  ASSUME NEW bytes, NEW i
  PROVE  LET lead == Lead(bytes[i])
             point == Payload(bytes, i, lead)
             next == NextFromUtf8(bytes, i)
         IN /\ next.ok <=> /\ lead.width # 0 /\ ~ (i + lead.width - 1 > Len(bytes))
                           /\ \A n \in 1 .. lead.width - 1 : IsContinuation(bytes[i + n])
                           /\ ~ (point < lead.least \/ point \in Surrogates \/ point > MaxCodePoint)
            /\ next.ok => next = Ok([point |-> point, width |-> lead.width])
<1> DEFINE lead == Lead(bytes[i])
           point == Payload(bytes, i, lead)
           next == NextFromUtf8(bytes, i)
           bad == point < lead.least \/ point \in Surrogates \/ point > MaxCodePoint
           check == << <<bad, "NotAScalar">> >>
           answer == [point |-> point, width |-> lead.width]
<1>1. next = IF lead.width = 0 THEN Err("NotALead")
             ELSE IF i + lead.width - 1 > Len(bytes) THEN Err("Truncated")
             ELSE IF \E n \in 1 .. lead.width - 1 : ~ IsContinuation(bytes[i + n])
                  THEN Err("NotAContinuation")
             ELSE Checked(check, answer)
  BY Zenon DEF NextFromUtf8
<1>2. /\ Checked(check, answer).ok <=> ~ bad
      /\ ~ bad => Checked(check, answer) = Ok(answer)
  <2> HIDE DEF bad, answer
  <2>1. DOMAIN check = {1} /\ check[1] = <<bad, "NotAScalar">>
    BY OneCheck
  <2>2. check[1][1] = bad
    BY <2>1, Zenon
  <2> HIDE DEF check
  <2>3. Clean(check) <=> ~ bad
    BY <2>1, <2>2, Zenon DEF Clean
  <2> QED BY <2>3, CheckedOk, Zenon
<1> HIDE DEF lead, point, next, bad, check, answer
<1>3. CASE lead.width = 0
  BY <1>1, <1>3, Results, Zenon DEF next, lead
<1>4. CASE lead.width # 0 /\ i + lead.width - 1 > Len(bytes)
  BY <1>1, <1>4, Results, Zenon DEF next, lead
<1>5. CASE /\ lead.width # 0 /\ ~ (i + lead.width - 1 > Len(bytes))
           /\ \E n \in 1 .. lead.width - 1 : ~ IsContinuation(bytes[i + n])
  <2>1. ~ next.ok
    BY <1>1, <1>5, Results, Zenon
  <2> QED BY <1>5, <2>1, Zenon DEF next, lead
<1>6. CASE /\ lead.width # 0 /\ ~ (i + lead.width - 1 > Len(bytes))
           /\ ~ \E n \in 1 .. lead.width - 1 : ~ IsContinuation(bytes[i + n])
  <2>1. next = Checked(check, answer)
    BY <1>1, <1>6, Zenon
  <2>2. (next.ok <=> ~ bad) /\ (next.ok => next = Ok(answer))
    BY <1>2, <2>1, Results, Zenon
  <2> QED BY <1>6, <2>2, Zenon DEF next, lead, bad, answer, point
<1> QED BY <1>3, <1>4, <1>5, <1>6, Zenon

(* The four shapes of a code point in base 64, and its bytes.              *)
LEMMA Base64 ==
  \A q \in Nat, r \in 0 .. 63 : (q * 64 + r) \div 64 = q /\ (q * 64 + r) % 64 = r
BY SMT

LEMMA Shapes ==
  ASSUME NEW c \in Scalar
  PROVE  \/ c \in Leads1
         \/ \E a, b : TwoOf(c, a, b)
         \/ \E a, b, d : ThreeOf(c, a, b, d)
         \/ \E a, b, d, e : FourOf(c, a, b, d, e)
<1> DEFINE q == c \div 64
           r == c % 64
           p == q \div 64
           m == q % 64
           o == p \div 64
           n == p % 64
<1>1. c \in Nat /\ c <= 1114111
  BY SMT DEF Scalar, MaxCodePoint
<1>2. /\ c = q * 64 + r /\ r \in 0 .. 63 /\ q \in Nat
      /\ q = p * 64 + m /\ m \in 0 .. 63 /\ p \in Nat
      /\ p = o * 64 + n /\ n \in 0 .. 63 /\ o \in Nat
  <2>1. c = q * 64 + r /\ r \in 0 .. 63 /\ q \in Nat
    BY <1>1, SMT
  <2> HIDE DEF q, r
  <2>2. q = p * 64 + m /\ m \in 0 .. 63 /\ p \in Nat
    BY <2>1, SMT
  <2> HIDE DEF p, m
  <2>3. p = o * 64 + n /\ n \in 0 .. 63 /\ o \in Nat
    BY <2>2, SMT
  <2> QED BY <2>1, <2>2, <2>3
<1> HIDE DEF q, r, p, m, o, n
<1>3. \/ c \in Leads1
      \/ q \in High2 /\ c = Two(q, r) /\ LeastOf(2) <= c
      \/ p \in High3 /\ c = Three(p, m, r) /\ LeastOf(3) <= c
      \/ o \in High4 /\ c = Four(o, n, m, r) /\ LeastOf(4) <= c
  <2>1. CASE c <= 127
    BY <1>1, <2>1, SMT DEF Leads1
  <2>2. CASE c > 127 /\ c <= 2047
    BY <1>1, <1>2, <2>2, SMT DEF Two, LeastOf, High2
  <2>3. CASE c > 2047 /\ c <= 65535
    BY <1>1, <1>2, <2>3, SMT DEF Three, LeastOf, High3
  <2>4. CASE c > 65535
    BY <1>1, <1>2, <2>4, SMT DEF Four, LeastOf, High4
  <2> QED BY <1>1, <2>1, <2>2, <2>3, <2>4, SMT
<1>4. r \in Digit /\ m \in Digit /\ n \in Digit
  BY <1>2 DEF Digit
<1> QED BY <1>3, <1>4, Zenon DEF TwoOf, ThreeOf, FourOf

LEMMA OneIsWritten ==
  ASSUME NEW c \in Leads1
  PROVE  BytesOf(c) = <<c>> /\ Len(BytesOf(c)) = 1
BY SMT DEF BytesOf, Leads1

LEMMA TwoAreWritten ==
  ASSUME NEW c, NEW a, NEW b, TwoOf(c, a, b)
  PROVE  BytesOf(c) = TwoWritten(a, b) /\ Len(BytesOf(c)) = 2
<1>1. a \in 0 .. 31 /\ b \in 0 .. 63
  BY SMT DEF TwoOf, High2, Digit
<1>2. c = a * 64 + b /\ a \in Nat
  BY <1>1, SMT DEF TwoOf, Two
<1>3. LeastOf(2) <= c
  BY DEF TwoOf
<1>4. c \in 128 .. 2047
  BY <1>1, <1>2, <1>3, SMT DEF LeastOf
<1>5. c \div 64 = a /\ c % 64 = b
  BY <1>1, <1>2, Base64, Zenon
<1>6. BytesOf(c) = <<192 + (c \div 64), 128 + (c % 64)>>
  BY <1>4, SMT DEF BytesOf
<1>7. BytesOf(c) = TwoWritten(a, b)
  BY <1>5, <1>6, Zenon DEF TwoWritten
<1>8. Len(BytesOf(c)) = 2
  BY <1>6, SMT
<1> QED BY <1>7, <1>8, Zenon

LEMMA ThreeAreWritten ==
  ASSUME NEW c, NEW a, NEW b, NEW d, ThreeOf(c, a, b, d)
  PROVE  BytesOf(c) = ThreeWritten(a, b, d) /\ Len(BytesOf(c)) = 3
<1>1. a \in 0 .. 15 /\ b \in 0 .. 63 /\ d \in 0 .. 63
  BY SMT DEF ThreeOf, High3, Digit
<1>2. PICK q : q = a * 64 + b
  OBVIOUS
<1>3. q \in Nat /\ q <= 1023 /\ a \in Nat
  BY <1>1, <1>2, SMT
<1>4. c = q * 64 + d
  BY <1>1, <1>2, SMT DEF ThreeOf, Three
<1>5. LeastOf(3) <= c
  BY DEF ThreeOf
<1>6. q \in Nat /\ a \in Nat
  BY <1>3
<1>7. q \div 64 = a /\ q % 64 = b
  BY <1>1, <1>2, <1>6, Base64, Zenon
<1>8. c \div 64 = q /\ c % 64 = d
  BY <1>1, <1>4, <1>6, Base64, Zenon
<1>9. c \in Nat /\ ~ (c <= 127) /\ ~ (c <= 2047) /\ c <= 65535
  BY <1>1, <1>3, <1>4, <1>5, SMT DEF LeastOf
<1>10. BytesOf(c) = <<224 + ((c \div 64) \div 64), 128 + ((c \div 64) % 64), 128 + (c % 64)>>
  BY <1>9, SMT DEF BytesOf
<1>11. BytesOf(c) = ThreeWritten(a, b, d)
  BY <1>7, <1>8, <1>10, Zenon DEF ThreeWritten
<1>12. Len(BytesOf(c)) = 3
  BY <1>10, SMT
<1> QED BY <1>11, <1>12, Zenon

LEMMA FourAreWritten ==
  ASSUME NEW c, NEW a, NEW b, NEW d, NEW e, FourOf(c, a, b, d, e)
  PROVE  BytesOf(c) = FourWritten(a, b, d, e) /\ Len(BytesOf(c)) = 4
<1>1. a \in 0 .. 7 /\ b \in 0 .. 63 /\ d \in 0 .. 63 /\ e \in 0 .. 63
  BY SMT DEF FourOf, High4, Digit
<1>2. PICK p : p = a * 64 + b
  OBVIOUS
<1>3. PICK q : q = p * 64 + d
  OBVIOUS
<1>4. p \in Nat /\ q \in Nat /\ a \in Nat
  BY <1>1, <1>2, <1>3, SMT
<1>5. c = q * 64 + e
  BY <1>1, <1>2, <1>3, SMT DEF FourOf, Four
<1>6. LeastOf(4) <= c
  BY DEF FourOf
<1>7. p \div 64 = a /\ p % 64 = b
  BY <1>1, <1>2, <1>4, Base64, Zenon
<1>8. q \div 64 = p /\ q % 64 = d
  BY <1>1, <1>3, <1>4, Base64, Zenon
<1>9. c \div 64 = q /\ c % 64 = e
  BY <1>1, <1>4, <1>5, Base64, Zenon
<1>10. c \in Nat /\ ~ (c <= 127) /\ ~ (c <= 2047) /\ ~ (c <= 65535)
  BY <1>1, <1>4, <1>5, <1>6, SMT DEF LeastOf
<1>11. BytesOf(c) =
         <<240 + (((c \div 64) \div 64) \div 64), 128 + (((c \div 64) \div 64) % 64),
           128 + ((c \div 64) % 64), 128 + (c % 64)>>
  BY <1>10, SMT DEF BytesOf
<1>12. BytesOf(c) = FourWritten(a, b, d, e)
  BY <1>7, <1>8, <1>9, <1>11, Zenon DEF FourWritten
<1>13. Len(BytesOf(c)) = 4
  BY <1>11, SMT
<1> QED BY <1>12, <1>13, Zenon

(* The bytes of a code point at an offset of a string.                     *)
WrittenAt(s, i, part) ==
  /\ i + Len(part) - 1 <= Len(s)
  /\ \A k \in 1 .. Len(part) : s[i + k - 1] = part[k]

LEMMA TwoAreAt ==
  ASSUME NEW s, NEW i \in Nat, NEW c, NEW a, NEW b, TwoOf(c, a, b)
  PROVE  WrittenAt(s, i, BytesOf(c)) <=> i + 2 - 1 <= Len(s) /\ TwoAt(s, i, a, b)
<1>1. PICK part : part = BytesOf(c)
  OBVIOUS
<1>2. part = TwoWritten(a, b) /\ Len(part) = 2
  BY <1>1, TwoAreWritten, Zenon
<1>3. part[1] = 192 + a /\ part[2] = 128 + b
  BY <1>2 DEF TwoWritten
<1>4. i + 1 - 1 = i /\ i + 2 - 1 = i + 1
  OBVIOUS
<1>5. \A j \in 1 .. 2 : j = 1 \/ j = 2
  BY SMT
<1>6. 1 \in 1 .. 2 /\ 2 \in 1 .. 2
  BY SMT
<1>7. a \in High2 /\ b \in Digit
  BY Zenon DEF TwoOf
<1>8. (\A j \in 1 .. 2 : s[i + j - 1] = part[j]) <=> TwoAt(s, i, a, b)
  BY <1>3, <1>4, <1>5, <1>6, <1>7 DEF TwoAt
<1>9. WrittenAt(s, i, part) <=> i + 2 - 1 <= Len(s) /\ TwoAt(s, i, a, b)
  BY <1>2, <1>8, Zenon DEF WrittenAt
<1> QED BY <1>1, <1>9, Zenon

LEMMA ThreeAreAt ==
  ASSUME NEW s, NEW i \in Nat, NEW c, NEW a, NEW b, NEW d, ThreeOf(c, a, b, d)
  PROVE  WrittenAt(s, i, BytesOf(c)) <=> i + 3 - 1 <= Len(s) /\ ThreeAt(s, i, a, b, d)
<1>1. PICK part : part = BytesOf(c)
  OBVIOUS
<1>2. part = ThreeWritten(a, b, d) /\ Len(part) = 3
  BY <1>1, ThreeAreWritten, Zenon
<1>3. part[1] = 224 + a /\ part[2] = 128 + b /\ part[3] = 128 + d
  BY <1>2 DEF ThreeWritten
<1>4. i + 1 - 1 = i /\ i + 2 - 1 = i + 1 /\ i + 3 - 1 = i + 2
  OBVIOUS
<1>5. \A j \in 1 .. 3 : j = 1 \/ j = 2 \/ j = 3
  BY SMT
<1>6. 1 \in 1 .. 3 /\ 2 \in 1 .. 3 /\ 3 \in 1 .. 3
  BY SMT
<1>7. a \in High3 /\ b \in Digit /\ d \in Digit
  BY Zenon DEF ThreeOf
<1>8. (\A j \in 1 .. 3 : s[i + j - 1] = part[j]) <=> ThreeAt(s, i, a, b, d)
  BY <1>3, <1>4, <1>5, <1>6, <1>7 DEF ThreeAt
<1>9. WrittenAt(s, i, part) <=> i + 3 - 1 <= Len(s) /\ ThreeAt(s, i, a, b, d)
  BY <1>2, <1>8, Zenon DEF WrittenAt
<1> QED BY <1>1, <1>9, Zenon

LEMMA FourAreAt ==
  ASSUME NEW s, NEW i \in Nat, NEW c, NEW a, NEW b, NEW d, NEW e, FourOf(c, a, b, d, e)
  PROVE  WrittenAt(s, i, BytesOf(c)) <=> i + 4 - 1 <= Len(s) /\ FourAt(s, i, a, b, d, e)
<1>1. PICK part : part = BytesOf(c)
  OBVIOUS
<1>2. part = FourWritten(a, b, d, e) /\ Len(part) = 4
  BY <1>1, FourAreWritten, Zenon
<1>3. part[1] = 240 + a /\ part[2] = 128 + b /\ part[3] = 128 + d /\ part[4] = 128 + e
  BY <1>2 DEF FourWritten
<1>4. i + 1 - 1 = i /\ i + 2 - 1 = i + 1 /\ i + 3 - 1 = i + 2 /\ i + 4 - 1 = i + 3
  OBVIOUS
<1>5. \A j \in 1 .. 4 : j = 1 \/ j = 2 \/ j = 3 \/ j = 4
  BY SMT
<1>6. 1 \in 1 .. 4 /\ 2 \in 1 .. 4 /\ 3 \in 1 .. 4 /\ 4 \in 1 .. 4
  BY SMT
<1>7. a \in High4 /\ b \in Digit /\ d \in Digit /\ e \in Digit
  BY Zenon DEF FourOf
<1>8. (\A j \in 1 .. 4 : s[i + j - 1] = part[j]) <=> FourAt(s, i, a, b, d, e)
  BY <1>3, <1>4, <1>5, <1>6, <1>7 DEF FourAt
<1>9. WrittenAt(s, i, part) <=> i + 4 - 1 <= Len(s) /\ FourAt(s, i, a, b, d, e)
  BY <1>2, <1>8, Zenon DEF WrittenAt
<1> QED BY <1>1, <1>9, Zenon

(* The bytes of a code point are read as it.                               *)
LEMMA Utf8Reads ==
  ASSUME NEW bytes, Len(bytes) \in Nat, NEW i \in 1 .. Len(bytes), bytes[i] \in Byte,
         Payload(bytes, i, Lead(bytes[i])) \in Nat, Lead(bytes[i]).width # 0
  PROVE  LET w == Lead(bytes[i]).width
             point == Payload(bytes, i, Lead(bytes[i]))
             next == NextFromUtf8(bytes, i)
         IN /\ next.ok <=> /\ i + w - 1 <= Len(bytes)
                           /\ \A n \in 1 .. w - 1 : IsContinuation(bytes[i + n])
                           /\ LeastOf(w) <= point /\ point \in Scalar
            /\ next.ok => next = Ok([point |-> point, width |-> w])
<1> DEFINE w == Lead(bytes[i]).width
           point == Payload(bytes, i, Lead(bytes[i]))
           least == Lead(bytes[i]).least
<1>1. w \in 0 .. 4 /\ w # 0 /\ point \in Nat /\ least = LeastOf(w)
  BY LeadIsShort
<1>2. LeastOf(w) \in Nat
  <2> HIDE DEF w
  <2> QED BY SMT DEF LeastOf
<1> HIDE DEF w, point, least
<1>3. ~ (point < least \/ point \in Surrogates \/ point > MaxCodePoint)
        <=> LeastOf(w) <= point /\ point \in Scalar
  <2>1. MaxCodePoint \in Nat
    BY SMT DEF MaxCodePoint
  <2> QED BY <1>1, <1>2, <2>1, SMT DEF Scalar
<1>4. ~ (i + w - 1 > Len(bytes)) <=> i + w - 1 <= Len(bytes)
  BY <1>1, SMT
<1>5. /\ NextFromUtf8(bytes, i).ok <=>
           /\ w # 0 /\ ~ (i + w - 1 > Len(bytes))
           /\ \A n \in 1 .. w - 1 : IsContinuation(bytes[i + n])
           /\ ~ (point < least \/ point \in Surrogates \/ point > MaxCodePoint)
      /\ NextFromUtf8(bytes, i).ok =>
           NextFromUtf8(bytes, i) = Ok([point |-> point, width |-> w])
  BY NextUtf8Is, Zenon DEF w, point, least
<1>6. /\ NextFromUtf8(bytes, i).ok <=>
           /\ i + w - 1 <= Len(bytes)
           /\ \A n \in 1 .. w - 1 : IsContinuation(bytes[i + n])
           /\ LeastOf(w) <= point /\ point \in Scalar
  BY <1>1, <1>3, <1>4, <1>5, Zenon
<1> QED BY <1>5, <1>6, Zenon DEF w, point

LEMMA Utf8IsRead ==
  ASSUME NEW bytes, Len(bytes) \in Nat, NEW i \in 1 .. Len(bytes), NEW c \in Scalar,
         bytes[i] \in Byte, WrittenAt(bytes, i, BytesOf(c))
  PROVE  NextFromUtf8(bytes, i) = Ok([point |-> c, width |-> Len(BytesOf(c))])
<1> DEFINE next == NextFromUtf8(bytes, i)
           w == Lead(bytes[i]).width
           point == Payload(bytes, i, Lead(bytes[i]))
           part == BytesOf(c)
<1>1. i \in Nat /\ c \in Nat /\ i + 1 - 1 = i
  BY SMT DEF Scalar
<1>2. SUFFICES /\ w = Len(part) /\ w # 0 /\ point = c /\ LeastOf(w) <= c
               /\ \A n \in 1 .. w - 1 : IsContinuation(bytes[i + n])
  <2>1. i + Len(part) - 1 <= Len(bytes)
    BY DEF WrittenAt
  <2>2. w = Len(part) /\ w # 0 /\ point = c /\ LeastOf(w) <= c
    BY <1>2
  <2>3. \A n \in 1 .. w - 1 : IsContinuation(bytes[i + n])
    BY <1>2
  <2>4. i + w - 1 <= Len(bytes)
    BY <2>1, <2>2
  <2>5. next.ok /\ next = Ok([point |-> point, width |-> w])
    <3>1. point \in Nat /\ point \in Scalar /\ LeastOf(w) <= point
      BY <1>1, <2>2
    <3> QED BY <2>2, <2>3, <2>4, <3>1, Utf8Reads, Zenon
  <2> QED BY <2>2, <2>5
<1>3. CASE c \in Leads1
  <2>1. part = <<c>> /\ Len(part) = 1
    BY <1>3, OneIsWritten, Zenon
  <2>2. part[1] = c
    BY <2>1
  <2> HIDE DEF part
  <2>3. bytes[i] = c
    BY <1>1, <2>1, <2>2 DEF WrittenAt, part
  <2>4. w = 1 /\ point = c /\ \A n \in 1 .. 1 - 1 : IsContinuation(bytes[i + n])
    BY <1>1, <1>3, <2>3, OneByte, Zenon
  <2>5. LeastOf(1) <= c
    BY <1>1, SMT DEF LeastOf
  <2> QED BY <2>1, <2>4, <2>5
<1>4. CASE \E a, b : TwoOf(c, a, b)
  <2>1. PICK a, b : TwoOf(c, a, b)
    BY <1>4, Zenon
  <2>2. part = TwoWritten(a, b) /\ Len(part) = 2
    BY <2>1, TwoAreWritten, Zenon
  <2> HIDE DEF part
  <2>3. TwoAt(bytes, i, a, b)
    BY <1>1, <2>1, TwoAreAt, Zenon
  <2>4. w = 2 /\ point = Two(a, b) /\ \A n \in 1 .. 2 - 1 : IsContinuation(bytes[i + n])
    BY <1>1, <2>3, TwoBytes, Zenon
  <2>5. 2 # 0 /\ LeastOf(2) <= c /\ c = Two(a, b)
    BY <2>1 DEF TwoOf
  <2> QED BY <2>2, <2>4, <2>5
<1>5. CASE \E a, b, d : ThreeOf(c, a, b, d)
  <2>1. PICK a, b, d : ThreeOf(c, a, b, d)
    BY <1>5, Zenon
  <2>2. part = ThreeWritten(a, b, d) /\ Len(part) = 3
    BY <2>1, ThreeAreWritten, Zenon
  <2> HIDE DEF part
  <2>3. ThreeAt(bytes, i, a, b, d)
    BY <1>1, <2>1, ThreeAreAt, Zenon
  <2>4. w = 3 /\ point = Three(a, b, d) /\ \A n \in 1 .. 3 - 1 : IsContinuation(bytes[i + n])
    BY <1>1, <2>3, ThreeBytes, Zenon
  <2>5. 3 # 0 /\ LeastOf(3) <= c /\ c = Three(a, b, d)
    BY <2>1 DEF ThreeOf
  <2> QED BY <2>2, <2>4, <2>5
<1>6. CASE \E a, b, d, e : FourOf(c, a, b, d, e)
  <2>1. PICK a, b, d, e : FourOf(c, a, b, d, e)
    BY <1>6, Zenon
  <2>2. part = FourWritten(a, b, d, e) /\ Len(part) = 4
    BY <2>1, FourAreWritten, Zenon
  <2> HIDE DEF part
  <2>3. FourAt(bytes, i, a, b, d, e)
    BY <1>1, <2>1, FourAreAt, Zenon
  <2>4. w = 4 /\ point = Four(a, b, d, e) /\ \A n \in 1 .. 4 - 1 : IsContinuation(bytes[i + n])
    BY <1>1, <2>3, FourBytes, Zenon
  <2>5. 4 # 0 /\ LeastOf(4) <= c /\ c = Four(a, b, d, e)
    BY <2>1 DEF FourOf
  <2> QED BY <2>2, <2>4, <2>5
<1> QED BY <1>3, <1>4, <1>5, <1>6, Shapes, Zenon

LEMMA SixBitsOf ==
  ASSUME NEW b \in Byte, IsContinuation(b)
  PROVE  \E d \in Digit : b = 128 + d
<1>1. b - 128 \in 0 .. 63 /\ b = 128 + (b - 128)
  BY ContinuationIs
<1> QED BY <1>1 DEF Digit

LEMMA LeadTwo ==
  ASSUME NEW x \in Leads2 PROVE \E a \in High2 : x = 192 + a
<1>1. x - 192 \in High2 /\ x = 192 + (x - 192)
  BY SMT DEF Leads2, High2
<1> QED BY <1>1

LEMMA LeadThree ==
  ASSUME NEW x \in Leads3 PROVE \E a \in High3 : x = 224 + a
<1>1. x - 224 \in High3 /\ x = 224 + (x - 224)
  BY SMT DEF Leads3, High3
<1> QED BY <1>1

LEMMA LeadFour ==
  ASSUME NEW x \in Leads4 PROVE \E a \in High4 : x = 240 + a
<1>1. x - 240 \in High4 /\ x = 240 + (x - 240)
  BY SMT DEF Leads4, High4
<1> QED BY <1>1

(* What is read as a code point is its bytes.                              *)
Written(bytes, i, w, c) == c \in Nat /\ (LeastOf(w) <= c => WrittenAt(bytes, i, BytesOf(c)))

LEMMA WasOne ==
  ASSUME NEW bytes, NEW i \in Nat, i <= Len(bytes), bytes[i] \in Leads1
  PROVE  Written(bytes, i, 1, Payload(bytes, i, Lead(bytes[i])))
<1>1. PICK c : c = bytes[i]
  OBVIOUS
<1>2. c = Payload(bytes, i, Lead(bytes[i]))
  BY <1>1, OneByte, Zenon
<1>3. c \in Nat
  <2>1. \A x \in Leads1 : x \in Nat
    BY SMT DEF Leads1
  <2> QED BY <1>1, <2>1, Zenon
<1>4. BytesOf(c) = <<c>> /\ Len(BytesOf(c)) = 1
  BY <1>1, OneIsWritten, Zenon
<1>5. BytesOf(c)[1] = c
  BY <1>4
<1>6. \A k \in 1 .. 1 : k = 1 /\ i + k - 1 = i
  BY SMT
<1>7. i + 1 - 1 <= Len(bytes)
  BY SMT
<1>8. WrittenAt(bytes, i, BytesOf(c))
  BY <1>1, <1>4, <1>5, <1>6, <1>7 DEF WrittenAt
<1> QED BY <1>2, <1>3, <1>8, Zenon DEF Written

LEMMA WasTwo ==
  ASSUME NEW bytes, NEW i \in Nat, i + 2 - 1 <= Len(bytes), bytes[i] \in Leads2,
         bytes[i + 1] \in Byte, IsContinuation(bytes[i + 1])
  PROVE  Written(bytes, i, 2, Payload(bytes, i, Lead(bytes[i])))
<1>1. PICK a \in High2 : bytes[i] = 192 + a
  BY LeadTwo
<1>2. PICK b \in Digit : bytes[i + 1] = 128 + b
  BY SixBitsOf
<1>3. TwoAt(bytes, i, a, b)
  BY <1>1, <1>2 DEF TwoAt
<1>4. PICK c : c = Two(a, b)
  OBVIOUS
<1>5. c = Payload(bytes, i, Lead(bytes[i]))
  <2>1. /\ Lead(bytes[i]).width = 2 /\ Payload(bytes, i, Lead(bytes[i])) = Two(a, b)
        /\ \A n \in 1 .. 2 - 1 : IsContinuation(bytes[i + n])
    BY <1>3, TwoBytes, Zenon
  <2> QED BY <1>4, <2>1, Zenon
<1>6. c \in Nat
  BY <1>4, SMT DEF Two, High2, Digit
<1>7. ASSUME LeastOf(2) <= c PROVE WrittenAt(bytes, i, BytesOf(c))
  <2>1. TwoOf(c, a, b)
    BY <1>4, <1>7, Zenon DEF TwoOf
  <2> QED BY <1>3, <2>1, TwoAreAt, Zenon
<1> QED BY <1>5, <1>6, <1>7, Zenon DEF Written

LEMMA WasThree ==
  ASSUME NEW bytes, NEW i \in Nat, i + 3 - 1 <= Len(bytes), bytes[i] \in Leads3,
         bytes[i + 1] \in Byte, IsContinuation(bytes[i + 1]),
         bytes[i + 2] \in Byte, IsContinuation(bytes[i + 2])
  PROVE  Written(bytes, i, 3, Payload(bytes, i, Lead(bytes[i])))
<1>1. PICK a \in High3 : bytes[i] = 224 + a
  BY LeadThree
<1>2. PICK b \in Digit : bytes[i + 1] = 128 + b
  BY SixBitsOf
<1>3. PICK d \in Digit : bytes[i + 2] = 128 + d
  BY SixBitsOf
<1>4. ThreeAt(bytes, i, a, b, d)
  BY <1>1, <1>2, <1>3 DEF ThreeAt
<1>5. PICK c : c = Three(a, b, d)
  OBVIOUS
<1>6. c = Payload(bytes, i, Lead(bytes[i]))
  <2>1. /\ Lead(bytes[i]).width = 3 /\ Payload(bytes, i, Lead(bytes[i])) = Three(a, b, d)
        /\ \A n \in 1 .. 3 - 1 : IsContinuation(bytes[i + n])
    BY <1>4, ThreeBytes, Zenon
  <2> QED BY <1>5, <2>1, Zenon
<1>7. c \in Nat
  BY <1>5, SMT DEF Three, High3, Digit
<1>8. ASSUME LeastOf(3) <= c PROVE WrittenAt(bytes, i, BytesOf(c))
  <2>1. ThreeOf(c, a, b, d)
    BY <1>5, <1>8, Zenon DEF ThreeOf
  <2> QED BY <1>4, <2>1, ThreeAreAt, Zenon
<1> QED BY <1>6, <1>7, <1>8, Zenon DEF Written

LEMMA WasFour ==
  ASSUME NEW bytes, NEW i \in Nat, i + 4 - 1 <= Len(bytes), bytes[i] \in Leads4,
         bytes[i + 1] \in Byte, IsContinuation(bytes[i + 1]),
         bytes[i + 2] \in Byte, IsContinuation(bytes[i + 2]),
         bytes[i + 3] \in Byte, IsContinuation(bytes[i + 3])
  PROVE  Written(bytes, i, 4, Payload(bytes, i, Lead(bytes[i])))
<1>1. PICK a \in High4 : bytes[i] = 240 + a
  BY LeadFour
<1>2. PICK b \in Digit : bytes[i + 1] = 128 + b
  BY SixBitsOf
<1>3. PICK d \in Digit : bytes[i + 2] = 128 + d
  BY SixBitsOf
<1>4. PICK e \in Digit : bytes[i + 3] = 128 + e
  BY SixBitsOf
<1>5. FourAt(bytes, i, a, b, d, e)
  BY <1>1, <1>2, <1>3, <1>4 DEF FourAt
<1>6. PICK c : c = Four(a, b, d, e)
  OBVIOUS
<1>7. c = Payload(bytes, i, Lead(bytes[i]))
  <2>1. /\ Lead(bytes[i]).width = 4 /\ Payload(bytes, i, Lead(bytes[i])) = Four(a, b, d, e)
        /\ \A n \in 1 .. 4 - 1 : IsContinuation(bytes[i + n])
    BY <1>5, FourBytes, Zenon
  <2> QED BY <1>6, <2>1, Zenon
<1>8. c \in Nat
  BY <1>6, SMT DEF Four, High4, Digit
<1>9. ASSUME LeastOf(4) <= c PROVE WrittenAt(bytes, i, BytesOf(c))
  <2>1. FourOf(c, a, b, d, e)
    BY <1>6, <1>9, Zenon DEF FourOf
  <2> QED BY <1>5, <2>1, FourAreAt, Zenon
<1> QED BY <1>7, <1>8, <1>9, Zenon DEF Written

LEMMA LeadByWidth ==
  ASSUME NEW b \in Byte
  PROVE  \/ Lead(b).width = 0
         \/ Lead(b).width = 1 /\ b \in Leads1
         \/ Lead(b).width = 2 /\ b \in Leads2
         \/ Lead(b).width = 3 /\ b \in Leads3
         \/ Lead(b).width = 4 /\ b \in Leads4
<1> DEFINE w == Lead(b).width
<1>1. /\ w \in 0 .. 4 /\ (w = 1 <=> b \in 0 .. 127) /\ (w = 2 <=> b \in 192 .. 223)
      /\ (w = 3 <=> b \in 224 .. 239) /\ (w = 4 <=> b \in 240 .. 247)
  BY LeadIsShort
<1> HIDE DEF w
<1>2. w = 0 \/ w = 1 \/ w = 2 \/ w = 3 \/ w = 4
  BY <1>1
<1>3. \/ w = 0
      \/ w = 1 /\ b \in Leads1
      \/ w = 2 /\ b \in Leads2
      \/ w = 3 /\ b \in Leads3
      \/ w = 4 /\ b \in Leads4
  BY <1>1, <1>2, SMT DEF Leads1, Leads2, Leads3, Leads4
<1> QED BY <1>3 DEF w

LEMMA Utf8WasWritten ==
  ASSUME NEW bytes, Len(bytes) \in Nat, \A k \in 1 .. Len(bytes) : bytes[k] \in Byte,
         NEW i \in 1 .. Len(bytes), NextFromUtf8(bytes, i).ok
  PROVE  \E c \in Scalar :
           /\ WrittenAt(bytes, i, BytesOf(c))
           /\ NextFromUtf8(bytes, i) = Ok([point |-> c, width |-> Len(BytesOf(c))])
<1>1. PICK w : w = Lead(bytes[i]).width
  OBVIOUS
<1>2. PICK c : c = Payload(bytes, i, Lead(bytes[i]))
  OBVIOUS
<1>3. i \in Nat /\ bytes[i] \in Byte
  OBVIOUS
<1>4. /\ w # 0 /\ ~ (i + w - 1 > Len(bytes))
      /\ \A n \in 1 .. w - 1 : IsContinuation(bytes[i + n])
  BY <1>1, NextUtf8Is, Zenon
<1>5. ASSUME NEW n \in 1 .. w - 1, w \in Nat
      PROVE  bytes[i + n] \in Byte /\ IsContinuation(bytes[i + n])
  <2>1. IsContinuation(bytes[i + n])
    BY <1>4, Zenon
  <2>2. i + n \in 1 .. Len(bytes)
    <3>1. ~ (i + w - 1 > Len(bytes))
      BY <1>4, Zenon
    <3> QED BY <1>3, <1>5, <3>1, SMT
  <2> QED BY <2>1, <2>2, Zenon
<1>6. ASSUME w \in Nat PROVE i + w - 1 <= Len(bytes)
  <2>1. ~ (i + w - 1 > Len(bytes))
    BY <1>4, Zenon
  <2> QED BY <1>3, <1>6, <2>1, SMT
<1>7. Written(bytes, i, w, c)
  <2>1. CASE w = 1 /\ bytes[i] \in Leads1
    <3>1. i <= Len(bytes)
      OBVIOUS
    <3> QED BY <1>2, <1>3, <2>1, <3>1, WasOne, Zenon
  <2>2. CASE w = 2 /\ bytes[i] \in Leads2
    <3>1. w \in Nat /\ 1 \in 1 .. w - 1
      BY <2>2, SMT
    <3>2. bytes[i + 1] \in Byte
      BY <1>5, <3>1, Zenon
    <3>3. IsContinuation(bytes[i + 1])
      BY <1>5, <3>1, Zenon
    <3>4. i + 2 - 1 <= Len(bytes)
      BY <1>6, <2>2, <3>1, Zenon
    <3> QED BY <1>2, <1>3, <2>2, <3>2, <3>3, <3>4, WasTwo, Zenon
  <2>3. CASE w = 3 /\ bytes[i] \in Leads3
    <3>1. w \in Nat /\ 1 \in 1 .. w - 1 /\ 2 \in 1 .. w - 1
      BY <2>3, SMT
    <3>2. bytes[i + 1] \in Byte /\ bytes[i + 2] \in Byte
      BY <1>5, <3>1, Zenon
    <3>3. IsContinuation(bytes[i + 1]) /\ IsContinuation(bytes[i + 2])
      BY <1>5, <3>1, Zenon
    <3>4. i + 3 - 1 <= Len(bytes)
      BY <1>6, <2>3, <3>1, Zenon
    <3> QED BY <1>2, <1>3, <2>3, <3>2, <3>3, <3>4, WasThree, Zenon
  <2>4. CASE w = 4 /\ bytes[i] \in Leads4
    <3>1. w \in Nat /\ 1 \in 1 .. w - 1 /\ 2 \in 1 .. w - 1 /\ 3 \in 1 .. w - 1
      BY <2>4, SMT
    <3>2. bytes[i + 1] \in Byte /\ bytes[i + 2] \in Byte /\ bytes[i + 3] \in Byte
      BY <1>5, <3>1, Zenon
    <3>3. IsContinuation(bytes[i + 1]) /\ IsContinuation(bytes[i + 2]) /\ IsContinuation(bytes[i + 3])
      BY <1>5, <3>1, Zenon
    <3>4. i + 4 - 1 <= Len(bytes)
      BY <1>6, <2>4, <3>1, Zenon
    <3> QED BY <1>2, <1>3, <2>4, <3>2, <3>3, <3>4, WasFour, Zenon
  <2>5. w # 0
    BY <1>4, Zenon
  <2> QED BY <1>1, <1>3, <2>1, <2>2, <2>3, <2>4, <2>5, LeadByWidth, Zenon
<1>8. c \in Scalar /\ LeastOf(w) <= c
  BY <1>1, <1>2, <1>3, <1>4, <1>7, Utf8Reads, Zenon DEF Written
<1>9. NextFromUtf8(bytes, i) = Ok([point |-> c, width |-> Len(BytesOf(c))])
  BY <1>3, <1>7, <1>8, Utf8IsRead, Zenon DEF Written
<1> QED BY <1>7, <1>8, <1>9, Zenon DEF Written

(* Code points and their units.                                            *)
Short(c) == c <= 65535
Alone(c) == c \in Unit /\ c \notin HighSurrogates /\ c \notin LowSurrogates

LEMMA ShortIsUnit ==
  /\ \A c \in Nat : Short(c) => c \in Unit
  /\ \A c \in Unit : c \in Nat /\ Short(c)
<1>1. UnitMax \in Nat /\ UnitMax = 65535
  BY SMT DEF UnitMax
<1>2. ASSUME NEW c \in Nat, Short(c) PROVE c \in Unit
  <2>1. c <= UnitMax
    BY <1>1, <1>2, SMT DEF Short
  <2>2. UnitMax \in Nat
    BY <1>1
  <2> QED BY <2>1, <2>2, SMT DEF Unit
<1>3. ASSUME NEW c \in Unit PROVE c \in Nat /\ Short(c)
  <2>1. c \in Nat /\ c <= UnitMax
    BY SMT DEF Unit
  <2> QED BY <1>1, <2>1, SMT DEF Short
<1> QED BY <1>2, <1>3, Zenon

LEMMA SingleIsWritten ==
  /\ \A c : c \in Scalar /\ Short(c) => Alone(c)
  /\ \A c : Alone(c) => c \in Scalar /\ UnitsOf(c) = <<c>>
<1>1. ASSUME NEW c, c \in Scalar, Short(c) PROVE Alone(c)
  <2>1. c \in Nat /\ c \notin HighSurrogates /\ c \notin LowSurrogates
    BY <1>1, SMT DEF Scalar, Surrogates, HighSurrogates, LowSurrogates
  <2> QED BY <1>1, <2>1, ShortIsUnit, Zenon DEF Alone
<1>2. ASSUME NEW c, Alone(c) PROVE c \in Scalar /\ UnitsOf(c) = <<c>>
  <2>1. c \in Nat /\ c <= 65535 /\ (c < 55296 \/ c > 57343)
    <3>1. c \in Nat /\ Short(c) /\ c \notin HighSurrogates /\ c \notin LowSurrogates
      BY <1>2, ShortIsUnit, Zenon DEF Alone
    <3> QED BY <3>1, SMT DEF Short, HighSurrogates, LowSurrogates
  <2>2. c \in Scalar
    <3>1. c \in Nat /\ c <= MaxCodePoint
      BY <2>1, SMT DEF MaxCodePoint
    <3>2. c \notin Surrogates
      <4>1. CASE c < 55296
        BY <3>1, <4>1, SMT DEF Surrogates
      <4>2. CASE c > 57343
        BY <3>1, <4>2, SMT DEF Surrogates
      <4> QED BY <2>1, <4>1, <4>2, SMT
    <3> QED BY <3>1, <3>2, Zenon DEF Scalar
  <2>3. UnitsOf(c) = <<c>>
    BY <2>1, SMT DEF UnitsOf
  <2> QED BY <2>2, <2>3, Zenon
<1> QED BY <1>1, <1>2, Zenon

PairOf(c, h, l) == h \in HighSurrogates /\ l \in LowSurrogates /\ c = PairValue(h, l)

LEMMA PairIsWritten ==
  ASSUME NEW c, NEW h, NEW l, PairOf(c, h, l)
  PROVE  c \in Scalar /\ UnitsOf(c) = <<h, l>> /\ h \in Unit /\ l \in Unit /\ h \notin LowSurrogates
<1>1. PICK a : a = h - 55296
  OBVIOUS
<1>2. PICK b : b = l - 56320
  OBVIOUS
<1>3. /\ a \in 0 .. 1023 /\ b \in 0 .. 1023 /\ h = 55296 + a /\ l = 56320 + b
      /\ c = 65536 + a * 1024 + b
  BY <1>1, <1>2, SMT DEF PairOf, PairValue, HighSurrogates, LowSurrogates
<1>4. c \in Nat /\ c > 65535 /\ c <= 1114111
  BY <1>3, SMT
<1>5. (c - 65536) \div 1024 = a /\ (c - 65536) % 1024 = b
  BY <1>3, SMT
<1>6. UnitsOf(c) = <<55296 + ((c - 65536) \div 1024), 56320 + ((c - 65536) % 1024)>>
  BY <1>4, SMT DEF UnitsOf
<1>7. UnitsOf(c) = <<h, l>>
  BY <1>3, <1>5, <1>6, SMT
<1>8. c \in Scalar
  BY <1>4, SMT DEF Scalar, Surrogates, MaxCodePoint
<1>9. h \in Unit /\ l \in Unit
  <2>1. h \in Nat /\ l \in Nat
    BY <1>3, SMT
  <2>2. Short(h) /\ Short(l)
    BY <1>3, SMT DEF Short
  <2> QED BY <2>1, <2>2, ShortIsUnit, Zenon
<1>10. h \notin LowSurrogates
  <2>1. h < 56320 /\ h \in Nat
    BY <1>3, SMT
  <2> QED BY <2>1, SMT DEF LowSurrogates
<1> QED BY <1>7, <1>8, <1>9, <1>10, Zenon

LEMMA PairExists ==
  ASSUME NEW c \in Scalar, ~ Short(c)
  PROVE  \E h, l : PairOf(c, h, l)
<1>1. PICK n : n = c - 65536
  OBVIOUS
<1>2. PICK a : a = n \div 1024
  OBVIOUS
<1>3. PICK b : b = n % 1024
  OBVIOUS
<1>4. n \in Nat /\ n <= 1048575 /\ c = 65536 + n
  BY <1>1, SMT DEF Scalar, MaxCodePoint, Short
<1>5. n = a * 1024 + b /\ b \in 0 .. 1023 /\ a \in Nat
  BY <1>2, <1>3, <1>4, SMT
<1>6. a \in 0 .. 1023
  BY <1>4, <1>5, SMT
<1>7. PairOf(c, 55296 + a, 56320 + b)
  BY <1>4, <1>5, <1>6, SMT DEF PairOf, PairValue, HighSurrogates, LowSurrogates
<1> QED BY <1>7, SMT

LEMMA SingleAt ==
  ASSUME NEW s, NEW i \in Nat, NEW c, UnitsOf(c) = <<c>>
  PROVE  Len(UnitsOf(c)) = 1 /\ (WrittenAt(s, i, UnitsOf(c)) <=> i <= Len(s) /\ s[i] = c)
<1>1. PICK part : part = UnitsOf(c)
  OBVIOUS
<1>2. Len(part) = 1 /\ part[1] = c
  BY <1>1
<1>3. i + 1 - 1 = i
  OBVIOUS
<1>4. (\A k \in 1 .. 1 : k = 1) /\ 1 \in 1 .. 1
  BY SMT
<1>5. WrittenAt(s, i, part) <=> i <= Len(s) /\ s[i] = c
  BY <1>2, <1>3, <1>4, Zenon DEF WrittenAt
<1> QED BY <1>1, <1>2, <1>5, Zenon

LEMMA PairAt ==
  ASSUME NEW s, NEW i \in Nat, NEW c, NEW h, NEW l, PairOf(c, h, l)
  PROVE  /\ Len(UnitsOf(c)) = 2
         /\ WrittenAt(s, i, UnitsOf(c)) <=> i + 1 <= Len(s) /\ s[i] = h /\ s[i + 1] = l
<1>1. PICK part : part = UnitsOf(c)
  OBVIOUS
<1>2. Len(part) = 2 /\ part[1] = h /\ part[2] = l
  <2>1. part = <<h, l>>
    BY <1>1, PairIsWritten, Zenon
  <2> QED BY <2>1
<1>3. i + 1 - 1 = i /\ i + 2 - 1 = i + 1
  OBVIOUS
<1>4. (\A k \in 1 .. 2 : k = 1 \/ k = 2) /\ 1 \in 1 .. 2 /\ 2 \in 1 .. 2
  BY SMT
<1>5. WrittenAt(s, i, part) <=> i + 1 <= Len(s) /\ s[i] = h /\ s[i + 1] = l
  BY <1>2, <1>3, <1>4, Zenon DEF WrittenAt
<1> QED BY <1>1, <1>2, <1>5, Zenon

(* The units of a code point are read as it, and what is read as a code    *)
(* point is its units.                                                     *)
LEMMA Utf16IsRead ==
  ASSUME NEW units, Len(units) \in Nat, NEW i \in 1 .. Len(units), NEW c \in Scalar,
         WrittenAt(units, i, UnitsOf(c))
  PROVE  NextFromUtf16(units, i) = Ok([point |-> c, width |-> Len(UnitsOf(c))])
<1>1. i \in Nat
  OBVIOUS
<1>2. CASE Short(c)
  <2>1. Alone(c) /\ UnitsOf(c) = <<c>>
    BY <1>2, SingleIsWritten, Zenon
  <2>2. units[i] = c /\ Len(UnitsOf(c)) = 1
    <3>1. UnitsOf(c) = <<c>>
      BY <2>1
    <3>2. Len(UnitsOf(c)) = 1 /\ (WrittenAt(units, i, UnitsOf(c)) => units[i] = c)
      BY <1>1, <3>1, SingleAt
    <3> QED BY <3>2
  <2> QED BY <2>1, <2>2, Zenon DEF NextFromUtf16, Alone
<1>3. CASE ~ Short(c)
  <2>1. PICK h, l : PairOf(c, h, l)
    BY <1>3, PairExists, Zenon
  <2>2. UnitsOf(c) = <<h, l>>
    BY <2>1, PairIsWritten, Zenon
  <2>3. Len(UnitsOf(c)) = 2
    BY <1>1, <2>1, PairAt, Zenon
  <2>4. i + 1 <= Len(units) /\ units[i] = h /\ units[i + 1] = l
    <3>1. WrittenAt(units, i, UnitsOf(c)) <=> i + 1 <= Len(units) /\ units[i] = h /\ units[i + 1] = l
      BY <1>1, <2>1, PairAt
    <3> QED BY <3>1
  <2>5. ~ (i + 1 > Len(units))
    BY <1>1, <2>4
  <2> QED BY <2>1, <2>3, <2>4, <2>5, Zenon DEF NextFromUtf16, PairOf
<1> QED BY <1>2, <1>3, Zenon

LEMMA Utf16WasWritten ==
  ASSUME NEW units, Len(units) \in Nat, \A k \in 1 .. Len(units) : units[k] \in Unit,
         NEW i \in 1 .. Len(units), NextFromUtf16(units, i).ok
  PROVE  \E c \in Scalar :
           /\ WrittenAt(units, i, UnitsOf(c))
           /\ NextFromUtf16(units, i) = Ok([point |-> c, width |-> Len(UnitsOf(c))])
<1>1. i \in Nat /\ units[i] \in Unit /\ i <= Len(units)
  OBVIOUS
<1>2. SUFFICES \E c \in Scalar : WrittenAt(units, i, UnitsOf(c))
  BY <1>2, Utf16IsRead, Zenon
<1>3. CASE units[i] \in HighSurrogates
  <2>1. ~ (i + 1 > Len(units)) /\ ~ (units[i + 1] \notin LowSurrogates)
    BY <1>3, Results, Zenon DEF NextFromUtf16
  <2>2. i + 1 <= Len(units)
    BY <1>1, <2>1
  <2>3. PICK c : PairOf(c, units[i], units[i + 1])
    BY <1>3, <2>1, Zenon DEF PairOf
  <2>4. c \in Scalar
    BY <2>3, PairIsWritten, Zenon
  <2>5. WrittenAt(units, i, UnitsOf(c))
    <3>1. PICK h, l : h = units[i] /\ l = units[i + 1]
      OBVIOUS
    <3>2. PairOf(c, h, l) /\ i \in Nat
      BY <1>1, <2>3, <3>1, Zenon
    <3>3. WrittenAt(units, i, UnitsOf(c)) <=>
            i + 1 <= Len(units) /\ units[i] = h /\ units[i + 1] = l
      BY <3>2, PairAt, SMT
    <3> QED BY <2>2, <3>1, <3>3, Zenon
  <2> QED BY <2>4, <2>5, Zenon
<1>4. CASE units[i] \notin HighSurrogates
  <2>1. units[i] \notin LowSurrogates
    BY <1>4, Results, Zenon DEF NextFromUtf16
  <2>2. Alone(units[i])
    BY <1>1, <1>4, <2>1, Zenon DEF Alone
  <2>3. units[i] \in Scalar /\ UnitsOf(units[i]) = <<units[i]>>
    BY <2>2, SingleIsWritten, Zenon
  <2> QED BY <1>1, <2>3, SingleAt, Zenon
<1> QED BY <1>3, <1>4, Zenon

(* A string is its first part and the rest of it.                          *)
LEMMA RestIsSeq ==
  ASSUME NEW S, NEW s \in Seq(S), NEW w \in 0 .. Len(s)
  PROVE  Rest(s, w) \in Seq(S) /\ Len(Rest(s, w)) = Len(s) - w
<1>1. Len(s) \in Nat /\ Len(s) - w \in Nat /\ \A i \in 1 .. Len(s) : s[i] \in S
  OBVIOUS
<1>2. \A i \in 1 .. Len(s) - w : s[i + w] \in S
  <2> TAKE i \in 1 .. Len(s) - w
  <2>1. i + w \in 1 .. Len(s)
    BY <1>1
  <2> QED BY <1>1, <2>1
<1>3. Rest(s, w) \in [1 .. Len(s) - w -> S]
  BY <1>2 DEF Rest
<1> QED BY <1>1, <1>3

LEMMA FirstAndRest ==
  ASSUME NEW S, NEW part \in Seq(S), NEW s \in Seq(S), WrittenAt(s, 1, part)
  PROVE  Len(part) \in 0 .. Len(s) /\ s = part \o Rest(s, Len(part))
<1> DEFINE w == Len(part)
           rest == Rest(s, w)
<1>1. w \in Nat /\ Len(s) \in Nat /\ w <= Len(s)
  BY DEF WrittenAt
<1>2. rest \in Seq(S) /\ Len(rest) = Len(s) - w
  BY <1>1, RestIsSeq
<1>3. \A i \in 1 .. Len(s) - w : rest[i] = s[i + w]
  BY <1>1, RestIsTail
<1>4. \A k \in 1 .. w : s[k] = part[k]
  <2> TAKE k \in 1 .. w
  <2>1. 1 + k - 1 = k
    BY <1>1
  <2> QED BY <2>1 DEF WrittenAt
<1> HIDE DEF w, rest
<1>5. /\ part \o rest \in Seq(S) /\ Len(part \o rest) = w + Len(rest)
      /\ \A i \in 1 .. w + Len(rest) :
           (part \o rest)[i] = IF i <= w THEN part[i] ELSE rest[i - w]
  BY <1>2, ConcatProperties DEF w
<1>6. ASSUME NEW i \in 1 .. Len(s) PROVE s[i] = (part \o rest)[i]
  <2>1. CASE i <= w
    BY <1>1, <1>2, <1>4, <1>5, <2>1
  <2>2. CASE ~ (i <= w)
    <3>1. i - w \in 1 .. Len(s) - w /\ i - w + w = i /\ i \in 1 .. w + Len(rest)
      BY <1>1, <1>2, <2>2
    <3>2. rest[i - w] = s[i]
      BY <1>3, <3>1
    <3> QED BY <1>5, <2>2, <3>1, <3>2
  <2> QED BY <2>1, <2>2
<1>7. Len(s) = Len(part \o rest)
  BY <1>1, <1>2, <1>5
<1>8. s = part \o rest
  BY <1>5, <1>6, <1>7, SeqEqual
<1> QED BY <1>1, <1>8 DEF w, rest

LEMMA PutFirst ==
  ASSUME NEW S, NEW part \in Seq(S), NEW t \in Seq(S)
  PROVE  /\ part \o t \in Seq(S) /\ WrittenAt(part \o t, 1, part)
         /\ Rest(part \o t, Len(part)) = t
<1> DEFINE s == part \o t
           w == Len(part)
<1>1. w \in Nat /\ Len(t) \in Nat
  OBVIOUS
<1>2. /\ s \in Seq(S) /\ Len(s) = w + Len(t)
      /\ \A i \in 1 .. w + Len(t) : s[i] = IF i <= w THEN part[i] ELSE t[i - w]
  BY ConcatProperties
<1> HIDE DEF s, w
<1>3. WrittenAt(s, 1, part)
  <2>1. 1 + w - 1 <= Len(s)
    BY <1>1, <1>2
  <2>2. ASSUME NEW k \in 1 .. w PROVE s[1 + k - 1] = part[k]
    <3>1. 1 + k - 1 = k /\ k \in 1 .. w + Len(t) /\ k <= w
      BY <1>1
    <3> QED BY <1>2, <3>1
  <2> QED BY <2>1, <2>2 DEF WrittenAt, w
<1>4. /\ Rest(s, w) \in Seq(S) /\ Len(Rest(s, w)) = Len(t)
      /\ \A i \in 1 .. Len(t) : Rest(s, w)[i] = s[i + w]
  <2>1. Len(s) \in Nat /\ w \in 0 .. Len(s) /\ Len(s) - w = Len(t) /\ s \in Seq(S)
    BY <1>1, <1>2
  <2>2. Rest(s, w) \in Seq(S) /\ Len(Rest(s, w)) = Len(s) - w
    BY <2>1, RestIsSeq
  <2>3. \A i \in 1 .. Len(s) - w : Rest(s, w)[i] = s[i + w]
    BY <2>1, RestIsTail
  <2> QED BY <2>1, <2>2, <2>3
<1>5. ASSUME NEW i \in 1 .. Len(t) PROVE Rest(s, w)[i] = t[i]
  <2>1. PICK k : k = i + w
    OBVIOUS
  <2>2. k \in 1 .. w + Len(t) /\ ~ (k <= w) /\ k - w = i
    BY <1>1, <2>1
  <2>3. s[k] = t[k - w]
    BY <1>2, <2>2, Zenon
  <2> QED BY <1>4, <2>1, <2>2, <2>3
<1>6. Rest(s, w) = t
  BY <1>4, <1>5, SeqEqual
<1> QED BY <1>2, <1>3, <1>6 DEF s, w

(* What is written is a string of bytes, or of units.                      *)
LEMMA BytesOfIsSeq ==
  ASSUME NEW c \in Scalar
  PROVE  BytesOf(c) \in Seq(Byte) /\ Len(BytesOf(c)) \in 1 .. 4
<1>1. CASE c \in Leads1
  <2>1. BytesOf(c) = <<c>> /\ c \in Byte
    <3>1. c \in Byte
      BY <1>1, SMT DEF Leads1, Byte
    <3> QED BY <1>1, <3>1, OneIsWritten
  <2> QED BY <2>1
<1>2. CASE \E a, b : TwoOf(c, a, b)
  <2>1. PICK a, b : TwoOf(c, a, b)
    BY <1>2, Zenon
  <2>2. a \in 0 .. 31 /\ b \in 0 .. 63
    BY <2>1, SMT DEF TwoOf, High2, Digit
  <2>3. 192 + a \in Byte /\ 128 + b \in Byte
    BY <2>2, SMT DEF Byte
  <2>4. BytesOf(c) = <<192 + a, 128 + b>>
    BY <2>1, TwoAreWritten DEF TwoWritten
  <2> QED BY <2>3, <2>4
<1>3. CASE \E a, b, d : ThreeOf(c, a, b, d)
  <2>1. PICK a, b, d : ThreeOf(c, a, b, d)
    BY <1>3, Zenon
  <2>2. a \in 0 .. 15 /\ b \in 0 .. 63 /\ d \in 0 .. 63
    BY <2>1, SMT DEF ThreeOf, High3, Digit
  <2>3. 224 + a \in Byte /\ 128 + b \in Byte /\ 128 + d \in Byte
    BY <2>2, SMT DEF Byte
  <2>4. BytesOf(c) = <<224 + a, 128 + b, 128 + d>>
    BY <2>1, ThreeAreWritten DEF ThreeWritten
  <2> QED BY <2>3, <2>4
<1>4. CASE \E a, b, d, e : FourOf(c, a, b, d, e)
  <2>1. PICK a, b, d, e : FourOf(c, a, b, d, e)
    BY <1>4, Zenon
  <2>2. a \in 0 .. 7 /\ b \in 0 .. 63 /\ d \in 0 .. 63 /\ e \in 0 .. 63
    BY <2>1, SMT DEF FourOf, High4, Digit
  <2>3. 240 + a \in Byte /\ 128 + b \in Byte /\ 128 + d \in Byte /\ 128 + e \in Byte
    BY <2>2, SMT DEF Byte
  <2>4. BytesOf(c) = <<240 + a, 128 + b, 128 + d, 128 + e>>
    BY <2>1, FourAreWritten DEF FourWritten
  <2> QED BY <2>3, <2>4
<1> QED BY <1>1, <1>2, <1>3, <1>4, Shapes, Zenon

LEMMA UnitsOfIsSeq ==
  ASSUME NEW c \in Scalar
  PROVE  UnitsOf(c) \in Seq(Unit) /\ Len(UnitsOf(c)) \in 1 .. 2
<1>1. CASE Short(c)
  <2>1. UnitsOf(c) = <<c>> /\ c \in Unit
    BY <1>1, SingleIsWritten, Zenon DEF Alone
  <2> QED BY <2>1
<1>2. CASE ~ Short(c)
  <2>1. PICK h, l : PairOf(c, h, l)
    BY <1>2, PairExists, Zenon
  <2>2. UnitsOf(c) = <<h, l>> /\ h \in Unit /\ l \in Unit
    BY <2>1, PairIsWritten, Zenon
  <2> QED BY <2>2
<1> QED BY <1>1, <1>2, Zenon

(* A turn depends on what starts at it only.                               *)
LEMMA Utf16IsLocal ==
  ASSUME NEW units, Len(units) \in Nat, NEW w \in 0 .. Len(units), NEW i \in 1 .. Len(units) - w
  PROVE  Utf16Turn(Rest(units, w), i) = Utf16Turn(units, i + w)
<1>1. PICK rest : rest = Rest(units, w)
  OBVIOUS
<1>2. PICK j : j = i + w
  OBVIOUS
<1>3. Len(rest) = Len(units) - w /\ \A k \in 1 .. Len(units) - w : rest[k] = units[k + w]
  BY <1>1, RestIsTail
<1>4. rest[i] = units[j]
  BY <1>2, <1>3
<1>5. i + 1 > Len(rest) <=> j + 1 > Len(units)
  BY <1>2, <1>3
<1>6. ASSUME ~ (i + 1 > Len(rest)) PROVE rest[i + 1] = units[j + 1]
  <2>1. i + 1 \in 1 .. Len(units) - w /\ i + 1 + w = j + 1
    BY <1>2, <1>3, <1>6
  <2> QED BY <1>3, <2>1
<1>7. NextFromUtf16(rest, i) = NextFromUtf16(units, j)
  <2>1. CASE units[j] \notin HighSurrogates
    BY <1>4, <2>1, Zenon DEF NextFromUtf16
  <2>2. CASE units[j] \in HighSurrogates /\ i + 1 > Len(rest)
    BY <1>4, <1>5, <2>2, Zenon DEF NextFromUtf16
  <2>3. CASE units[j] \in HighSurrogates /\ ~ (i + 1 > Len(rest))
    <3>1. rest[i + 1] = units[j + 1] /\ ~ (j + 1 > Len(units))
      BY <1>5, <1>6, <2>3, Zenon
    <3> HIDE DEF PairValue
    <3> QED BY <1>4, <2>3, <3>1, Zenon DEF NextFromUtf16
  <2> QED BY <2>1, <2>2, <2>3, Zenon
<1> QED BY <1>1, <1>2, <1>7, Zenon DEF Utf16Turn

SameAfter(rest, i, bytes, j, lead) ==
  /\ i \in Nat /\ j \in Nat /\ lead.width \in 1 .. 4
  /\ \A n \in 1 .. lead.width - 1 : rest[i + n] = bytes[j + n]

LEMMA PayloadIsLocal ==
  ASSUME NEW rest, NEW bytes, NEW i, NEW j, NEW lead, SameAfter(rest, i, bytes, j, lead)
  PROVE  Payload(rest, i, lead) = Payload(bytes, j, lead)
<1>0. /\ i \in Nat /\ j \in Nat /\ lead.width \in 1 .. 4
      /\ \A n \in 1 .. lead.width - 1 : rest[i + n] = bytes[j + n]
  BY DEF SameAfter
<1>1. lead.width = 1 \/ lead.width = 2 \/ lead.width = 3 \/ lead.width = 4
  BY <1>0, SMT
<1>2. CASE lead.width = 1
  BY <1>0, <1>2, PayloadIs
<1>3. CASE lead.width = 2
  <2>1. 1 \in 1 .. lead.width - 1
    BY <1>3
  <2>2. rest[i + 1] = bytes[j + 1]
    BY <1>0, <2>1
  <2> QED BY <1>3, <1>0, <2>2, PayloadOfTwo
<1>4. CASE lead.width = 3
  <2>1. 1 \in 1 .. lead.width - 1 /\ 2 \in 1 .. lead.width - 1
    BY <1>4
  <2>2. rest[i + 1] = bytes[j + 1] /\ rest[i + 2] = bytes[j + 2]
    BY <1>0, <2>1
  <2> QED BY <1>4, <1>0, <2>2, PayloadOfThree
<1>5. CASE lead.width = 4
  <2>1. 1 \in 1 .. lead.width - 1 /\ 2 \in 1 .. lead.width - 1 /\ 3 \in 1 .. lead.width - 1
    BY <1>5
  <2>2. rest[i + 1] = bytes[j + 1] /\ rest[i + 2] = bytes[j + 2] /\ rest[i + 3] = bytes[j + 3]
    BY <1>0, <2>1
  <2> QED BY <1>5, <1>0, <2>2, PayloadOfFour
<1> QED BY <1>1, <1>2, <1>3, <1>4, <1>5

LEMMA Utf8IsLocal ==
  ASSUME NEW bytes, Len(bytes) \in Nat, \A k \in 1 .. Len(bytes) : bytes[k] \in Byte,
         NEW w \in 0 .. Len(bytes), NEW i \in 1 .. Len(bytes) - w
  PROVE  Utf8Turn(Rest(bytes, w), i) = Utf8Turn(bytes, i + w)
<1>1. PICK rest : rest = Rest(bytes, w)
  OBVIOUS
<1>2. PICK j : j = i + w
  OBVIOUS
<1>3. Len(rest) = Len(bytes) - w /\ \A k \in 1 .. Len(bytes) - w : rest[k] = bytes[k + w]
  BY <1>1, RestIsTail
<1>4. rest[i] = bytes[j] /\ j \in 1 .. Len(bytes)
  BY <1>2, <1>3
<1>5. PICK lead : lead = Lead(bytes[j])
  OBVIOUS
<1>6. lead = Lead(rest[i]) /\ lead.width \in 0 .. 4
  <2>1. bytes[j] \in Byte
    BY <1>4
  <2> QED BY <1>4, <1>5, <2>1, LeadIsShort, Zenon
<1>7. i + lead.width - 1 > Len(rest) <=> j + lead.width - 1 > Len(bytes)
  <2>1. /\ Len(bytes) \in Nat /\ w \in Nat /\ i \in Nat /\ lead.width \in Nat
        /\ Len(rest) = Len(bytes) - w
    BY <1>3, <1>6
  <2> QED BY <1>2, <2>1
<1>8. ASSUME ~ (i + lead.width - 1 > Len(rest)), NEW n \in 1 .. lead.width - 1
      PROVE  rest[i + n] = bytes[j + n]
  <2>1. i + n \in 1 .. Len(bytes) - w /\ i + n + w = j + n
    BY <1>2, <1>3, <1>6, <1>8
  <2> QED BY <1>3, <2>1
<1>9. NextFromUtf8(rest, i) = NextFromUtf8(bytes, j)
  <2>1. CASE lead.width = 0
    BY <1>5, <1>6, <2>1, Zenon DEF NextFromUtf8
  <2>2. CASE lead.width # 0 /\ i + lead.width - 1 > Len(rest)
    BY <1>5, <1>6, <1>7, <2>2, Zenon DEF NextFromUtf8
  <2>3. CASE lead.width # 0 /\ ~ (i + lead.width - 1 > Len(rest))
    <3>1. ~ (j + lead.width - 1 > Len(bytes))
      BY <1>7, <2>3, Zenon
    <3>2. (\E n \in 1 .. lead.width - 1 : ~ IsContinuation(rest[i + n]))
            <=> (\E n \in 1 .. lead.width - 1 : ~ IsContinuation(bytes[j + n]))
      BY <1>8, <2>3, Zenon
    <3>3. Payload(rest, i, lead) = Payload(bytes, j, lead)
      <4>1. lead.width \in 1 .. 4 /\ i \in Nat /\ j \in Nat
        BY <1>4, <1>6, <2>3
      <4>2. \A n \in 1 .. lead.width - 1 : rest[i + n] = bytes[j + n]
        BY <1>8, <2>3, Zenon
      <4>3. SameAfter(rest, i, bytes, j, lead)
        BY <4>1, <4>2, Zenon DEF SameAfter
      <4> QED BY <4>3, PayloadIsLocal, SMT
    <3>4. CASE \E n \in 1 .. lead.width - 1 : ~ IsContinuation(rest[i + n])
      BY <1>5, <1>6, <2>3, <3>1, <3>2, <3>4, Zenon DEF NextFromUtf8
    <3>5. CASE ~ \E n \in 1 .. lead.width - 1 : ~ IsContinuation(rest[i + n])
      BY <1>5, <1>6, <2>3, <3>1, <3>2, <3>3, <3>5, Zenon DEF NextFromUtf8
    <3> QED BY <3>4, <3>5, Zenon
  <2> QED BY <2>1, <2>2, <2>3, Zenon
<1> QED BY <1>1, <1>2, <1>9, Zenon DEF Utf8Turn

(* A turn that reads a code point writes it, and one that reads none       *)
(* refuses the string.                                                     *)
LEMMA Utf16TurnIs ==
  ASSUME NEW s \in Seq(Unit), NEW i \in 1 .. Len(s)
  PROVE  /\ \A c \in Scalar : WrittenAt(s, i, UnitsOf(c)) =>
              Utf16Turn(s, i) = Ok([out |-> BytesOf(c), width |-> Len(UnitsOf(c))])
         /\ Utf16Turn(s, i).ok => \E c \in Scalar : WrittenAt(s, i, UnitsOf(c))
<1>1. Len(s) \in Nat /\ s[i] \in Unit /\ \A k \in 1 .. Len(s) : s[k] \in Unit
  OBVIOUS
<1>2. ASSUME NEW c \in Scalar, WrittenAt(s, i, UnitsOf(c))
      PROVE  Utf16Turn(s, i) = Ok([out |-> BytesOf(c), width |-> Len(UnitsOf(c))])
  <2>1. NextFromUtf16(s, i) = Ok([point |-> c, width |-> Len(UnitsOf(c))])
    BY <1>1, <1>2, Utf16IsRead
  <2>2. NextFromUtf16(s, i).ok /\ NextFromUtf16(s, i).value = [point |-> c, width |-> Len(UnitsOf(c))]
    BY <2>1, Results, Zenon
  <2>3. NextFromUtf16(s, i).value.point = c /\ NextFromUtf16(s, i).value.width = Len(UnitsOf(c))
    BY <2>2
  <2>4. AppendUtf8(c) = Ok(BytesOf(c))
    BY CodePointsAreWritten
  <2>5. Utf16Turn(s, i) = Turned(Ok(BytesOf(c)), Len(UnitsOf(c)))
    BY <2>2, <2>3, <2>4, Zenon DEF Utf16Turn
  <2> QED BY <2>5, Results, Zenon DEF Turned
<1>3. ASSUME Utf16Turn(s, i).ok PROVE \E c \in Scalar : WrittenAt(s, i, UnitsOf(c))
  <2>1. NextFromUtf16(s, i).ok
    BY <1>3, Zenon DEF Utf16Turn
  <2> QED BY <1>1, <2>1, Utf16WasWritten
<1> QED BY <1>2, <1>3, Zenon

LEMMA Utf16Turns ==
  ASSUME NEW s \in Seq(Unit), NEW turns, turns = [i \in DOMAIN s |-> Utf16Turn(s, i)]
  PROVE  /\ InTurns(turns) /\ Len(turns) = Len(s)
         /\ \A i \in 1 .. Len(s) : turns[i] = Utf16Turn(s, i)
<1>1. Len(s) \in Nat /\ DOMAIN s = 1 .. Len(s)
  OBVIOUS
<1>2. turns = [i \in 1 .. Len(s) |-> Utf16Turn(s, i)]
  BY <1>1, Zenon
<1>3. Len(turns) = Len(s) /\ \A i \in 1 .. Len(s) : turns[i] = Utf16Turn(s, i)
  BY <1>1, <1>2
<1>4. turns = [i \in 1 .. Len(turns) |-> turns[i]]
  BY <1>2, <1>3
<1>5. ASSUME NEW i \in 1 .. Len(turns), turns[i].ok
      PROVE  turns[i].value.width \in 1 .. Len(turns) + 1 - i
  <2>1. i \in 1 .. Len(s) /\ turns[i] = Utf16Turn(s, i)
    BY <1>3
  <2>2. PICK c \in Scalar : WrittenAt(s, i, UnitsOf(c))
    BY <1>5, <2>1, Utf16TurnIs
  <2>3. turns[i] = Ok([out |-> BytesOf(c), width |-> Len(UnitsOf(c))])
    BY <2>1, <2>2, Utf16TurnIs
  <2>4. turns[i].value = [out |-> BytesOf(c), width |-> Len(UnitsOf(c))]
    BY <2>3, Results, Zenon
  <2>5. turns[i].value.width = Len(UnitsOf(c))
    BY <2>4
  <2>6. Len(UnitsOf(c)) \in 1 .. 2 /\ i + Len(UnitsOf(c)) - 1 <= Len(s)
    BY <2>2, UnitsOfIsSeq, Zenon DEF WrittenAt
  <2>7. Len(UnitsOf(c)) \in 1 .. Len(s) + 1 - i
    <3>1. PICK w : w = Len(UnitsOf(c))
      OBVIOUS
    <3>2. w \in 1 .. 2 /\ i + w - 1 <= Len(s)
      BY <2>6, <3>1, Zenon
    <3>3. w \in 1 .. Len(s) + 1 - i
      BY <1>1, <2>1, <3>2
    <3> QED BY <3>1, <3>3, Zenon
  <2> QED BY <1>3, <2>5, <2>7
<1> QED BY <1>1, <1>3, <1>4, <1>5 DEF InTurns

(* The conversion of a string, by what it begins with.                     *)
LEMMA Utf16Empty == Utf16ToUtf8(<<>>) = Ok(<<>>)
<1>1. PICK turns : turns = [i \in DOMAIN <<>> |-> Utf16Turn(<<>>, i)]
  OBVIOUS
<1>2. <<>> \in Seq(Unit) /\ Len(<<>>) = 0
  OBVIOUS
<1>3. InTurns(turns) /\ Len(turns) = 0
  BY <1>1, <1>2, Utf16Turns
<1> QED BY <1>1, <1>3, TurnsOneByOne, Zenon DEF Utf16ToUtf8

LEMMA Utf16Refused ==
  ASSUME NEW s \in Seq(Unit), Len(s) > 0, \A c \in Scalar : ~ WrittenAt(s, 1, UnitsOf(c))
  PROVE  ~ Utf16ToUtf8(s).ok
<1>1. PICK turns : turns = [i \in DOMAIN s |-> Utf16Turn(s, i)]
  OBVIOUS
<1>2. 1 \in 1 .. Len(s)
  OBVIOUS
<1>3. InTurns(turns) /\ Len(turns) > 0 /\ turns[1] = Utf16Turn(s, 1)
  BY <1>1, <1>2, Utf16Turns
<1>4. ~ turns[1].ok
  BY <1>2, <1>3, Utf16TurnIs
<1>5. AllTurns(turns) = turns[1]
  BY <1>3, <1>4, TurnsOneByOne, Zenon
<1> QED BY <1>1, <1>4, <1>5, Zenon DEF Utf16ToUtf8

LEMMA Utf16First ==
  ASSUME NEW s \in Seq(Unit), NEW c \in Scalar, WrittenAt(s, 1, UnitsOf(c))
  PROVE  /\ Rest(s, Len(UnitsOf(c))) \in Seq(Unit)
         /\ Len(s) > 0 /\ Len(Rest(s, Len(UnitsOf(c)))) < Len(s)
         /\ Utf16ToUtf8(s) = Before(BytesOf(c), Utf16ToUtf8(Rest(s, Len(UnitsOf(c)))))
<1>1. PICK turns : turns = [i \in DOMAIN s |-> Utf16Turn(s, i)]
  OBVIOUS
<1>2. PICK w : w = Len(UnitsOf(c))
  OBVIOUS
<1>3. PICK rest : rest = Rest(s, w)
  OBVIOUS
<1>4. Len(s) \in Nat /\ w \in 1 .. Len(s) /\ 1 \in 1 .. Len(s) /\ w \in 0 .. Len(s)
  <2>1. w \in 1 .. 2 /\ 1 + w - 1 <= Len(s)
    BY <1>2, UnitsOfIsSeq, Zenon DEF WrittenAt
  <2> QED BY <2>1
<1>5. rest \in Seq(Unit) /\ Len(rest) = Len(s) - w
  BY <1>3, <1>4, RestIsSeq
<1>6. InTurns(turns) /\ Len(turns) = Len(s) /\ \A i \in 1 .. Len(s) : turns[i] = Utf16Turn(s, i)
  BY <1>1, Utf16Turns
<1>7. turns[1] = Ok([out |-> BytesOf(c), width |-> w])
  BY <1>2, <1>4, <1>6, Utf16TurnIs
<1>8. turns[1].ok /\ turns[1].value.out = BytesOf(c) /\ turns[1].value.width = w
  <2>1. turns[1].ok /\ turns[1].value = [out |-> BytesOf(c), width |-> w]
    BY <1>7, Results, Zenon
  <2> QED BY <2>1
<1>9. Len(turns) > 0
  BY <1>4, <1>6
<1>10. AllTurns(turns) = Before(BytesOf(c), AllTurns(Rest(turns, w)))
  BY <1>6, <1>8, <1>9, TurnsOneByOne, Zenon
<1>11. Rest(turns, w) = [i \in DOMAIN rest |-> Utf16Turn(rest, i)]
  <2>1. DOMAIN rest = 1 .. Len(s) - w
    BY <1>5
  <2>2. ASSUME NEW i \in 1 .. Len(s) - w PROVE turns[i + w] = Utf16Turn(rest, i)
    <3>1. i + w \in 1 .. Len(s)
      BY <1>4
    <3>2. Utf16Turn(rest, i) = Utf16Turn(s, i + w)
      <4>1. Utf16Turn(Rest(s, w), i) = Utf16Turn(s, i + w)
        <5>1. \A k \in 1 .. Len(s) : s[k] \in Unit
          OBVIOUS
        <5> QED BY <1>4, <5>1, Utf16IsLocal
      <4> QED BY <1>3, <4>1, Zenon
    <3> QED BY <1>6, <3>1, <3>2
  <2>3. Rest(turns, w) = [i \in 1 .. Len(s) - w |-> turns[i + w]]
    BY <1>6, Zenon DEF Rest
  <2>4. [i \in 1 .. Len(s) - w |-> turns[i + w]] = [i \in 1 .. Len(s) - w |-> Utf16Turn(rest, i)]
    BY <2>2, Zenon
  <2> QED BY <2>1, <2>3, <2>4, Zenon
<1>12. Utf16ToUtf8(s) = Before(BytesOf(c), Utf16ToUtf8(rest))
  BY <1>1, <1>10, <1>11, Zenon DEF Utf16ToUtf8
<1>13. Len(s) > 0 /\ Len(rest) < Len(s)
  BY <1>4, <1>5
<1> QED BY <1>2, <1>3, <1>5, <1>12, <1>13, Zenon

(* A turn that reads a code point writes it, and one that reads none       *)
(* refuses the string.                                                     *)
LEMMA Utf8TurnIs ==
  ASSUME NEW s \in Seq(Byte), NEW i \in 1 .. Len(s)
  PROVE  /\ \A c \in Scalar : WrittenAt(s, i, BytesOf(c)) =>
              Utf8Turn(s, i) = Ok([out |-> UnitsOf(c), width |-> Len(BytesOf(c))])
         /\ Utf8Turn(s, i).ok => \E c \in Scalar : WrittenAt(s, i, BytesOf(c))
<1>1. Len(s) \in Nat /\ s[i] \in Byte /\ \A k \in 1 .. Len(s) : s[k] \in Byte
  OBVIOUS
<1>2. ASSUME NEW c \in Scalar, WrittenAt(s, i, BytesOf(c))
      PROVE  Utf8Turn(s, i) = Ok([out |-> UnitsOf(c), width |-> Len(BytesOf(c))])
  <2>1. NextFromUtf8(s, i) = Ok([point |-> c, width |-> Len(BytesOf(c))])
    BY <1>1, <1>2, Utf8IsRead
  <2>2. NextFromUtf8(s, i).ok /\ NextFromUtf8(s, i).value = [point |-> c, width |-> Len(BytesOf(c))]
    BY <2>1, Results, Zenon
  <2>3. NextFromUtf8(s, i).value.point = c /\ NextFromUtf8(s, i).value.width = Len(BytesOf(c))
    BY <2>2
  <2>4. AppendUtf16(c) = Ok(UnitsOf(c))
    BY CodePointsAreWritten
  <2>5. Utf8Turn(s, i) = Turned(Ok(UnitsOf(c)), Len(BytesOf(c)))
    BY <2>2, <2>3, <2>4, Zenon DEF Utf8Turn
  <2> QED BY <2>5, Results, Zenon DEF Turned
<1>3. ASSUME Utf8Turn(s, i).ok PROVE \E c \in Scalar : WrittenAt(s, i, BytesOf(c))
  <2>1. NextFromUtf8(s, i).ok
    BY <1>3, Zenon DEF Utf8Turn
  <2> QED BY <1>1, <2>1, Utf8WasWritten
<1> QED BY <1>2, <1>3, Zenon

LEMMA Utf8Turns ==
  ASSUME NEW s \in Seq(Byte), NEW turns, turns = [i \in DOMAIN s |-> Utf8Turn(s, i)]
  PROVE  /\ InTurns(turns) /\ Len(turns) = Len(s)
         /\ \A i \in 1 .. Len(s) : turns[i] = Utf8Turn(s, i)
<1>1. Len(s) \in Nat /\ DOMAIN s = 1 .. Len(s)
  OBVIOUS
<1>2. turns = [i \in 1 .. Len(s) |-> Utf8Turn(s, i)]
  BY <1>1, Zenon
<1>3. Len(turns) = Len(s) /\ \A i \in 1 .. Len(s) : turns[i] = Utf8Turn(s, i)
  BY <1>1, <1>2
<1>4. turns = [i \in 1 .. Len(turns) |-> turns[i]]
  BY <1>2, <1>3
<1>5. ASSUME NEW i \in 1 .. Len(turns), turns[i].ok
      PROVE  turns[i].value.width \in 1 .. Len(turns) + 1 - i
  <2>1. i \in 1 .. Len(s) /\ turns[i] = Utf8Turn(s, i)
    BY <1>3
  <2>2. PICK c \in Scalar : WrittenAt(s, i, BytesOf(c))
    BY <1>5, <2>1, Utf8TurnIs
  <2>3. turns[i] = Ok([out |-> UnitsOf(c), width |-> Len(BytesOf(c))])
    BY <2>1, <2>2, Utf8TurnIs
  <2>4. turns[i].value = [out |-> UnitsOf(c), width |-> Len(BytesOf(c))]
    BY <2>3, Results, Zenon
  <2>5. turns[i].value.width = Len(BytesOf(c))
    BY <2>4
  <2>6. Len(BytesOf(c)) \in 1 .. 4 /\ i + Len(BytesOf(c)) - 1 <= Len(s)
    BY <2>2, BytesOfIsSeq, Zenon DEF WrittenAt
  <2>7. Len(BytesOf(c)) \in 1 .. Len(s) + 1 - i
    <3>1. PICK w : w = Len(BytesOf(c))
      OBVIOUS
    <3>2. w \in 1 .. 4 /\ i + w - 1 <= Len(s)
      BY <2>6, <3>1, Zenon
    <3>3. w \in 1 .. Len(s) + 1 - i
      BY <1>1, <2>1, <3>2
    <3> QED BY <3>1, <3>3, Zenon
  <2> QED BY <1>3, <2>5, <2>7
<1> QED BY <1>1, <1>3, <1>4, <1>5 DEF InTurns

(* The conversion of a string, by what it begins with.                     *)
LEMMA Utf8Empty == Utf8ToUtf16(<<>>) = Ok(<<>>)
<1>1. PICK turns : turns = [i \in DOMAIN <<>> |-> Utf8Turn(<<>>, i)]
  OBVIOUS
<1>2. <<>> \in Seq(Byte) /\ Len(<<>>) = 0
  OBVIOUS
<1>3. InTurns(turns) /\ Len(turns) = 0
  BY <1>1, <1>2, Utf8Turns
<1> QED BY <1>1, <1>3, TurnsOneByOne, Zenon DEF Utf8ToUtf16

LEMMA Utf8Refused ==
  ASSUME NEW s \in Seq(Byte), Len(s) > 0, \A c \in Scalar : ~ WrittenAt(s, 1, BytesOf(c))
  PROVE  ~ Utf8ToUtf16(s).ok
<1>1. PICK turns : turns = [i \in DOMAIN s |-> Utf8Turn(s, i)]
  OBVIOUS
<1>2. 1 \in 1 .. Len(s)
  OBVIOUS
<1>3. InTurns(turns) /\ Len(turns) > 0 /\ turns[1] = Utf8Turn(s, 1)
  BY <1>1, <1>2, Utf8Turns
<1>4. ~ turns[1].ok
  BY <1>2, <1>3, Utf8TurnIs
<1>5. AllTurns(turns) = turns[1]
  BY <1>3, <1>4, TurnsOneByOne, Zenon
<1> QED BY <1>1, <1>4, <1>5, Zenon DEF Utf8ToUtf16

LEMMA Utf8First ==
  ASSUME NEW s \in Seq(Byte), NEW c \in Scalar, WrittenAt(s, 1, BytesOf(c))
  PROVE  /\ Rest(s, Len(BytesOf(c))) \in Seq(Byte)
         /\ Len(s) > 0 /\ Len(Rest(s, Len(BytesOf(c)))) < Len(s)
         /\ Utf8ToUtf16(s) = Before(UnitsOf(c), Utf8ToUtf16(Rest(s, Len(BytesOf(c)))))
<1>1. PICK turns : turns = [i \in DOMAIN s |-> Utf8Turn(s, i)]
  OBVIOUS
<1>2. PICK w : w = Len(BytesOf(c))
  OBVIOUS
<1>3. PICK rest : rest = Rest(s, w)
  OBVIOUS
<1>4. Len(s) \in Nat /\ w \in 1 .. Len(s) /\ 1 \in 1 .. Len(s) /\ w \in 0 .. Len(s)
  <2>1. w \in 1 .. 4 /\ 1 + w - 1 <= Len(s)
    BY <1>2, BytesOfIsSeq, Zenon DEF WrittenAt
  <2> QED BY <2>1
<1>5. rest \in Seq(Byte) /\ Len(rest) = Len(s) - w
  BY <1>3, <1>4, RestIsSeq
<1>6. InTurns(turns) /\ Len(turns) = Len(s) /\ \A i \in 1 .. Len(s) : turns[i] = Utf8Turn(s, i)
  BY <1>1, Utf8Turns
<1>7. turns[1] = Ok([out |-> UnitsOf(c), width |-> w])
  BY <1>2, <1>4, <1>6, Utf8TurnIs
<1>8. turns[1].ok /\ turns[1].value.out = UnitsOf(c) /\ turns[1].value.width = w
  <2>1. turns[1].ok /\ turns[1].value = [out |-> UnitsOf(c), width |-> w]
    BY <1>7, Results, Zenon
  <2> QED BY <2>1
<1>9. Len(turns) > 0
  BY <1>4, <1>6
<1>10. AllTurns(turns) = Before(UnitsOf(c), AllTurns(Rest(turns, w)))
  BY <1>6, <1>8, <1>9, TurnsOneByOne, Zenon
<1>11. Rest(turns, w) = [i \in DOMAIN rest |-> Utf8Turn(rest, i)]
  <2>1. DOMAIN rest = 1 .. Len(s) - w
    BY <1>5
  <2>2. ASSUME NEW i \in 1 .. Len(s) - w PROVE turns[i + w] = Utf8Turn(rest, i)
    <3>1. i + w \in 1 .. Len(s)
      BY <1>4
    <3>2. Utf8Turn(rest, i) = Utf8Turn(s, i + w)
      <4>1. Utf8Turn(Rest(s, w), i) = Utf8Turn(s, i + w)
        <5>1. \A k \in 1 .. Len(s) : s[k] \in Byte
          OBVIOUS
        <5> QED BY <1>4, <5>1, Utf8IsLocal
      <4> QED BY <1>3, <4>1, Zenon
    <3> QED BY <1>6, <3>1, <3>2
  <2>3. Rest(turns, w) = [i \in 1 .. Len(s) - w |-> turns[i + w]]
    BY <1>6, Zenon DEF Rest
  <2>4. [i \in 1 .. Len(s) - w |-> turns[i + w]] = [i \in 1 .. Len(s) - w |-> Utf8Turn(rest, i)]
    BY <2>2, Zenon
  <2> QED BY <2>1, <2>3, <2>4, Zenon
<1>12. Utf8ToUtf16(s) = Before(UnitsOf(c), Utf8ToUtf16(rest))
  BY <1>1, <1>10, <1>11, Zenon DEF Utf8ToUtf16
<1>13. Len(s) > 0 /\ Len(rest) < Len(s)
  BY <1>4, <1>5
<1> QED BY <1>2, <1>3, <1>5, <1>12, <1>13, Zenon

(* A string that is converted, converted back, is itself: by induction on  *)
(* its length.                                                             *)
Utf16Returns(s) ==
  Utf16ToUtf8(s).ok => /\ Utf16ToUtf8(s).value \in Seq(Byte)
                 /\ Utf8ToUtf16(Utf16ToUtf8(s).value) = Ok(s)

LEMMA Utf16Step ==
  ASSUME NEW s \in Seq(Unit),
         \A t \in Seq(Unit) : Len(t) < Len(s) => Utf16Returns(t)
  PROVE  Utf16Returns(s)
<1>1. SUFFICES ASSUME Utf16ToUtf8(s).ok
               PROVE  /\ Utf16ToUtf8(s).value \in Seq(Byte)
                      /\ Utf8ToUtf16(Utf16ToUtf8(s).value) = Ok(s)
  BY Zenon DEF Utf16Returns
<1>2. CASE Len(s) = 0
  <2>1. s = <<>>
    BY <1>2
  <2>2. Utf16ToUtf8(s).value = <<>>
    BY <2>1, Utf16Empty, Results, Zenon
  <2>3. <<>> \in Seq(Byte)
    OBVIOUS
  <2> QED BY <2>1, <2>2, <2>3, Utf8Empty, Zenon
<1>3. CASE Len(s) # 0
  <2>1. Len(s) > 0
    BY <1>3
  <2>2. PICK c \in Scalar : WrittenAt(s, 1, UnitsOf(c))
    BY <1>1, <2>1, Utf16Refused, Zenon
  <2>3. PICK rest : rest = Rest(s, Len(UnitsOf(c)))
    OBVIOUS
  <2>4. /\ rest \in Seq(Unit) /\ Len(rest) < Len(s)
        /\ Utf16ToUtf8(s) = Before(BytesOf(c), Utf16ToUtf8(rest))
    BY <2>2, <2>3, Utf16First, Zenon
  <2>5. PICK tail : tail = Utf16ToUtf8(rest).value
    OBVIOUS
  <2>6. Utf16ToUtf8(rest).ok
    BY <1>1, <2>4, Zenon DEF Before
  <2>7. tail \in Seq(Byte) /\ Utf8ToUtf16(tail) = Ok(rest)
    BY <2>4, <2>5, <2>6, Zenon DEF Utf16Returns
  <2>8. Utf16ToUtf8(s).value = BytesOf(c) \o tail
    BY <2>4, <2>5, <2>6, Results, Zenon DEF Before
  <2>9. PICK t : t = BytesOf(c) \o tail
    OBVIOUS
  <2>10. BytesOf(c) \in Seq(Byte) /\ UnitsOf(c) \in Seq(Unit)
    BY BytesOfIsSeq, UnitsOfIsSeq
  <2>11. t \in Seq(Byte) /\ WrittenAt(t, 1, BytesOf(c)) /\ Rest(t, Len(BytesOf(c))) = tail
    BY <2>7, <2>9, <2>10, PutFirst
  <2>12. Utf8ToUtf16(t) = Before(UnitsOf(c), Utf8ToUtf16(tail))
    BY <2>11, Utf8First
  <2>13. Utf8ToUtf16(t) = Ok(UnitsOf(c) \o rest)
    BY <2>7, <2>12, Results, Zenon DEF Before
  <2>14. s = UnitsOf(c) \o rest
    BY <2>2, <2>3, <2>10, FirstAndRest
  <2> QED BY <2>8, <2>9, <2>11, <2>13, <2>14, Zenon
<1> QED BY <1>2, <1>3

LEMMA Utf16Converted == \A s \in Seq(Unit) : Utf16Returns(s)
<1> DEFINE S == {n \in Nat : \A s \in Seq(Unit) : Len(s) = n => Utf16Returns(s)}
<1>1. ASSUME NEW n \in Nat, \A m \in Nat : m < n => m \in S PROVE n \in S
  <2>1. ASSUME NEW s \in Seq(Unit), Len(s) = n PROVE Utf16Returns(s)
    <3>1. ASSUME NEW t \in Seq(Unit), Len(t) < Len(s) PROVE Utf16Returns(t)
      <4>1. Len(t) \in Nat /\ Len(t) < n
        BY <2>1, <3>1
      <4>2. Len(t) \in S
        BY <1>1, <4>1
      <4> QED BY <4>2
    <3> QED BY <3>1, Utf16Step
  <2> QED BY <2>1
<1> HIDE DEF S
<1>2. Nat \subseteq S
  BY <1>1, LengthInduction
<1>3. ASSUME NEW s \in Seq(Unit) PROVE Utf16Returns(s)
  <2>1. Len(s) \in S
    BY <1>2
  <2> QED BY <2>1 DEF S
<1> QED BY <1>3

(* A string that is converted, converted back, is itself: by induction on  *)
(* its length.                                                             *)
Utf8Returns(s) ==
  Utf8ToUtf16(s).ok => /\ Utf8ToUtf16(s).value \in Seq(Unit)
                 /\ Utf16ToUtf8(Utf8ToUtf16(s).value) = Ok(s)

LEMMA Utf8Step ==
  ASSUME NEW s \in Seq(Byte),
         \A t \in Seq(Byte) : Len(t) < Len(s) => Utf8Returns(t)
  PROVE  Utf8Returns(s)
<1>1. SUFFICES ASSUME Utf8ToUtf16(s).ok
               PROVE  /\ Utf8ToUtf16(s).value \in Seq(Unit)
                      /\ Utf16ToUtf8(Utf8ToUtf16(s).value) = Ok(s)
  BY Zenon DEF Utf8Returns
<1>2. CASE Len(s) = 0
  <2>1. s = <<>>
    BY <1>2
  <2>2. Utf8ToUtf16(s).value = <<>>
    BY <2>1, Utf8Empty, Results, Zenon
  <2>3. <<>> \in Seq(Unit)
    OBVIOUS
  <2> QED BY <2>1, <2>2, <2>3, Utf16Empty, Zenon
<1>3. CASE Len(s) # 0
  <2>1. Len(s) > 0
    BY <1>3
  <2>2. PICK c \in Scalar : WrittenAt(s, 1, BytesOf(c))
    BY <1>1, <2>1, Utf8Refused, Zenon
  <2>3. PICK rest : rest = Rest(s, Len(BytesOf(c)))
    OBVIOUS
  <2>4. /\ rest \in Seq(Byte) /\ Len(rest) < Len(s)
        /\ Utf8ToUtf16(s) = Before(UnitsOf(c), Utf8ToUtf16(rest))
    BY <2>2, <2>3, Utf8First, Zenon
  <2>5. PICK tail : tail = Utf8ToUtf16(rest).value
    OBVIOUS
  <2>6. Utf8ToUtf16(rest).ok
    BY <1>1, <2>4, Zenon DEF Before
  <2>7. tail \in Seq(Unit) /\ Utf16ToUtf8(tail) = Ok(rest)
    BY <2>4, <2>5, <2>6, Zenon DEF Utf8Returns
  <2>8. Utf8ToUtf16(s).value = UnitsOf(c) \o tail
    BY <2>4, <2>5, <2>6, Results, Zenon DEF Before
  <2>9. PICK t : t = UnitsOf(c) \o tail
    OBVIOUS
  <2>10. UnitsOf(c) \in Seq(Unit) /\ BytesOf(c) \in Seq(Byte)
    BY BytesOfIsSeq, UnitsOfIsSeq
  <2>11. t \in Seq(Unit) /\ WrittenAt(t, 1, UnitsOf(c)) /\ Rest(t, Len(UnitsOf(c))) = tail
    BY <2>7, <2>9, <2>10, PutFirst
  <2>12. Utf16ToUtf8(t) = Before(BytesOf(c), Utf16ToUtf8(tail))
    BY <2>11, Utf16First
  <2>13. Utf16ToUtf8(t) = Ok(BytesOf(c) \o rest)
    BY <2>7, <2>12, Results, Zenon DEF Before
  <2>14. s = BytesOf(c) \o rest
    BY <2>2, <2>3, <2>10, FirstAndRest
  <2> QED BY <2>8, <2>9, <2>11, <2>13, <2>14, Zenon
<1> QED BY <1>2, <1>3

LEMMA Utf8Converted == \A s \in Seq(Byte) : Utf8Returns(s)
<1> DEFINE S == {n \in Nat : \A s \in Seq(Byte) : Len(s) = n => Utf8Returns(s)}
<1>1. ASSUME NEW n \in Nat, \A m \in Nat : m < n => m \in S PROVE n \in S
  <2>1. ASSUME NEW s \in Seq(Byte), Len(s) = n PROVE Utf8Returns(s)
    <3>1. ASSUME NEW t \in Seq(Byte), Len(t) < Len(s) PROVE Utf8Returns(t)
      <4>1. Len(t) \in Nat /\ Len(t) < n
        BY <2>1, <3>1
      <4>2. Len(t) \in S
        BY <1>1, <4>1
      <4> QED BY <4>2
    <3> QED BY <3>1, Utf8Step
  <2> QED BY <2>1
<1> HIDE DEF S
<1>2. Nat \subseteq S
  BY <1>1, LengthInduction
<1>3. ASSUME NEW s \in Seq(Byte) PROVE Utf8Returns(s)
  <2>1. Len(s) \in S
    BY <1>2
  <2> QED BY <2>1 DEF S
<1> QED BY <1>3

(* Paired surrogates, by what the string begins with.                      *)
LEMMA SurrogatesApart == HighSurrogates \cap LowSurrogates = {}
BY SMT DEF HighSurrogates, LowSurrogates

LEMMA PairedFirst ==
  ASSUME NEW units \in Seq(Unit), Len(units) > 0, Paired(units)
  PROVE  \E c \in Scalar : WrittenAt(units, 1, UnitsOf(c))
<1>1. 1 \in Nat /\ 1 \in DOMAIN units /\ Len(units) \in Nat /\ units[1] \in Unit /\ 1 <= Len(units)
  OBVIOUS
<1>2. CASE units[1] \in HighSurrogates
  <2>1. 1 < Len(units) /\ units[1 + 1] \in LowSurrogates
    BY <1>1, <1>2 DEF Paired
  <2>2. 1 + 1 <= Len(units)
    BY <1>1, <2>1
  <2>3. PICK c : PairOf(c, units[1], units[1 + 1])
    BY <1>2, <2>1, Zenon DEF PairOf
  <2>4. c \in Scalar
    BY <2>3, PairIsWritten, Zenon
  <2>5. WrittenAt(units, 1, UnitsOf(c)) <=>
          1 + 1 <= Len(units) /\ units[1] = units[1] /\ units[1 + 1] = units[1 + 1]
    BY <1>1, <2>3, PairAt
  <2> QED BY <2>2, <2>4, <2>5
<1>3. CASE units[1] \notin HighSurrogates
  <2>1. units[1] \notin LowSurrogates
    <3>1. units[1] \in LowSurrogates => 1 > 1
      BY <1>1, Zenon DEF Paired
    <3>2. ~ (1 > 1)
      BY SMT
    <3> QED BY <3>1, <3>2
  <2>2. Alone(units[1])
    BY <1>1, <1>3, <2>1, Zenon DEF Alone
  <2>3. units[1] \in Scalar /\ UnitsOf(units[1]) = <<units[1]>>
    BY <2>2, SingleIsWritten, Zenon
  <2>4. WrittenAt(units, 1, UnitsOf(units[1])) <=> 1 <= Len(units) /\ units[1] = units[1]
    BY <1>1, <2>3, SingleAt
  <2> QED BY <1>1, <2>3, <2>4
<1> QED BY <1>2, <1>3

(* The first w units hold their own surrogates.                            *)
Closed(units, w) ==
  /\ w \in 1 .. Len(units) /\ units[w] \notin HighSurrogates
  /\ \A i \in 1 .. w :
       /\ units[i] \in HighSurrogates => i < w /\ units[i + 1] \in LowSurrogates
       /\ units[i] \in LowSurrogates => i > 1 /\ units[i - 1] \in HighSurrogates

LEMMA CodePointIsClosed ==
  ASSUME NEW units \in Seq(Unit), NEW c \in Scalar, WrittenAt(units, 1, UnitsOf(c))
  PROVE  Closed(units, Len(UnitsOf(c)))
<1>1. 1 \in Nat /\ Len(units) \in Nat
  OBVIOUS
<1>2. CASE Short(c)
  <2>1. Alone(c) /\ UnitsOf(c) = <<c>>
    BY <1>2, SingleIsWritten, Zenon
  <2>2. Len(UnitsOf(c)) = 1 /\ (WrittenAt(units, 1, UnitsOf(c)) <=> 1 <= Len(units) /\ units[1] = c)
    BY <1>1, <2>1, SingleAt
  <2>3. 1 \in 1 .. Len(units) /\ units[1] = c
    BY <1>1, <2>2
  <2>4. units[1] \notin HighSurrogates /\ units[1] \notin LowSurrogates
    BY <2>1, <2>3, Zenon DEF Alone
  <2>5. \A i \in 1 .. 1 : i = 1
    BY SMT
  <2>6. Closed(units, 1)
    BY <2>3, <2>4, <2>5, Zenon DEF Closed
  <2> QED BY <2>2, <2>6, Zenon
<1>3. CASE ~ Short(c)
  <2>1. PICK h, l : PairOf(c, h, l)
    BY <1>3, PairExists, Zenon
  <2>2. /\ Len(UnitsOf(c)) = 2
        /\ WrittenAt(units, 1, UnitsOf(c)) <=> 1 + 1 <= Len(units) /\ units[1] = h /\ units[1 + 1] = l
    BY <1>1, <2>1, PairAt
  <2>3. 2 \in 1 .. Len(units) /\ units[1] = h /\ units[2] = l /\ 1 + 1 = 2
    BY <1>1, <2>2
  <2>4. /\ units[1] \in HighSurrogates /\ units[1] \notin LowSurrogates
        /\ units[2] \in LowSurrogates /\ units[2] \notin HighSurrogates
    BY <2>1, <2>3, SurrogatesApart, Zenon DEF PairOf
  <2>5. \A i \in 1 .. 2 : \/ i = 1 /\ i + 1 = 2 /\ i < 2
                          \/ i = 2 /\ i > 1 /\ i - 1 = 1
    BY SMT
  <2>6. Closed(units, 2)
    BY <2>3, <2>4, <2>5, Zenon DEF Closed
  <2> QED BY <2>2, <2>6, Zenon
<1> QED BY <1>2, <1>3, Zenon

LEMMA PairedRest ==
  ASSUME NEW units \in Seq(Unit), NEW w, Closed(units, w)
  PROVE  Paired(units) <=> Paired(Rest(units, w))
<1>1. PICK rest : rest = Rest(units, w)
  OBVIOUS
<1>2. PICK N : N = Len(units)
  OBVIOUS
<1>3. N \in Nat /\ w \in 1 .. N /\ DOMAIN units = 1 .. N /\ units[w] \notin HighSurrogates
  BY <1>2 DEF Closed
<1>4. DOMAIN rest = 1 .. N - w /\ Len(rest) = N - w /\ \A i \in 1 .. N - w : rest[i] = units[i + w]
  <2>1. Len(units) \in Nat /\ w \in 0 .. Len(units)
    BY <1>2, <1>3
  <2> QED BY <1>1, <1>2, <2>1, RestIsTail
<1>5. ASSUME Paired(units), NEW i \in DOMAIN rest
      PROVE  /\ rest[i] \in HighSurrogates => i < Len(rest) /\ rest[i + 1] \in LowSurrogates
             /\ rest[i] \in LowSurrogates => i > 1 /\ rest[i - 1] \in HighSurrogates
  <2>1. PICK k : k = i + w
    OBVIOUS
  <2>2. i \in 1 .. N - w /\ k \in 1 .. N /\ rest[i] = units[k]
    BY <1>3, <1>4, <1>5, <2>1
  <2>3. /\ units[k] \in HighSurrogates => k < N /\ units[k + 1] \in LowSurrogates
        /\ units[k] \in LowSurrogates => k > 1 /\ units[k - 1] \in HighSurrogates
    BY <1>2, <1>3, <1>5, <2>2, Zenon DEF Paired
  <2>4. ASSUME rest[i] \in HighSurrogates PROVE i < Len(rest) /\ rest[i + 1] \in LowSurrogates
    <3>1. k < N /\ units[k + 1] \in LowSurrogates
      BY <2>2, <2>3, <2>4
    <3>2. i < N - w /\ i + 1 \in 1 .. N - w /\ i + 1 + w = k + 1
      BY <1>3, <2>1, <2>2, <3>1
    <3> QED BY <1>4, <3>1, <3>2
  <2>5. ASSUME rest[i] \in LowSurrogates PROVE i > 1 /\ rest[i - 1] \in HighSurrogates
    <3>1. units[k - 1] \in HighSurrogates
      BY <2>2, <2>3, <2>5
    <3>2. i # 1
      <4>1. i = 1 => k - 1 = w
        BY <1>3, <2>1
      <4> QED BY <1>3, <3>1, <4>1
    <3>3. i > 1 /\ i - 1 \in 1 .. N - w /\ i - 1 + w = k - 1
      BY <1>3, <2>1, <2>2, <3>2
    <3> QED BY <1>4, <3>1, <3>3
  <2> QED BY <2>4, <2>5
<1>6. ASSUME Paired(rest), NEW k \in DOMAIN units
      PROVE  /\ units[k] \in HighSurrogates => k < Len(units) /\ units[k + 1] \in LowSurrogates
             /\ units[k] \in LowSurrogates => k > 1 /\ units[k - 1] \in HighSurrogates
  <2>1. CASE k <= w
    <3>1. k \in 1 .. w
      BY <1>3, <1>6, <2>1
    <3>2. /\ units[k] \in HighSurrogates => k < w /\ units[k + 1] \in LowSurrogates
          /\ units[k] \in LowSurrogates => k > 1 /\ units[k - 1] \in HighSurrogates
      BY <3>1, Zenon DEF Closed
    <3>3. k < w => k < Len(units)
      BY <1>2, <1>3, <3>1
    <3> QED BY <3>2, <3>3
  <2>2. CASE ~ (k <= w)
    <3>1. PICK i : i = k - w
      OBVIOUS
    <3>2. i \in 1 .. N - w /\ k = i + w /\ rest[i] = units[k] /\ k \in 1 .. N
      <4>1. i \in 1 .. N - w /\ k = i + w /\ k \in 1 .. N
        BY <1>3, <1>6, <2>2, <3>1
      <4> QED BY <1>4, <4>1
    <3>3. /\ rest[i] \in HighSurrogates => i < Len(rest) /\ rest[i + 1] \in LowSurrogates
          /\ rest[i] \in LowSurrogates => i > 1 /\ rest[i - 1] \in HighSurrogates
      BY <1>4, <1>6, <3>2, Zenon DEF Paired
    <3>4. ASSUME units[k] \in HighSurrogates PROVE k < Len(units) /\ units[k + 1] \in LowSurrogates
      <4>1. i < N - w /\ rest[i + 1] \in LowSurrogates
        BY <1>4, <3>2, <3>3, <3>4
      <4>2. k < N /\ i + 1 \in 1 .. N - w /\ i + 1 + w = k + 1
        BY <1>3, <3>2, <4>1
      <4>3. rest[i + 1] = units[k + 1]
        BY <1>4, <4>2
      <4> QED BY <1>2, <4>1, <4>2, <4>3
    <3>5. ASSUME units[k] \in LowSurrogates PROVE k > 1 /\ units[k - 1] \in HighSurrogates
      <4>1. i > 1 /\ rest[i - 1] \in HighSurrogates
        BY <3>2, <3>3, <3>5
      <4>2. k > 1 /\ i - 1 \in 1 .. N - w /\ i - 1 + w = k - 1
        BY <1>3, <3>2, <4>1
      <4>3. rest[i - 1] = units[k - 1]
        BY <1>4, <4>2
      <4> QED BY <4>1, <4>2, <4>3
    <3> QED BY <3>4, <3>5
  <2> QED BY <2>1, <2>2
<1> QED BY <1>1, <1>5, <1>6, Zenon DEF Paired

LEMMA AcceptedIsPaired ==
  \A s \in Seq(Unit) : Utf16ToUtf8(s).ok <=> Paired(s)
<1> DEFINE Agrees(s) == Utf16ToUtf8(s).ok <=> Paired(s)
           S == {n \in Nat : \A s \in Seq(Unit) : Len(s) = n => Agrees(s)}
<1>1. ASSUME NEW s \in Seq(Unit), \A t \in Seq(Unit) : Len(t) < Len(s) => Agrees(t)
      PROVE  Agrees(s)
  <2>1. CASE Len(s) = 0
    <3>1. s = <<>> /\ DOMAIN s = {}
      BY <2>1
    <3>2. Paired(s)
      BY <3>1, Zenon DEF Paired
    <3> QED BY <3>1, <3>2, Utf16Empty, Results, Zenon
  <2>2. CASE Len(s) # 0 /\ \E c \in Scalar : WrittenAt(s, 1, UnitsOf(c))
    <3>1. PICK c \in Scalar : WrittenAt(s, 1, UnitsOf(c))
      BY <2>2
    <3>2. PICK rest : rest = Rest(s, Len(UnitsOf(c)))
      OBVIOUS
    <3>3. /\ rest \in Seq(Unit) /\ Len(rest) < Len(s)
          /\ Utf16ToUtf8(s) = Before(BytesOf(c), Utf16ToUtf8(rest))
      BY <3>1, <3>2, Utf16First, Zenon
    <3>4. Utf16ToUtf8(s).ok <=> Utf16ToUtf8(rest).ok
      BY <3>3, Results, Zenon DEF Before
    <3>5. Paired(s) <=> Paired(rest)
      BY <3>1, <3>2, CodePointIsClosed, PairedRest, Zenon
    <3> QED BY <1>1, <3>3, <3>4, <3>5, Zenon
  <2>3. CASE Len(s) # 0 /\ ~ \E c \in Scalar : WrittenAt(s, 1, UnitsOf(c))
    <3>1. Len(s) > 0
      BY <2>3
    <3> QED BY <2>3, <3>1, Utf16Refused, PairedFirst, Zenon
  <2> QED BY <2>1, <2>2, <2>3, Zenon
<1> HIDE DEF Agrees
<1>2. ASSUME NEW n \in Nat, \A m \in Nat : m < n => m \in S PROVE n \in S
  <2>1. ASSUME NEW s \in Seq(Unit), Len(s) = n PROVE Agrees(s)
    <3>1. ASSUME NEW t \in Seq(Unit), Len(t) < Len(s) PROVE Agrees(t)
      <4>1. Len(t) \in Nat /\ Len(t) < n
        BY <2>1, <3>1
      <4>2. Len(t) \in S
        BY <1>2, <4>1
      <4> QED BY <4>2
    <3> QED BY <1>1, <3>1
  <2> QED BY <2>1
<1> HIDE DEF S
<1>3. Nat \subseteq S
  BY <1>2, LengthInduction
<1>4. ASSUME NEW s \in Seq(Unit) PROVE Agrees(s)
  <2>1. Len(s) \in S
    BY <1>3
  <2> QED BY <2>1 DEF S
<1> QED BY <1>4 DEF Agrees

(* A string of Java, of any length, is handed to the C ABI if and only if  *)
(* its surrogates are paired, and what the ABI gives back for the same     *)
(* bytes is the same string: utf16_to_utf8 and utf8_to_utf16 lose nothing. *)
THEOREM EveryJavaStringSurvives ==
  \A units \in Seq(Unit) : JavaStringSurvives(units)
BY AcceptedIsPaired, Utf16Converted, Zenon DEF JavaStringSurvives, Utf16Returns

(* A byte string that utf8_to_utf16 accepts is the only spelling of its    *)
(* string: an overlong form, a surrogate written as three bytes or a value *)
(* past 10FFFF is refused at any place of a string of any length.          *)
THEOREM EveryByteStringSurvives ==
  \A bytes \in Seq(Byte) : BytesSurvive(bytes)
BY Utf8Converted, Zenon DEF BytesSurvive, Utf8Returns

----------------------------------------------------------------------------
(* The manifest writer.                                                    *)
(* What a directory has of the standard layout.                            *)
Item(i) == STANDARD_MODEL_FILES[i]
There(directory, i) == Item(i).path \in DOMAIN directory
FileAt(directory, i) ==
  [path |-> Item(i).path, role |-> Item(i).role, sha256 |-> directory[Item(i).path]]
Lists(directory, n, files) ==
  /\ files \in Seq({FileAt(directory, i) : i \in 1 .. 7})
  /\ \A k \in DOMAIN files :
       \E i \in 1 .. n : There(directory, i) /\ files[k] = FileAt(directory, i)
  /\ \A i \in 1 .. n :
       There(directory, i) => \E k \in DOMAIN files : files[k] = FileAt(directory, i)
  /\ \A k, l \in DOMAIN files : files[k].role = files[l].role => k = l

LEMMA StandardItems ==
  /\ \A i \in 1 .. 7 : Item(i).role \in ModelFileRole /\ ~ InvalidRelativePath(Item(i).path)
                       /\ Item(i).path \in StandardPaths
  /\ \A i, j \in 1 .. 7 : Item(i).role = Item(j).role => i = j
<1>1. DOMAIN STANDARD_MODEL_FILES = 1 .. 7
  BY DEF STANDARD_MODEL_FILES
<1>2. ASSUME NEW i \in 1 .. 7
      PROVE  Item(i).role = << "Encoder", "Decoder", "Tokenizer", "DecoderWithPast",
                               "Vocabulary", "Config", "GenerationConfig" >>[i]
  BY <1>2 DEF Item, STANDARD_MODEL_FILES, Standard
<1>3. ASSUME NEW i \in 1 .. 7
      PROVE  \E name \in {"encoder.onnx", "decoder.onnx", "tokenizer.json",
               "decoder-with-past.onnx", "vocab.txt", "config.json", "generation.json"} :
               Item(i).path = << name >>
  BY <1>3 DEF Item, STANDARD_MODEL_FILES, Standard
<1>4. ASSUME NEW i \in 1 .. 7 PROVE ~ InvalidRelativePath(Item(i).path)
  <2>1. PICK name \in {"encoder.onnx", "decoder.onnx", "tokenizer.json",
               "decoder-with-past.onnx", "vocab.txt", "config.json", "generation.json"} :
               Item(i).path = << name >>
    BY <1>3
  <2>2. IsNormal(name)
    BY <2>1 DEF IsNormal
  <2> QED BY <2>1, <2>2 DEF InvalidRelativePath
<1>5. ASSUME NEW i \in 1 .. 7 PROVE Item(i).role \in ModelFileRole
  BY <1>2, <1>5 DEF ModelFileRole, RoleName
<1>6. ASSUME NEW i \in 1 .. 7 PROVE Item(i).path \in StandardPaths
  BY <1>1 DEF StandardPaths, Item
<1>7. ASSUME NEW i \in 1 .. 7, NEW j \in 1 .. 7, Item(i).role = Item(j).role PROVE i = j
  BY <1>2, <1>7
<1> QED BY <1>4, <1>5, <1>6, <1>7

LEMMA ListsNothing == ASSUME NEW directory PROVE Lists(directory, 0, << >>)
BY DEF Lists

LEMMA ListsOneMore ==
  ASSUME NEW directory, NEW n \in 0 .. 6, NEW files, Lists(directory, n, files)
  PROVE  Lists(directory, n + 1, files \o StandardModelFile(directory, Item(n + 1)))
<1> DEFINE Files == {FileAt(directory, i) : i \in 1 .. 7}
           file == FileAt(directory, n + 1)
<1>1. n + 1 \in 1 .. 7 /\ 1 .. n + 1 = (1 .. n) \cup {n + 1}
  OBVIOUS
<1>2. files \in Seq(Files)
  BY DEF Lists
<1>3. CASE ~ There(directory, n + 1)
  <2>1. files \o StandardModelFile(directory, Item(n + 1)) = files
    <3>1. StandardModelFile(directory, Item(n + 1)) = << >>
      BY <1>3, Zenon DEF StandardModelFile, There
    <3> HIDE DEF Files
    <3> QED BY <1>2, <3>1
  <2>2. ASSUME NEW i \in 1 .. n + 1, There(directory, i) PROVE i \in 1 .. n
    BY <1>1, <1>3, <2>2, Zenon
  <2>3. \A i \in 1 .. n : i \in 1 .. n + 1
    BY <1>1, Zenon
  <2>4. Lists(directory, n + 1, files)
    BY <2>2, <2>3, Zenon DEF Lists
  <2> QED BY <2>1, <2>4, Zenon
<1>4. CASE There(directory, n + 1)
  <2> DEFINE more == files \o << file >>
  <2>1. StandardModelFile(directory, Item(n + 1)) = << file >>
    BY <1>4 DEF StandardModelFile, There, FileAt
  <2>2. /\ more \in Seq(Files)
        /\ DOMAIN more = DOMAIN files \cup {Len(files) + 1}
        /\ Len(files) + 1 \notin DOMAIN files
        /\ \A k \in DOMAIN files : more[k] = files[k]
        /\ more[Len(files) + 1] = file
    <3>1. file \in Files
      BY <1>1
    <3> HIDE DEF file, Files
    <3> QED BY <1>2, <3>1
  <2>3. ASSUME NEW k \in DOMAIN files PROVE files[k].role # file.role
    <3>1. PICK i \in 1 .. n : files[k] = FileAt(directory, i)
      BY DEF Lists
    <3>2. i \in 1 .. 7 /\ i # n + 1 /\ files[k].role = Item(i).role /\ file.role = Item(n + 1).role
      BY <3>1 DEF FileAt
    <3> QED BY <1>1, <3>2, StandardItems
  <2> HIDE DEF more, file
  <2>4. ASSUME NEW k \in DOMAIN more
        PROVE  \E i \in 1 .. n + 1 : There(directory, i) /\ more[k] = FileAt(directory, i)
    <3>1. CASE k = Len(files) + 1
      BY <1>1, <1>4, <2>2, <3>1, Zenon DEF file
    <3>2. CASE k \in DOMAIN files
      <4>1. PICK i \in 1 .. n : There(directory, i) /\ files[k] = FileAt(directory, i)
        BY <3>2, Zenon DEF Lists
      <4>2. i \in 1 .. n + 1 /\ more[k] = files[k]
        BY <1>1, <2>2, <3>2, Zenon
      <4> QED BY <4>1, <4>2, Zenon
    <3> QED BY <2>2, <2>4, <3>1, <3>2, Zenon
  <2>5. ASSUME NEW i \in 1 .. n + 1, There(directory, i)
        PROVE  \E k \in DOMAIN more : more[k] = FileAt(directory, i)
    <3>1. CASE i = n + 1
      BY <2>2, <3>1, Zenon DEF file
    <3>2. CASE i \in 1 .. n
      BY <2>2, <2>5, <3>2, Zenon DEF Lists
    <3> QED BY <1>1, <2>5, <3>1, <3>2, Zenon
  <2>6. ASSUME NEW k \in DOMAIN more, NEW l \in DOMAIN more, more[k].role = more[l].role
        PROVE  k = l
    BY <2>2, <2>3, <2>6 DEF Lists
  <2>7. more \in Seq({FileAt(directory, i) : i \in 1 .. 7})
    BY <2>2
  <2>8. Lists(directory, n + 1, more)
    BY <2>4, <2>5, <2>6, <2>7 DEF Lists
  <2> QED BY <2>1, <2>8 DEF more
<1> QED BY <1>3, <1>4

(* The files of a written manifest: one for each standard path that is     *)
(* there.                                                                  *)
LEMMA FilesAreListed ==
  ASSUME NEW directory, StandardModelFiles(directory).ok
  PROVE  Lists(directory, 7, StandardModelFiles(directory).value)
<1> DEFINE File(i) == StandardModelFile(directory, Item(i))
           all == << >> \o File(1) \o File(2) \o File(3) \o File(4) \o File(5) \o File(6) \o File(7)
<1>1. Lists(directory, 7, all)
  <2> HIDE DEF File
  <2>1. \A n \in 0 .. 6 : \A files :
          Lists(directory, n, files) => Lists(directory, n + 1, files \o File(n + 1))
    BY ListsOneMore DEF File
  <2>2. Lists(directory, 1, << >> \o File(1))
    <3>1. 0 \in 0 .. 6 /\ 0 + 1 = 1
      OBVIOUS
    <3>2. Lists(directory, 0 + 1, << >> \o File(0 + 1))
      BY <2>1, <3>1, ListsNothing, Zenon
    <3> QED BY <3>1, <3>2, Zenon
  <2>3. Lists(directory, 2, << >> \o File(1) \o File(2))
    BY <2>1, <2>2
  <2>4. Lists(directory, 3, << >> \o File(1) \o File(2) \o File(3))
    BY <2>1, <2>3
  <2>5. Lists(directory, 4, << >> \o File(1) \o File(2) \o File(3) \o File(4))
    BY <2>1, <2>4
  <2>6. Lists(directory, 5, << >> \o File(1) \o File(2) \o File(3) \o File(4) \o File(5))
    BY <2>1, <2>5
  <2>7. Lists(directory, 6, << >> \o File(1) \o File(2) \o File(3) \o File(4) \o File(5) \o File(6))
    BY <2>1, <2>6
  <2> QED BY <2>1, <2>7
<1>2. << >> \o File(1) = File(1)
  BY DEF StandardModelFile
<1>3. StandardModelFiles(directory) =
        Checked(StandardFileChecks(directory),
                File(1) \o File(2) \o File(3) \o File(4) \o File(5) \o File(6) \o File(7))
  BY DEF StandardModelFiles, Item
<1>4. StandardModelFiles(directory).value =
        File(1) \o File(2) \o File(3) \o File(4) \o File(5) \o File(6) \o File(7)
  <2> DEFINE checks == StandardFileChecks(directory)
             files == File(1) \o File(2) \o File(3) \o File(4) \o File(5) \o File(6) \o File(7)
  <2> HIDE DEF File, files, checks
  <2>1. StandardModelFiles(directory) = Checked(checks, files)
    BY <1>3 DEF checks, files
  <2>2. StandardModelFiles(directory) = Ok(files)
    BY <2>1, CheckedOk, Zenon
  <2> QED BY <2>2, Results DEF files
<1> QED BY <1>1, <1>2, <1>4

(* They are listed if and only if the required ones are there.             *)
Required == {<<"encoder.onnx">>, <<"decoder.onnx">>, <<"tokenizer.json">>}
LEMMA RequiredAreThere ==
  ASSUME NEW directory
  PROVE  /\ StandardModelFiles(directory).ok <=> Required \subseteq DOMAIN directory
         /\ Required \subseteq DOMAIN directory <=> \A i \in 1 .. 3 : There(directory, i)
<1> DEFINE checks == StandardFileChecks(directory)
<1>1. DOMAIN checks = 1 .. 7
  BY DEF StandardFileChecks, STANDARD_MODEL_FILES
<1>2. \A i \in 1 .. 7 : checks[i][1] = (STANDARD_MODEL_FILES[i].required
                                          /\ STANDARD_MODEL_FILES[i].path \notin DOMAIN directory)
  <2>1. DOMAIN STANDARD_MODEL_FILES = 1 .. 7
    BY DEF STANDARD_MODEL_FILES
  <2> QED BY <2>1, Zenon DEF StandardFileChecks
<1>3. /\ \A i \in 1 .. 3 : STANDARD_MODEL_FILES[i].required
      /\ \A i \in 4 .. 7 : ~ STANDARD_MODEL_FILES[i].required
  BY DEF STANDARD_MODEL_FILES, Standard
<1>4. /\ Item(1).path = <<"encoder.onnx">> /\ Item(2).path = <<"decoder.onnx">>
      /\ Item(3).path = <<"tokenizer.json">>
  BY DEF Item, STANDARD_MODEL_FILES, Standard
<1>5. Clean(checks) <=> \A i \in 1 .. 3 : There(directory, i)
  <2> HIDE DEF checks
  <2>1. ASSUME NEW i \in 1 .. 3 PROVE i \in 1 .. 7 /\ checks[i][1] = ~ There(directory, i)
    <3>1. i \in 1 .. 7
      BY <2>1
    <3>2. There(directory, i) = (STANDARD_MODEL_FILES[i].path \in DOMAIN directory)
      BY Zenon DEF There, Item
    <3> QED BY <1>2, <1>3, <2>1, <3>1, <3>2, Zenon
  <2>2. ASSUME NEW i \in 4 .. 7 PROVE ~ checks[i][1]
    <3>1. i \in 1 .. 7
      BY <2>2
    <3> QED BY <1>2, <1>3, <2>2, <3>1, Zenon
  <2>3. 1 .. 7 = (1 .. 3) \cup (4 .. 7)
    OBVIOUS
  <2> QED BY <1>1, <2>1, <2>2, <2>3, Zenon DEF Clean
<1>6. StandardModelFiles(directory).ok <=> Clean(checks)
  BY CheckedOk, Results DEF StandardModelFiles
<1>7. Required \subseteq DOMAIN directory <=> \A i \in 1 .. 3 : There(directory, i)
  <2>1. 1 .. 3 = {1, 2, 3}
    OBVIOUS
  <2> QED BY <1>4, <2>1, Zenon DEF Required, There
<1> QED BY <1>5, <1>6, <1>7, Zenon

(* The codes of languages and roles are told apart.                        *)
LEMMA CodesAreDistinct ==
  /\ \A language \in Language : FromIso639_1(Iso639_1[language]) = Ok(language)
  /\ \A role \in ModelFileRole : RoleNamed(RoleName[role]) = role
<1>1. ASSUME NEW l \in Language, NEW m \in Language, Iso639_1[l] = Iso639_1[m] PROVE l = m
  <2>1. DOMAIN LanguageOrder = 1 .. 5
    BY DEF LanguageOrder
  <2>2. Language = {"English", "Russian", "Thai", "Vietnamese", "Japanese"}
    BY <2>1 DEF Language, LanguageOrder
  <2> QED BY <1>1, <2>2 DEF Iso639_1
<1>2. ASSUME NEW l \in Language PROVE FromIso639_1(Iso639_1[l]) = Ok(l)
  <2>1. (CHOOSE language \in Language : Iso639_1[language] = Iso639_1[l]) = l
    BY <1>1, Zenon
  <2>2. \E language \in Language : Iso639_1[language] = Iso639_1[l]
    OBVIOUS
  <2> QED BY <2>1, <2>2, Zenon DEF FromIso639_1
<1>3. ASSUME NEW p \in ModelFileRole, NEW q \in ModelFileRole, RoleName[p] = RoleName[q]
      PROVE  p = q
  <2>1. ModelFileRole = {"Encoder", "Decoder", "DecoderWithPast", "Tokenizer", "Vocabulary",
           "Config", "GenerationConfig", "GgufModel", "ChatTemplate", "LlamaRuntimeConfig"}
    BY DEF ModelFileRole, RoleName
  <2> QED BY <1>3, <2>1 DEF RoleName
<1>4. ASSUME NEW role \in ModelFileRole PROVE RoleNamed(RoleName[role]) = role
  BY <1>3, Zenon DEF RoleNamed
<1> QED BY <1>2, <1>4

(* A file that is listed is a valid one, and is read back as it was.       *)
GoodFile(file) ==
  /\ file = [path |-> file.path, role |-> file.role, sha256 |-> file.sha256]
  /\ file.role \in ModelFileRole
  /\ ~ InvalidRelativePath(file.path) /\ ~ InvalidSha256(file.sha256)
GoodFiles(files) ==
  /\ IsSeq(files) /\ files # << >>
  /\ \A k \in DOMAIN files : GoodFile(files[k])
  /\ \A k, l \in DOMAIN files : files[k].role = files[l].role => k = l

LEMMA FilesAreGood ==
  ASSUME NEW directory, \A path \in DOMAIN directory : ~ InvalidSha256(directory[path]),
         NEW files, Lists(directory, 7, files), There(directory, 1)
  PROVE  GoodFiles(files)
<1>1. IsSeq(files)
  BY SeqIsSeq DEF Lists
<1>2. files # << >>
  <2>1. PICK k \in DOMAIN files : files[k] = FileAt(directory, 1)
    <3>1. 1 \in 1 .. 7
      OBVIOUS
    <3> QED BY <3>1, Zenon DEF Lists
  <2>2. DOMAIN << >> = {}
    OBVIOUS
  <2> QED BY <2>1, <2>2, Zenon
<1>3. ASSUME NEW k \in DOMAIN files PROVE GoodFile(files[k])
  <2>1. PICK i \in 1 .. 7 : There(directory, i) /\ files[k] = FileAt(directory, i)
    BY <1>3, Zenon DEF Lists
  <2>2. ~ InvalidSha256(directory[Item(i).path])
    BY <2>1 DEF There
  <2>3. /\ files[k].path = Item(i).path /\ files[k].role = Item(i).role
        /\ files[k].sha256 = directory[Item(i).path]
    BY <2>1 DEF FileAt
  <2>4. files[k] = [path |-> files[k].path, role |-> files[k].role, sha256 |-> files[k].sha256]
    BY <2>1, <2>3, Zenon DEF FileAt
  <2> QED BY <2>2, <2>3, <2>4, StandardItems, Zenon DEF GoodFile
<1>4. \A k, l \in DOMAIN files : files[k].role = files[l].role => k = l
  BY Zenon DEF Lists
<1> QED BY <1>1, <1>2, <1>3, <1>4 DEF GoodFiles

LEMMA DefaultLanguages ==
  /\ IsSeq(DefaultModelLanguages) /\ DOMAIN DefaultModelLanguages = 1 .. 5
  /\ \A i \in 1 .. 5 : DefaultModelLanguages[i] \in Language
  /\ \A i, j \in 1 .. 5 : DefaultModelLanguages[i] = DefaultModelLanguages[j] => i = j
  /\ DefaultModelLanguages = LanguageOrder
<1>1. DefaultModelLanguages = LanguageOrder /\ DOMAIN LanguageOrder = 1 .. 5
  BY DEF DefaultModelLanguages, LanguageOrder
<1>2. IsSeq(LanguageOrder)
  BY DEF IsSeq, LanguageOrder
<1>3. \A i \in 1 .. 5 : LanguageOrder[i] \in Language
  BY <1>1, Zenon DEF Language
<1>4. \A i, j \in 1 .. 5 : LanguageOrder[i] = LanguageOrder[j] => i = j
  BY DEF LanguageOrder
<1> QED BY <1>1, <1>2, <1>3, <1>4, Zenon

LEMMA NoRepeats ==
  ASSUME NEW s, IsSeq(s), \A i, j \in DOMAIN s : s[i] = s[j] => i = j
  PROVE  Repeats(s) = {}
<1>1. PICK n \in Nat : s = [i \in 1 .. n |-> s[i]]
  BY DEF IsSeq
<1>2. DOMAIN s = 1 .. n
  BY <1>1
<1>3. ASSUME NEW i \in DOMAIN s, NEW j \in 1 .. i - 1, s[j] = s[i] PROVE FALSE
  <2>1. j \in DOMAIN s /\ j # i
    BY <1>2, <1>3
  <2> QED BY <1>3, <2>1
<1> QED BY <1>3 DEF Repeats

(* The manifest that is written, when no argument is blank.                *)
Named(names) == \A i \in DOMAIN NAMES : names[NAMES[i]] # None
NewManifest(names, files) ==
  [schema_version |-> SCHEMA_VERSION, model_id |-> names.model_id,
   version |-> names.version, architecture |-> names.architecture,
   runtime |-> names.runtime, license |-> names.license,
   languages |-> DefaultModelLanguages, files |-> files]

LEMMA NamesChecked ==
  ASSUME NEW names
  PROVE  IsSeq(NameChecks(names)) /\ (Clean(NameChecks(names)) <=> Named(names))
<1>1. DOMAIN NAMES = 1 .. 5
  BY DEF NAMES
<1>2. IsSeq(NameChecks(names))
  BY <1>1 DEF IsSeq, NameChecks
<1>3. DOMAIN NameChecks(names) = DOMAIN NAMES
  BY DEF NameChecks
<1>4. \A i \in DOMAIN NAMES : NameChecks(names)[i][1] = (names[NAMES[i]] = None)
  BY Zenon DEF NameChecks
<1>5. Clean(NameChecks(names)) <=> Named(names)
  BY <1>3, <1>4, Zenon DEF Clean, Named
<1> QED BY <1>2, <1>5

LEMMA TwoChecks ==
  ASSUME NEW check, NEW next
  PROVE  /\ IsSeq(<< check, next >>) /\ DOMAIN << check, next >> = {1, 2}
         /\ << check, next >>[1] = check /\ << check, next >>[2] = next
<1>1. IsSeq(<< check, next >>)
  BY DEF IsSeq
<1> QED BY <1>1

LEMMA CleanTwo ==
  ASSUME NEW check, NEW next, ~ check[1], ~ next[1]
  PROVE  IsSeq(<< check, next >>) /\ Clean(<< check, next >>)
<1>1. PICK pair : pair = << check, next >>
  OBVIOUS
<1>2. IsSeq(pair) /\ DOMAIN pair = {1, 2} /\ pair[1] = check /\ pair[2] = next
  BY <1>1, TwoChecks
<1>3. Clean(pair)
  BY <1>2, Zenon DEF Clean
<1> QED BY <1>1, <1>2, <1>3, Zenon

LEMMA DistinctChecked ==
  ASSUME NEW s, IsSeq(s), \A i, j \in DOMAIN s : s[i] = s[j] => i = j
  PROVE  /\ IsSeq(DistinctLanguagesChecks(s)) /\ Clean(DistinctLanguagesChecks(s))
         /\ s # << >> => IsSeq(ValidFilesChecks(s)) /\ Clean(ValidFilesChecks(s))
<1>1. Repeats(s) = {}
  BY NoRepeats, Zenon
<1>2. IsSeq(DistinctLanguagesChecks(s)) /\ Clean(DistinctLanguagesChecks(s))
  <2>1. IsSeq(DistinctLanguagesChecks(s))
    BY DEF IsSeq, DistinctLanguagesChecks
  <2>2. DistinctLanguagesChecks(s)[1][1] = (Repeats(s) # {})
    BY Zenon DEF DistinctLanguagesChecks
  <2>3. DOMAIN DistinctLanguagesChecks(s) = {1}
    BY OneCheck, Zenon DEF DistinctLanguagesChecks
  <2> QED BY <1>1, <2>1, <2>2, <2>3, Zenon DEF Clean
<1>3. ASSUME s # << >> PROVE IsSeq(ValidFilesChecks(s)) /\ Clean(ValidFilesChecks(s))
  <2> DEFINE empty == << s = << >>, "EmptyFileList" >>
             double == << Repeats(s) # {}, "DuplicateFileRole" >>
  <2>2. ~ empty[1] /\ ~ double[1]
    BY <1>1, <1>3
  <2>1. ValidFilesChecks(s) = << empty, double >>
    BY DEF ValidFilesChecks
  <2> HIDE DEF empty, double
  <2> QED BY <2>1, <2>2, CleanTwo, Zenon
<1> QED BY <1>2, <1>3

LEMMA RolesChecked ==
  ASSUME NEW files, GoodFiles(files)
  PROVE  /\ IsSeq(ValidFilesChecks(Roles(files))) /\ Clean(ValidFilesChecks(Roles(files)))
<1>1. PICK n \in Nat : files = [i \in 1 .. n |-> files[i]]
  BY DEF GoodFiles, IsSeq
<1>2. DOMAIN files = 1 .. n
  BY <1>1
<1>3. IsSeq(Roles(files)) /\ DOMAIN Roles(files) = DOMAIN files
  BY <1>2 DEF IsSeq, Roles
<1>4. \A i \in DOMAIN files : Roles(files)[i] = files[i].role
  BY DEF Roles
<1>5. \A i, j \in DOMAIN Roles(files) : Roles(files)[i] = Roles(files)[j] => i = j
  BY <1>3, <1>4, Zenon DEF GoodFiles
<1>6. Roles(files) # << >>
  <2>1. n # 0
    BY <1>1 DEF GoodFiles
  <2> QED BY <1>2, <1>3, <2>1
<1> QED BY <1>3, <1>5, <1>6, DistinctChecked, Zenon

LEMMA WrittenIsAccepted ==
  ASSUME NEW names, NEW files, GoodFiles(files)
  PROVE  NewCurrent(names, DefaultModelLanguages, files) = Ok(NewManifest(names, files))
<1> DEFINE distinct == DistinctLanguagesChecks(DefaultModelLanguages)
           valid == ValidFilesChecks(Roles(files))
<1>1. IsSeq(distinct) /\ Clean(distinct)
  BY DefaultLanguages, DistinctChecked, Zenon
<1>2. IsSeq(valid) /\ Clean(valid)
  BY RolesChecked
<1>3. NewCurrent(names, DefaultModelLanguages, files) =
        Checked(distinct \o valid, NewManifest(names, files))
  BY DEF NewCurrent, NewManifest
<1> HIDE DEF distinct, valid
<1>4. Clean(distinct \o valid)
  BY <1>1, <1>2, CleanConcat, Zenon
<1> QED BY <1>3, <1>4, CheckedOk, Zenon

(* What is written is read back.                                           *)
RawFilesOf(files) == [i \in DOMAIN files |-> RawFile(files[i])]

LEMMA RawIs ==
  ASSUME NEW names, NEW files
  PROVE  /\ ToRaw(NewManifest(names, files)).languages = Codes(DefaultModelLanguages)
         /\ ToRaw(NewManifest(names, files)).files = RawFilesOf(files)
         /\ ToRaw(NewManifest(names, files)).schema_version = SCHEMA_VERSION
         /\ Named(names) => Named(ToRaw(NewManifest(names, files)))
         /\ [ToRaw(NewManifest(names, files)) EXCEPT
               !.languages = DefaultModelLanguages, !.files = files] = NewManifest(names, files)
<1>1. PICK s, m, v, a, r, l : /\ s = SCHEMA_VERSION /\ m = names.model_id /\ v = names.version
                              /\ a = names.architecture /\ r = names.runtime /\ l = names.license
  OBVIOUS
<1> DEFINE With(p, q) ==
      [schema_version |-> s, model_id |-> m, version |-> v, architecture |-> a,
       runtime |-> r, license |-> l, languages |-> p, files |-> q]
<1>2. PICK written : written = NewManifest(names, files)
  OBVIOUS
<1>3. written = With(DefaultModelLanguages, files)
  BY <1>1, <1>2, Zenon DEF NewManifest
<1>4. PICK raw : raw = ToRaw(written)
  OBVIOUS
<1>5. ASSUME NEW old, NEW p, NEW q, old = With(p, q), NEW x, NEW y, NEW new,
             new = [old EXCEPT !.languages = x, !.files = y]
      PROVE  new = With(x, y)
  BY <1>5
<1>6. ASSUME NEW p, NEW q
      PROVE  With(p, q).languages = p /\ With(p, q).files = q /\ With(p, q).schema_version = s
  OBVIOUS
<1>7. ASSUME NEW p, NEW q, NEW i \in DOMAIN NAMES
      PROVE  With(p, q)[NAMES[i]] = names[NAMES[i]]
  BY <1>1 DEF NAMES
<1> HIDE DEF With
<1>8. raw = With(Codes(DefaultModelLanguages), RawFilesOf(files))
  <2>1. raw = [written EXCEPT !.languages = Codes(DefaultModelLanguages),
                              !.files = RawFilesOf(files)]
    BY <1>2, <1>4 DEF ToRaw, NewManifest, RawFilesOf
  <2> QED BY <1>3, <1>5, <2>1, Zenon
<1>9. [raw EXCEPT !.languages = DefaultModelLanguages, !.files = files] = written
  <2>1. PICK back : back = [raw EXCEPT !.languages = DefaultModelLanguages, !.files = files]
    OBVIOUS
  <2>2. PICK l0, f0 : raw = With(l0, f0)
    BY <1>8, Zenon
  <2>3. PICK l1, f1 : l1 = DefaultModelLanguages /\ f1 = files
    OBVIOUS
  <2>4. back = With(l1, f1)
    <3>1. back = [raw EXCEPT !.languages = l1, !.files = f1]
      BY <2>1, <2>3, Zenon
    <3> QED BY <2>2, <3>1 DEF With
  <2> QED BY <1>3, <2>1, <2>3, <2>4, Zenon
<1>10. /\ raw.languages = Codes(DefaultModelLanguages) /\ raw.files = RawFilesOf(files)
       /\ raw.schema_version = SCHEMA_VERSION
       /\ \A i \in DOMAIN NAMES : raw[NAMES[i]] = names[NAMES[i]]
  BY <1>1, <1>6, <1>7, <1>8
<1>11. Named(names) => Named(raw)
  BY <1>10 DEF Named
<1> QED BY <1>2, <1>4, <1>9, <1>10, <1>11, Zenon

LEMMA CodesAccepted ==
  LET codes == Codes(DefaultModelLanguages) IN
  /\ IsSeq(codes) /\ DOMAIN codes = 1 .. 5
  /\ \A i \in 1 .. 5 : FromIso639_1(codes[i]) = Ok(DefaultModelLanguages[i])
  /\ IsSeq(LanguageCodeChecks(codes)) /\ Clean(LanguageCodeChecks(codes))
  /\ IsSeq(DistinctLanguagesChecks(codes)) /\ Clean(DistinctLanguagesChecks(codes))
<1> DEFINE codes == Codes(DefaultModelLanguages)
<1>1. DOMAIN codes = 1 .. 5 /\ \A i \in 1 .. 5 : codes[i] = Iso639_1[DefaultModelLanguages[i]]
  BY DefaultLanguages, Zenon DEF Codes
<1>2. IsSeq(codes)
  BY DefaultLanguages DEF Codes, IsSeq
<1> HIDE DEF codes
<1>3. ASSUME NEW i \in 1 .. 5 PROVE FromIso639_1(codes[i]) = Ok(DefaultModelLanguages[i])
  BY <1>1, <1>3, CodesAreDistinct, DefaultLanguages, Zenon
<1>4. ASSUME NEW i \in DOMAIN codes, NEW j \in DOMAIN codes, codes[i] = codes[j] PROVE i = j
  <2>1. i \in 1 .. 5 /\ j \in 1 .. 5
    BY <1>1
  <2>2. Ok(DefaultModelLanguages[i]) = Ok(DefaultModelLanguages[j])
    BY <1>3, <1>4, <2>1, Zenon
  <2>3. DefaultModelLanguages[i] = DefaultModelLanguages[j]
    BY <2>2, Results, Zenon
  <2> QED BY <2>1, <2>3, DefaultLanguages, Zenon
<1>5. IsSeq(LanguageCodeChecks(codes))
  BY <1>1 DEF IsSeq, LanguageCodeChecks
<1>6. Clean(LanguageCodeChecks(codes))
  <2> SUFFICES ASSUME NEW i \in DOMAIN LanguageCodeChecks(codes)
               PROVE  ~ LanguageCodeChecks(codes)[i][1]
    BY DEF Clean
  <2>1. i \in 1 .. 5
    BY <1>1 DEF LanguageCodeChecks
  <2>2. FromIso639_1(codes[i]).ok
    BY <1>3, <2>1, Results, Zenon
  <2> DEFINE refused == ~ FromIso639_1(codes[i]).ok
  <2>3. LanguageCodeChecks(codes)[i] = << refused, "InvalidLanguage" >>
    BY <1>1, <2>1, Zenon DEF LanguageCodeChecks
  <2>4. ~ refused
    BY <2>2
  <2> HIDE DEF refused
  <2> QED BY <2>3, <2>4
<1>7. IsSeq(DistinctLanguagesChecks(codes)) /\ Clean(DistinctLanguagesChecks(codes))
  BY <1>2, <1>4, DistinctChecked, Zenon
<1> QED BY <1>1, <1>2, <1>3, <1>5, <1>6, <1>7 DEF codes

LEMMA ListedIs ==
  ASSUME NEW files, GoodFiles(files)
  PROVE  /\ IsSeq(RawFilesOf(files)) /\ DOMAIN RawFilesOf(files) = DOMAIN files
         /\ \A k \in DOMAIN files :
              /\ RawFilesOf(files)[k].path = files[k].path
              /\ RawFilesOf(files)[k].sha256 = files[k].sha256
              /\ RawFilesOf(files)[k].kind = RoleName[files[k].role]
              /\ ParsedFile(RawFilesOf(files)[k]) = files[k]
<1>1. PICK n \in Nat : files = [i \in 1 .. n |-> files[i]]
  BY DEF GoodFiles, IsSeq
<1>2. DOMAIN files = 1 .. n
  BY <1>1
<1>3. IsSeq(RawFilesOf(files)) /\ DOMAIN RawFilesOf(files) = DOMAIN files
  BY <1>2 DEF IsSeq, RawFilesOf
<1>4. ASSUME NEW k \in DOMAIN files
      PROVE  /\ RawFilesOf(files)[k].path = files[k].path
             /\ RawFilesOf(files)[k].sha256 = files[k].sha256
             /\ RawFilesOf(files)[k].kind = RoleName[files[k].role]
             /\ ParsedFile(RawFilesOf(files)[k]) = files[k]
  <2> DEFINE file == files[k]
             raw == RawFilesOf(files)[k]
  <2>1. GoodFile(file)
    BY <1>4 DEF GoodFiles
  <2>2. raw = RawFile(file)
    BY <1>4, Zenon DEF RawFilesOf
  <2> HIDE DEF file, raw
  <2>3. raw.path = file.path /\ raw.sha256 = file.sha256 /\ raw.kind = RoleName[file.role]
    BY <2>2 DEF RawFile
  <2>4. RoleNamed(raw.kind) = file.role
    BY <2>1, <2>3, CodesAreDistinct, Zenon DEF GoodFile
  <2>5. ParsedFile(raw) = [path |-> file.path, role |-> file.role, sha256 |-> file.sha256]
    BY <2>3, <2>4, Zenon DEF ParsedFile
  <2>6. ParsedFile(raw) = file
    BY <2>1, <2>5, Zenon DEF GoodFile
  <2> QED BY <2>3, <2>6 DEF file, raw
<1> QED BY <1>3, <1>4

LEMMA FilesAccepted ==
  ASSUME NEW files, GoodFiles(files)
  PROVE  /\ IsSeq(FileChecks(RawFilesOf(files))) /\ Clean(FileChecks(RawFilesOf(files)))
         /\ IsSeq(ValidFilesChecks(Kinds(RawFilesOf(files))))
         /\ Clean(ValidFilesChecks(Kinds(RawFilesOf(files))))
<1> DEFINE listed == RawFilesOf(files)
           kinds == Kinds(listed)
<1>1. PICK n \in Nat : files = [i \in 1 .. n |-> files[i]]
  BY DEF GoodFiles, IsSeq
<1>2. DOMAIN files = 1 .. n /\ n # 0
  <2>1. DOMAIN files = 1 .. n
    BY <1>1
  <2>2. files # << >>
    BY DEF GoodFiles
  <2> QED BY <1>1, <2>1, <2>2
<1>3. DOMAIN listed = 1 .. n /\ listed = [i \in 1 .. n |-> listed[i]]
  BY <1>2 DEF RawFilesOf
<1>4. Len(listed) = n
  <2> HIDE DEF listed
  <2> QED BY <1>3
<1>5. ASSUME NEW k \in 1 .. n
      PROVE  \A i \in 1 .. 3 : ~ ParseFileChecks(listed[k])[i][1]
  <2> DEFINE raw == listed[k]
  <2>1. GoodFile(files[k])
    BY <1>2, <1>5, Zenon DEF GoodFiles
  <2>2. /\ raw.path = files[k].path /\ raw.sha256 = files[k].sha256
        /\ raw.kind = RoleName[files[k].role]
    <3>1. k \in DOMAIN files
      BY <1>2
    <3> QED BY <3>1, ListedIs, Zenon
  <2> DEFINE relative == InvalidRelativePath(raw.path)
             known == \A role \in ModelFileRole : RoleName[role] # raw.kind
             hashed == InvalidSha256(raw.sha256)
  <2>3. ~ relative /\ ~ known /\ ~ hashed
    BY <2>1, <2>2, Zenon DEF GoodFile
  <2>4. ParseFileChecks(raw) = << << relative, "InvalidRelativePath" >>,
          << known, "UnsupportedFileRole" >>, << hashed, "InvalidSha256" >> >>
    BY Zenon DEF ParseFileChecks
  <2> HIDE DEF relative, known, hashed, raw
  <2>5. /\ ParseFileChecks(raw)[1] = << relative, "InvalidRelativePath" >>
        /\ ParseFileChecks(raw)[2] = << known, "UnsupportedFileRole" >>
        /\ ParseFileChecks(raw)[3] = << hashed, "InvalidSha256" >>
    BY <2>4
  <2>6. \A i \in 1 .. 3 : i = 1 \/ i = 2 \/ i = 3
    OBVIOUS
  <2>7. \A i \in 1 .. 3 : ~ ParseFileChecks(raw)[i][1]
    BY <2>3, <2>5, <2>6
  <2> QED BY <2>7 DEF raw
<1>6. IsSeq(FileChecks(listed)) /\ DOMAIN FileChecks(listed) = 1 .. 3 * n
  <2> HIDE DEF listed
  <2>1. 3 * n \in Nat
    OBVIOUS
  <2> QED BY <1>4, <2>1 DEF FileChecks, IsSeq
<1>7. Clean(FileChecks(listed))
  <2> SUFFICES ASSUME NEW i \in 1 .. 3 * n PROVE ~ FileChecks(listed)[i][1]
    BY <1>6 DEF Clean
  <2> HIDE DEF listed
  <2> DEFINE k == 1 + (i - 1) \div 3
             c == 1 + ((i - 1) % 3)
  <2>1. k \in 1 .. n /\ c \in 1 .. 3
    OBVIOUS
  <2>2. FileChecks(listed)[i] = ParseFileChecks(listed[k])[c]
    BY <1>4, Zenon DEF FileChecks
  <2> HIDE DEF k, c
  <2> QED BY <1>5, <2>1, <2>2, Zenon
<1>8. IsSeq(kinds) /\ DOMAIN kinds = 1 .. n /\ \A i \in 1 .. n : kinds[i] = listed[i].kind
  <2> HIDE DEF listed
  <2> QED BY <1>3 DEF Kinds, IsSeq
<1>9. ASSUME NEW i \in 1 .. n, NEW j \in 1 .. n, kinds[i] = kinds[j] PROVE i = j
  <2>0. i \in DOMAIN files /\ j \in DOMAIN files
    BY <1>2
  <2>1. RoleName[files[i].role] = RoleName[files[j].role]
    BY <1>8, <1>9, <2>0, ListedIs, Zenon
  <2>2. files[i].role \in ModelFileRole /\ files[j].role \in ModelFileRole
    BY <1>2, <1>9, Zenon DEF GoodFiles, GoodFile
  <2>3. files[i].role = files[j].role
    BY <2>1, <2>2, CodesAreDistinct, Zenon
  <2> QED BY <1>2, <1>9, <2>3, Zenon DEF GoodFiles
<1>10. kinds # << >>
  <2> HIDE DEF kinds
  <2> QED BY <1>2, <1>8
<1>11. IsSeq(ValidFilesChecks(kinds)) /\ Clean(ValidFilesChecks(kinds))
  <2> HIDE DEF kinds
  <2> QED BY <1>8, <1>9, <1>10, DistinctChecked, Zenon
<1> QED BY <1>6, <1>7, <1>11

LEMMA SixClean ==
  ASSUME NEW a, NEW b, NEW c, NEW d, NEW e, NEW f,
         IsSeq(a), IsSeq(b), IsSeq(c), IsSeq(d), IsSeq(e), IsSeq(f),
         Clean(a), Clean(b), Clean(c), Clean(d), Clean(e), Clean(f)
  PROVE  Clean(a \o b \o c \o d \o e \o f)
<1>1. IsSeq(a \o b) /\ Clean(a \o b)
  BY CleanConcat, Zenon
<1>2. IsSeq(a \o b \o c) /\ Clean(a \o b \o c)
  BY <1>1, CleanConcat, Zenon
<1>3. IsSeq(a \o b \o c \o d) /\ Clean(a \o b \o c \o d)
  BY <1>2, CleanConcat, Zenon
<1>4. IsSeq(a \o b \o c \o d \o e) /\ Clean(a \o b \o c \o d \o e)
  BY <1>3, CleanConcat, Zenon
<1> QED BY <1>4, CleanConcat, Zenon

LEMMA WrittenIsRead ==
  ASSUME NEW names, Named(names), NEW files, GoodFiles(files)
  PROVE  FromRaw(ToRaw(NewManifest(names, files))) = Ok(NewManifest(names, files))
<1>0. PICK raw : raw = ToRaw(NewManifest(names, files))
  OBVIOUS
<1> DEFINE manifest == NewManifest(names, files)
           codes == Codes(DefaultModelLanguages)
           schema == << <<raw.schema_version # SCHEMA_VERSION, "UnsupportedSchema">> >>
           languages == [i \in DOMAIN codes |-> FromIso639_1(codes[i]).value]
           parsed == [i \in DOMAIN RawFilesOf(files) |-> ParsedFile(RawFilesOf(files)[i])]
           all == schema \o LanguageCodeChecks(codes) \o DistinctLanguagesChecks(codes)
                    \o FileChecks(RawFilesOf(files)) \o ValidFilesChecks(Kinds(RawFilesOf(files)))
                    \o NameChecks(raw)
<1>1. /\ raw.languages = codes /\ raw.files = RawFilesOf(files)
      /\ raw.schema_version = SCHEMA_VERSION
      /\ Named(raw)
      /\ [raw EXCEPT !.languages = DefaultModelLanguages, !.files = files] = manifest
  <2> USE <1>0
  <2>1. /\ raw.languages = Codes(DefaultModelLanguages) /\ raw.files = RawFilesOf(files)
        /\ raw.schema_version = SCHEMA_VERSION
    BY RawIs, Zenon
  <2>2. Named(raw)
    BY RawIs, Zenon
  <2>3. [raw EXCEPT !.languages = DefaultModelLanguages, !.files = files] =
          NewManifest(names, files)
    BY RawIs, Zenon
  <2> QED BY <2>1, <2>2, <2>3, Zenon
<1>2. FromRaw(raw) = Checked(all, [raw EXCEPT !.languages = languages, !.files = parsed])
  BY <1>1, Zenon DEF FromRaw
<1>3. Clean(all)
  <2>1. IsSeq(schema) /\ Clean(schema)
    <3> DEFINE other == raw.schema_version # SCHEMA_VERSION
    <3>1. ~ other
      BY <1>1
    <3>2. schema = << << other, "UnsupportedSchema" >> >>
      OBVIOUS
    <3> HIDE DEF other, schema
    <3>3. IsSeq(schema)
      BY <3>2 DEF IsSeq
    <3>4. Clean(schema)
      BY <3>1, <3>2 DEF Clean
    <3> QED BY <3>3, <3>4
  <2>2. IsSeq(NameChecks(raw)) /\ Clean(NameChecks(raw))
    <3>1. Named(raw)
      BY <1>1
    <3> QED BY <3>1, NamesChecked, Zenon
  <2> HIDE DEF schema
  <2> QED BY <2>1, <2>2, CodesAccepted, FilesAccepted, SixClean, Zenon
<1>4. languages = DefaultModelLanguages
  <2>1. \A i \in 1 .. 5 : FromIso639_1(codes[i]).value = DefaultModelLanguages[i]
    BY CodesAccepted, Results, Zenon
  <2>2. DOMAIN codes = 1 .. 5
    BY CodesAccepted, Zenon
  <2>3. DefaultModelLanguages = [i \in 1 .. 5 |-> DefaultModelLanguages[i]]
    BY DEF DefaultModelLanguages
  <2> HIDE DEF codes
  <2> QED BY <2>1, <2>2, <2>3
<1>5. parsed = files
  <2>1. PICK n \in Nat : files = [i \in 1 .. n |-> files[i]]
    BY DEF GoodFiles, IsSeq
  <2>2. DOMAIN files = 1 .. n
    BY <2>1
  <2>3. DOMAIN RawFilesOf(files) = DOMAIN files
    BY ListedIs, Zenon
  <2>4. \A i \in DOMAIN files : ParsedFile(RawFilesOf(files)[i]) = files[i]
    BY ListedIs, Zenon
  <2> QED BY <2>1, <2>2, <2>3, <2>4
<1>6. [raw EXCEPT !.languages = languages, !.files = parsed] = manifest
  BY <1>1, <1>4, <1>5, Zenon
<1> HIDE DEF all, languages, parsed
<1> QED BY <1>0, <1>2, <1>3, <1>6, CheckedOk, Zenon

(* The path a role names is the one that is there.                         *)
LEMMA PathsAreThere ==
  ASSUME NEW directory, NEW files, Lists(directory, 7, files), NEW manifest, manifest.files = files
  PROVE  \A i \in 1 .. 7 : FilePath(manifest, Item(i).role) =
                             IF There(directory, i) THEN Item(i).path ELSE None
<1> SUFFICES ASSUME NEW i \in 1 .. 7
             PROVE  FilePath(manifest, Item(i).role) =
                      IF There(directory, i) THEN Item(i).path ELSE None
  OBVIOUS
<1> DEFINE role == Item(i).role
           those == {k \in DOMAIN files : files[k].role = role}
<1>1. FilesOf(manifest, role) = those
  BY Zenon DEF FilesOf
<1>2. ASSUME NEW k \in those PROVE There(directory, i) /\ files[k] = FileAt(directory, i)
  <2>1. PICK j \in 1 .. 7 : There(directory, j) /\ files[k] = FileAt(directory, j)
    BY <1>2, Zenon DEF Lists
  <2>2. files[k].role = Item(j).role
    BY <2>1 DEF FileAt
  <2>3. j = i
    BY <1>2, <2>2, StandardItems, Zenon
  <2> QED BY <2>1, <2>3, Zenon
<1>3. CASE ~ There(directory, i)
  <2>1. those = {}
    BY <1>2, <1>3, Zenon
  <2> QED BY <1>1, <1>3, <2>1, Zenon DEF FilePath
<1>4. CASE There(directory, i)
  <2>1. PICK k \in DOMAIN files : files[k] = FileAt(directory, i)
    BY <1>4, Zenon DEF Lists
  <2>2. k \in those
    BY <2>1 DEF FileAt
  <2>3. \A l \in those : l = k
    <3>1. \A l \in those : files[l].role = files[k].role
      BY <2>2
    <3> QED BY <2>1, <3>1, Zenon DEF Lists
  <2>4. k <= k
    <3>1. PICK n \in Nat : files = [l \in 1 .. n |-> files[l]]
      BY SeqIsSeq DEF Lists, IsSeq
    <3>2. k \in 1 .. n
      BY <3>1
    <3> QED BY <3>2
  <2> HIDE DEF those
  <2>5. (CHOOSE l \in those : \A j \in those : l <= j) = k
    BY <2>2, <2>3, <2>4, Zenon
  <2>6. those # {}
    BY <2>2
  <2>7. FilePath(manifest, role) = files[k].path
    BY <1>1, <2>5, <2>6, Zenon DEF FilePath
  <2>8. files[k].path = Item(i).path
    BY <2>1 DEF FileAt
  <2> QED BY <1>4, <2>7, <2>8, Zenon
<1> QED BY <1>3, <1>4

LEMMA ItemsAre ==
  /\ Item(1).role = "Encoder" /\ Item(1).path = <<"encoder.onnx">>
  /\ Item(2).role = "Decoder" /\ Item(2).path = <<"decoder.onnx">>
  /\ Item(3).role = "Tokenizer" /\ Item(3).path = <<"tokenizer.json">>
  /\ Item(4).role = "DecoderWithPast" /\ Item(4).path = <<"decoder-with-past.onnx">>
  /\ Item(5).role = "Vocabulary" /\ Item(5).path = <<"vocab.txt">>
  /\ Item(6).role = "Config" /\ Item(6).path = <<"config.json">>
  /\ Item(7).role = "GenerationConfig" /\ Item(7).path = <<"generation.json">>
BY DEF Item, STANDARD_MODEL_FILES, Standard

LEMMA NamedFilePaths ==
  ASSUME NEW directory, NEW files, Lists(directory, 7, files), NEW manifest, manifest.files = files
  PROVE  /\ FilePath(manifest, "Encoder") = Present(directory, <<"encoder.onnx">>)
         /\ FilePath(manifest, "Decoder") = Present(directory, <<"decoder.onnx">>)
         /\ FilePath(manifest, "Tokenizer") = Present(directory, <<"tokenizer.json">>)
         /\ FilePath(manifest, "DecoderWithPast") = Present(directory, <<"decoder-with-past.onnx">>)
         /\ FilePath(manifest, "Vocabulary") = Present(directory, <<"vocab.txt">>)
         /\ FilePath(manifest, "Config") = Present(directory, <<"config.json">>)
         /\ FilePath(manifest, "GenerationConfig") = Present(directory, <<"generation.json">>)
<1>1. ASSUME NEW i \in 1 .. 7
      PROVE  FilePath(manifest, Item(i).role) = Present(directory, Item(i).path)
  <2>1. FilePath(manifest, Item(i).role) = IF There(directory, i) THEN Item(i).path ELSE None
    BY <1>1, PathsAreThere, Zenon
  <2> QED BY <2>1, Zenon DEF Present, There
<1>2. 1 \in 1 .. 7 /\ 2 \in 1 .. 7 /\ 3 \in 1 .. 7 /\ 4 \in 1 .. 7 /\ 5 \in 1 .. 7
      /\ 6 \in 1 .. 7 /\ 7 \in 1 .. 7
  OBVIOUS
<1>3. /\ FilePath(manifest, "Encoder") = Present(directory, <<"encoder.onnx">>)
      /\ FilePath(manifest, "Decoder") = Present(directory, <<"decoder.onnx">>)
      /\ FilePath(manifest, "Tokenizer") = Present(directory, <<"tokenizer.json">>)
  BY <1>1, <1>2, ItemsAre
<1>4. /\ FilePath(manifest, "DecoderWithPast") = Present(directory, <<"decoder-with-past.onnx">>)
      /\ FilePath(manifest, "Vocabulary") = Present(directory, <<"vocab.txt">>)
  BY <1>1, <1>2, ItemsAre
<1>5. /\ FilePath(manifest, "Config") = Present(directory, <<"config.json">>)
      /\ FilePath(manifest, "GenerationConfig") = Present(directory, <<"generation.json">>)
  BY <1>1, <1>2, ItemsAre
<1> QED BY <1>3, <1>4, <1>5

(* A pack of the standard layout is planned with the files that are there. *)
LEMMA WrittenIsPlanned ==
  ASSUME None \notin StandardPaths,
         NEW directory, Required \subseteq DOMAIN directory,
         NEW files, Lists(directory, 7, files),
         NEW manifest, manifest.files = files, manifest.runtime = ONNX_RUNTIME
  PROVE  LET plan == OfflineTranslatorPlan(manifest) IN
         plan.ok /\ PlanNames(plan.value, directory)
<1> DEFINE past == Present(directory, <<"decoder-with-past.onnx">>)
           tokenizer == [tokenizer |-> <<"tokenizer.json">>,
                         vocabulary |-> Present(directory, <<"vocab.txt">>),
                         config |-> Present(directory, <<"config.json">>)]
           assets == [encoder |-> <<"encoder.onnx">>, decoder |-> <<"decoder.onnx">>,
                      decoder_with_past |-> past,
                      generation_config |-> Present(directory, <<"generation.json">>)]
           generator ==
             [model_id |-> manifest.model_id,
              encoder |-> SessionPlan(manifest, "Encoder", <<"encoder.onnx">>),
              decoder |-> SessionPlan(manifest, "Decoder", <<"decoder.onnx">>),
              decoder_with_past |-> IF past = None THEN None
                                    ELSE SessionPlan(manifest, "DecoderWithPast", past),
              config |-> Present(directory, <<"config.json">>),
              generation_config |-> Present(directory, <<"generation.json">>)]
<1>1. \A i \in 1 .. 7 : Item(i).path # None
  BY StandardItems, Zenon
<1>2. /\ <<"encoder.onnx">> # None /\ <<"decoder.onnx">> # None /\ <<"tokenizer.json">> # None
      /\ <<"decoder-with-past.onnx">> # None
  <2>1. 1 \in 1 .. 7 /\ 2 \in 1 .. 7 /\ 3 \in 1 .. 7 /\ 4 \in 1 .. 7
    OBVIOUS
  <2> QED BY <1>1, <2>1, ItemsAre
<1>3. /\ Present(directory, <<"encoder.onnx">>) = <<"encoder.onnx">>
      /\ Present(directory, <<"decoder.onnx">>) = <<"decoder.onnx">>
      /\ Present(directory, <<"tokenizer.json">>) = <<"tokenizer.json">>
  BY Zenon DEF Present, Required
<1>4. TokenizerAssetPlan(manifest) = Ok(tokenizer)
  <2> DEFINE missing == Missing(manifest, "Tokenizer")
             checks == << << missing, "MissingTokenizerAsset" >> >>
  <2>1. ~ missing
    BY <1>2, <1>3, NamedFilePaths, Zenon DEF Missing
  <2>2. Clean(checks)
    <3> HIDE DEF missing
    <3> QED BY <2>1 DEF Clean
  <2>3. TokenizerAssetPlan(manifest) = Checked(checks, tokenizer)
    BY <1>3, NamedFilePaths, Zenon DEF TokenizerAssetPlan
  <2> HIDE DEF checks, tokenizer
  <2> QED BY <2>2, <2>3, CheckedOk, Zenon
<1>5. GeneratorAssetPlan(manifest) = Ok(assets)
  <2> DEFINE encoder == << Missing(manifest, "Encoder"), "MissingEncoder" >>
             decoder == << Missing(manifest, "Decoder"), "MissingDecoder" >>
  <2>1. ~ Missing(manifest, "Encoder") /\ ~ Missing(manifest, "Decoder")
    BY <1>2, <1>3, NamedFilePaths, Zenon DEF Missing
  <2>2. ~ encoder[1] /\ ~ decoder[1]
    BY <2>1
  <2>3. GeneratorAssetPlan(manifest) = Checked(<< encoder, decoder >>, assets)
    BY <1>3, NamedFilePaths, Zenon DEF GeneratorAssetPlan
  <2> HIDE DEF encoder, decoder, assets
  <2> QED BY <2>2, <2>3, CleanTwo, CheckedOk, Zenon
<1>6. OrtGeneratorPlan(manifest) = Ok(generator)
  <2>1. /\ assets.encoder = <<"encoder.onnx">> /\ assets.decoder = <<"decoder.onnx">>
        /\ assets.decoder_with_past = past
        /\ assets.generation_config = Present(directory, <<"generation.json">>)
    BY Zenon
  <2>2. FilePath(manifest, "Config") = Present(directory, <<"config.json">>)
    BY NamedFilePaths, Zenon
  <2>3. OrtGeneratorPlan(manifest) = GeneratorPlanOf(manifest, Ok(assets))
    BY <1>5, Zenon DEF OrtGeneratorPlan
  <2>4. Ok(assets).ok /\ Ok(assets).value = assets
    BY Results, Zenon
  <2> HIDE DEF assets
  <2> QED BY <2>1, <2>2, <2>3, <2>4, Zenon DEF GeneratorPlanOf
<1>7. OfflineTranslatorPlan(manifest) = Ok([tokenizer |-> tokenizer, generator |-> generator])
  <2> HIDE DEF tokenizer, generator
  <2> QED BY <1>4, <1>6, Results, Zenon DEF OfflineTranslatorPlan, TranslatorPlanOf
<1>8. PlanNames([tokenizer |-> tokenizer, generator |-> generator], directory)
  <2>1. /\ generator.encoder.path = <<"encoder.onnx">> /\ generator.decoder.path = <<"decoder.onnx">>
        /\ generator.generation_config = Present(directory, <<"generation.json">>)
    BY DEF SessionPlan
  <2>2. IF <<"decoder-with-past.onnx">> \in DOMAIN directory
        THEN generator.decoder_with_past.path = <<"decoder-with-past.onnx">>
        ELSE generator.decoder_with_past = None
    <3>1. CASE <<"decoder-with-past.onnx">> \in DOMAIN directory
      <4>1. past = <<"decoder-with-past.onnx">>
        BY <3>1, Zenon DEF Present
      <4>2. generator.decoder_with_past = SessionPlan(manifest, "DecoderWithPast", past)
        BY <1>2, <4>1, Zenon
      <4> HIDE DEF generator, past
      <4>3. generator.decoder_with_past.path = past
        <5>1. SessionPlan(manifest, "DecoderWithPast", past).path = past
          BY DEF SessionPlan
        <5> QED BY <4>2, <5>1, Zenon
      <4> QED BY <3>1, <4>1, <4>3, Zenon
    <3>2. CASE <<"decoder-with-past.onnx">> \notin DOMAIN directory
      <4>1. past = None
        BY <3>2, Zenon DEF Present
      <4>2. generator.decoder_with_past = None
        BY <4>1, Zenon
      <4> HIDE DEF generator
      <4> QED BY <3>2, <4>2, Zenon
    <3> QED BY <3>1, <3>2, Zenon
  <2> HIDE DEF generator
  <2>3. PICK plan : plan = [tokenizer |-> tokenizer, generator |-> generator]
    OBVIOUS
  <2>4. plan.tokenizer = tokenizer /\ plan.generator = generator
    BY <2>3, Zenon
  <2>5. PlanNames(plan, directory)
    BY <2>1, <2>2, <2>4, Zenon DEF PlanNames
  <2> QED BY <2>3, <2>5, Zenon
<1> HIDE DEF tokenizer, generator
<1>9. /\ OfflineTranslatorPlan(manifest).ok
      /\ OfflineTranslatorPlan(manifest).value = [tokenizer |-> tokenizer, generator |-> generator]
  BY <1>7, Results, Zenon
<1> QED BY <1>8, <1>9, Zenon

(* Whatever the directory and the arguments: a manifest is written if and  *)
(* only if the required files are there and no argument is blank; what is  *)
(* written is read back as it was, names every language a pack must have,  *)
(* and a pack for the ONNX runtime is planned with exactly the files that  *)
(* are there (write_manifest, standard_model_files, new_current, from_raw, *)
(* the plans).                                                             *)
THEOREM EveryManifestOpens ==
  ASSUME None \notin StandardPaths, NEW names,
         NEW directory, \A path \in DOMAIN directory : ~ InvalidSha256(directory[path])
  PROVE  WrittenManifestOpens(names, directory)
<1> DEFINE files == StandardModelFiles(directory)
           written == WriteManifest(names, directory)
<1>1. Fails(NameChecks(names)) = {} <=> Named(names)
  BY NamesChecked, Zenon DEF Fails, Clean
<1>2. files.ok <=> Required \subseteq DOMAIN directory
  BY RequiredAreThere, Zenon
<1>3. CASE ~ Named(names)
  <2>1. written = Checked(NameChecks(names), names)
    BY <1>1, <1>3, Zenon DEF WriteManifest
  <2>2. ~ written.ok
    BY <1>3, <2>1, NamesChecked, CheckedOk, Zenon
  <2> QED BY <1>3, <2>2, Zenon DEF WrittenManifestOpens, Named
<1>4. CASE Named(names) /\ ~ files.ok
  <2>1. ~ written.ok
    BY <1>1, <1>4, Zenon DEF WriteManifest
  <2> QED BY <1>2, <1>4, <2>1, Zenon DEF WrittenManifestOpens, Required
<1>5. CASE Named(names) /\ files.ok
  <2> DEFINE manifest == NewManifest(names, files.value)
  <2>1. Lists(directory, 7, files.value)
    BY <1>5, FilesAreListed, Zenon
  <2>2. There(directory, 1)
    <3>1. 1 \in 1 .. 3
      OBVIOUS
    <3> QED BY <1>2, <1>5, <3>1, RequiredAreThere, Zenon
  <2>3. GoodFiles(files.value)
    BY <2>1, <2>2, FilesAreGood, Zenon
  <2>4. written = NewCurrent(names, DefaultModelLanguages, files.value)
    BY <1>1, <1>5, Zenon DEF WriteManifest
  <2>5. written = Ok(manifest)
    BY <2>3, <2>4, WrittenIsAccepted, Zenon
  <2>6. FromRaw(ToRaw(manifest)) = Ok(manifest)
    BY <1>5, <2>3, WrittenIsRead, Zenon
  <2>7. /\ manifest.languages = DefaultModelLanguages /\ manifest.files = files.value
        /\ manifest.runtime = names.runtime
    <3> HIDE DEF files
    <3> QED BY DEF NewManifest
  <2> HIDE DEF manifest
  <2>8. ~ MissingRequiredLanguage(manifest)
    <3>1. \A i \in DOMAIN REQUIRED_LANGUAGES : manifest.languages[i] = REQUIRED_LANGUAGES[i]
                                               /\ i \in DOMAIN manifest.languages
      BY <2>7, DefaultLanguages, Zenon DEF REQUIRED_LANGUAGES
    <3> QED BY <3>1, Zenon DEF MissingRequiredLanguage, Supports
  <2>9. ASSUME names.runtime = ONNX_RUNTIME
        PROVE  LET plan == OfflineTranslatorPlan(manifest) IN
               plan.ok /\ PlanNames(plan.value, directory)
    BY <1>2, <1>5, <2>1, <2>7, <2>9, WrittenIsPlanned, Zenon
  <2>10. written.ok /\ written.value = manifest
    BY <2>5, Results, Zenon
  <2>11. FromRaw(ToRaw(written.value)) = written
    BY <2>5, <2>6, <2>10, Zenon
  <2> HIDE DEF written
  <2>12. /\ written.ok <=> /\ Required \subseteq DOMAIN directory
                           /\ \A i \in DOMAIN NAMES : names[NAMES[i]] # None
    BY <1>2, <1>5, <2>10, Zenon DEF Named
  <2> QED BY <2>8, <2>9, <2>10, <2>11, <2>12, Zenon DEF WrittenManifestOpens, Required, written
<1> QED BY <1>3, <1>4, <1>5, Zenon
=============================================================================
