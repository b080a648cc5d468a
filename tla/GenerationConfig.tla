-------------------------- MODULE GenerationConfig --------------------------
(***************************************************************************)
(* The generation config of a model pack (localmt-pipeline): the JSON file *)
(* as serde leaves it, and the checks that turn it into the limit, the     *)
(* special tokens and the language tokens the generator runs with.         *)
(***************************************************************************)
EXTENDS Tokenizers

CONSTANT TokenId   \* the token ids of the model, u32

DEFAULT_MAX_NEW_TOKENS == 128

(* A file that parsed as JSON; keys that may be absent are None.           *)
RawGenerationConfig ==
  [max_new_tokens : Nat \cup {None}, bos_token_id : TokenId, eos_token_id : TokenId,
   decoder_start_token_id : TokenId \cup {None}, language_token_ids : [Language -> TokenId]]

----------------------------------------------------------------------------
MaxNewTokensChecks(value) ==
  << <<value = 0, [kind |-> "EmptyMaxNewTokens"]>>,
     <<value > MAX_TOKENS, [kind |-> "MaxNewTokensTooLarge", actual |-> value]>> >>

SpecialTokensChecks(bos, eos) ==
  << <<bos = eos, [kind |-> "DuplicateSpecialToken", token |-> bos]>> >>

(* The two nested loops over the five languages: each with every later one.*)
LaterPairs ==
  << <<1, 2>>, <<1, 3>>, <<1, 4>>, <<1, 5>>, <<2, 3>>, <<2, 4>>, <<2, 5>>, <<3, 4>>,
     <<3, 5>>, <<4, 5>> >>
LanguageTokensChecks(ids) ==
  [i \in DOMAIN LaterPairs |->
     LET first == LanguageOrder[LaterPairs[i][1]]
         second == LanguageOrder[LaterPairs[i][2]]
     IN <<ids[first] = ids[second],
          [kind |-> "DuplicateLanguageToken", first |-> first, second |-> second,
           token |-> ids[first]]>>]

(* Mutant of CollisionChecks: only BOS is looked at.                       *)
CollisionChecksBos(bos, eos, ids) ==
  [i \in DOMAIN LanguageOrder |->
     <<ids[LanguageOrder[i]] = bos,
       [kind |-> "LanguageTokenCollidesWithSpecialToken", language |-> LanguageOrder[i],
        special |-> "Bos", token |-> bos]>>]

(* Each language is compared with BOS, then with EOS.                      *)
CollisionChecks(bos, eos, ids) ==
  [i \in 1 .. 2 * Len(LanguageOrder) |->
     LET language == LanguageOrder[(i + 1) \div 2]
         special == IF i % 2 = 1 THEN bos ELSE eos
     IN <<ids[language] = special,
          [kind |-> "LanguageTokenCollidesWithSpecialToken", language |-> language,
           special |-> IF i % 2 = 1 THEN "Bos" ELSE "Eos", token |-> special]>>]

----------------------------------------------------------------------------
LimitOf(raw) ==
  IF raw.max_new_tokens = None THEN DEFAULT_MAX_NEW_TOKENS ELSE raw.max_new_tokens

(* What GenerationConfig keeps and its accessors return.                   *)
ConfigOf(raw) ==
  [max_new_tokens |-> LimitOf(raw), bos_token_id |-> raw.bos_token_id,
   eos_token_id |-> raw.eos_token_id,
   decoder_start_token_id |-> raw.decoder_start_token_id,
   language_tokens |-> raw.language_token_ids]

(* The limit, the special tokens, the languages, then both together.       *)
TryIntoConfig(raw) ==
  Checked(MaxNewTokensChecks(LimitOf(raw))
          \o SpecialTokensChecks(raw.bos_token_id, raw.eos_token_id)
          \o LanguageTokensChecks(raw.language_token_ids)
          \o CollisionChecks(raw.bos_token_id, raw.eos_token_id, raw.language_token_ids),
          ConfigOf(raw))

FromJsonFile(file) == IF file.ok THEN TryIntoConfig(file.value) ELSE file

----------------------------------------------------------------------------
(* What the five groups of checks amount to: the limit is in its range and *)
(* the two special tokens and the five language tokens are seven tokens.   *)
DistinctTokens(ids) ==
  \A i, j \in DOMAIN LanguageOrder : i # j => ids[LanguageOrder[i]] # ids[LanguageOrder[j]]
Usable(raw) ==
  /\ LimitOf(raw) \in 1 .. MAX_TOKENS
  /\ raw.bos_token_id # raw.eos_token_id
  /\ DistinctTokens(raw.language_token_ids)
  /\ \A language \in Language :
       raw.language_token_ids[language] \notin {raw.bos_token_id, raw.eos_token_id}
============================================================================
