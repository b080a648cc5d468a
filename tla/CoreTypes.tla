----------------------------- MODULE CoreTypes -----------------------------
(***************************************************************************)
(* The value types every crate of localmt is built from: languages and     *)
(* pairs, bounded text, translation requests (localmt-core), the mock      *)
(* engine behind the TranslatorEngine trait (localmt-engine), and the two  *)
(* shapes of a Rust Result.  A constructor that may refuse its arguments   *)
(* is an operator that returns Ok(value) or Err(error).                    *)
(***************************************************************************)
EXTENDS Naturals, Sequences

CONSTANTS None,      \* Option::None
          NonFinite  \* a float that is a NaN or an infinity

Ok(value) == [ok |-> TRUE, value |-> value]
Err(error) == [ok |-> FALSE, error |-> error]

(* A file on disk is given as the Result of reading it and parsing it into *)
(* the shape wanted.                                                       *)

(* A chain of `?`: the error of the first check that fails, Ok(value) when *)
(* none does.  A check is a pair <<it fails, the error it returns>>.       *)
Fails(checks) == {i \in DOMAIN checks : checks[i][1]}
FirstFailure(checks) ==
  checks[CHOOSE i \in Fails(checks) : \A j \in Fails(checks) : i <= j][2]
Checked(checks, value) ==
  IF Fails(checks) = {} THEN Ok(value) ELSE Err(FirstFailure(checks))

----------------------------------------------------------------------------
(* Languages, in the order of the enumeration and of every array of them.  *)
LanguageOrder == <<"English", "Russian", "Thai", "Vietnamese", "Japanese">>
Language == {LanguageOrder[i] : i \in DOMAIN LanguageOrder}

Iso639_1 == [English |-> "en", Russian |-> "ru", Thai |-> "th",
             Vietnamese |-> "vi", Japanese |-> "ja"]

FromIso639_1(code) ==
  IF \E language \in Language : Iso639_1[language] = code
  THEN Ok(CHOOSE language \in Language : Iso639_1[language] = code)
  ELSE Err("UnsupportedLanguageCode")

LanguagePair(source, target) ==
  Checked(<< <<source = target, "SameLanguage">> >>,
          [source |-> source, target |-> target])

----------------------------------------------------------------------------
(* A text is the number of its characters and of those left by trim().     *)
MAX_TEXT_CHARS == 4096

NonEmptyText(text) ==
  Checked(<< <<text.trimmed = 0, "Empty">>,
             <<text.chars > MAX_TEXT_CHARS, "TooLong">> >>, text)

TranslateRequest(source, target, text) ==
  LET pair == LanguagePair(source, target) IN
  IF pair.ok THEN Ok([pair |-> pair.value, text |-> text]) ELSE pair

(* The mock engine prefixes "[en->ru] ": a text at the limit is refused as *)
(* output although it was accepted as input.                               *)
MOCK_PREFIX_CHARS == 9
MockEngineTranslate(request) ==
  NonEmptyText([chars |-> request.text.chars + MOCK_PREFIX_CHARS,
                trimmed |-> request.text.trimmed + MOCK_PREFIX_CHARS])
============================================================================
