----------------------------- MODULE Tokenizers -----------------------------
(***************************************************************************)
(* Token sequences and the two tokenizers behind the TokenizerEngine trait *)
(* (localmt-tokenizer): the mock, one token per UTF-8 byte, and the one    *)
(* that wraps a Hugging Face tokenizer.json.  Composed with the echoing    *)
(* MockTokenGenerator the first is the mock translator of the facade and   *)
(* of the benchmark.                                                       *)
(*                                                                         *)
(* A text adds to CoreTypes the number of its UTF-8 bytes.  A vocabulary   *)
(* is the partial map from special names to ids of a tokenizer.json.       *)
(***************************************************************************)
EXTENDS CoreTypes

MAX_TOKENS == MAX_TEXT_CHARS * 4

Text(maxChars) ==
  {t \in [chars : 0 .. maxChars, trimmed : 0 .. maxChars, bytes : 0 .. 4 * maxChars] :
     t.trimmed <= t.chars /\ t.chars <= t.bytes /\ t.bytes <= 4 * t.chars}

(* TokenSequence::new, on the length of the vector.                        *)
TokenSequence(len, sequence) ==
  Checked(<< <<len = 0, "EmptyTokenSequence">>,
             <<len > MAX_TOKENS, "TokenSequenceTooLong">> >>, sequence)

----------------------------------------------------------------------------
(* A mock sequence: its length, whether every token is a byte, and the     *)
(* text whose bytes these are, None when they are not UTF-8.               *)
MockSequence(len, areBytes, text) == [len |-> len, areBytes |-> areBytes, text |-> text]

MockEncode(request) ==
  TokenSequence(request.text.bytes, MockSequence(request.text.bytes, TRUE, request.text))

MockDecode(tokens) ==
  LET decoded == NonEmptyText(tokens.text) IN
  IF ~ tokens.areBytes THEN Err("InvalidMockToken")
  ELSE IF tokens.text = None THEN Err("InvalidUtf8")
  ELSE decoded

(* translate_pipeline over the mock tokenizer and the echoing generator.   *)
MockGenerate(tokens) == Ok(tokens)
MockPipeline(request) ==
  LET encoded == MockEncode(request) IN
  IF ~ encoded.ok THEN encoded
  ELSE LET generated == MockGenerate(encoded.value) IN MockDecode(generated.value)

----------------------------------------------------------------------------
NllbName == [English |-> "eng_Latn", Russian |-> "rus_Cyrl", Thai |-> "tha_Thai",
             Vietnamese |-> "vie_Latn", Japanese |-> "jpn_Jpan"]
NllbEos == "</s>"
NllbNames == {NllbName[language] : language \in Language} \cup {NllbEos}

(* All six names or none: one missing name turns the framing off.          *)
HasNllbLanguageTokens(vocabulary) == NllbNames \subseteq DOMAIN vocabulary

HfFromFile(file) ==
  IF file.ok
  THEN Ok([vocabulary |-> file.value, nllb |-> HasNllbLanguageTokens(file.value)])
  ELSE file

(* plain[special] is what the wrapped tokenizer makes of the text with and *)
(* without its own special tokens.                                         *)
HfEncodeIds(tokenizer, request, plain) ==
  IF tokenizer.nllb
  THEN <<tokenizer.vocabulary[NllbName[request.pair.source]]>> \o plain[FALSE]
       \o <<tokenizer.vocabulary[NllbEos]>>
  ELSE plain[TRUE]

HfEncode(tokenizer, request, plain) ==
  LET ids == HfEncodeIds(tokenizer, request, plain) IN TokenSequence(Len(ids), ids)
=============================================================================
