---------------------------- MODULE MCPureParts ----------------------------
(***************************************************************************)
(* Inputs of the pure parts, where their tests change their answer.        *)
(***************************************************************************)
EXTENDS PureParts, TLC

----------------------------------------------------------------------------
(* Generation configs one or two changes away from a usable one.           *)
Keys == {"bos", "eos"} \cup Language
Base ==
  [English |-> 2, Russian |-> 3, Thai |-> 4, Vietnamese |-> 5, Japanese |-> 6, bos |-> 0, eos |-> 1]
RawOf(ids, limit) ==
  [max_new_tokens |-> limit, bos_token_id |-> ids.bos, eos_token_id |-> ids.eos,
   decoder_start_token_id |-> None,
   language_token_ids |-> [language \in Language |-> ids[language]]]
mcRawGenerations ==
  {RawOf([[Base EXCEPT ![k] = i] EXCEPT ![l] = j], None) :
     k \in Keys, l \in Keys, i \in TokenId, j \in TokenId}
  \cup {RawOf([Base EXCEPT ![k] = i], limit) :
          k \in Keys, i \in TokenId, limit \in {0, 1, MAX_TOKENS, MAX_TOKENS + 1}}

(* Manifests of any part of the standard layout, for any runtime.          *)
mcManifestNames ==
  {[model_id |-> id, version |-> "1", architecture |-> "m2m", runtime |-> name,
    license |-> "MIT"] : id \in {"id", None}, name \in {ONNX_RUNTIME, LLAMA_CPP_RUNTIME, None}}
Digest == [i \in 1 .. 64 |-> "0"]
mcDirectories == UNION {[paths -> {Digest}] : paths \in SUBSET StandardPaths}

(* Logits up to rank four, with sizes whose product wraps (past USIZE_MAX) *)
(* and a row longer than there are tokens.                                 *)
Scores == {0, 1, 2, NonFinite}
Shapes ==
  UNION {[1 .. n -> 0 .. 2] : n \in 1 .. 2} \cup ((0 .. 2) \X (0 .. 2) \X (0 .. 4))
  \cup {<<1, 4, 4>>, <<1, 1, 1, 1>>}
mcOutputs ==
  {[shape |-> shape, values |-> values] :
     shape \in Shapes, values \in UNION {[1 .. n -> Scores] : n \in 0 .. 4}}
  \cup {[shape |-> <<1, 1, 8>>, values |-> values] : values \in [1 .. 8 -> {0, 1}]}

(* Strings of the units and the bytes at which the conversions change      *)
(* their answer.                                                           *)
Units == {65, 127, 128, 2047, 2048, 55295, 55296, 56319, 56320, 57343, 57344, 65535}
Bytes == {65, 127, 128, 143, 144, 159, 160, 191, 193, 194, 223, 224, 237, 239, 240, 244, 245}
Strings(elements) == UNION {[1 .. n -> elements] : n \in 0 .. 3}
mcJavaStrings == Strings(Units)
mcByteStrings ==
  Strings(Bytes) \cup {240, 244, 245} \X {127, 143, 144, 191} \X {127, 128, 191} \X {128, 191, 194}
=============================================================================
