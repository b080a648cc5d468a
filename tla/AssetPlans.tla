----------------------------- MODULE AssetPlans -----------------------------
(***************************************************************************)
(* Which files of a verified pack each consumer will open: the plans of    *)
(* the tokenizer, the pipeline's generator, the two engines and the facade *)
(* that joins them.  A plan is computed from the manifest alone; a path is *)
(* None when the pack has no file of the role.                             *)
(***************************************************************************)
EXTENDS ModelManifest

LLAMA_CPP_RUNTIME == "llama.cpp"
ONNX_RUNTIME == "onnx-runtime"

Missing(manifest, role) == FilePath(manifest, role) = None

(* GgufModelAssetPlan::from_pack, and LlamaModelPlan, which copies it.     *)
GgufModelAssetPlan(manifest) ==
  Checked(<< <<manifest.runtime # LLAMA_CPP_RUNTIME, "UnsupportedRuntime">>,
             <<Missing(manifest, "GgufModel"), "MissingGgufModel">> >>,
          [model_id |-> manifest.model_id,
           model |-> FilePath(manifest, "GgufModel"),
           chat_template |-> FilePath(manifest, "ChatTemplate"),
           runtime_config |-> FilePath(manifest, "LlamaRuntimeConfig")])
LlamaModelPlan(assets) == assets

TokenizerAssetPlan(manifest) ==
  Checked(<< <<Missing(manifest, "Tokenizer"), "MissingTokenizerAsset">> >>,
          [tokenizer |-> FilePath(manifest, "Tokenizer"),
           vocabulary |-> FilePath(manifest, "Vocabulary"),
           config |-> FilePath(manifest, "Config")])

GeneratorAssetPlan(manifest) ==
  Checked(<< <<Missing(manifest, "Encoder"), "MissingEncoder">>,
             <<Missing(manifest, "Decoder"), "MissingDecoder">> >>,
          [encoder |-> FilePath(manifest, "Encoder"),
           decoder |-> FilePath(manifest, "Decoder"),
           decoder_with_past |-> FilePath(manifest, "DecoderWithPast"),
           generation_config |-> FilePath(manifest, "GenerationConfig")])

----------------------------------------------------------------------------
OrtModelRole == {"Encoder", "Decoder", "DecoderWithPast"}

SessionPlan(manifest, role, path) == [model_id |-> manifest.model_id, role |-> role, path |-> path]

(* OrtSessionPlan::from_pack: one graph on its own.                        *)
OrtSessionPlan(manifest, role) ==
  Checked(<< <<manifest.runtime # ONNX_RUNTIME, "UnsupportedRuntime">>,
             <<Missing(manifest, role), "MissingModelFile">> >>,
          SessionPlan(manifest, role, FilePath(manifest, role)))

(* OrtGeneratorPlan::from_pack: encoder, decoder, and the past decoder     *)
(* when the pack has one.                                                  *)
GeneratorPlanOf(manifest, assets) ==
  IF manifest.runtime # ONNX_RUNTIME THEN Err("UnsupportedRuntime")
  ELSE IF ~ assets.ok THEN assets
  ELSE Ok([model_id |-> manifest.model_id,
           encoder |-> SessionPlan(manifest, "Encoder", assets.value.encoder),
           decoder |-> SessionPlan(manifest, "Decoder", assets.value.decoder),
           decoder_with_past |->
             IF assets.value.decoder_with_past = None THEN None
             ELSE SessionPlan(manifest, "DecoderWithPast", assets.value.decoder_with_past),
           config |-> FilePath(manifest, "Config"),
           generation_config |-> assets.value.generation_config])
OrtGeneratorPlan(manifest) == GeneratorPlanOf(manifest, GeneratorAssetPlan(manifest))

(* OfflineTranslatorPlan::from_pack: the tokenizer's plan fails first.     *)
TranslatorPlanOf(tokenizer, generator) ==
  IF ~ tokenizer.ok THEN tokenizer
  ELSE IF ~ generator.ok THEN generator
  ELSE Ok([tokenizer |-> tokenizer.value, generator |-> generator.value])
OfflineTranslatorPlan(manifest) ==
  TranslatorPlanOf(TokenizerAssetPlan(manifest), OrtGeneratorPlan(manifest))

(* The paths of a plan that are opened when a translator is.               *)
PlannedPaths(plan) ==
  {plan.tokenizer.tokenizer, plan.generator.encoder.path, plan.generator.decoder.path,
   plan.generator.config, plan.generator.generation_config} \ {None}
============================================================================
