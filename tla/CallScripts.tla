---------------------------- MODULE CallScripts ----------------------------
(***************************************************************************)
(* What each call of the facade, of the C ABI (localmt-ffi) and of the     *)
(* command line (localmt-cli) does to a model pack, as a sequence of steps.*)
(* OfflineOpen gives every step its meaning.  A command is a sequence of   *)
(* sections, one for each call it makes; a section ends early with a       *)
(* status, which ends the command unless the section tolerates it.         *)
(***************************************************************************)
EXTENDS Naturals, Sequences

(* The facade.                                                             *)
Verified == <<"discover", "verify">>
Trusted == <<"discover", "verify_trusted">>
FromPack == <<"plan", "read_generation", "read_io">>
Assets == Verified \o FromPack
TrustedAssets == Trusted \o FromPack
ParseRuntimeConfig == <<"runtime_generation", "runtime_io">>

(* OrtTokenGenerator::load and OrtOfflineTranslator::from_assets.  The     *)
(* past decoder comes after both required sessions, through OrtEngine::load*)
(* and so through the preparation of the runtime again.                    *)
PrepareRuntime == <<"resolve_dylib", "init_runtime">>
LoadGenerator ==
  ParseRuntimeConfig \o PrepareRuntime \o <<"spawn_loads", "join_loads">>
  \o PrepareRuntime \o <<"load_past">>
OpenTranslatorFromAssets ==
  <<"hf_gate", "ort_gate", "load_tokenizer">> \o LoadGenerator \o <<"open">>

----------------------------------------------------------------------------
(* ffi_bytes asks for the length first and then for the bytes, so every    *)
(* summary is made twice, from the disk up.                                *)
Twice(steps) == steps \o <<"measure">> \o steps \o <<"fill">>

Section(steps, tolerated) == [steps |-> steps, tolerated |-> tolerated]
Call(steps) == Section(steps, {})

Arguments == Call(<<"arguments">>)

ModelPackSummary == Call(Twice(Assets))
ModelPackTrustedSummary == Call(Twice(TrustedAssets))
RuntimeConfigSummary == Call(Twice(Assets \o <<"strict_generation", "strict_io">>))
GgufPlanned == Verified \o <<"plan_gguf">>
GgufModelPackSummary == Call(Twice(GgufPlanned \o <<"gguf_config">>))

(* A handle that is opened is translated with and closed.                  *)
TranslateAndClose == <<"translate", "close">>
MockTranslator == Assets \o <<"open">> \o TranslateAndClose
HfMockTranslator == Assets \o <<"hf_gate", "load_tokenizer", "open">> \o TranslateAndClose
HfTokenizerHandle == Assets \o <<"hf_gate", "load_tokenizer", "open", "close">>
OrtGeneratorHandle == Assets \o <<"ort_gate">> \o LoadGenerator \o <<"open", "close">>
OrtTranslator == Assets \o OpenTranslatorFromAssets \o TranslateAndClose
LlamaTranslator == GgufPlanned \o <<"gguf_config", "load_llama", "open">> \o TranslateAndClose

(* The translation benchmarks open once and translate RUNS times.          *)
BENCH_RUNS == 2
Bench(opened) ==
  opened \o OpenTranslatorFromAssets \o [run \in 1 .. BENCH_RUNS |-> "translate"] \o <<"close">>

----------------------------------------------------------------------------
(* Mutant of ReadinessStatus: every failure of the runtime is tolerated.   *)
ReadinessStatusOfAnyFailure == {"RUNTIME_DISABLED", "RUNTIME_NOT_CONFIGURED", "ORT_ERROR"}

ReadinessStatus == {"RUNTIME_DISABLED", "RUNTIME_NOT_CONFIGURED"}

(* localmt model doctor: its own verification, then the C ABI.             *)
Doctor ==
  <<Arguments, Call(Verified \o <<"runtime_branch">> \o FromPack), ModelPackSummary,
    Call(MockTranslator),
    Section(HfMockTranslator, {"TOKENIZER_DISABLED"}),
    Section(OrtGeneratorHandle, ReadinessStatus),
    Section(OrtTranslator, {"TOKENIZER_DISABLED"} \cup ReadinessStatus)>>

ModelPlan == <<Arguments, Call(Assets)>>
ModelRuntimeConfig == <<Arguments, Call(Verified \o <<"plan", "strict_generation", "strict_io">>)>>
ModelTokenize ==
  <<Arguments, Call(Assets \o <<"hf_gate", "load_tokenizer", "open">> \o TranslateAndClose)>>
MockBench == <<Arguments, Call(Verified)>>

FfiSmoke == <<Arguments, ModelPackSummary, Call(MockTranslator)>>
FfiHfSmoke == <<Arguments, ModelPackSummary, Call(HfMockTranslator)>>
FfiOrtSmoke == <<Arguments, ModelPackSummary, Call(OrtGeneratorHandle)>>
FfiOrtTranslateSmoke == <<Arguments, ModelPackSummary, Call(OrtTranslator)>>
FfiGgufTranslateSmoke ==
  <<Arguments, GgufModelPackSummary, Section(LlamaTranslator, ReadinessStatus)>>
FfiOrtTranslateBench == <<Arguments, ModelPackSummary, Call(Bench(Assets))>>
FfiOrtTranslateBenchTrusted ==
  <<Arguments, ModelPackTrustedSummary, Call(Bench(TrustedAssets))>>
FfiRuntimeConfig == <<Arguments, ModelPackSummary, RuntimeConfigSummary>>
FfiTrustedSummary == <<Arguments, ModelPackTrustedSummary>>
FfiStartup == <<Arguments>>

(* A thread that runs no command.                                          *)
Idle == <<>>

(* An application on the C ABI: the runtime's path, or a handle.           *)
OrtRuntimeConfigure == <<Call(<<"arguments", "ort_gate", "configure">>)>>
OpenTokenizer == <<Arguments, Call(HfTokenizerHandle)>>
=============================================================================
