------------------------ MODULE LlamaRuntimeConfig ------------------------
(***************************************************************************)
(* The runtime config of a GGUF pack and the limits of the C interface it  *)
(* meets (localmt-engine-llama): the JSON file, the checks on it, and the  *)
(* narrowing of Rust's usize to the u32 and i32 of llama.cpp.              *)
(***************************************************************************)
EXTENDS CoreTypes, Integers

CONSTANTS U32_MAX, I32_MAX   \* the widths of the C types, and so of an id

I32_MIN == - I32_MAX - 1

DEFAULT_CONTEXT_TOKENS == 2048
DEFAULT_CPU_THREADS == 1
DEFAULT_MAX_OUTPUT_TOKENS == 256
DEFAULT_TEMPERATURE == 0

(* RawLlamaRuntimeConfig: any key may be absent.  A temperature is         *)
(* NonFinite or a number.                                                *)
OrDefault(value, default) == IF value = None THEN default ELSE value
InvalidTemperature(value) == value = NonFinite \/ value < 0

ZeroCheck(field, value) == <<value = 0, <<field, "must be greater than zero">> >>
LlamaConfigChecks(config) ==
  << ZeroCheck("context_tokens", config.context_tokens),
     ZeroCheck("cpu_threads", config.cpu_threads),
     ZeroCheck("max_output_tokens", config.max_output_tokens),
     <<InvalidTemperature(config.temperature),
       <<"temperature", "must be finite and non-negative">> >> >>

LlamaConfigOf(raw) ==
  [context_tokens |-> OrDefault(raw.context_tokens, DEFAULT_CONTEXT_TOKENS),
   cpu_threads |-> OrDefault(raw.cpu_threads, DEFAULT_CPU_THREADS),
   max_output_tokens |-> OrDefault(raw.max_output_tokens, DEFAULT_MAX_OUTPUT_TOKENS),
   temperature |-> OrDefault(raw.temperature, DEFAULT_TEMPERATURE)]
LlamaFromRaw(raw) == Checked(LlamaConfigChecks(LlamaConfigOf(raw)), LlamaConfigOf(raw))

DefaultLlamaConfig ==
  LlamaConfigOf([context_tokens |-> None, cpu_threads |-> None,
                 max_output_tokens |-> None, temperature |-> None])

(* LlamaModelPlan::parse_runtime_config: a pack without the file runs with *)
(* the defaults.                                                           *)
LlamaFromJsonFile(file) ==
  IF file = None THEN Ok(DefaultLlamaConfig)
  ELSE IF file.ok THEN LlamaFromRaw(file.value) ELSE file

----------------------------------------------------------------------------
(* The context parameters: usize into u32 and i32, and the micro batch     *)
(* that llama.cpp proposed cut down to the batch.                          *)
ContextParams(config, proposedUbatch) ==
  Checked(<< <<config.context_tokens > U32_MAX, <<"context_tokens", "must fit into u32">> >>,
             <<config.cpu_threads > I32_MAX, <<"cpu_threads", "must fit into i32">> >> >>,
          [n_ctx |-> config.context_tokens, n_batch |-> config.context_tokens,
           n_ubatch |-> IF proposedUbatch = 0 \/ proposedUbatch > config.context_tokens
                        THEN config.context_tokens ELSE proposedUbatch,
           n_threads |-> config.cpu_threads])

(* llama_tokenize asked for the size: the negated count, I32_MIN when the  *)
(* count does not fit.                                                     *)
TokenizeSizeResult(count) == IF count > I32_MAX THEN I32_MIN ELSE - count
TokenCapacity(result) ==
  IF result = 0 THEN Err("no tokens")
  ELSE IF result > 0 THEN Ok(result)
  ELSE IF result = I32_MIN THEN Err("tokenization size overflow")
  ELSE Ok(- result)
=============================================================================
