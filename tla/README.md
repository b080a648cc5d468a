# localmt in TLA+

localmt is a Rust library for offline translation on a phone: model packs on
disk, a pipeline of tokenizer and token generator, two native inference engines
(ONNX Runtime and llama.cpp) behind one trait, a C ABI, a JNI adapter and a
command line. This directory holds TLA+ models of the parts whose behaviour
over time is hard to test, the TLC configurations that check them on small
instances, and TLAPS proofs of the most important properties for instances of
every size.

All source paths below are under `src/`. `PROJECT.json` maps every definition
to the lines it models.

## 1. The system

| Component | State | Operations | Talks to |
|---|---|---|---|
| `localmt-core` | none: validated value types | languages, pairs, bounded text, requests | everything |
| `localmt-engine` | none: the `TranslatorEngine` trait | `translate` | facade, engines |
| `localmt-models` | the pack directory: manifest, model files, `.localmt-trust.json` | discover, verify, verify_trusted, write_trust_file, asset plans | facade, CLI, FFI; installers from outside |
| `localmt-tokenizer` | a loaded tokenizer | encode, decode | pipeline |
| `localmt-pipeline` | generation config | tokenize, generate, detokenize | tokenizer, generator |
| `localmt-engine-ort` | write-once runtime path; three session slots, each a mutex | configure, load (two threads), generate | ONNX Runtime |
| `localmt-engine-llama` | write-once runtime path; a process-wide backend count; a context behind a mutex with KV memory | configure, load, translate, drop | llama.cpp through dlopen |
| `localmt` (facade) | none of its own | composes packs, tokenizers, engines | all crates |
| `localmt-ffi` | boxed handles owned by the C caller | open, translate, close, summaries, trust, configure | facade, engines |
| `localmt-cli`, `localmt-bench` | none across commands | doctor, trust, smoke runs, timings | FFI, facade |
| JNI smoke adapter | a handle in each Java object | probe, allocate, retry; close | FFI |

What is hard, and what makes each part correct:

* **llama.cpp life cycle** (`localmt-engine-llama`). Any thread may load or drop
  a translator. `llama_backend_init` and `llama_backend_free` are process-wide
  and are tied to a count behind a mutex; the library that provides them is
  opened and closed by each translator. A load can fail after each of five
  acquisitions. Correct means: the count is the number of live leases, the
  backend is up whenever a lease exists, init and free alternate, every native
  call goes into a mapped library, contexts go before models before leases
  before libraries, and nothing is left behind.
* **llama.cpp translation**. Threads share one context whose KV memory and
  encoder output outlive a request, also one that failed half way or panicked.
  Correct means: the answer to a request depends on that request alone, the
  window check before the loop is enough for the whole loop, and every request
  is answered.
* **Trust artifacts** (`localmt-models`). A hot start replaces hashes by file
  metadata recorded at install time. The pack is a directory that installers,
  other threads and other processes write, one file at a time, and a trust call
  may die half way. Correct means: an open that succeeds vouches only for files
  that matched the manifest, and an open of an undisturbed pack does not fail.
* **ONNX Runtime engine** (`localmt-engine-ort` under `localmt-pipeline`). Threads
  share one session for the encoder and one for the decoder; the lock of a slot
  is taken for one run, so that the token loops of several requests interleave
  run by run. A panic inside a session poisons its slot for good. Correct means:
  each token is chosen from the encoder output and the history of its own
  request, the answer depends on the request alone, and every request is
  answered, also after a poisoning. The sessions load in two threads.
* **Opening a translator** (facade, C ABI, command line). Between the discovery of
  a pack and a handle lie up to twenty steps that read files: the manifest,
  every file for its hash, the config files twice and under two sets of rules,
  the tokenizer, the graphs; on the way the process commits, once and for all,
  to one ONNX Runtime library. Any step may fail, an installer may write between
  any two, and the model doctor answers for all of it as far as ONNX packs go.
  Correct means: what opens is whole, what fails leaves nothing and names its
  cause, and for a pack of ONNX graphs the doctor agrees with the calls it stands
  for. A pack for llama.cpp it only verifies and plans, so there the open itself
  must refuse a bad runtime config.
* **C ABI, JNI and their callers**. Translators are boxes behind raw handles that
  Java keeps in plain fields; a caller asks for the length of a translation with
  one call, which translates, and takes the bytes with another, which translates
  again, possibly at random. Correct means: no export runs on a translator that
  was closed or on one that has taken over its address, each is closed once and
  can be closed as long as it lives, and a caller takes one whole translation.
* **Pure parts**: manifests, generation and tensor-name configs, token sequences,
  logits, the UTF conversion, the manifest writer. Correct means: what a
  constructor accepts is exactly what the rest relies on.

`PROJECT.json` lists these hazards one by one, with the properties that cover
them, and the ones that have no property yet.

## 2. Modules

| Module | Models | Run by | Proofs |
|---|---|---|---|
| `LlamaBackend` | runtime life cycle of `localmt-engine-llama` | `MCLlamaBackend` | `LlamaBackendProofs` |
| `SerialTranslator` | abstract: what a shared translator promises | refined by `LlamaTranslate` and `OrtGenerator` | |
| `LlamaTranslate` | `LlamaTranslator::translate` | `MCLlamaTranslate` | `LlamaTranslateProofs` |
| `OrtGenerator` | `TranslationPipeline` over the tokenizer and a loaded `OrtTokenGenerator` | `MCOrtGenerator` | `OrtGeneratorProofs` |
| `ModelPackTrust` | verification and trust of a pack | `MCModelPackTrust` | `ModelPackTrustProofs` |
| `FfiHandles` | translators behind `localmt-ffi`, the Java wrappers and JNI adapter, the command line's clients | `MCFfiHandles` | `FfiHandlesProofs` |
| `OfflineOpen` | every call of the facade, the C ABI and the command line that opens a pack, step by step | `MCOfflineOpen` | `OfflineOpenProofs`, `OfflineOpenPackProofs` |
| `CallScripts` | which steps each of these calls and commands makes, in which order | `MCOfflineOpen` | |
| `ModelManifest`, `AssetPlans` | the manifest of a pack, and the plans made from it | `MCOfflineOpen` | `ConfigProofs` |
| `GenerationConfig`, `OrtIoConfig`, `LlamaRuntimeConfig` | the three config files | `MCOfflineOpen` | `ConfigProofs` |
| `OrtTensors` | the tensors of a run, the last row of the logits, the argmax, the threads of a session | `MCOfflineOpen` | `ConfigProofs` |
| `ManifestWriter` | `localmt model write-manifest` | `MCOfflineOpen` | `ConfigProofs` |
| `CoreTypes`, `Tokenizers` | languages, pairs, bounded text, the mock engine; token sequences, the mock and the Hugging Face tokenizer | (extended) | `ConfigProofs` |
| `JniUtf` | UTF-16 to UTF-8 and back, in the JNI adapter | `MCOfflineOpen` | `ConfigProofs` |
| `PureParts` | (laws of the modules that only compute, over inputs given as constants) | `MCOfflineOpen`, which takes the inputs from `MCPureParts` | `OfflineOpenPackProofs` |

### LlamaBackend

A *client* is a thread of the host process. `pc[c]` says where it is in
`LlamaTranslator::load`, in the drop of a translator, or in
`configure_llama_cpp_dylib_path`; each action is one step of that code between
two points where another thread may come in.

* `env`, `override`, `configured`: the environment variable (fixed at start),
  the `OnceLock`, and (history) the paths a configure call answered Ok for.
* `refcount`, `lockHolder`: the `usize` in `LLAMA_BACKEND_REFCOUNT` and its
  mutex. A poisoned guard is recovered by the code, so poison has no state.
* `lib[c]`, `dlHandles[l]`: the library a client resolved or opened, and the
  dynamic loader's open count of each library; the image is unmapped, and its
  globals are lost, when that count returns to zero.
* `handles[c]`, `up`: live model and context pointers, and the libraries whose
  backend is initialised.

`BeginLoad`, `OpenLibrary`, `LockForAcquire`, `InitBackend`, `TakeLease`,
`LoadModel`, `CreateContext` and `GetVocab` are `load`, each with its error
return; `Close`, `FreeContext`, `FreeModel`, `LockForRelease`, `Release`,
`FreeBackend` and `CloseLibrary` are the drop, in field order. A failed load
enters the drop at the matching point. llama.cpp and the loader are external:
they are modelled by what the calls require and do.

### SerialTranslator and LlamaTranslate

`SerialTranslator` answers each request in one step: a refusal, or any
completion of the request's own prompt that the model allows
(`Completes`) and that is readable text. Both engines are held to it; what the
encoder and the decoder read of a prompt (`EncoderInput`, `DecoderInput`) is a
parameter that each engine instantiates. `LlamaTranslate` takes the mutex,
clears the KV memory, tokenizes, checks the window, makes a sampler, encodes if
the model has an encoder, and then decodes, samples and appends pieces one by
one. The model itself is a constant, `Sampleable(enc, dec)`: the tokens it may
choose when encoder and decoder have read `enc` and `dec`. So an answer shows
any token that was left over, lost, or read twice. Every external call may
refuse; `Unwind` is a panic in the piece slice. The locals of
`translate_prompt` are per caller; `kv` and `encoded` belong to the shared
context. The sampler chain is owned by a local of the call and has no state of
its own here.

### OrtGenerator

One action for each stretch of `translate_pipeline` between two points where
another thread may come in: `Encode` (the tokenizer and `TokenSequence::new`),
`Lock` (`OrtEngineSlot::with_mut`, which refuses at a poisoned mutex),
`RunEncoder`, `RunDecoder` (the session run, the copy of its output, and the end
of the lock), `Accept` (selection and `OrtGenerationState::accept_next_token`,
outside the lock), `Decode`; `Panic` is a panic inside a session. `hidden[c]`,
`generated[c]` and `logits[c]` are the locals `encoder_output`, the generation
state and the copied decoder output of the call; `holder` and `poisoned` are the
mutexes of the two slots. The model is a constant again: `Best(enc, dec)` is the
argmax after the encoder and the decoder have read `enc` and `dec`, or `NoToken`
when the logits have none. `decoder_with_past` is loaded by the code but never
run. The end token is pushed to the generation and not shown (`Visible`).

### ModelPackTrust

A *caller* is a thread or process that runs `verify`, `trust` or a trusted
`open`. Each file access is an action: `Discover`, `HashFile`, `RehashManifest`,
`SnapshotFile`, `OpenArtifact` (truncate), `WriteArtifact`, `ReadTrust`,
`CheckManifest`, `MatchFiles`, `CheckMetadata`. `Crash` may come between any
two. The installer writes or removes one file, or the manifest, at a time.
`artifact` is absent, empty, garbled or a whole record; a writer that follows
another leaves its own text, or its own with the tail of the longer one.
`matched` and `calm` are history variables for the properties: the files whose
content was right when the call looked at them, and whether the disk was fit
for the call and untouched since.

Abstractions: digests are collision-free; length and modified time are one
stamp, fresh at every write of a model file (a copy that preserves length and
time is outside the model, as it is outside what the artifact can see);
everything that does not parse is one value.

### FfiHandles

A *Java thread* calls through `LocalmtNative`, a *C thread* through the header,
as the command line does. `box[b]` is the pack of the translator that
`Box::into_raw` put at address `b`; an address is used again once its box is
dropped. `field[w]` is `nativeHandle` of wrapper `w`. `frame[t]` holds the locals of
a thread: its wrapper and handle, the pack it asked for (for the properties; the
code does not know it), the request, and `status`, `written` and `output` of
`call_buffer` or `ffi_bytes`.

`OpenJava`, `OpenC`, `OpenFails`, `OpenSucceeds` and `Construct` open;
`Translate` is the Java method up to the native call, with the check of the
pair, and `EnterNative` reads the field a second time and makes JNI's own
checks. `CheckRequest`, `EngineFails` and `EngineAnswers` are a translate
export; `Retry` and `FinishCall` are its caller between the two calls and after
them. `CloseJava` and `ClearField` are the two assignments of `close()`,
`CloseUnused` is a preflight that opens and closes, and `CloseBox` the close
export.

Abstractions. The mock, Hugging Face mock, llama.cpp and ONNX Runtime translators
have the same exports up to the engine, which is any that answers with a number
of bytes or fails; `LlamaTranslate` and `OrtGenerator` model what it does. Bytes
are named for the translator they come from, a zero byte of a fresh buffer is
`Null`. Null and malformed arguments are one case where the code answers them
alike. A C thread translates once for each handle; the command line's
benchmark, which translates in a loop on one thread, is a sequence of those. A
panic under an export ends the process (`extern "C"` does not unwind) and so
the behaviour.

### OfflineOpen and CallScripts

`CallScripts` writes each call as the sequence of its steps (`Verified`, `FromPack`,
`LoadGenerator`, ...) and each command as a sequence of sections, one for each
call it makes; a section may tolerate statuses, as the doctor does with what the
build or the environment lacks. `OfflineOpen` interprets the steps. `disk` maps
the paths of a pack to contents; the constants say what a content is when it is
read as a manifest, a config, a tokenizer or a graph. `command[c]`, `section[c]`
and `pos[c]` are the call a thread is in, `work[c]` the locals of the call (what
each file held when it was read), `session[c]` the sessions of each role and
`opened[c]` the handle. `override`, `env`, `runtime` are `ORT_DYLIB_PATH_OVERRIDE`,
the variable, and the library ONNX Runtime was first initialised from.

Each step is an action: `Discover`, `VerifyFile` (one file), `Plan`,
`ReadGeneration`, `ReadIo`, the stricter `RuntimeGeneration` and `RuntimeIo`, the
feature gates, `LoadTokenizer`, `ResolveDylib` and `InitRuntime`, `SpawnLoads`,
`LoadSession` (a load thread), `JoinLoads`, `LoadPast`, `Open`, `Translate`,
`Close`. `Decide` is what they share: on to the next step, or out with a status,
dropping what the call holds. `InstallerWrites` changes one file at any time.
`Measure` and `Fill` are the two halves of the C ABI's byte contract.

Abstractions: trusted verification (`ModelPackTrust`), the llama.cpp load
(`LlamaBackend`) and the translation itself (`OrtGenerator`) are one step each here
that may pass or fail; `calm` and `early` are history for the properties.

### The pure modules

A validated constructor of the code is a sequence of checks with an early
return each: `Checked(checks, value)` in `CoreTypes` is the first failure or the
value, and the constructors of `ModelManifest`, `GenerationConfig`, `OrtIoConfig`,
`LlamaRuntimeConfig` and `OrtTensors` are written with it, in the order of the
code. A text is what its checks look at: trimmed or not, how many characters and
bytes; a path is its components; a digest is its 64 characters; a score is a
number or `NonFinite`; sizes wrap at `USIZE_MAX` where the code's checked products
refuse. `AssetPlans` composes them. `JniUtf` converts in turns as the two C++
loops do (`AllTurns`): a turn reads one code point, checks it and appends its
other form, and the first refusal refuses the string.

## 3. Runs

| Run | Question | Bounds |
|---|---|---|
| `backend` | all of `LlamaBackend`: safety, and does every call return? | 3 clients, 2 libraries |
| `backend_mixed` | *violation*: is init/free balanced without `OneRuntime`? | 2 clients, 2 libraries |
| `translate` | isolation, window, refinement, and is every request answered? Decoder-only | 2 callers, 3 output tokens, window 4 |
| `translate_encoder` | refinement with an encoder, and so isolation | the same |
| `translate_piece` | *violation*: are only over-long pieces refused? | the same |
| `ort_generate` | isolation, determinism, poisoning and refinement of `OrtGenerator`, and is every request answered? | 2 callers, 6 requests, 3 new tokens |
| `trust` | all properties of `ModelPackTrust` | 2 callers, 3 manifests, 2 files, 2 contents, 2 writes |
| `trust_race` | *violation*: an install overlaps a trust call | the same |
| `ffi_handles` | ownership of handles, language ids, retries and whole answers | 2 Java threads, 1 C thread, 2 wrappers, 2 addresses, a greedy and a sampled pack, 6 requests, lengths 1 and 2 |
| `offline_open` | does what opens fit (llama.cpp packs included), what fails leave nothing, the doctor of an ONNX pack agree; and the laws of the pure parts | 2 callers, 15 packs, 17 programs, 4 builds, 3 environments, 1 write |
| `ffi_retry_refused` | *violation*: does a retry fit with a sampled pack? | 1 thread of each kind |
| `ffi_close_race` | *violation*: a wrapper is closed during a translate on it | as `ffi_handles` |

Why these bounds are enough to be interesting. Three clients let one acquire,
one release and one configure at once; two libraries are what the environment
and the override can name. Three output tokens are needed for a piece to grow
the buffer and a later one to find it grown; prompts of one, two and three
tokens lie inside, at and beyond the window of four. The requests of
`MCOrtGenerator` are one that ends at the end token, one that spends the budget,
one that is answered with no visible token, one without a first token, an empty
and an over-long one; with two callers the runs of one come between any two of
the other, and the proofs hold for any number. Two writes of model files give an
old, a new and an intermediate pack; the manifests are a pack, an update that
lists one more file, and one without a required language. The bound `MaxWrites`
appears in the guard of `WriteFile`; `UsizeMax` only needs to be at least the
number of clients.

With two wrappers and two addresses a freed address is taken by a translator of
the other pack while a stale handle to it may still be around; with two lengths
the second translation of a sampled pack is shorter, equal or longer. The
requests of `MCFfiHandles` reach each refusal, and one has an id that is English
again when cut to a byte.

`offline_open` runs every program on every pack: a pack is sound, or one content
in it is well listed but useless (a tokenizer that does not load, a graph that
is none, a config without the `ort_io` object, token ids that collide), or the
manifest lacks a role or a language. Builds and environments vary on a sound
pack; an installer writes one of six files at every point of five programs; two
callers load and configure together. One write separates what was verified from
what is read later, and two libraries with one that is missing are what the
variable and the override can disagree on.

`PureParts` states the laws of the parts that only compute, for inputs that are
constants; `MCPureParts` gives it the inputs where their tests change their
answer, and `offline_open` evaluates the laws in the one state where no command
runs: generation configs one or two changes away from
a usable one (`ConfigAcceptedIffUsable`), every subset of the standard layout for
both runtimes (`ManifestWriterAgrees`), tensors up to rank four with scores that
tie or are not finite, and a row longer than there are token ids
(`NextTokenIsFirstMaximum`), strings over the units and bytes
at which the conversions change their answer (`TextSurvives`).

Some properties have named parts: `BackendMatchesLeases` is `LeasesCounted`,
`BackendUpWhileLeased` and `InitFreeBalanced`; `DropOrderKept` is
`CallsIntoMappedLibrary` and `HandlesInsideLease`; `ClosedExactlyOnce` and
`AnswersServe` of `FfiHandles` likewise.

`OneRuntime` (the override agrees with the environment) is what the header of
the C ABI prescribes: configure *instead of* the environment variable.
`QuietInstall` is what `docs/android-build.md` prescribes: trust at the end of
an install. The violation runs show what each of them is needed for.
`~CloseRaces` keeps an application from closing a wrapper while a thread is in a
call on it. `docs/android-build.md` asks for each handle to be closed exactly
once and the exports for live handles, but nothing enforces either;
`ffi_close_race` shows what happens without it.

### Findings

* `backend_mixed`: one count serves every library, so after an
  environment-resolved load and a later configure two libraries share it. One
  backend is then used without initialisation and freed without one, or never
  freed, although the SAFETY comment of `LlamaBackendLease::acquire` says the
  count keeps init and free balanced.
* `trust_race`: `write_trust_file` pairs the digest it verified with metadata it
  reads later; a file written in between is trusted without ever having been
  hashed.
* `translate_piece`: after a piece of more than half the 16 KiB limit, a longer
  piece still within the limit is refused as exceeding it, because the doubled
  capacity is what is compared.

* `ffi_retry_refused`: a retry is a new translation. With a positive temperature
  (llama.cpp then samples with a random seed) it may be longer than the first,
  and the caller that did what the header says is told again that its buffer is
  too small. Neither `call_buffer` nor `ffi_bytes` tries a third time. A shorter
  one is handled well (`AnswersServe`).
* `ffi_close_race`: the Java wrappers are not synchronised. A `close()` between
  the read of the handle and the end of the native call frees the translator
  that the export calls live.

Two smaller disagreements that no run of their own shows. `docs/API.md:105` calls
the model doctor the single local readiness gate; for a llama.cpp pack it ends
after the plan (`main.rs:418`, `RuntimeBranch`) and never reads `llama-runtime.json`,
so it answers ok for a pack whose config every GGUF summary and every llama.cpp
open refuses (`ggufXm` in `MCOfflineOpen`). `DoctorAgrees` therefore claims the
agreement for packs of ONNX graphs only, and of the others no more than that the
pack is intact. What keeps such a pack from being run is the open: `OpenedIsWhole`
says that no llama.cpp handle is out unless the config is usable
(`GgufSound`), and its second mutant is an open that, like the doctor, leaves the
config unread. And an Ok of `configure_ort_dylib_path` promises that future loads
use the path, which a runtime committed earlier does not (`InitRuntime`);
`EarlyOverrideUsed` holds for paths that were configured in time, and no property
speaks of the late ones.

### Fairness and liveness

Fairness is weak fairness of a running call only: threads are scheduled and
native calls return. The standard mutex is not fair, so the liveness
properties are stated for behaviours in which new loads (requests) stop at some
point; a stream of others may otherwise overtake a waiting thread for ever.
Starting calls, closing translators and panicking are never owed. In
`OfflineOpen` weak fairness of `Running` says only that while some caller or load
thread can go on, one does; commands are finite, so that is enough
(`EveryCommandReturns`), and the installer owes nothing.

## 4. Proofs

TLAPS proves every theorem below for all values of the constants that satisfy
the named assumptions of the component's module, where TLC checks one small
instance. Each proof has the same shape: an inductive invariant `IInv`, the
lemma `InitInv` (`Init => IInv`), one lemma for each action, `NextInv`
(`IInv /\ [Next]_vars => IInv'`), the theorem `Invariance`, and for each property
that `IInv` implies it. TLC found `IInv` to hold on the small instances before
it was proved.

**`LlamaBackendProofs`**, from `ClientsAssumption` (finitely many clients, at
most `UsizeMax` of them) and `LibsAssumption`. The properties are not inductive:
that the backend is up while a lease exists says nothing of who holds the mutex
or of the client between its init and its increment. `IInv` adds who holds the
mutex (`LockInv`); the count is the number of leases, and zero while the backend
is brought up or taken down (`CountInv`); the loader's count of a library is the
number of its openers (`MapInv`); a client's native handles follow from where it
is (`HandleInv`); and, with one runtime, every load resolves to it
(`SourceInv`) and its backend is up exactly while a lease exists or a client is
between `llama_backend_init` or `llama_backend_free` and letting the mutex go
(`UpInv`); only mapped libraries are up (`UpMapped`). The two counting
lemmas (`LeaseCountStep`, `OpenersStep`) relate a step to the cardinality of the
set it changes. `AcknowledgedPathWins` needs its own small invariant. Theorems:
`TypeCorrect`, `RefcountExact`, `BackendOutlivesLeases`, `InitFreeAlternate`,
`CallsAreMapped`, `HandlesNested`, `QuietMeansReleased`, `FreedBeforeUnmapped`,
`AcknowledgedPathWins`; `BackendFollowsLeases` and `DropsInOrder` put them together.

**`LlamaTranslateProofs`**, from `TranslateAssumption` (non-empty prompts over
the vocabulary, positive budget and window) and `SampleableAssumption` (the
model answers with tokens of its vocabulary for everything the window can
hold). `IInv` says that the caller inside `translate_prompt` is the one that
holds the mutex (`LockInv`), that only a running call has output
(`RequestInv`), that nothing is encoded without an encoder (`EncoderInv`), and
for the running caller what memory, batch and output hold in each phase:
`Prepared` up to the first decode, `Decoding` in the loop, where what is read
plus what is batched is always the request's input followed by its output, and
`Output`, every token put out being one the model allowed after the ones before
it. Another caller's facts survive a step because only the mutex holder touches
the memory (`SparedPhase`, `StepKeepsInv`). Theorems: `TypeCorrect`,
`OwnInputSampled`, `WindowSuffices`, and `Implements`, the refinement: `Finish`
maps to `Answer`, every refusal and panic to `Refuse`, `Ask` to `Ask`, all other
steps to a stutter.

**`OrtGeneratorProofs`**, from `GeneratorAssumption` (a positive budget within
`MAX_TOKENS`, which the generation config validates; ids in the vocabulary) and
`BestAssumption`. That two callers agree is not inductive, and its obvious proof
is an induction over the text. `SameStart` makes it an invariant instead: callers
with the same request have said the same as far as both have got (`Output`, in
whatever phase they are). A step extends one of them by the token that
`RequestInv`, `LoopInv` and `OutputInv` show to be the model's only choice, and
the other, if it is ahead, has taken that token already (`AgreeAppend`).
`FinishedSame` then shows that neither can have ended before the other.
Theorems: `TypeCorrect`, `OwnStateOnly`, `PoisonedStaysClosed`,
`GenerationFits`, `AnswersAgree`, and the refinement `Implements`.

**`ModelPackTrustProofs`**, from `PackAssumption` and `NoRecordAssumption`. The
invariant has three layers, because the properties need different conditions.
`CallInv` is bookkeeping: where a call can be, which files it has been through
and what its record says. `QuietInv` and `RecordsTrue` hold when installs keep
out of trust calls: what a trust call has hashed stays right, so an entry pairs
a digest with the metadata of a file that has it, and a later write gives itself
away by a newer stamp (`StampInv`). `CalmInv` holds of a call nobody has
disturbed: it still sees the disk it started from. Theorems: `TypeCorrect`,
`NoFalseRejection` and `TrustOkIsCurrent` without further condition;
`ArtifactStaysTrue` and `OkIsEarned` with `QuietInstall`.

**`FfiHandlesProofs`**, from `HandlesAssumption`. `ShapeInv` (the type of every
frame, and what it holds at each place) needs no condition, and gives
`TypeCorrect`. The rest assumes `~CloseRaces`. That a call runs on a live
translator says nothing of who may close it, so `HandleInv` adds who has a
handle: the one wrapper whose field holds it, which was opened from the pack
that lives there (`WrapperInv`), or the one thread that is about to wrap it, to
close it or, for a C caller, to use it (`ThreadInv`, `PairInv`); threads share a
wrapper only inside calls. Most steps inside a call change nothing of that
(`QuietStep`). `ContentsInv` relates request, buffer and outcome in one frame: a
probe has no buffer, with greedy packs the buffer of a retry has the length of
the translation, and an OK means that the answer fits and fills `written` bytes.
Theorems: `TypeCorrect`, `TranslatorsStayOpen`, `ClosedAtMostOnce`,
`NoTranslatorLost`, `AnswersAreWhole` (for all lengths), `LanguagesAreKept`, and,
for greedy packs, `RetriesFit`; `ClosedJustOnce` and `AnswersAreServed` put them
together.

**`OfflineOpenProofs`**, from `OpenAssumption` and `ScriptsAssumption`: every script is
well-formed (`WellFormed`: who acquires ends with a close, the load threads are
joined at once, no early end follows an acquisition), which TLC evaluates for all
of `CallScripts`. That nothing is held between calls is not inductive; `CallerInv`
adds that whatever a caller holds was acquired at an earlier step of the section
(`After`), so a section can only end where nothing is held, and that a loading
session means the caller is at the join. Every step either goes on with what it
holds (`Goes`) or drops it (`Exits`); one lemma for each of the two, and one for
each action that acquires, jumps or drops. `EarlyInv` says that a path configured
in time is the only one any caller has resolved. Theorems: `NothingIsLeaked`,
`EarlyOverrideWins`.

**`OfflineOpenPackProofs`**, from these and three more, all evaluated by TLC for every
script of `CallScripts` and every input of the run. `OrderAssumption`: each step
finds what it uses, made in the same section and since the last measure, which
blanks the locals (`Ordered`), and the sections of a program fit together
(`InOrder`). `DataAssumption`: what the disk and the files on it may hold.
`PureAssumption`: the types of the inputs of the pure parts, and that the digests
of a directory are digests. None says that a
pack is sound or that a call succeeds.

That an opened translator is whole is not inductive: it speaks of files read many
steps ago, by a caller that remembers them in locals. `PackInv` adds to what
`OfflineOpenProofs` has shown what each caller knows, as a predicate of a position
of its section and of the locals there (`Knows`): what the locals tell whatever
is on the disk by now (`Remembers`), what of the process is ready (`Prepared`),
the sessions and the handle (`Holds`), and, on a disk nobody has touched since
the call began, that the locals are what the disk holds (`Linked`) and that what
was found in order is in order (`Found`). An action establishes `Knows` for the
next position, so there is one lemma for each kind of step; the installer takes
away `calm` and with it the last two. The doctor speaks of several sections, so
`Doctors` says what those it has finished have left behind (`Examined`), and
`Causes` what a status gives away. What a llama.cpp script has found is an invariant
of its own beside these (`GgufInv`): past the plan, the pack can be planned; past the
config, its config is usable. Only two steps can establish it, and wherever a
script jumps to, neither lies ahead (`GgufJumps`), so one lemma (`GgufKeeps`) does
for all other actions. A llama.cpp handle, whose script has both steps before its
load (`Needs`), is therefore out only on a sound pack (`OpenedGguf`). `DoctorIsRight`
is about ONNX packs, like the property: an ok earned at the runtime branch means
a manifest that names llama.cpp (`PlanForLlama`). Theorems: `PackInvariance`,
`GgufInvariance`, `TypeCorrect`, `WholeWhenOpened`, `DoctorIsRight`,
`StatusesNameCauses`; and the laws of the pure parts, from `ConfigProofs`: `ConfigsAreJudged`, `TokenIsFirstMaximum`,
`TextIsUnchanged`, `ManifestsOpen`.

**`ConfigProofs`**, without assumptions on the models. A sequence of checks is clean
when none fails, and `Checked` answers with the value exactly then
(`CheckedOk`, `CleanConcat`). Theorems: `AcceptedIffUsable` (any vocabulary),
`ContextParamsFit` and `TokenCapacityIsCount` (any width of the C types),
`MockEchoes`, `LastRowIsWhole` (any shape), `ManifestSurvives` (any manifest).

Three more are about loops, for inputs of any length. `FirstMaximumSelected`: the
fold of the argmax returns the first of the highest finite scores, or refuses
the row. `EveryJavaStringSurvives` and `EveryByteStringSurvives`: a text goes
through the JNI adapter unchanged or is refused. For these, a loop is its first
turn and then the loop over the rest (`TurnsOneByOne`); a turn looks no further
than the code point it reads (`Utf16IsLocal`, `Utf8IsLocal`); and a code point
has one form in units and one in bytes, its digits in base 64, so what one
direction appends is what the other reads (`Utf8IsRead`, `Utf8WasWritten`, and the
same for units). Induction over sets and lengths is stated as a fact about a
*set* (`SetInduction`, `LengthInduction`), proved from the least element of a set
of numbers (`NatWellOrdered`), because the library's induction theorems take an
operator as a parameter, which the provers cannot instantiate.

`EveryManifestOpens` is about the writer, the reader and the planner at once: what
`write-manifest` makes of a directory is accepted, read back as it was and planned
with exactly the files that are there. `Lists` follows the writer through the
standard layout: after `n` entries, the files so far are those of the first `n`
that are there, each role once. All the checks of `FromRaw` follow from that
(`FilesAccepted`, `CodesAccepted`), and so does the path that each role names
(`PathsAreThere`).

Only model-checked: liveness (`EveryCallReturns`, `EveryRequestAnswered`,
`EveryCommandReturns`), since fairness and ENABLED are out of the provers' reach,
and the five violations, which are counterexamples. No
module declares a RECURSIVE operator.

## 5. Not modelled, and the plan

Left out for good: the wording of prompts, summaries, reports and status texts;
the measurement of time in the benchmark; argument parsing beyond valid or not;
the release checks of the build (`ffi-header`, `startup`, size reports), build
scripts and docs; the sampling mathematics of llama.cpp, the graphs of ONNX
Runtime and the `tokenizers` library, which are external; the names and metadata a
session reports.

Assumed away: digests are collision-free, and a write gives a file a new stamp
(a copy that keeps length and time defeats a trust artifact by design).

Next:

1. `ModelPackTrust` with manifests that differ in more than their files, for the
   window between the two reads of a trusted open.
2. Trusted verification in `OfflineOpen` as the accesses of `ModelPackTrust`
   rather than one step, so that the two compose.
