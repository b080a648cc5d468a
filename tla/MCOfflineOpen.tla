--------------------------- MODULE MCOfflineOpen ---------------------------
(***************************************************************************)
(* OfflineOpen on small packs.  A content is named after the file it is    *)
(* for; those ending in X are well listed by some manifest but useless:    *)
(* verification passes and the step that uses the content must refuse it.  *)
(***************************************************************************)
EXTENDS MCPureParts

CONSTANTS a, b

P(name) == <<name>>
mcManifestPath == P("manifest.json")
mcModelPath ==
  {P("tokenizer.json"), P("encoder.onnx"), P("decoder.onnx"), P("past.onnx"),
   P("config.json"), P("generation.json"), P("model.gguf"), P("llama.json")}

(* Contents are numbered, and the number written in hex is the digest.     *)
ContentNames ==
  <<"tok", "tokX", "enc", "encX", "dec", "decX", "past", "pastX", "io", "ioNone", "ioX",
    "gen", "genX", "gguf", "llama", "llamaX", "junk">>
PackNames ==
  {"full", "plain", "bare", "tokXm", "encXm", "decXm", "pastXm", "ioNoneM", "ioXm", "genXm",
   "noDecoder", "fourLanguages", "ggufM", "ggufXm", "ggufNoModel"}
Numbered == {ContentNames[i] : i \in DOMAIN ContentNames}
mcContent == Numbered \cup PackNames
NumberOf(name) == CHOOSE i \in DOMAIN ContentNames : ContentNames[i] = name
Hex(n) == [i \in 1 .. 64 |-> IF i = 63 THEN HEX[1 + (n \div 16)] ELSE HEX[1 + (n % 16)]]
mcDigestOf == [content \in mcContent |-> IF content \in Numbered THEN Hex(NumberOf(content)) ELSE Hex(0)]

File(role, path, content) == [path |-> P(path), kind |-> RoleName[role], sha256 |-> mcDigestOf[content]]
Raw(name, codes, files) ==
  [schema_version |-> SCHEMA_VERSION, model_id |-> "id", version |-> "1", architecture |-> "m2m",
   runtime |-> name, license |-> "MIT", languages |-> codes, files |-> files]
AllCodes == Codes(REQUIRED_LANGUAGES)
Onnx(files) == Raw(ONNX_RUNTIME, AllCodes, files)

Tok(content) == File("Tokenizer", "tokenizer.json", content)
Enc(content) == File("Encoder", "encoder.onnx", content)
Dec(content) == File("Decoder", "decoder.onnx", content)
Past(content) == File("DecoderWithPast", "past.onnx", content)
Io(content) == File("Config", "config.json", content)
Gen(content) == File("GenerationConfig", "generation.json", content)
Gguf(files) == Raw(LLAMA_CPP_RUNTIME, AllCodes, files)
LlamaFile(content) == File("LlamaRuntimeConfig", "llama.json", content)
Required == <<Tok("tok"), Enc("enc"), Dec("dec")>>

mcRawManifests ==
  [full |-> Onnx(Required \o <<Past("past"), Io("io"), Gen("gen")>>),
   plain |-> Onnx(Required \o <<Io("io"), Gen("gen")>>),
   bare |-> Onnx(Required),
   tokXm |-> Onnx(<<Tok("tokX"), Enc("enc"), Dec("dec"), Io("io"), Gen("gen")>>),
   encXm |-> Onnx(<<Tok("tok"), Enc("encX"), Dec("dec"), Io("io"), Gen("gen")>>),
   decXm |-> Onnx(<<Tok("tok"), Enc("enc"), Dec("decX"), Io("io"), Gen("gen")>>),
   pastXm |-> Onnx(Required \o <<Past("pastX"), Io("io"), Gen("gen")>>),
   ioNoneM |-> Onnx(Required \o <<Io("ioNone"), Gen("gen")>>),
   ioXm |-> Onnx(Required \o <<Io("ioX"), Gen("gen")>>),
   genXm |-> Onnx(Required \o <<Io("io"), Gen("genX")>>),
   noDecoder |-> Onnx(<<Tok("tok"), Enc("enc"), Io("io"), Gen("gen")>>),
   fourLanguages |-> Raw(ONNX_RUNTIME, SubSeq(AllCodes, 1, 4), Required),
   ggufM |-> Gguf(<<File("GgufModel", "model.gguf", "gguf"), LlamaFile("llama")>>),
   ggufXm |-> Gguf(<<File("GgufModel", "model.gguf", "gguf"), LlamaFile("llamaX")>>),
   ggufNoModel |-> Gguf(<<LlamaFile("llama")>>)]

(* The disk a manifest describes.                                          *)
ContentFor(digest) == CHOOSE content \in Numbered : mcDigestOf[content] = digest
DiskOf(name) ==
  LET files == mcRawManifests[name].files IN
  [path \in {mcManifestPath} \cup mcModelPath |->
     IF path = mcManifestPath THEN name
     ELSE IF \E i \in DOMAIN files : files[i].path = path
     THEN ContentFor(files[CHOOSE i \in DOMAIN files : files[i].path = path].sha256)
     ELSE Absent]

Ids == [English |-> 2, Russian |-> 3, Thai |-> 4, Vietnamese |-> 5, Japanese |-> 6]
RawGeneration(limit, japanese) ==
  [max_new_tokens |-> limit, bos_token_id |-> 0, eos_token_id |-> 1,
   decoder_start_token_id |-> 1, language_token_ids |-> [Ids EXCEPT !.Japanese = japanese]]
mcGenerationFiles == [gen |-> RawGeneration(None, 6), genX |-> RawGeneration(4, 1)]

Name(trimmed) == [trimmed |-> trimmed, whole |-> "w"]
DecoderNames(logits) ==
  [input_ids |-> Name("i"), encoder_attention_mask |-> Name("m"),
   encoder_hidden_states |-> Name("h"), logits |-> Name(logits)]
EncoderNames == [input_ids |-> Name("i"), attention_mask |-> Name("m"), last_hidden_state |-> Name("h")]
RawIo(logits) ==
  [ort_io |-> [encoder |-> EncoderNames, decoder |-> DecoderNames(logits), decoder_with_past |-> None]]
mcIoFiles == [io |-> RawIo("logits"), ioNone |-> [ort_io |-> None], ioX |-> RawIo(None)]

RawLlama(context) ==
  [context_tokens |-> context, cpu_threads |-> None, max_output_tokens |-> None, temperature |-> None]
mcLlamaFiles == [llama |-> RawLlama(None), llamaX |-> RawLlama(0)]

mcTokenizerFiles == {"tok"}
mcGraphs == {"enc", "dec", "past"}
mcDylibs == {"lib1", "lib2", "missing"}
mcDylibFiles == {"lib1", "lib2"}

----------------------------------------------------------------------------
Programs ==
  {Doctor, ModelPlan, ModelRuntimeConfig, ModelTokenize, MockBench, FfiSmoke, FfiHfSmoke,
   FfiOrtSmoke, FfiOrtTranslateSmoke, FfiGgufTranslateSmoke, FfiOrtTranslateBench,
   FfiOrtTranslateBenchTrusted, FfiRuntimeConfig, FfiTrustedSummary, OpenTokenizer,
   OrtRuntimeConfigure, FfiStartup}
Builds == [hf : BOOLEAN, ort : BOOLEAN]
Whole == [hf |-> TRUE, ort |-> TRUE]

Cmd(program) == [program |-> program, dylib |-> "lib2"]
Configure(path) == [program |-> OrtRuntimeConfigure, dylib |-> path]
Scenario(onDisk, installs, features, environment, forA, forB) ==
  [disk |-> onDisk, writes |-> installs, build |-> features, env |-> environment,
   command |-> (a :> forA @@ b :> forB)]

Changed(name, path, content) == [DiskOf(name) EXCEPT ![P(path)] = content]

(* Every program on every pack in the full build, and the programs that ask*)
(* for a feature or a runtime in the other builds and environments.        *)
Alone ==
  {Scenario(DiskOf(name), 0, Whole, "lib1", Cmd(program), Cmd(Idle)) :
     name \in PackNames, program \in Programs}
  \cup {Scenario(Changed("full", path, "junk"), 0, Whole, "lib1", Cmd(program), Cmd(Idle)) :
          path \in {"past.onnx", "generation.json", "manifest.json"},
          program \in {Doctor, FfiOrtTranslateSmoke, FfiTrustedSummary}}
  \cup {Scenario(Changed("full", "past.onnx", "dec"), 0, Whole, "lib1", Cmd(program), Cmd(Idle)) :
          program \in {Doctor, FfiOrtTranslateBench}}
  \cup {Scenario(DiskOf("plain"), 0, features, environment, Cmd(program), Cmd(Idle)) :
          features \in Builds, environment \in {None, "lib1", "missing"},
          program \in {Doctor, ModelTokenize, FfiHfSmoke, FfiOrtSmoke, OrtRuntimeConfigure}}

(* An installer writes under a command.                                    *)
mcInstalls ==
  {<<P("manifest.json"), "bare">>, <<P("generation.json"), "genX">>, <<P("config.json"), Absent>>,
   <<P("tokenizer.json"), "tokX">>, <<P("encoder.onnx"), "junk">>, <<P("past.onnx"), Absent>>}
Installed ==
  {Scenario(DiskOf("full"), 1, Whole, "lib1", Cmd(program), Cmd(Idle)) :
     program \in {Doctor, FfiOrtTranslateBench, FfiRuntimeConfig, FfiTrustedSummary, ModelTokenize}}

(* Two callers, and a path configured between them.                        *)
Together ==
  {Scenario(DiskOf("full"), 0, Whole, environment, Cmd(first), second) :
     environment \in {None, "lib1"}, first \in {FfiOrtSmoke, FfiOrtTranslateBenchTrusted},
     second \in {Configure("lib2"), Configure("missing"), Cmd(FfiOrtSmoke)}}
  \cup {Scenario(DiskOf("full"), 1, Whole, "lib1", Cmd(FfiOrtSmoke), Cmd(Idle))}
  \cup {Scenario(DiskOf("full"), 0, Whole, None, Configure("lib1"), Configure(path)) :
          path \in mcDylibs}

(* Nobody asks for anything: one state, in which the laws of PureParts are *)
(* evaluated.                                                              *)
AtRest == Scenario(DiskOf("full"), 0, Whole, "lib1", Cmd(Idle), Cmd(Idle))

mcScenarios == Alone \cup Installed \cup Together \cup {AtRest}
=============================================================================
