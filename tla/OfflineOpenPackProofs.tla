------------------------ MODULE OfflineOpenPackProofs ------------------------
(***************************************************************************)
(* For every pack, every disk, every installer and every set of scripts in *)
(* order: a handle is handed out whole, a doctor that answers ok for ONNX  *)
(* graphs has seen a pack that opens, and a status names its cause.        *)
(*                                                                         *)
(* What a caller knows is a predicate of a position of its section and of  *)
(* the locals there, so that a step is shown to establish it for the next  *)
(* position, the one past the end of the section included.                 *)
(***************************************************************************)
EXTENDS OfflineOpenProofs, ConfigProofs, PureParts

FilesOn(manifest) == Manifests[manifest].value.files
Generator(manifest) == Plans[manifest].value.generator
SinceAny(some, steps, i) == \E step \in some : Since(step, steps, i)

(* What the locals tell, whatever is on the disk by now.                   *)
Remembers(s, i, w) ==
  /\ Since("discover", s, i) => w.manifest \in Packs
  /\ Since("plan", s, i) => Plans[w.manifest].ok
  /\ Since("load_tokenizer", s, i) => w.tokenizer \in TokenizerFiles
  /\ Since("runtime_generation", s, i) => GenerationIn(w.generation).ok
  /\ Since("runtime_io", s, i) => IoIn(w.io).ok
  /\ i \in DOMAIN s /\ s[i] = "verify" => w.files < Len(FilesOn(w.manifest))
  /\ i \in DOMAIN s /\ s[i] = "init_runtime" => w.dylib # None
  /\ w.translation # "ok" => After({"translate"}, s, i)

(* What they tell of the process.                                          *)
Prepared(s, i, library) ==
  /\ Since("hf_gate", s, i) => build.hf
  /\ Since("ort_gate", s, i) => build.ort
  /\ Since("init_runtime", s, i) => library # None

(* The sessions, and the handle.                                           *)
HasPastIn(manifest) == Generator(manifest).decoder_with_past # None
Holds(s, i, w, held, out) ==
  /\ out => After({"open"}, s, i)
  /\ After({"join_loads"}, s, i) =>
       /\ held["Encoder"].state = "loaded" /\ held["Decoder"].state = "loaded"
       /\ ~ After({"load_past"}, s, i) => HasPastIn(w.manifest)
       /\ After({"load_past"}, s, i) =>
            held["DecoderWithPast"].state = IF HasPastIn(w.manifest) THEN "loaded" ELSE "none"
  /\ ~ After({"load_past"}, s, i) => held["DecoderWithPast"] = NoSession

(* On a disk nobody touched, the locals are what it holds.                 *)
FileIntact(file) == disk[file.path] # Absent /\ DigestOf[disk[file.path]] = file.sha256
ReadAs(done, s, i, path) == IF SinceAny(done, s, i) THEN ReadOptional(path) ELSE None
SummaryAt(s, i) ==
  <<disk[ManifestPath], ReadAs(GenerationReads, s, i, DiskPlan.generator.generation_config),
    ReadAs(IoReads, s, i, DiskPlan.generator.config)>>
Linked(s, i, w, held) ==
  /\ Since("discover", s, i) => w.manifest = disk[ManifestPath]
  /\ i \in DOMAIN s /\ s[i] = "verify" =>
       \A k \in 1 .. w.files : FileIntact(FilesOn(w.manifest)[k])
  /\ w.tokenizer = ReadAs({"load_tokenizer"}, s, i, DiskPlan.tokenizer.tokenizer)
  /\ w.generation = ReadAs(GenerationReads, s, i, DiskPlan.generator.generation_config)
  /\ w.io = ReadAs(IoReads, s, i, DiskPlan.generator.config)
  /\ After({"measure"}, s, i) =>
       \E m \in DOMAIN s : s[m] = "measure" /\ w.measured = SummaryAt(s, m)
  /\ \A role \in OrtRole : held[role].state = "loaded" =>
       held[role].graph = disk[PathIn(DiskPlan.generator, role)]

(* And what was found in order on it is.                                   *)
Found(s, i) ==
  /\ After({"verify"}, s, i) => PackIntact
  /\ After({"plan"}, s, i) => Plans[disk[ManifestPath]].ok
  /\ After({"read_generation"}, s, i) =>
       GenerationSound(DiskPlan.generator.generation_config, FALSE)
  /\ After({"read_io"}, s, i) => IoSound(DiskPlan.generator.config, FALSE)
  /\ After({"runtime_generation", "strict_generation"}, s, i) =>
       GenerationSound(DiskPlan.generator.generation_config, TRUE)
  /\ After({"runtime_io", "strict_io"}, s, i) => IoSound(DiskPlan.generator.config, TRUE)
  /\ After({"load_tokenizer"}, s, i) => TokenizerSound
  /\ After({"join_loads"}, s, i) /\ After({"open"}, s, i) => GraphsSound

Knows(c, s, i, w, held, out, library) ==
  /\ Remembers(s, i, w) /\ Prepared(s, i, library) /\ Holds(s, i, w, held, out)
  /\ calm[c] => Linked(s, i, w, held) /\ Found(s, i)

(* What the sections of a doctor leave behind, and what a status says.     *)
ConfigsFound == AssetsSound(FALSE)
TokenizerFound == build.hf => TokenizerSound
RuntimeFound ==
  build.ort => AssetsSound(TRUE) /\ (env \in DylibFiles => GraphsSound)
Examined(i) ==
  /\ i > 2 => ConfigsFound
  /\ i > 5 => TokenizerFound
  /\ i > 6 => RuntimeFound
Agrees ==
  \/ PackIntact /\ GgufPlans[disk[ManifestPath]].ok
  \/ ConfigsFound /\ TokenizerFound /\ RuntimeFound
Doctors(c) ==
  calm[c] /\ command[c].program = Doctor =>
    /\ outcome[c] = "running" => Examined(section[c])
    /\ outcome[c] = "ok" => Agrees
Causes(c, status) ==
  /\ status = "MODEL_PACK_ERROR" =>
       \/ MayRun(c, {"verify_trusted", "load_llama"})
       \/ IF MayRun(c, {"plan_gguf"}) THEN ~ GgufSound
          ELSE ~ AssetsSound(MayRun(c, {"strict_generation"}))
  /\ status = "TOKENIZER_ERROR" => build.hf /\ ~ TokenizerSound
  /\ status = "TOKENIZER_DISABLED" => ~ build.hf
  /\ status = "RUNTIME_DISABLED" => ~ build.ort
  /\ status = "RUNTIME_NOT_CONFIGURED" =>
       build.ort /\ (env \notin DylibFiles \/ MayRun(c, {"configure"}))
  /\ status = "BUFFER_TOO_SMALL" => MayRun(c, {"translate"})

(* One caller, and all of them.                                            *)
Typed(c) ==
  /\ command[c].program # Idle => InProgram(c)
  /\ work[c] \in Locals /\ session[c] \in [OrtRole -> SessionStates]
  /\ outcome[c] \in {"running", "ok"} \cup Status /\ calm[c] \in BOOLEAN
CallerKnows(c) ==
  /\ Typed(c)
  /\ outcome[c] = "running" =>
       Knows(c, Steps(c), pos[c], work[c], session[c], opened[c], runtime)
  /\ calm[c] => Causes(c, outcome[c])
  /\ Doctors(c)
DiskInv ==
  /\ disk \in Disks /\ writes \in Nat
  /\ build \in [hf : BOOLEAN, ort : BOOLEAN]
  /\ {env, override, runtime, early} \subseteq Dylibs \cup {None}
  /\ DOMAIN command = Callers /\ DOMAIN calm = Callers
  /\ \A c \in Callers : InOrder(command[c].program)
PackInv == HeldInv /\ DiskInv /\ \A c \in Callers : CallerKnows(c)

----------------------------------------------------------------------------
(* The manifests.  A pack lists a file at least, each of them on the disk's*)
(* paths, and every path of a plan is one of them.                         *)
LEMMA PackIsManifest ==
  ASSUME NEW content \in Packs
  PROVE  /\ Manifests[content].ok
         /\ Manifests[content] = FromRaw(RawManifests[content])
         /\ Len(FilesOn(content)) \in Nat \ {0}
         /\ DOMAIN FilesOn(content) = 1 .. Len(FilesOn(content))
         /\ \A i \in DOMAIN FilesOn(content) : FilesOn(content)[i].path \in Path
<1> DEFINE raw == RawManifests[content]
           schema == << <<raw.schema_version # SCHEMA_VERSION, "UnsupportedSchema">> >>
           codes == LanguageCodeChecks(raw.languages)
           distinct == DistinctLanguagesChecks(raw.languages)
           parsed == FileChecks(raw.files)
           valid == ValidFilesChecks(Kinds(raw.files))
           named == NameChecks(raw)
           languages == [i \in DOMAIN raw.languages |-> FromIso639_1(raw.languages[i]).value]
           files == [i \in DOMAIN raw.files |-> ParsedFile(raw.files[i])]
           manifest == [raw EXCEPT !.languages = languages, !.files = files]
           SerdeFile == [path : Path, kind : STRING, sha256 : Seq(STRING)]
<1>1. raw \in SerdeManifest
  BY DataAssumption DEF Packs
<1>2. raw.languages \in Seq(STRING) /\ raw.files \in Seq(SerdeFile)
  BY <1>1 DEF SerdeManifest
<1>3. FromRaw(raw) = Checked(schema \o codes \o distinct \o parsed \o valid \o named, manifest)
  BY DEF FromRaw
<1>4. IsSeq(codes) /\ IsSeq(parsed)
  BY <1>2, CodesChecked, FilesChecked
<1>5. IsSeq(schema) /\ IsSeq(distinct) /\ IsSeq(valid) /\ IsSeq(named)
  <2>1. IsSeq(schema)
    BY DEF IsSeq
  <2>2. IsSeq(distinct)
    BY DEF IsSeq, DistinctLanguagesChecks
  <2>3. IsSeq(valid)
    BY DEF IsSeq, ValidFilesChecks
  <2>4. IsSeq(named)
    BY DEF IsSeq, NameChecks, NAMES
  <2> QED BY <2>1, <2>2, <2>3, <2>4
<1>6. FromRaw(raw).ok /\ Manifests[content] = FromRaw(raw)
  BY Zenon DEF Packs, Manifests
<1>7. /\ Clean(schema \o codes \o distinct \o parsed \o valid \o named)
      /\ FromRaw(raw).value = manifest
  <2> HIDE DEF schema, codes, distinct, parsed, valid, named, manifest
  <2>1. Clean(schema \o codes \o distinct \o parsed \o valid \o named)
    BY <1>3, <1>6, CheckedOk, Zenon
  <2>2. FromRaw(raw) = Ok(manifest)
    BY <1>3, <2>1, CheckedOk, Zenon
  <2> QED BY <2>1, <2>2, Results, Zenon
<1>8. Clean(valid)
  <2> HIDE DEF schema, codes, distinct, parsed, valid, named
  <2>1. IsSeq(schema \o codes)
    BY <1>4, <1>5, CleanConcat, Zenon
  <2>2. IsSeq(schema \o codes \o distinct)
    BY <1>5, <2>1, CleanConcat, Zenon
  <2>3. IsSeq(schema \o codes \o distinct \o parsed)
    BY <1>4, <2>2, CleanConcat, Zenon
  <2>4. IsSeq(schema \o codes \o distinct \o parsed \o valid)
    BY <1>5, <2>3, CleanConcat, Zenon
  <2>5. Clean(schema \o codes \o distinct \o parsed \o valid)
    BY <1>5, <1>7, <2>4, CleanConcat, Zenon
  <2> QED BY <1>5, <2>3, <2>5, CleanConcat, Zenon
<1>9. raw.files # <<>>
  <2>1. 1 \in DOMAIN valid /\ valid[1][1] = (Kinds(raw.files) = <<>>)
    <3> HIDE DEF raw
    <3> QED BY DEF ValidFilesChecks
  <2>2. Kinds(raw.files) # <<>>
    <3> HIDE DEF valid
    <3> QED BY <1>8, <2>1, Zenon DEF Clean
  <2> QED BY <2>2 DEF Kinds
<1>10. FilesOn(content) = files
  <2>1. manifest.files = files
    <3> HIDE DEF languages, files
    <3> QED BY <1>1 DEF SerdeManifest
  <2> QED BY <1>6, <1>7, <2>1, Zenon DEF FilesOn
<1>11. /\ Len(raw.files) \in Nat \ {0} /\ DOMAIN raw.files = 1 .. Len(raw.files)
       /\ \A i \in DOMAIN raw.files : raw.files[i] \in SerdeFile
  <2> HIDE DEF raw, SerdeFile
  <2> QED BY <1>2, <1>9
<1>12. /\ DOMAIN files = DOMAIN raw.files
       /\ \A i \in DOMAIN raw.files : files[i].path \in Path
  BY <1>11 DEF ParsedFile
<1>13. Len(files) = Len(raw.files)
  <2> HIDE DEF files
  <2> QED BY <1>11, <1>12
<1> QED BY <1>6, <1>10, <1>11, <1>12, <1>13

LEMMA FilePathIsListed ==
  ASSUME NEW content \in Packs, NEW role,
         FilePath(Manifests[content].value, role) # None
  PROVE  \E i \in DOMAIN FilesOn(content) :
           FilesOn(content)[i].path = FilePath(Manifests[content].value, role)
<1> DEFINE manifest == Manifests[content].value
           least == CHOOSE i \in FilesOf(manifest, role) :
                      \A j \in FilesOf(manifest, role) : i <= j
<1>1. FilesOf(manifest, role) # {}
  BY DEF FilePath
<1>2. FilesOf(manifest, role) \subseteq DOMAIN FilesOn(content)
  BY DEF FilesOf, FilesOn
<1>3. FilesOf(manifest, role) \subseteq Nat
  BY <1>2, PackIsManifest
<1>4. \E i \in FilesOf(manifest, role) : \A j \in FilesOf(manifest, role) : i <= j
  BY <1>1, <1>3, NatWellOrdered
<1>5. least \in FilesOf(manifest, role)
  BY <1>4
<1>6. FilePath(manifest, role) = FilesOn(content)[least].path
  BY <1>1, Zenon DEF FilePath, FilesOn
<1> HIDE DEF least
<1> QED BY <1>2, <1>5, <1>6

Listed(content, path) ==
  path = None \/ \E i \in DOMAIN FilesOn(content) : FilesOn(content)[i].path = path

LEMMA FilePathListed ==
  ASSUME NEW content \in Packs, NEW role
  PROVE  Listed(content, FilePath(Manifests[content].value, role))
BY FilePathIsListed DEF Listed

LEMMA ListedIsPath ==
  ASSUME NEW content \in Packs, NEW path, Listed(content, path)
  PROVE  path \in Path \cup {None}
BY PackIsManifest DEF Listed

(* A plan is made of the first files of their roles.                       *)
LEMMA TokenizerPlanned ==
  ASSUME NEW manifest, TokenizerAssetPlan(manifest).ok
  PROVE  /\ FilePath(manifest, "Tokenizer") # None
         /\ TokenizerAssetPlan(manifest).value.tokenizer = FilePath(manifest, "Tokenizer")
<1> DEFINE checks == << <<Missing(manifest, "Tokenizer"), "MissingTokenizerAsset">> >>
           plan == [tokenizer |-> FilePath(manifest, "Tokenizer"),
                    vocabulary |-> FilePath(manifest, "Vocabulary"),
                    config |-> FilePath(manifest, "Config")]
<1>1. TokenizerAssetPlan(manifest) = Checked(checks, plan)
  BY DEF TokenizerAssetPlan
<1>2. 1 \in DOMAIN checks /\ checks[1][1] = Missing(manifest, "Tokenizer")
  OBVIOUS
<1>3. plan.tokenizer = FilePath(manifest, "Tokenizer")
  OBVIOUS
<1> HIDE DEF checks, plan
<1>4. Clean(checks) /\ TokenizerAssetPlan(manifest) = Ok(plan)
  BY <1>1, CheckedOk, Zenon
<1>5. ~ Missing(manifest, "Tokenizer")
  BY <1>2, <1>4, Zenon DEF Clean
<1> QED BY <1>3, <1>4, <1>5, Results DEF Missing

LEMMA GeneratorAssetsPlanned ==
  ASSUME NEW manifest, GeneratorAssetPlan(manifest).ok
  PROVE  LET plan == GeneratorAssetPlan(manifest).value IN
         /\ FilePath(manifest, "Encoder") # None /\ FilePath(manifest, "Decoder") # None
         /\ plan.encoder = FilePath(manifest, "Encoder")
         /\ plan.decoder = FilePath(manifest, "Decoder")
         /\ plan.decoder_with_past = FilePath(manifest, "DecoderWithPast")
         /\ plan.generation_config = FilePath(manifest, "GenerationConfig")
<1> DEFINE checks == << <<Missing(manifest, "Encoder"), "MissingEncoder">>,
                        <<Missing(manifest, "Decoder"), "MissingDecoder">> >>
           plan == [encoder |-> FilePath(manifest, "Encoder"),
                    decoder |-> FilePath(manifest, "Decoder"),
                    decoder_with_past |-> FilePath(manifest, "DecoderWithPast"),
                    generation_config |-> FilePath(manifest, "GenerationConfig")]
<1>1. GeneratorAssetPlan(manifest) = Checked(checks, plan)
  BY DEF GeneratorAssetPlan
<1>2. /\ 1 \in DOMAIN checks /\ checks[1][1] = Missing(manifest, "Encoder")
      /\ 2 \in DOMAIN checks /\ checks[2][1] = Missing(manifest, "Decoder")
  OBVIOUS
<1>3. /\ plan.encoder = FilePath(manifest, "Encoder")
      /\ plan.decoder = FilePath(manifest, "Decoder")
      /\ plan.decoder_with_past = FilePath(manifest, "DecoderWithPast")
      /\ plan.generation_config = FilePath(manifest, "GenerationConfig")
  OBVIOUS
<1> HIDE DEF checks, plan
<1>4. Clean(checks) /\ GeneratorAssetPlan(manifest) = Ok(plan)
  BY <1>1, CheckedOk, Zenon
<1>5. ~ Missing(manifest, "Encoder") /\ ~ Missing(manifest, "Decoder")
  BY <1>2, <1>4, Zenon DEF Clean
<1> QED BY <1>3, <1>4, <1>5, Results DEF Missing

(* The paths of the plan of a pack: what opening it reads.                 *)
LEMMA PlanPaths ==
  ASSUME NEW content \in Packs, Plans[content].ok
  PROVE  LET g == Generator(content)
             past == g.decoder_with_past
             tokenizer == Plans[content].value.tokenizer.tokenizer IN
         /\ Manifests[content].value.runtime = ONNX_RUNTIME
         /\ Listed(content, tokenizer) /\ tokenizer # None
         /\ Listed(content, g.encoder.path) /\ g.encoder.path # None
         /\ Listed(content, g.decoder.path) /\ g.decoder.path # None
         /\ past # None => Listed(content, past.path) /\ past.path # None
         /\ Listed(content, g.config) /\ Listed(content, g.generation_config)
<1> DEFINE manifest == Manifests[content].value
           assets == GeneratorAssetPlan(manifest)
           generator == OrtGeneratorPlan(manifest)
           tokenizer == TokenizerAssetPlan(manifest)
           plan == [model_id |-> manifest.model_id,
                    encoder |-> SessionPlan(manifest, "Encoder", assets.value.encoder),
                    decoder |-> SessionPlan(manifest, "Decoder", assets.value.decoder),
                    decoder_with_past |->
                      IF assets.value.decoder_with_past = None THEN None
                      ELSE SessionPlan(manifest, "DecoderWithPast", assets.value.decoder_with_past),
                    config |-> FilePath(manifest, "Config"),
                    generation_config |-> assets.value.generation_config]
<1>1. Plans[content] = TranslatorPlanOf(tokenizer, generator)
  <2>1. content \in DOMAIN RawManifests
    BY DEF Packs
  <2>2. Plans[content] = PlanOf(FromRaw(RawManifests[content]))
    BY <2>1, Zenon DEF Plans
  <2> QED BY <2>2, PackIsManifest, Zenon DEF PlanOf, OfflineTranslatorPlan
<1>2. tokenizer.ok /\ generator.ok
  <2> HIDE DEF tokenizer, generator
  <2>1. CASE ~ tokenizer.ok
    BY <1>1, <2>1, Zenon DEF TranslatorPlanOf
  <2>2. CASE tokenizer.ok /\ ~ generator.ok
    BY <1>1, <2>2, Zenon DEF TranslatorPlanOf
  <2> QED BY <2>1, <2>2
<1>3. Plans[content].value = [tokenizer |-> tokenizer.value, generator |-> generator.value]
  <2> HIDE DEF tokenizer, generator
  <2> QED BY <1>1, <1>2, Results, Zenon DEF TranslatorPlanOf
<1>4. generator = GeneratorPlanOf(manifest, assets)
  BY DEF OrtGeneratorPlan
<1>5. manifest.runtime = ONNX_RUNTIME /\ assets.ok /\ generator = Ok(plan)
  <2> HIDE DEF manifest, assets, generator
  <2>1. CASE manifest.runtime # ONNX_RUNTIME
    <3>1. generator = Err("UnsupportedRuntime")
      BY <1>4, <2>1, Zenon DEF GeneratorPlanOf
    <3> QED BY <1>2, <3>1, Results, Zenon
  <2>2. CASE manifest.runtime = ONNX_RUNTIME /\ ~ assets.ok
    BY <1>2, <1>4, <2>2, Zenon DEF GeneratorPlanOf
  <2>3. CASE manifest.runtime = ONNX_RUNTIME /\ assets.ok
    BY <1>4, <2>3, Zenon DEF GeneratorPlanOf
  <2> QED BY <2>1, <2>2, <2>3
<1>6. Generator(content) = plan
  <2>1. generator.value = plan
    BY <1>5, Results, Zenon
  <2>2. Plans[content].value.generator = generator.value
    <3> HIDE DEF generator, tokenizer
    <3> QED BY <1>3
  <2> QED BY <2>1, <2>2, Zenon DEF Generator
<1>7. Plans[content].value.tokenizer.tokenizer = FilePath(manifest, "Tokenizer")
      /\ FilePath(manifest, "Tokenizer") # None
  <2>1. Plans[content].value.tokenizer = tokenizer.value
    <3> HIDE DEF generator, tokenizer
    <3> QED BY <1>3
  <2> QED BY <1>2, <2>1, TokenizerPlanned, Zenon
<1>8. /\ FilePath(manifest, "Encoder") # None /\ FilePath(manifest, "Decoder") # None
      /\ assets.value.encoder = FilePath(manifest, "Encoder")
      /\ assets.value.decoder = FilePath(manifest, "Decoder")
      /\ assets.value.decoder_with_past = FilePath(manifest, "DecoderWithPast")
      /\ assets.value.generation_config = FilePath(manifest, "GenerationConfig")
  BY <1>5, GeneratorAssetsPlanned, Zenon
<1>9. /\ plan.encoder.path = FilePath(manifest, "Encoder")
      /\ plan.decoder.path = FilePath(manifest, "Decoder")
      /\ plan.decoder_with_past # None =>
           /\ plan.decoder_with_past.path = FilePath(manifest, "DecoderWithPast")
           /\ plan.decoder_with_past.path # None
      /\ plan.config = FilePath(manifest, "Config")
      /\ plan.generation_config = FilePath(manifest, "GenerationConfig")
  <2> HIDE DEF manifest, assets
  <2> QED BY <1>8 DEF SessionPlan
<1> HIDE DEF manifest, plan
<1> QED BY <1>5, <1>6, <1>7, <1>8, <1>9, FilePathListed DEF manifest

(* A config that parses is usable.                                         *)
LEMMA GenerationIsUsable ==
  ASSUME NEW content, GenerationIn(content).ok
  PROVE  UsableGeneration(content)
<1> DEFINE file == FileAs(content, GenerationFiles)
<1>1. content \in DOMAIN GenerationFiles /\ file = Ok(GenerationFiles[content])
  <2>1. file.ok
    BY Zenon DEF GenerationIn, FromJsonFile
  <2> QED BY <2>1, Results, Zenon DEF FileAs
<1>2. GenerationFiles[content] \in RawGenerationConfig
  BY <1>1, DataAssumption
<1>3. TryIntoConfig(GenerationFiles[content]).ok
  <2> HIDE DEF file
  <2>1. FromJsonFile(file) = TryIntoConfig(GenerationFiles[content])
    BY <1>1, Results, Zenon DEF FromJsonFile
  <2> QED BY <2>1, Zenon DEF GenerationIn, file
<1>4. None \notin Nat
  BY DataAssumption
<1> QED BY <1>1, <1>2, <1>3, <1>4, AcceptedIffUsable DEF UsableGeneration

LEMMA IoIsUsable ==
  ASSUME NEW content, IoIn(content).ok
  PROVE  UsableIo(content)
<1> DEFINE file == FileAs(content, IoFiles)
           raw == IoFiles[content].ort_io
           encoder == TensorNameChecks("encoder", raw.encoder, EncoderFields)
           decoder == TensorNameChecks("decoder", raw.decoder, DecoderFields)
           past == IF raw.decoder_with_past = None THEN <<>>
                   ELSE TensorNameChecks("decoder_with_past", raw.decoder_with_past, DecoderFields)
<1>1. content \in DOMAIN IoFiles /\ file = Ok(IoFiles[content])
  <2>1. file.ok
    BY Zenon DEF IoIn, IoFromJsonFile
  <2> QED BY <2>1, Results, Zenon DEF FileAs
<1>2. IoIn(content) = TryIntoIoConfig(IoFiles[content])
  <2> HIDE DEF file
  <2>1. IoFromJsonFile(file) = TryIntoIoConfig(IoFiles[content])
    BY <1>1, Results, Zenon DEF IoFromJsonFile
  <2> QED BY <2>1, Zenon DEF IoIn, file
<1>3. raw # None
  <2>1. CASE raw = None
    <3>1. IoIn(content) = Err([kind |-> "MissingOrtIoConfig"])
      BY <1>2, <2>1, Zenon DEF TryIntoIoConfig
    <3> QED BY <3>1, Results, Zenon
  <2> QED BY <2>1
<1>4. Clean(RawIoChecks(raw))
  <2>1. IoIn(content) = Checked(RawIoChecks(raw), IoConfigOf(raw))
    BY <1>2, <1>3, Zenon DEF TryIntoIoConfig
  <2> QED BY <2>1, CheckedOk, Zenon
<1>5. DOMAIN EncoderFields = 1 .. 3 /\ DOMAIN DecoderFields = 1 .. 4
  BY DEF EncoderFields, DecoderFields
<1>6. \A object, names : /\ IsSeq(TensorNameChecks(object, names, EncoderFields))
                         /\ IsSeq(TensorNameChecks(object, names, DecoderFields))
  BY <1>5 DEF IsSeq, TensorNameChecks
<1>7. IsSeq(encoder) /\ IsSeq(decoder) /\ IsSeq(past)
  <2>1. IsSeq(<<>>)
    BY DEF IsSeq
  <2> QED BY <1>6, <2>1
<1>8. RawIoChecks(raw) = encoder \o decoder \o past
  BY Zenon DEF RawIoChecks
<1>9. Clean(decoder)
  <2> HIDE DEF encoder, decoder, past, raw
  <2>1. IsSeq(decoder \o past) /\ IsSeq(encoder \o decoder)
    BY <1>7, CleanConcat, Zenon
  <2>2. Clean(encoder \o decoder)
    BY <1>4, <1>7, <1>8, <2>1, CleanConcat, Zenon
  <2> QED BY <1>7, <2>2, CleanConcat, Zenon
<1>10. ASSUME NEW i \in DOMAIN DecoderFields
       PROVE  raw.decoder[DecoderFields[i]].trimmed # None
  <2>1. i \in DOMAIN decoder
        /\ decoder[i][1] = (raw.decoder[DecoderFields[i]].trimmed = None)
    <3> HIDE DEF raw
    <3> QED BY <1>10 DEF TensorNameChecks
  <2> HIDE DEF decoder, raw
  <2>2. ~ decoder[i][1]
    BY <1>9, <2>1, Zenon DEF Clean
  <2> QED BY <2>1, <2>2, Zenon
<1> QED BY <1>1, <1>3, <1>10 DEF UsableIo

----------------------------------------------------------------------------
(* What was done stays done, and what is skipped is all that is new.       *)
Passes(s, i, j, skip) ==
  /\ DOMAIN s = 1 .. Len(s) /\ Len(s) \in Nat /\ Ordered(s)
  /\ i \in DOMAIN s /\ j \in i .. Len(s) + 1
  /\ "measure" \notin skip /\ \A k \in i .. j - 1 : s[k] \in skip
Same(s, i, j, skip) ==
  /\ \A step : step \notin skip => (Since(step, s, j) <=> Since(step, s, i))
  /\ \A some : (\A step \in some : step \notin skip) => (After(some, s, j) <=> After(some, s, i))

LEMMA PassingIsSame ==
  ASSUME NEW s, NEW i \in Nat, NEW j \in Nat, NEW skip, 1 <= i, i <= j,
         "measure" \notin skip, \A k \in i .. j - 1 : s[k] \in skip
  PROVE  Same(s, i, j, skip)
<1>1. ASSUME NEW step, step \notin skip PROVE Since(step, s, j) <=> Since(step, s, i)
  <2>1. ASSUME Since(step, s, j) PROVE Since(step, s, i)
    <3>1. PICK m \in 1 .. j - 1 : s[m] = step /\ \A k \in m .. j - 1 : s[k] # "measure"
      BY <2>1 DEF Since
    <3>2. m < i
      BY <1>1, <3>1
    <3> QED BY <3>1, <3>2 DEF Since
  <2>2. ASSUME Since(step, s, i) PROVE Since(step, s, j)
    <3>1. PICK m \in 1 .. i - 1 : s[m] = step /\ \A k \in m .. i - 1 : s[k] # "measure"
      BY <2>2 DEF Since
    <3>2. \A k \in m .. j - 1 : s[k] # "measure"
      BY <3>1
    <3> QED BY <3>1, <3>2 DEF Since
  <2> QED BY <2>1, <2>2
<1>2. ASSUME NEW some, \A step \in some : step \notin skip
      PROVE  After(some, s, j) <=> After(some, s, i)
  BY <1>2 DEF After
<1> QED BY <1>1, <1>2 DEF Same

LEMMA PassesSame ==
  ASSUME NEW s, NEW i, NEW j, NEW skip, Passes(s, i, j, skip)
  PROVE  Same(s, i, j, skip)
<1>1. i \in Nat /\ j \in Nat /\ 1 <= i /\ i <= j
  BY DEF Passes
<1> QED BY <1>1, PassingIsSame DEF Passes

LEMMA NothingYet ==
  ASSUME NEW s
  PROVE  /\ \A step : ~ Since(step, s, 1)
         /\ \A some : ~ After(some, s, 1)
BY DEF Since, After

LEMMA SinceIsAfter ==
  ASSUME NEW step, NEW s, NEW i, Since(step, s, i)
  PROVE  After({step}, s, i)
BY DEF Since, After

(* The step just done.                                                     *)
LEMMA JustDone ==
  ASSUME NEW s, NEW i \in Nat \ {0}
  PROVE  /\ s[i] # "measure" => Since(s[i], s, i + 1)
         /\ s[i] = "measure" => \A step : step # "measure" => ~ Since(step, s, i + 1)
         /\ \A some : s[i] \in some => After(some, s, i + 1)
<1>1. i \in 1 .. (i + 1) - 1 /\ \A k \in i .. (i + 1) - 1 : k = i
  OBVIOUS
<1>2. s[i] # "measure" => Since(s[i], s, i + 1)
  BY <1>1 DEF Since
<1>3. ASSUME s[i] = "measure", NEW step, step # "measure", Since(step, s, i + 1) PROVE FALSE
  <2>1. PICK m \in 1 .. (i + 1) - 1 : s[m] = step /\ \A k \in m .. (i + 1) - 1 : s[k] # "measure"
    BY <1>3 DEF Since
  <2>2. i \in m .. (i + 1) - 1
    BY <2>1
  <2> QED BY <1>3, <2>1, <2>2
<1>4. \A some : s[i] \in some => After(some, s, i + 1)
  BY <1>1 DEF After
<1> QED BY <1>2, <1>3, <1>4

(* What a caller knows stays, part by part, while steps pass that do not   *)
(* bear on it.                                                             *)
LEMMA RemembersOn ==
  ASSUME NEW s, NEW i, NEW j, NEW skip, Passes(s, i, j, skip), NEW w, NEW u,
         Remembers(s, i, w), w.manifest = u.manifest, w.tokenizer = u.tokenizer,
         w.generation = u.generation, w.io = u.io,
         u.translation \in {"ok", w.translation},
         j \in DOMAIN s => s[j] # "verify",
         j \in DOMAIN s /\ s[j] = "init_runtime" => u.dylib # None,
         \A step \in {"discover", "plan", "load_tokenizer", "runtime_generation", "runtime_io"} :
           step \notin skip
  PROVE  Remembers(s, j, u)
<1>1. Same(s, i, j, skip)
  BY PassesSame
<1>2. After({"translate"}, s, i) => After({"translate"}, s, j)
  BY LaterStill DEF Passes
<1> QED BY <1>1, <1>2 DEF Same, Remembers

LEMMA PreparedOn ==
  ASSUME NEW s, NEW i, NEW j, NEW skip, Same(s, i, j, skip), NEW library,
         Prepared(s, i, library),
         \A step \in {"hf_gate", "ort_gate", "init_runtime"} : step \notin skip
  PROVE  Prepared(s, j, library)
BY DEF Same, Prepared

LEMMA HoldsOn ==
  ASSUME NEW s, NEW i, NEW j, NEW skip, Same(s, i, j, skip), NEW w, NEW u, NEW held, NEW out,
         Holds(s, i, w, held, out), w.manifest = u.manifest,
         \A step \in {"open", "join_loads", "load_past"} : step \notin skip
  PROVE  Holds(s, j, u, held, out)
<1>1. /\ After({"open"}, s, j) <=> After({"open"}, s, i)
      /\ After({"join_loads"}, s, j) <=> After({"join_loads"}, s, i)
      /\ After({"load_past"}, s, j) <=> After({"load_past"}, s, i)
  BY DEF Same
<1> QED BY <1>1 DEF Holds

LEMMA LinkedOn ==
  ASSUME NEW s, NEW i, NEW j, NEW skip, Passes(s, i, j, skip), NEW w, NEW u, NEW held,
         Linked(s, i, w, held), w.manifest = u.manifest, w.tokenizer = u.tokenizer,
         w.generation = u.generation, w.io = u.io, w.measured = u.measured,
         j \in DOMAIN s => s[j] # "verify",
         \A step \in {"discover", "load_tokenizer"} \cup GenerationReads \cup IoReads :
           step \notin skip
  PROVE  Linked(s, j, u, held)
<1>1. Same(s, i, j, skip) /\ "measure" \notin skip
  BY PassesSame DEF Passes
<1>2. /\ Since("discover", s, j) <=> Since("discover", s, i)
      /\ SinceAny({"load_tokenizer"}, s, j) <=> SinceAny({"load_tokenizer"}, s, i)
      /\ SinceAny(GenerationReads, s, j) <=> SinceAny(GenerationReads, s, i)
      /\ SinceAny(IoReads, s, j) <=> SinceAny(IoReads, s, i)
      /\ After({"measure"}, s, j) <=> After({"measure"}, s, i)
  BY <1>1 DEF Same, SinceAny
<1> QED BY <1>2 DEF Linked, ReadAs

LEMMA FoundOn ==
  ASSUME NEW s, NEW i, NEW j, NEW skip, Same(s, i, j, skip), Found(s, i),
         \A step \in {"verify", "plan", "load_tokenizer", "join_loads", "open"}
                     \cup GenerationReads \cup IoReads : step \notin skip
  PROVE  Found(s, j)
<1>1. /\ After({"verify"}, s, j) <=> After({"verify"}, s, i)
      /\ After({"plan"}, s, j) <=> After({"plan"}, s, i)
      /\ After({"read_generation"}, s, j) <=> After({"read_generation"}, s, i)
      /\ After({"read_io"}, s, j) <=> After({"read_io"}, s, i)
      /\ After({"runtime_generation", "strict_generation"}, s, j) <=>
           After({"runtime_generation", "strict_generation"}, s, i)
      /\ After({"runtime_io", "strict_io"}, s, j) <=> After({"runtime_io", "strict_io"}, s, i)
      /\ After({"load_tokenizer"}, s, j) <=> After({"load_tokenizer"}, s, i)
      /\ After({"join_loads"}, s, j) <=> After({"join_loads"}, s, i)
      /\ After({"open"}, s, j) <=> After({"open"}, s, i)
  BY DEF Same, GenerationReads, IoReads
<1> QED BY <1>1 DEF Found

----------------------------------------------------------------------------
(* What is read off the disk is the same while the disk is.                *)
LEMMA SameDisk ==
  ASSUME UNCHANGED disk
  PROVE  /\ \A s, i, w, held : Linked(s, i, w, held)' <=> Linked(s, i, w, held)
         /\ DiskPlan' = DiskPlan /\ (PackIntact' <=> PackIntact)
         /\ (TokenizerSound' <=> TokenizerSound) /\ (GraphsSound' <=> GraphsSound)
         /\ \A s, i : Found(s, i)' <=> Found(s, i)
         /\ \A strict : AssetsSound(strict)' <=> AssetsSound(strict)
<1>1. DiskPlan' = DiskPlan /\ (PackIntact' <=> PackIntact)
  BY DEF DiskPlan, PackIntact, Intact
<1>2. \A s, i, w, held : Linked(s, i, w, held)' <=> Linked(s, i, w, held)
  BY <1>1 DEF Linked, FileIntact, ReadAs, SummaryAt, ReadOptional, ReadAt
<1>3. (TokenizerSound' <=> TokenizerSound) /\ (GraphsSound' <=> GraphsSound)
  BY <1>1 DEF TokenizerSound, GraphsSound, GraphsOf
<1>4. ASSUME NEW path
      PROVE  /\ \A wanted : GenerationSound(path, wanted)' <=> GenerationSound(path, wanted)
             /\ \A wanted : IoSound(path, wanted)' <=> IoSound(path, wanted)
  BY DEF GenerationSound, IoSound
<1>5. /\ \A path : GenerationSound(path, FALSE)' <=> GenerationSound(path, FALSE)
      /\ \A path : GenerationSound(path, TRUE)' <=> GenerationSound(path, TRUE)
      /\ \A path : IoSound(path, FALSE)' <=> IoSound(path, FALSE)
      /\ \A path : IoSound(path, TRUE)' <=> IoSound(path, TRUE)
  BY DEF GenerationSound, IoSound
<1>6. \A s, i : Found(s, i)' <=> Found(s, i)
  <2>1. /\ GenerationSound(DiskPlan.generator.generation_config, FALSE)' <=>
             GenerationSound(DiskPlan.generator.generation_config, FALSE)
        /\ GenerationSound(DiskPlan.generator.generation_config, TRUE)' <=>
             GenerationSound(DiskPlan.generator.generation_config, TRUE)
    BY <1>1, <1>5
  <2>2. /\ IoSound(DiskPlan.generator.config, FALSE)' <=>
             IoSound(DiskPlan.generator.config, FALSE)
        /\ IoSound(DiskPlan.generator.config, TRUE)' <=>
             IoSound(DiskPlan.generator.config, TRUE)
    BY <1>1, <1>5
  <2>3. Plans[disk[ManifestPath]].ok' <=> Plans[disk[ManifestPath]].ok
    OBVIOUS
  <2>4. ASSUME NEW s, NEW i PROVE Found(s, i)' <=> Found(s, i)
    BY <1>1, <1>3, <2>1, <2>2, <2>3, Zenon DEF Found
  <2> QED BY <2>4
<1>7. \A strict : AssetsSound(strict)' <=> AssetsSound(strict)
  BY <1>1, <1>4 DEF AssetsSound, ConfigsSound
<1> QED BY <1>1, <1>2, <1>3, <1>6, <1>7

----------------------------------------------------------------------------
(* Where a running caller is, and what it knows there.                     *)
LEMMA Here ==
  ASSUME IInv, PackInv, NEW c \in Callers, outcome[c] = "running"
  PROVE  LET s == Steps(c)
             i == pos[c] IN
         /\ DOMAIN s = 1 .. Len(s) /\ Len(s) \in Nat /\ i \in DOMAIN s /\ i \in Nat \ {0}
         /\ Ordered(s) /\ WellFormed(s) /\ InOrder(command[c].program)
         /\ section[c] \in DOMAIN command[c].program
         /\ Knows(c, s, i, work[c], session[c], opened[c], runtime)
         /\ work[c] \in Locals /\ session[c] \in [OrtRole -> SessionStates]
<1>1. /\ Len(Steps(c)) \in Nat \ {0} /\ DOMAIN Steps(c) = 1 .. Len(Steps(c))
      /\ pos[c] \in 1 .. Len(Steps(c)) /\ WellFormed(Steps(c)) /\ InProgram(c)
  BY RunningFacts DEF IInv
<1>2. Ordered(Steps(c)) /\ InOrder(command[c].program)
  BY <1>1 DEF PackInv, DiskInv, InOrder, Steps, InProgram
<1>3. CallerKnows(c)
  BY DEF PackInv
<1> QED BY <1>1, <1>2, <1>3 DEF CallerKnows, Typed, InProgram

(* The other callers, the disk and the build are as they were.             *)
Others(c) ==
  /\ \A d \in Callers \ {c} :
       /\ section'[d] = section[d] /\ pos'[d] = pos[d] /\ outcome'[d] = outcome[d]
       /\ work'[d] = work[d] /\ session'[d] = session[d] /\ opened'[d] = opened[d]
  /\ UNCHANGED <<disk, writes, build, env, command, calm>>
  /\ runtime # None => runtime' = runtime
  /\ {override', runtime', early'} \subseteq Dylibs \cup {None}

LEMMA CausesStay ==
  ASSUME UNCHANGED <<disk, build, env, command>>
  PROVE  /\ \A c, status : Causes(c, status)' <=> Causes(c, status)
         /\ \A c : Doctors(c)' <=>
              (calm'[c] /\ command[c].program = Doctor =>
                 /\ outcome'[c] = "running" => Examined(section'[c])
                 /\ outcome'[c] = "ok" => Agrees)
<1>1. /\ (PackIntact' <=> PackIntact) /\ (TokenizerSound' <=> TokenizerSound)
      /\ (GraphsSound' <=> GraphsSound)
      /\ \A strict : AssetsSound(strict)' <=> AssetsSound(strict)
  BY SameDisk
<1>2. GgufSound' <=> GgufSound
  BY <1>1 DEF GgufSound, LlamaSound
<1>3. \A c, some : MayRun(c, some)' <=> MayRun(c, some)
  BY DEF MayRun
<1>4. ASSUME NEW c, NEW status PROVE Causes(c, status)' <=> Causes(c, status)
  <2>1. AssetsSound(MayRun(c, {"strict_generation"}))' <=>
          AssetsSound(MayRun(c, {"strict_generation"}))
    BY <1>1 DEF MayRun
  <2>2. /\ (MayRun(c, {"verify_trusted", "load_llama"}))' <=>
             MayRun(c, {"verify_trusted", "load_llama"})
        /\ (MayRun(c, {"plan_gguf"}))' <=> MayRun(c, {"plan_gguf"})
        /\ (MayRun(c, {"configure"}))' <=> MayRun(c, {"configure"})
        /\ (MayRun(c, {"translate"}))' <=> MayRun(c, {"translate"})
    BY <1>3
  <2>3. build' = build /\ env' = env
    OBVIOUS
  <2> QED BY <1>1, <1>2, <2>1, <2>2, <2>3, Zenon DEF Causes
<1>5. (ConfigsFound' <=> ConfigsFound) /\ (TokenizerFound' <=> TokenizerFound)
      /\ (RuntimeFound' <=> RuntimeFound)
  <2>1. /\ AssetsSound(TRUE)' <=> AssetsSound(TRUE)
        /\ AssetsSound(FALSE)' <=> AssetsSound(FALSE)
    BY <1>1
  <2> QED BY <1>1, <2>1 DEF ConfigsFound, TokenizerFound, RuntimeFound
<1>6. Agrees' <=> Agrees
  BY <1>1, <1>5 DEF Agrees
<1>7. \A i : Examined(i)' <=> Examined(i)
  BY <1>5 DEF Examined
<1>8. \A c : Examined(section[c])' <=> Examined(section'[c])
  BY <1>5 DEF Examined
<1> QED BY <1>4, <1>6, <1>8 DEF Doctors

(* Whoever does not move keeps what it knows while the disk stays.         *)
LEMMA StaysKnown ==
  ASSUME PackInv, NEW d \in Callers,
         section'[d] = section[d], pos'[d] = pos[d], outcome'[d] = outcome[d],
         work'[d] = work[d], session'[d] = session[d], opened'[d] = opened[d],
         UNCHANGED <<disk, build, env, command, calm>>, runtime # None => runtime' = runtime
  PROVE  CallerKnows(d)'
<1>1. CallerKnows(d)
  BY DEF PackInv
<1>2. Steps(d)' = Steps(d)
  BY DEF Steps
<1>3. Typed(d)'
  BY <1>1, <1>2 DEF CallerKnows, Typed, InProgram
<1>4. ASSUME outcome[d] = "running"
      PROVE  Knows(d, Steps(d), pos[d], work[d], session[d], opened[d], runtime)'
  <2>1. Knows(d, Steps(d), pos[d], work[d], session[d], opened[d], runtime)
    BY <1>1, <1>4 DEF CallerKnows
  <2>2. Prepared(Steps(d), pos[d], runtime)'
    BY <1>2, <2>1 DEF Knows, Prepared
  <2>3. calm[d] => Linked(Steps(d), pos[d], work[d], session[d])' /\ Found(Steps(d), pos[d])'
    BY <1>2, <2>1, SameDisk DEF Knows
  <2>4. Remembers(Steps(d), pos[d], work[d])'
    BY <1>2, <2>1 DEF Knows
  <2>5. Holds(Steps(d), pos[d], work[d], session[d], opened[d])'
    BY <1>2, <2>1 DEF Knows
  <2> QED BY <2>2, <2>3, <2>4, <2>5 DEF Knows
<1>5. calm'[d] => Causes(d, outcome[d])'
  BY <1>1, CausesStay DEF CallerKnows
<1>6. Doctors(d)'
  BY <1>1, CausesStay DEF CallerKnows, Doctors
<1> QED BY <1>3, <1>4, <1>5, <1>6 DEF CallerKnows

LEMMA OthersKnow ==
  ASSUME IInv, PackInv, HeldInv', NEW c \in Callers, Others(c), CallerKnows(c)'
  PROVE  PackInv'
<1>1. ASSUME NEW d \in Callers \ {c} PROVE CallerKnows(d)'
  BY StaysKnown DEF Others
<1>2. DiskInv'
  BY DEF Others, PackInv, DiskInv
<1> QED BY <1>1, <1>2 DEF PackInv

----------------------------------------------------------------------------
(* Where a step may lead: to a position of the same section, to the next   *)
(* section or the end of the command, or out with a status.                *)
LEMMA Arrives ==
  ASSUME IInv, PackInv, NEW c \in Callers, outcome[c] = "running", Others(c),
         NEW i \in DOMAIN Steps(c), NEW w \in Locals, NEW held \in [OrtRole -> SessionStates],
         NEW out, NEW library,
         section'[c] = section[c], outcome'[c] = "running", pos'[c] = i, work'[c] = w,
         session'[c] = held, opened'[c] = out, runtime' = library,
         Knows(c, Steps(c), i, w, held, out, library)
  PROVE  CallerKnows(c)'
<1>1. Steps(c)' = Steps(c) /\ calm' = calm /\ build' = build /\ disk' = disk /\ command' = command
  BY DEF Others, Steps
<1>2. Typed(c)'
  <2>1. InProgram(c)'
    BY <1>1, Here DEF InProgram
  <2> QED BY <1>1, <2>1 DEF PackInv, CallerKnows, Typed
<1>3. Knows(c, Steps(c), pos[c], work[c], session[c], opened[c], runtime)'
  <2>1. Prepared(Steps(c), pos[c], runtime)'
    BY <1>1 DEF Knows, Prepared
  <2>2. calm[c] => Linked(Steps(c), pos[c], work[c], session[c])' /\ Found(Steps(c), pos[c])'
    BY <1>1, SameDisk DEF Knows
  <2>3. Remembers(Steps(c), pos[c], work[c])' /\ Holds(Steps(c), pos[c], work[c], session[c], opened[c])'
    BY <1>1 DEF Knows
  <2> QED BY <1>1, <2>1, <2>2, <2>3 DEF Knows
<1>4. calm'[c] => Causes(c, outcome[c])'
  BY DEF Causes
<1>5. Doctors(c)'
  BY <1>1, CausesStay DEF PackInv, CallerKnows, Doctors, Others
<1> QED BY <1>2, <1>3, <1>4, <1>5 DEF CallerKnows

LEMMA FreshKnows ==
  ASSUME NEW s, NEW c, NEW held, NEW out, NEW library, held = NoSessions, ~ out,
         s[1] \notin {"verify", "init_runtime"}
  PROVE  Knows(c, s, 1, Blank, held, out, library)
<1>1. Remembers(s, 1, Blank) /\ Prepared(s, 1, library)
  BY NothingYet DEF Remembers, Prepared, Blank
<1>2. Holds(s, 1, Blank, held, out)
  BY NothingYet DEF Holds, NoSessions, OrtRole
<1>3. Linked(s, 1, Blank, held)
  BY NothingYet DEF Linked, ReadAs, SinceAny, Blank, NoSessions, NoSession
<1>4. Found(s, 1)
  BY NothingYet DEF Found
<1> QED BY <1>1, <1>2, <1>3, <1>4 DEF Knows

LEMMA BlankIsTyped == Blank \in Locals /\ NoSessions \in [OrtRole -> SessionStates]
BY DEF Blank, Locals, ReadContent, NoSessions, SessionStates

LEMMA FreeIsTyped ==
  ASSUME IInv, PackInv, HeldInv', NEW c \in Callers, Others(c), Free(c)', work'[c] = Blank,
         InProgram(c)', outcome'[c] \in {"running", "ok"} \cup Status
  PROVE  Typed(c)'
<1>1. session'[c] = NoSessions
  BY DEF Free
<1>2. calm'[c] \in BOOLEAN
  <2>1. Typed(c) /\ calm' = calm
    BY DEF Others, PackInv, CallerKnows
  <2> QED BY <2>1 DEF Typed
<1>3. session'[c] \in [OrtRole -> SessionStates] /\ work'[c] \in Locals
  BY <1>1, BlankIsTyped
<1> QED BY <1>2, <1>3, Zenon DEF Typed

LEMMA FirstStep ==
  ASSUME NEW s, Ordered(s), 1 \in DOMAIN s
  PROVE  s[1] \notin {"verify", "init_runtime"}
<1>1. /\ s[1] = "verify" => Previous("discover", s, 1)
      /\ s[1] = "init_runtime" => Previous("resolve_dylib", s, 1)
  BY Zenon DEF Ordered
<1> QED BY <1>1 DEF Previous

(* What a doctor has found when a section of it is over.                   *)
Onwards(c) ==
  calm[c] /\ command[c].program = Doctor =>
    /\ section[c] < Len(command[c].program) => Examined(section[c] + 1)
    /\ section[c] = Len(command[c].program) => Agrees

LEMMA Ends ==
  ASSUME IInv, PackInv, HeldInv', NEW c \in Callers, outcome[c] = "running", Others(c),
         EndSection(c), Onwards(c)
  PROVE  CallerKnows(c)'
<1>1. calm' = calm /\ build' = build /\ disk' = disk /\ command' = command /\ env' = env
  BY DEF Others
<1>2. work'[c] = Blank /\ pos'[c] = 1 /\ DOMAIN outcome = Callers /\ DOMAIN section = Callers
  BY DEF EndSection, IInv, HeldInv, ShapeInv
<1>3. Free(c)'
  BY <1>2, NothingYet DEF HeldInv, CallerInv
<1>4. /\ section[c] \in 1 .. Len(command[c].program) /\ Len(command[c].program) \in Nat
  BY RunningFacts DEF IInv
<1>5. CASE section[c] < Len(command[c].program)
  <2>1. section'[c] = section[c] + 1 /\ outcome'[c] = "running"
    BY <1>2, <1>5 DEF EndSection
  <2>2. InProgram(c)' /\ Steps(c)' = command[c].program[section[c] + 1].steps
    BY <1>1, <2>1 DEF HeldInv, CallerInv, Steps
  <2> DEFINE s == command[c].program[section[c] + 1].steps
  <2>3. 1 \in DOMAIN s /\ Ordered(s)
    BY <1>1, <1>2, <2>1, <2>2 DEF InProgram, PackInv, DiskInv, InOrder
  <2>4. s[1] \notin {"verify", "init_runtime"}
    <3> HIDE DEF s
    <3> QED BY <2>3, FirstStep
  <2>5. Knows(c, Steps(c), pos[c], work[c], session[c], opened[c], runtime)'
    <3>1. Knows(c, s, 1, Blank, session'[c], opened'[c], runtime')
      BY <1>3, <2>4, FreshKnows DEF Free
    <3>2. Steps(c)' = s /\ pos'[c] = 1 /\ work'[c] = Blank
      BY <1>2, <2>2
    <3> HIDE DEF s
    <3>3. Prepared(Steps(c), pos[c], runtime)'
      BY <1>1, <3>1, <3>2 DEF Knows, Prepared
    <3>4. calm[c] => Linked(Steps(c), pos[c], work[c], session[c])' /\ Found(Steps(c), pos[c])'
      BY <1>1, <3>1, <3>2, SameDisk DEF Knows
    <3>5. /\ Remembers(Steps(c), pos[c], work[c])'
          /\ Holds(Steps(c), pos[c], work[c], session[c], opened[c])'
      BY <3>1, <3>2 DEF Knows
    <3> QED BY <1>1, <3>3, <3>4, <3>5 DEF Knows
  <2>6. Typed(c)'
    <3>1. outcome'[c] \in {"running", "ok"} \cup Status
      BY <2>1
    <3> QED BY <1>2, <1>3, <2>2, <3>1, FreeIsTyped
  <2>7. Doctors(c)'
    BY <1>1, <1>5, <2>1, CausesStay DEF Onwards
  <2>8. Causes(c, outcome[c])'
    BY <2>1 DEF Causes
  <2> QED BY <2>5, <2>6, <2>7, <2>8 DEF CallerKnows
<1>6. CASE ~ (section[c] < Len(command[c].program))
  <2>1. section'[c] = section[c] /\ outcome'[c] = "ok"
    BY <1>2, <1>6 DEF EndSection
  <2>2. InProgram(c)'
    BY <1>1, <1>2, <2>1, Here DEF InProgram, Steps
  <2>3. Typed(c)'
    <3>1. outcome'[c] \in {"running", "ok"} \cup Status
      BY <2>1
    <3> QED BY <1>2, <1>3, <2>2, <3>1, FreeIsTyped
  <2>4. Doctors(c)'
    BY <1>1, <1>4, <1>6, <2>1, CausesStay DEF Onwards
  <2>5. Causes(c, outcome[c])'
    BY <2>1 DEF Causes
  <2> QED BY <2>1, <2>3, <2>4, <2>5 DEF CallerKnows
<1> QED BY <1>5, <1>6

LEMMA Leaves ==
  ASSUME IInv, PackInv, HeldInv', NEW c \in Callers, outcome[c] = "running", Others(c),
         NEW status \in Status, Leave(c, status),
         status \in Tolerated(c) => Onwards(c),
         status \notin Tolerated(c) /\ calm[c] => Causes(c, status)
  PROVE  CallerKnows(c)'
<1>1. CASE status \in Tolerated(c)
  BY <1>1, Ends DEF Leave
<1>2. CASE status \notin Tolerated(c)
  <2>1. calm' = calm /\ build' = build /\ disk' = disk /\ command' = command /\ env' = env
    BY DEF Others
  <2>2. outcome'[c] = status /\ work'[c] = Blank /\ section' = section /\ pos' = pos
    BY <1>2 DEF Leave, IInv, HeldInv, ShapeInv
  <2>0. status \notin {"running", "ok"}
    BY DEF Status, TranslationStatus
  <2>3. Free(c)'
    BY <2>0, <2>2 DEF HeldInv, CallerInv
  <2>4. InProgram(c)'
    BY <2>1, <2>2, Here DEF InProgram, Steps
  <2>5. Typed(c)'
    BY <2>2, <2>3, <2>4, FreeIsTyped
  <2>6. Doctors(c)'
    BY <2>0, <2>1, <2>2, CausesStay
  <2>7. calm'[c] => Causes(c, outcome[c])'
    BY <1>2, <2>1, <2>2, CausesStay
  <2> QED BY <2>0, <2>2, <2>5, <2>6, <2>7 DEF CallerKnows
<1> QED BY <1>1, <1>2

----------------------------------------------------------------------------
(* What a doctor runs: its sections, and the steps that leave a finding.   *)
LEMMA HasConcat ==
  ASSUME NEW s, NEW t, IsSeq(s), IsSeq(t)
  PROVE  /\ IsSeq(s \o t)
         /\ \A step : Has(s, step) \/ Has(t, step) => Has(s \o t, step)
<1> DEFINE R == {s[i] : i \in DOMAIN s} \cup {t[i] : i \in DOMAIN t}
<1>1. s \in Seq(R) /\ t \in Seq(R)
  <2>1. s \in Seq({s[i] : i \in DOMAIN s}) /\ t \in Seq({t[i] : i \in DOMAIN t})
    BY SeqOfItsRange
  <2> QED BY <2>1
<1> HIDE DEF R
<1>2. /\ s \o t \in Seq(R) /\ Len(s \o t) = Len(s) + Len(t)
      /\ \A i \in 1 .. Len(s) : (s \o t)[i] = s[i]
      /\ \A i \in 1 .. Len(t) : (s \o t)[Len(s) + i] = t[i]
  BY <1>1
<1>3. Len(s) \in Nat /\ Len(t) \in Nat /\ DOMAIN s = 1 .. Len(s) /\ DOMAIN t = 1 .. Len(t)
  BY <1>1
<1>4. DOMAIN (s \o t) = 1 .. Len(s) + Len(t)
  BY <1>2
<1>5. ASSUME NEW step, Has(s, step) PROVE Has(s \o t, step)
  BY <1>2, <1>3, <1>4, <1>5 DEF Has
<1>6. ASSUME NEW step, Has(t, step) PROVE Has(s \o t, step)
  <2>1. PICK i \in 1 .. Len(t) : t[i] = step
    BY <1>3, <1>6 DEF Has
  <2>2. Len(s) + i \in DOMAIN (s \o t) /\ (s \o t)[Len(s) + i] = step
    BY <1>2, <1>3, <1>4, <2>1
  <2> QED BY <2>2 DEF Has
<1> QED BY <1>2, <1>5, <1>6, SeqIsSeq

LEMMA AssetsHas ==
  /\ IsSeq(Verified) /\ IsSeq(FromPack) /\ IsSeq(Assets) /\ IsSeq(LoadGenerator)
  /\ Has(Verified, "verify") /\ Has(FromPack, "plan")
  /\ Has(FromPack, "read_generation") /\ Has(FromPack, "read_io")
  /\ Has(Assets, "verify") /\ Has(Assets, "plan")
  /\ Has(LoadGenerator, "runtime_generation") /\ Has(LoadGenerator, "runtime_io")
  /\ Has(LoadGenerator, "join_loads")
<1> DEFINE Joined == <<"spawn_loads", "join_loads">>
           Past == <<"load_past">>
<1>1. /\ IsSeq(Verified) /\ IsSeq(FromPack) /\ IsSeq(ParseRuntimeConfig)
      /\ IsSeq(PrepareRuntime) /\ IsSeq(Joined) /\ IsSeq(Past)
  BY DEF IsSeq, Verified, FromPack, ParseRuntimeConfig, PrepareRuntime
<1>2. /\ Has(Verified, "verify") /\ Has(FromPack, "plan")
      /\ Has(FromPack, "read_generation") /\ Has(FromPack, "read_io")
      /\ Has(ParseRuntimeConfig, "runtime_generation") /\ Has(ParseRuntimeConfig, "runtime_io")
      /\ Has(Joined, "join_loads")
  BY DEF Has, Verified, FromPack, ParseRuntimeConfig
<1>3. IsSeq(Assets) /\ Has(Assets, "verify") /\ Has(Assets, "plan")
  BY <1>1, <1>2, HasConcat, Zenon DEF Assets
<1>4. /\ IsSeq(LoadGenerator)
      /\ Has(LoadGenerator, "runtime_generation") /\ Has(LoadGenerator, "runtime_io")
      /\ Has(LoadGenerator, "join_loads")
  <2> DEFINE a == ParseRuntimeConfig \o PrepareRuntime
             b == a \o Joined
             d == b \o PrepareRuntime
  <2>1. LoadGenerator = d \o Past
    BY DEF LoadGenerator
  <2> HIDE DEF Joined, Past
  <2>2. IsSeq(a) /\ Has(a, "runtime_generation") /\ Has(a, "runtime_io")
    BY <1>1, <1>2, HasConcat, Zenon
  <2> HIDE DEF a
  <2>3. IsSeq(b) /\ Has(b, "runtime_generation") /\ Has(b, "runtime_io") /\ Has(b, "join_loads")
    BY <1>1, <1>2, <2>2, HasConcat, Zenon
  <2> HIDE DEF b
  <2>4. IsSeq(d) /\ Has(d, "runtime_generation") /\ Has(d, "runtime_io") /\ Has(d, "join_loads")
    BY <1>1, <2>3, HasConcat, Zenon
  <2> HIDE DEF d
  <2> QED BY <1>1, <2>1, <2>4, HasConcat, Zenon
<1> QED BY <1>1, <1>2, <1>3, <1>4

LEMMA DoctorHas ==
  /\ DOMAIN Doctor = 1 .. 7 /\ Len(Doctor) = 7
  /\ \A k \in 1 .. 4 : Doctor[k].tolerated = {}
  /\ Doctor[5].tolerated = {"TOKENIZER_DISABLED"}
  /\ Doctor[6].tolerated = ReadinessStatus
  /\ Has(Doctor[2].steps, "verify") /\ Has(Doctor[2].steps, "plan")
  /\ Has(Doctor[2].steps, "read_generation") /\ Has(Doctor[2].steps, "read_io")
  /\ Has(Doctor[5].steps, "load_tokenizer")
  /\ Has(Doctor[6].steps, "runtime_generation") /\ Has(Doctor[6].steps, "runtime_io")
  /\ Has(Doctor[6].steps, "join_loads") /\ Has(Doctor[6].steps, "open")
<1>1. /\ DOMAIN Doctor = 1 .. 7 /\ Len(Doctor) = 7
      /\ \A k \in 1 .. 4 : Doctor[k].tolerated = {}
      /\ Doctor[5].tolerated = {"TOKENIZER_DISABLED"}
      /\ Doctor[6].tolerated = ReadinessStatus
  BY DEF Doctor, Call, Section, Arguments, ModelPackSummary
<1>2. /\ Doctor[2].steps = (Verified \o <<"runtime_branch">>) \o FromPack
      /\ Doctor[5].steps = HfMockTranslator /\ Doctor[6].steps = OrtGeneratorHandle
  BY DEF Doctor, Call, Section
<1> DEFINE Branch == <<"runtime_branch">>
           Gate == <<"ort_gate">>
           Handle == <<"open", "close">>
           Loads == <<"hf_gate", "load_tokenizer", "open">>
<1>3. /\ IsSeq(Branch) /\ IsSeq(Gate) /\ IsSeq(Handle) /\ IsSeq(Loads)
      /\ IsSeq(TranslateAndClose)
      /\ Has(Handle, "open") /\ Has(Loads, "load_tokenizer")
  BY DEF IsSeq, Has, TranslateAndClose
<1>4. /\ Doctor[2].steps = (Verified \o Branch) \o FromPack
      /\ HfMockTranslator = (Assets \o Loads) \o TranslateAndClose
      /\ OrtGeneratorHandle = ((Assets \o Gate) \o LoadGenerator) \o Handle
  BY <1>2 DEF HfMockTranslator, OrtGeneratorHandle
<1> HIDE DEF Branch, Gate, Handle, Loads
<1>5. /\ Has(Doctor[2].steps, "verify") /\ Has(Doctor[2].steps, "plan")
      /\ Has(Doctor[2].steps, "read_generation") /\ Has(Doctor[2].steps, "read_io")
  <2>1. IsSeq(Verified \o Branch) /\ Has(Verified \o Branch, "verify")
    BY <1>3, AssetsHas, HasConcat, Zenon
  <2> QED BY <1>4, <2>1, AssetsHas, HasConcat, Zenon
<1>6. Has(HfMockTranslator, "load_tokenizer")
  <2>1. IsSeq(Assets \o Loads) /\ Has(Assets \o Loads, "load_tokenizer")
    BY <1>3, AssetsHas, HasConcat, Zenon
  <2> QED BY <1>3, <1>4, <2>1, HasConcat, Zenon
<1>7. /\ Has(OrtGeneratorHandle, "runtime_generation") /\ Has(OrtGeneratorHandle, "runtime_io")
      /\ Has(OrtGeneratorHandle, "join_loads") /\ Has(OrtGeneratorHandle, "open")
  <2> DEFINE a == Assets \o Gate
             b == a \o LoadGenerator
  <2>1. IsSeq(a)
    BY <1>3, AssetsHas, HasConcat, Zenon
  <2> HIDE DEF a
  <2>2. /\ IsSeq(b) /\ Has(b, "runtime_generation") /\ Has(b, "runtime_io")
        /\ Has(b, "join_loads")
    BY <2>1, AssetsHas, HasConcat, Zenon
  <2>3. OrtGeneratorHandle = b \o Handle
    BY <1>4 DEF a
  <2> HIDE DEF b
  <2> QED BY <1>3, <2>2, <2>3, HasConcat, Zenon
<1> QED BY <1>1, <1>2, <1>5, <1>6, <1>7

LEMMA HasIsAfter ==
  ASSUME NEW s, DOMAIN s = 1 .. Len(s), Len(s) \in Nat, NEW step, Has(s, step),
         NEW some, step \in some
  PROVE  After(some, s, Len(s) + 1)
<1>1. 1 .. (Len(s) + 1) - 1 = DOMAIN s
  OBVIOUS
<1> QED BY <1>1 DEF Has, After

(* A section of a doctor that is over leaves what the next ones rest on,   *)
(* whether it came to its end or was tolerated.                            *)
LEMMA DoctorGoesOn ==
  ASSUME IInv, PackInv, NEW c \in Callers, outcome[c] = "running",
         calm[c] /\ command[c].program = Doctor =>
           /\ section[c] = 2 => ConfigsFound
           /\ section[c] = 5 => TokenizerFound
           /\ section[c] = 6 => RuntimeFound
  PROVE  Onwards(c)
<1> SUFFICES ASSUME calm[c], command[c].program = Doctor
             PROVE  /\ section[c] < 7 => Examined(section[c] + 1)
                    /\ section[c] = 7 => Agrees
  BY DoctorHas DEF Onwards
<1>1. Examined(section[c]) /\ section[c] \in 1 .. 7
  BY Here, DoctorHas DEF PackInv, CallerKnows, Doctors
<1>2. section[c] < 7 => Examined(section[c] + 1)
  BY <1>1 DEF Examined
<1>3. section[c] = 7 => Agrees
  BY <1>1 DEF Examined, Agrees
<1> QED BY <1>2, <1>3

LEMMA DoctorEnds ==
  ASSUME IInv, PackInv, NEW c \in Callers, outcome[c] = "running",
         calm[c] => Found(Steps(c), Len(Steps(c)) + 1)
  PROVE  Onwards(c)
<1> SUFFICES ASSUME calm[c], command[c].program = Doctor
             PROVE  /\ section[c] = 2 => ConfigsFound
                    /\ section[c] = 5 => TokenizerFound
                    /\ section[c] = 6 => RuntimeFound
  BY DoctorGoesOn
<1> DEFINE s == Steps(c)
<1>1. Examined(section[c]) /\ section[c] \in 1 .. 7 /\ s = Doctor[section[c]].steps
      /\ DOMAIN s = 1 .. Len(s) /\ Len(s) \in Nat
  BY Here, DoctorHas DEF PackInv, CallerKnows, Doctors, Steps
<1>2. Found(s, Len(s) + 1)
  OBVIOUS
<1> HIDE DEF s
<1>3. ASSUME section[c] = 2 PROVE ConfigsFound
  <2>1. /\ Has(s, "verify") /\ Has(s, "plan") /\ Has(s, "read_generation") /\ Has(s, "read_io")
    BY <1>1, <1>3, DoctorHas
  <2>2. /\ After({"verify"}, s, Len(s) + 1) /\ After({"plan"}, s, Len(s) + 1)
        /\ After({"read_generation"}, s, Len(s) + 1) /\ After({"read_io"}, s, Len(s) + 1)
    BY <1>1, <2>1, HasIsAfter
  <2> QED BY <1>2, <2>2, Zenon DEF Found, ConfigsFound, AssetsSound, ConfigsSound
<1>4. ASSUME section[c] = 5 PROVE TokenizerFound
  <2>1. Has(s, "load_tokenizer")
    BY <1>1, <1>4, DoctorHas
  <2>2. After({"load_tokenizer"}, s, Len(s) + 1)
    BY <1>1, <2>1, HasIsAfter
  <2> QED BY <1>2, <2>2, Zenon DEF Found, TokenizerFound
<1>5. ASSUME section[c] = 6 PROVE RuntimeFound
  <2>1. /\ Has(s, "runtime_generation") /\ Has(s, "runtime_io")
        /\ Has(s, "join_loads") /\ Has(s, "open")
    BY <1>1, <1>5, DoctorHas
  <2>2. /\ After({"runtime_generation", "strict_generation"}, s, Len(s) + 1)
        /\ After({"runtime_io", "strict_io"}, s, Len(s) + 1)
        /\ After({"join_loads"}, s, Len(s) + 1) /\ After({"open"}, s, Len(s) + 1)
    BY <1>1, <2>1, HasIsAfter
  <2>3. ConfigsFound
    BY <1>1, <1>5 DEF Examined
  <2> QED BY <1>2, <2>2, <2>3, Zenon
      DEF Found, RuntimeFound, ConfigsFound, AssetsSound, ConfigsSound
<1> QED BY <1>3, <1>4, <1>5

(* No library to be found, for all that the pack is ready for one.         *)
NotConfigured ==
  /\ env \notin DylibFiles
  /\ GenerationSound(DiskPlan.generator.generation_config, TRUE)
  /\ IoSound(DiskPlan.generator.config, TRUE)

Excused(c, status) ==
  command[c].program = Doctor /\ section[c] = 6 /\ status = "RUNTIME_NOT_CONFIGURED" =>
    NotConfigured

LEMMA DoctorTolerates ==
  ASSUME IInv, PackInv, NEW c \in Callers, outcome[c] = "running",
         NEW status \in Tolerated(c), calm[c] => Causes(c, status) /\ Excused(c, status)
  PROVE  Onwards(c)
<1> SUFFICES ASSUME calm[c], command[c].program = Doctor
             PROVE  /\ section[c] = 2 => ConfigsFound
                    /\ section[c] = 5 => TokenizerFound
                    /\ section[c] = 6 => RuntimeFound
  BY DoctorGoesOn
<1>1. /\ Examined(section[c]) /\ section[c] \in 1 .. 7
      /\ status \in Doctor[section[c]].tolerated
  BY Here, DoctorHas DEF PackInv, CallerKnows, Doctors, Tolerated
<1>2. section[c] # 2
  BY <1>1, DoctorHas
<1>3. ASSUME section[c] = 5 PROVE TokenizerFound
  <2>1. status = "TOKENIZER_DISABLED"
    BY <1>1, <1>3, DoctorHas
  <2> QED BY <2>1 DEF Causes, TokenizerFound
<1>4. ASSUME section[c] = 6 PROVE RuntimeFound
  <2>1. status \in {"RUNTIME_DISABLED", "RUNTIME_NOT_CONFIGURED"}
    BY <1>1, <1>4, DoctorHas DEF ReadinessStatus
  <2>2. CASE status = "RUNTIME_DISABLED"
    BY <2>2 DEF Causes, RuntimeFound
  <2>3. CASE status = "RUNTIME_NOT_CONFIGURED"
    <3>1. ConfigsFound
      BY <1>1, <1>4 DEF Examined
    <3>2. NotConfigured
      BY <1>4, <2>3 DEF Excused
    <3> QED BY <3>1, <3>2, Zenon
        DEF NotConfigured, RuntimeFound, ConfigsFound, AssetsSound, ConfigsSound
  <2> QED BY <2>1, <2>2, <2>3
<1> QED BY <1>2, <1>3, <1>4

----------------------------------------------------------------------------
(* On to the next step, to a later one, or out: what the caller has to     *)
(* know there.                                                             *)
LEMMA AdvanceKnows ==
  ASSUME IInv, PackInv, HeldInv', NEW c \in Callers, outcome[c] = "running", Others(c),
         NEW w \in Locals, NEW held \in [OrtRole -> SessionStates], NEW out, NEW library,
         Advance(c, w), session'[c] = held, opened'[c] = out, runtime' = library,
         Knows(c, Steps(c), pos[c] + 1, w, held, out, library)
  PROVE  CallerKnows(c)'
<1>1. pos[c] \in 1 .. Len(Steps(c)) /\ Len(Steps(c)) \in Nat
      /\ DOMAIN Steps(c) = 1 .. Len(Steps(c))
  BY Here
<1>2. CASE pos[c] = Len(Steps(c))
  <2>1. EndSection(c)
    BY <1>2 DEF Advance
  <2>2. calm[c] => Found(Steps(c), Len(Steps(c)) + 1)
    BY <1>2 DEF Knows
  <2>3. Onwards(c)
    BY <2>2, DoctorEnds
  <2> QED BY <2>1, <2>3, Ends
<1>3. CASE pos[c] # Len(Steps(c))
  <2>1. pos[c] + 1 \in DOMAIN Steps(c)
    BY <1>1, <1>3
  <2>2. /\ pos' = [pos EXCEPT ![c] = @ + 1] /\ work' = [work EXCEPT ![c] = w]
        /\ UNCHANGED <<section, outcome>>
    BY <1>3 DEF Advance
  <2>3. /\ pos'[c] = pos[c] + 1 /\ work'[c] = w
        /\ section'[c] = section[c] /\ outcome'[c] = "running"
    BY <2>2 DEF IInv, HeldInv, ShapeInv
  <2> QED BY <2>1, <2>3, Arrives
<1> QED BY <1>2, <1>3

LEMMA LeaveKnows ==
  ASSUME IInv, PackInv, HeldInv', NEW c \in Callers, outcome[c] = "running", Others(c),
         NEW status \in Status, Leave(c, status),
         calm[c] => Causes(c, status) /\ Excused(c, status)
  PROVE  CallerKnows(c)'
<1>1. status \in Tolerated(c) => Onwards(c)
  BY DoctorTolerates
<1> QED BY <1>1, Leaves

LEMMA DecideOthers ==
  ASSUME IInv, PackInv, NEW c \in Callers, NEW fine, NEW locally, NEW status,
         Decide(c, fine, locally, status)
  PROVE  Others(c) /\ runtime' = runtime
<1>1. Goes(c) \/ Exits(c)
  BY DEF Decide, Goes, Exits, Forward, LeaveControl, EndControl, Advance, EndSection, Fail, Leave
<1>2. Apart(c)
  BY <1>1, ControlApart DEF IInv
<1>3. work' \in {[work EXCEPT ![c] = locally], [work EXCEPT ![c] = Blank]}
  BY DEF Decide, Advance, EndSection, Fail, Leave
<1>4. UNCHANGED <<disk, writes, process, command, calm>>
  BY DEF Decide
<1>5. \A d \in Callers \ {c} : work'[d] = work[d]
  BY <1>3 DEF IInv, HeldInv, ShapeInv
<1> QED BY <1>2, <1>4, <1>5 DEF Others, Apart, process, PackInv, DiskInv

LEMMA DecideKnows ==
  ASSUME IInv, PackInv, IInv', NEW c \in Callers, outcome[c] = "running",
         NEW fine, NEW locally, NEW status \in Status, Decide(c, fine, locally, status),
         fine => /\ locally \in Locals
                 /\ Knows(c, Steps(c), pos[c] + 1, locally, session[c], opened[c], runtime),
         ~ fine /\ calm[c] => Causes(c, status) /\ Excused(c, status)
  PROVE  PackInv'
<1>1. Others(c) /\ runtime' = runtime
  BY DecideOthers
<1>2. session[c] \in [OrtRole -> SessionStates]
  BY Here
<1>3. CASE fine /\ Advance(c, locally) /\ UNCHANGED <<session, opened>>
  <2>1. CallerKnows(c)'
    BY <1>1, <1>2, <1>3, AdvanceKnows DEF IInv
  <2> QED BY <1>1, <2>1, OthersKnow DEF IInv
<1>4. CASE ~ fine /\ Fail(c, status)
  <2>1. CallerKnows(c)'
    BY <1>1, <1>4, LeaveKnows DEF IInv, Fail
  <2> QED BY <1>1, <2>1, OthersKnow DEF IInv
<1> QED BY <1>3, <1>4 DEF Decide

LEMMA JumpKnows ==
  ASSUME IInv, PackInv, IInv', NEW c \in Callers, outcome[c] = "running", Others(c),
         NEW step, NEW w \in Locals, NEW held \in [OrtRole -> SessionStates], NEW out, NEW library,
         Has(Steps(c), step), JumpTo(c, step, w),
         session'[c] = held, opened'[c] = out, runtime' = library,
         \A j \in DOMAIN Steps(c) :
           Steps(c)[j] = step => Knows(c, Steps(c), j, w, held, out, library)
  PROVE  PackInv'
<1>1. pos'[c] \in DOMAIN Steps(c) /\ Steps(c)[pos'[c]] = step /\ outcome'[c] = "running"
  BY JumpMoves DEF IInv, Others
<1>2. section'[c] = section[c] /\ work'[c] = w
  BY DEF JumpTo, IInv, HeldInv, ShapeInv
<1>3. CallerKnows(c)'
  BY <1>1, <1>2, Arrives
<1> QED BY <1>3, OthersKnow DEF IInv

(* One step further.                                                       *)
LEMMA PassHere ==
  ASSUME IInv, PackInv, NEW c \in Callers, outcome[c] = "running",
         Steps(c)[pos[c]] \notin {"measure", "discover"}
  PROVE  LET s == Steps(c)
             i == pos[c] IN
         /\ Passes(s, i, i + 1, {s[i]}) /\ Same(s, i, i + 1, {s[i]})
         /\ i + 1 \in DOMAIN s => s[i + 1] # "verify"
         /\ i + 1 \in DOMAIN s /\ s[i + 1] = "init_runtime" => s[i] = "resolve_dylib"
<1> DEFINE s == Steps(c)
           i == pos[c]
<1>1. DOMAIN s = 1 .. Len(s) /\ Len(s) \in Nat /\ i \in DOMAIN s /\ Ordered(s)
  BY Here
<1> HIDE DEF s, i
<1>2. ASSUME i + 1 \in DOMAIN s
      PROVE  s[i + 1] # "verify" /\ (s[i + 1] = "init_runtime" => s[i] = "resolve_dylib")
  <2>1. /\ s[i + 1] = "verify" => Previous("discover", s, i + 1)
        /\ s[i + 1] = "init_runtime" => Previous("resolve_dylib", s, i + 1)
    BY <1>1, <1>2, Zenon DEF Ordered
  <2>2. (i + 1) - 1 = i
    BY <1>1
  <2> QED BY <2>1, <2>2 DEF Previous, s, i
<1>3. i + 1 \in i .. Len(s) + 1 /\ \A k \in i .. (i + 1) - 1 : k = i
  BY <1>1
<1>4. Passes(s, i, i + 1, {s[i]})
  BY <1>1, <1>3 DEF Passes, s, i
<1>5. Same(s, i, i + 1, {s[i]})
  BY <1>4, PassesSame
<1> QED BY <1>2, <1>4, <1>5 DEF s, i

(* What was made is made by a step of the program.                         *)
LEMMA Calling ==
  ASSUME IInv, PackInv, NEW c \in Callers, outcome[c] = "running", NEW some,
         \/ Steps(c)[pos[c]] \in some
         \/ After(some, Steps(c), pos[c])
         \/ \E step \in some : Since(step, Steps(c), pos[c])
  PROVE  MayRun(c, some)
<1>1. /\ DOMAIN Steps(c) = 1 .. Len(Steps(c)) /\ pos[c] \in DOMAIN Steps(c)
      /\ section[c] \in DOMAIN command[c].program /\ Len(Steps(c)) \in Nat
  BY Here
<1>2. PICK j \in DOMAIN Steps(c) : Steps(c)[j] \in some
  BY <1>1 DEF After, Since
<1> QED BY <1>1, <1>2 DEF MayRun, Calls, Has, Steps

(* What a script lets a step rely on.                                      *)
LEMMA Needs ==
  ASSUME NEW s, Ordered(s), NEW i \in DOMAIN s
  PROVE  /\ s[i] \in {"verify", "verify_trusted", "plan", "plan_gguf", "measure", "fill",
                      "runtime_branch", "load_tokenizer", "spawn_loads", "join_loads",
                      "load_past", "gguf_config", "load_llama"} \cup GenerationReads \cup IoReads =>
              Since("discover", s, i)
         /\ s[i] \in {"load_tokenizer", "spawn_loads", "join_loads", "load_past"}
                     \cup GenerationReads \cup IoReads => Since("plan", s, i)
         /\ s[i] = "runtime_branch" => Since("verify", s, i)
         /\ s[i] \in {"gguf_config", "load_llama"} => Since("plan_gguf", s, i)
         /\ s[i] = "load_llama" => Since("gguf_config", s, i)
         /\ s[i] = "load_tokenizer" => Since("hf_gate", s, i)
         /\ s[i] \in {"configure", "resolve_dylib"} => Since("ort_gate", s, i)
         /\ s[i] = "resolve_dylib" => Since("runtime_generation", s, i) /\ Since("runtime_io", s, i)
         /\ s[i] \in {"spawn_loads", "join_loads"} => Since("init_runtime", s, i)
         /\ s[i] = "load_past" => Since("join_loads", s, i)
<1>1. /\ Uses({"verify", "verify_trusted", "plan", "plan_gguf", "measure", "fill"}, {"discover"},
              s, i)
      /\ Uses({"runtime_branch"}, {"discover", "verify"}, s, i)
      /\ Uses(GenerationReads \cup IoReads, {"discover", "plan"}, s, i)
      /\ Uses({"gguf_config", "load_llama"}, {"discover", "plan_gguf"}, s, i)
      /\ Uses({"load_llama"}, {"gguf_config"}, s, i)
      /\ Uses({"load_tokenizer"}, {"discover", "plan", "hf_gate"}, s, i)
      /\ Uses({"configure"}, {"ort_gate"}, s, i)
      /\ Uses({"resolve_dylib"}, {"ort_gate", "runtime_generation", "runtime_io"}, s, i)
      /\ Uses({"spawn_loads", "join_loads"}, {"discover", "plan", "init_runtime"}, s, i)
      /\ Uses({"load_past"}, {"discover", "plan", "join_loads"}, s, i)
  BY Zenon DEF Ordered
<1> QED BY <1>1 DEF Uses

(* What the step just ahead leaves alone.                                  *)
LEMMA StepParts ==
  ASSUME IInv, PackInv, NEW c \in Callers, outcome[c] = "running",
         Steps(c)[pos[c]] \notin {"measure", "discover"},
         NEW u, u.manifest = work[c].manifest, u.tokenizer = work[c].tokenizer,
         u.generation = work[c].generation, u.io = work[c].io, u.measured = work[c].measured,
         u.translation \in {"ok", work[c].translation},
         Steps(c)[pos[c]] = "resolve_dylib" => u.dylib # None
  PROVE  LET s == Steps(c)
             i == pos[c] IN
         /\ s[i] \notin {"plan", "load_tokenizer", "runtime_generation", "runtime_io"} =>
              Remembers(s, i + 1, u)
         /\ s[i] \notin {"hf_gate", "ort_gate", "init_runtime"} => Prepared(s, i + 1, runtime)
         /\ s[i] \notin {"open", "join_loads", "load_past"} =>
              Holds(s, i + 1, u, session[c], opened[c])
         /\ calm[c] /\ s[i] \notin {"load_tokenizer"} \cup GenerationReads \cup IoReads =>
              Linked(s, i + 1, u, session[c])
         /\ calm[c] /\ s[i] \notin {"verify", "plan", "load_tokenizer", "join_loads", "open"}
                                   \cup GenerationReads \cup IoReads => Found(s, i + 1)
<1> DEFINE s == Steps(c)
           i == pos[c]
           w == work[c]
           skip == {s[i]}
<1>1. /\ Passes(s, i, i + 1, skip) /\ Same(s, i, i + 1, skip) /\ s[i] # "discover"
      /\ i + 1 \in DOMAIN s => s[i + 1] # "verify"
      /\ i + 1 \in DOMAIN s /\ s[i + 1] = "init_runtime" => u.dylib # None
  BY PassHere
<1>2. Knows(c, s, i, w, session[c], opened[c], runtime)
  BY Here
<1>3. \A step : step \notin skip <=> s[i] # step
  OBVIOUS
<1>0. /\ u.manifest = w.manifest /\ u.tokenizer = w.tokenizer
      /\ u.generation = w.generation /\ u.io = w.io /\ u.measured = w.measured
      /\ u.translation \in {"ok", w.translation}
  OBVIOUS
<1> HIDE DEF s, i, skip, w
<1>4. s[i] \notin {"plan", "load_tokenizer", "runtime_generation", "runtime_io"} =>
        Remembers(s, i + 1, u)
  BY <1>0, <1>1, <1>2, <1>3, RemembersOn DEF Knows
<1>5. s[i] \notin {"hf_gate", "ort_gate", "init_runtime"} => Prepared(s, i + 1, runtime)
  BY <1>1, <1>2, <1>3, PreparedOn DEF Knows
<1>6. s[i] \notin {"open", "join_loads", "load_past"} =>
        Holds(s, i + 1, u, session[c], opened[c])
  BY <1>0, <1>1, <1>2, <1>3, HoldsOn DEF Knows
<1>7. calm[c] /\ s[i] \notin {"load_tokenizer"} \cup GenerationReads \cup IoReads =>
        Linked(s, i + 1, u, session[c])
  <2> SUFFICES ASSUME calm[c], s[i] \notin {"load_tokenizer"} \cup GenerationReads \cup IoReads
               PROVE  Linked(s, i + 1, u, session[c])
    OBVIOUS
  <2>1. \A step \in {"discover", "load_tokenizer"} \cup GenerationReads \cup IoReads :
          step \notin skip
    BY <1>1, <1>3
  <2> QED BY <1>0, <1>1, <1>2, <2>1, LinkedOn DEF Knows
<1>8. calm[c] /\ s[i] \notin {"verify", "plan", "load_tokenizer", "join_loads", "open"}
                             \cup GenerationReads \cup IoReads => Found(s, i + 1)
  <2> SUFFICES ASSUME calm[c], s[i] \notin {"verify", "plan", "load_tokenizer", "join_loads",
                                            "open"} \cup GenerationReads \cup IoReads
               PROVE  Found(s, i + 1)
    OBVIOUS
  <2>1. \A step \in {"verify", "plan", "load_tokenizer", "join_loads", "open"}
                    \cup GenerationReads \cup IoReads : step \notin skip
    BY <1>3
  <2> QED BY <1>1, <1>2, <2>1, FoundOn DEF Knows
<1> QED BY <1>4, <1>5, <1>6, <1>7, <1>8 DEF s, i

(* Steps that make nothing others rely on.                                 *)
Checking == {"arguments", "verify_trusted", "runtime_branch", "plan_gguf", "gguf_config",
             "load_llama", "configure", "fill", "translate", "close"}
LEMMA CheckKnows ==
  ASSUME IInv, PackInv, NEW c \in Callers, outcome[c] = "running", Steps(c)[pos[c]] \in Checking
  PROVE  Knows(c, Steps(c), pos[c] + 1, work[c], session[c], opened[c], runtime)
<1>1. Steps(c)[pos[c]] \notin
        {"measure", "discover", "resolve_dylib", "plan", "load_tokenizer", "hf_gate", "ort_gate",
         "init_runtime", "open", "join_loads", "load_past", "verify", "runtime_generation",
         "runtime_io"}
        \cup GenerationReads \cup IoReads
  BY DEF Checking, GenerationReads, IoReads
<1> DEFINE s == Steps(c)
           i == pos[c]
<1>2. /\ Remembers(s, i + 1, work[c]) /\ Prepared(s, i + 1, runtime)
      /\ Holds(s, i + 1, work[c], session[c], opened[c])
  BY <1>1, StepParts
<1>3. calm[c] => Linked(s, i + 1, work[c], session[c]) /\ Found(s, i + 1)
  BY <1>1, StepParts
<1> QED BY <1>2, <1>3 DEF Knows

----------------------------------------------------------------------------
(* What is read is typed, and on a disk nobody touched it is the disk's.   *)
LEMMA Reads ==
  ASSUME PackInv, NEW path \in Path \cup {None}
  PROVE  /\ ReadOptional(path) \in ReadContent
         /\ path # None => /\ disk[path] \in Content \cup {Absent} /\ disk[path] # None
                           /\ ReadOptional(path) = disk[path]
         /\ path = None => ReadOptional(path) = None
<1>1. path # None => disk[path] \in Content \cup {Absent}
  BY DEF PackInv, DiskInv, Disks
<1>2. None \notin Content \cup {Absent}
  BY OpenAssumption, DataAssumption
<1> QED BY <1>1, <1>2 DEF ReadOptional, ReadAt, ReadContent

LEMMA Discovered ==
  ASSUME IInv, PackInv, NEW c \in Callers, outcome[c] = "running",
         Since("discover", Steps(c), pos[c])
  PROVE  /\ work[c].manifest \in Packs
         /\ calm[c] => work[c].manifest = disk[ManifestPath]
BY Here DEF Knows, Remembers, Linked

LEMMA PlannedHere ==
  ASSUME IInv, PackInv, NEW c \in Callers, outcome[c] = "running",
         Since("discover", Steps(c), pos[c]), Since("plan", Steps(c), pos[c])
  PROVE  LET g == Planned(c).generator IN
         /\ Plans[work[c].manifest].ok
         /\ Planned(c).tokenizer.tokenizer \in Path
         /\ g.generation_config \in Path \cup {None} /\ g.config \in Path \cup {None}
         /\ g.encoder.path \in Path /\ g.decoder.path \in Path
         /\ g.decoder_with_past # None => g.decoder_with_past.path \in Path
         /\ g = Generator(work[c].manifest) /\ (HasPast(c) <=> HasPastIn(work[c].manifest))
         /\ calm[c] => Planned(c) = DiskPlan
<1>1. work[c].manifest \in Packs /\ (calm[c] => work[c].manifest = disk[ManifestPath])
  BY Discovered
<1>2. Plans[work[c].manifest].ok
  BY Here DEF Knows, Remembers
<1>3. Planned(c).generator = Generator(work[c].manifest)
  BY DEF Planned, Generator
<1>4. \A path : Listed(work[c].manifest, path) => path \in Path \cup {None}
  BY <1>1, ListedIsPath
<1>5. LET g == Generator(work[c].manifest)
          past == g.decoder_with_past
          tokenizer == Plans[work[c].manifest].value.tokenizer.tokenizer IN
      /\ Listed(work[c].manifest, tokenizer) /\ tokenizer # None
      /\ Listed(work[c].manifest, g.encoder.path) /\ g.encoder.path # None
      /\ Listed(work[c].manifest, g.decoder.path) /\ g.decoder.path # None
      /\ past # None => Listed(work[c].manifest, past.path) /\ past.path # None
      /\ Listed(work[c].manifest, g.config) /\ Listed(work[c].manifest, g.generation_config)
  BY <1>1, <1>2, PlanPaths, Zenon
<1>6. calm[c] => Planned(c) = DiskPlan
  BY <1>1 DEF Planned, DiskPlan
<1>7. HasPast(c) <=> HasPastIn(work[c].manifest)
  BY <1>3 DEF HasPast, HasPastIn
<1>8. Planned(c).tokenizer.tokenizer = Plans[work[c].manifest].value.tokenizer.tokenizer
  BY DEF Planned
<1> QED BY <1>2, <1>3, <1>4, <1>5, <1>6, <1>7, <1>8

----------------------------------------------------------------------------
(* Whom a status blames.                                                   *)
LEMMA PackBlamed ==
  ASSUME NEW c,
         \/ MayRun(c, {"verify_trusted", "load_llama"})
         \/ MayRun(c, {"plan_gguf"}) /\ ~ GgufSound
         \/ ~ MayRun(c, {"plan_gguf"}) /\ ~ AssetsSound(MayRun(c, {"strict_generation"}))
         \/ ~ PackIntact
  PROVE  Causes(c, "MODEL_PACK_ERROR")
<1>1. ~ PackIntact => ~ GgufSound /\ ~ AssetsSound(MayRun(c, {"strict_generation"}))
  BY DEF GgufSound, AssetsSound
<1> QED BY <1>1 DEF Causes

LEMMA OthersBlamed ==
  ASSUME NEW c
  PROVE  /\ Causes(c, "USAGE") /\ Causes(c, "ORT_ERROR") /\ Causes(c, "TRANSLATION_ERROR")
         /\ Causes(c, "TEXT_ERROR") /\ Causes(c, "INVALID_PAIR")
         /\ build.hf /\ ~ TokenizerSound => Causes(c, "TOKENIZER_ERROR")
         /\ ~ build.hf => Causes(c, "TOKENIZER_DISABLED")
         /\ ~ build.ort => Causes(c, "RUNTIME_DISABLED")
         /\ build.ort /\ (env \notin DylibFiles \/ MayRun(c, {"configure"})) =>
              Causes(c, "RUNTIME_NOT_CONFIGURED")
         /\ MayRun(c, {"translate"}) => Causes(c, "BUFFER_TOO_SMALL")
BY DEF Causes

LEMMA OthersExcused ==
  ASSUME NEW c, NEW status, status # "RUNTIME_NOT_CONFIGURED"
  PROVE  Excused(c, status)
BY DEF Excused

LEMMA Statuses ==
  Status = {"USAGE", "MODEL_PACK_ERROR", "TOKENIZER_ERROR", "TOKENIZER_DISABLED",
            "RUNTIME_DISABLED", "RUNTIME_NOT_CONFIGURED", "ORT_ERROR", "TRANSLATION_ERROR",
            "BUFFER_TOO_SMALL", "TEXT_ERROR", "INVALID_PAIR"}
BY DEF Status, TranslationStatus

(* Whoever plans for ONNX Runtime never plans for llama.cpp.               *)
LEMMA PlansOne ==
  ASSUME IInv, PackInv, NEW c \in Callers, outcome[c] = "running",
         MayRun(c, {"plan", "runtime_branch"})
  PROVE  ~ MayRun(c, {"plan_gguf"})
BY Here DEF InOrder, MayRun

----------------------------------------------------------------------------
(* The steps that check something and keep nothing of it.                  *)
LEMMA ChecksPreserve ==
  ASSUME IInv, PackInv, IInv', NEW c \in Callers,
         Steps(c)[pos[c]] \in Checking, outcome[c] = "running",
         NEW fine, NEW status \in Status, Decide(c, fine, work[c], status),
         ~ fine /\ calm[c] => Causes(c, status) /\ Excused(c, status)
  PROVE  PackInv'
<1>1. Knows(c, Steps(c), pos[c] + 1, work[c], session[c], opened[c], runtime)
  BY CheckKnows
<1>2. work[c] \in Locals
  BY Here
<1> QED BY <1>1, <1>2, DecideKnows

LEMMA ParseArgumentsPreserves ==
  ASSUME IInv, PackInv, IInv', NEW c \in Callers, ParseArguments(c)
  PROVE  PackInv'
<1>1. /\ outcome[c] = "running" /\ Steps(c)[pos[c]] \in Checking
      /\ \E valid \in BOOLEAN : Decide(c, valid, work[c], "USAGE")
  BY DEF ParseArguments, At, Checking
<1> QED BY <1>1, ChecksPreserve, OthersBlamed, OthersExcused, Statuses

LEMMA VerifyTrustedPreserves ==
  ASSUME IInv, PackInv, IInv', NEW c \in Callers, VerifyTrusted(c)
  PROVE  PackInv'
<1>1. /\ outcome[c] = "running" /\ Steps(c)[pos[c]] = "verify_trusted"
      /\ \E trusted \in BOOLEAN : Decide(c, trusted, work[c], "MODEL_PACK_ERROR")
  BY DEF VerifyTrusted, At
<1>2. MayRun(c, {"verify_trusted", "load_llama"})
  BY <1>1, Calling
<1> QED BY <1>1, <1>2, ChecksPreserve, PackBlamed, OthersExcused, Statuses DEF Checking

LEMMA PlanGgufPreserves ==
  ASSUME IInv, PackInv, IInv', NEW c \in Callers, PlanGguf(c)
  PROVE  PackInv'
<1> DEFINE fine == GgufPlans[work[c].manifest].ok
<1>1. /\ outcome[c] = "running" /\ Steps(c)[pos[c]] = "plan_gguf"
      /\ Decide(c, fine, work[c], "MODEL_PACK_ERROR")
  BY DEF PlanGguf, At
<1>2. MayRun(c, {"plan_gguf"})
  BY <1>1, Calling
<1>3. Since("discover", Steps(c), pos[c])
  BY <1>1, Here, Needs
<1>4. ~ fine /\ calm[c] => ~ GgufSound
  BY <1>1, <1>3, Discovered DEF GgufSound
<1> HIDE DEF fine
<1>5. ~ fine /\ calm[c] => Causes(c, "MODEL_PACK_ERROR")
  BY <1>2, <1>4, PackBlamed
<1>7. /\ Steps(c)[pos[c]] \in Checking /\ "MODEL_PACK_ERROR" \in Status
      /\ Excused(c, "MODEL_PACK_ERROR")
  BY <1>1, OthersExcused, Statuses DEF Checking
<1> QED BY <1>1, <1>5, <1>7, ChecksPreserve, Zenon

LEMMA GgufConfigPreserves ==
  ASSUME IInv, PackInv, IInv', NEW c \in Callers, GgufConfig(c)
  PROVE  PackInv'
<1> DEFINE path == PlannedGguf(c).runtime_config
           fine == LlamaConfigIn(ReadOptional(path)).ok
<1>1. /\ outcome[c] = "running" /\ Steps(c)[pos[c]] = "gguf_config"
      /\ Decide(c, fine, work[c], "MODEL_PACK_ERROR")
  BY DEF GgufConfig, At
<1>2. Since("discover", Steps(c), pos[c]) /\ Since("plan_gguf", Steps(c), pos[c])
  BY <1>1, Here, Needs
<1>3. MayRun(c, {"plan_gguf"})
  BY <1>1, <1>2, Calling
<1>4. LlamaConfigIn(None).ok
  <2>1. LlamaConfigIn(None) = Ok(DefaultLlamaConfig)
    BY Zenon DEF LlamaConfigIn, LlamaFromJsonFile
  <2> QED BY <2>1, Results
<1>5. ASSUME ~ fine, calm[c] PROVE ~ GgufSound
  <2>1. path = GgufPlans[disk[ManifestPath]].value.runtime_config
    BY <1>1, <1>2, <1>5, Discovered DEF PlannedGguf, LlamaModelPlan
  <2> HIDE DEF path
  <2>2. ~ LlamaSound(path)
    BY <1>4, <1>5, Zenon DEF LlamaSound, ReadOptional, ReadAt
  <2> QED BY <2>1, <2>2, Zenon DEF GgufSound
<1> HIDE DEF fine
<1>6. ~ fine /\ calm[c] => Causes(c, "MODEL_PACK_ERROR")
  BY <1>3, <1>5, PackBlamed
<1>7. /\ Steps(c)[pos[c]] \in Checking /\ "MODEL_PACK_ERROR" \in Status
      /\ Excused(c, "MODEL_PACK_ERROR")
  BY <1>1, OthersExcused, Statuses DEF Checking
<1> QED BY <1>1, <1>6, <1>7, ChecksPreserve, Zenon

LEMMA ConfigureDylibPreserves ==
  ASSUME IInv, PackInv, IInv', NEW c \in Callers, ConfigureDylib(c)
  PROVE  PackInv'
<1> DEFINE path == command[c].dylib
           s == Steps(c)
<1>1. outcome[c] = "running" /\ s[pos[c]] = "configure"
  BY DEF ConfigureDylib, At
<1>2. Knows(c, s, pos[c] + 1, work[c], session[c], opened[c], runtime)
      /\ work[c] \in Locals /\ session[c] \in [OrtRole -> SessionStates]
  BY <1>1, CheckKnows, Here DEF Checking
<1>3. CASE /\ path \in DylibFiles /\ override' = path
           /\ early' = IF override = None /\ Unresolved THEN path ELSE early
           /\ Advance(c, work[c])
           /\ UNCHANGED <<disk, writes, build, env, runtime, command, session, opened, calm>>
  <2>1. Others(c)
    <3>1. Apart(c)
      <4>1. Forward(c)
        BY <1>3, AdvanceIs, Unlocal DEF IInv
      <4> QED BY <1>3, <4>1, MovesApart DEF IInv, HeldInv, ShapeInv
    <3>2. work' \in {[work EXCEPT ![c] = work[c]], [work EXCEPT ![c] = Blank]}
      BY <1>3 DEF Advance, EndSection
    <3>3. {override', runtime', early'} \subseteq Dylibs \cup {None}
      BY <1>3, OpenAssumption DEF PackInv, DiskInv
    <3> QED BY <1>3, <3>1, <3>2, <3>3 DEF Apart, Others, IInv, HeldInv, ShapeInv
  <2>2. CallerKnows(c)'
    BY <1>1, <1>2, <1>3, <2>1, AdvanceKnows DEF IInv
  <2> QED BY <2>1, <2>2, OthersKnow DEF IInv
<1>4. CASE Decide(c, FALSE, work[c], "RUNTIME_NOT_CONFIGURED")
  <2>1. MayRun(c, {"configure"}) /\ (calm[c] => build.ort)
    <3>1. Since("ort_gate", s, pos[c])
      BY <1>1, Here, Needs
    <3> QED BY <1>1, <3>1, Here, Calling DEF Knows, Prepared
  <2>2. calm[c] => Causes(c, "RUNTIME_NOT_CONFIGURED")
    BY <2>1, OthersBlamed
  <2>3. ~ (command[c].program = Doctor /\ section[c] = 6)
    <3> SUFFICES ASSUME command[c].program = Doctor, section[c] = 6 PROVE FALSE
      OBVIOUS
    <3>1. WellFormed(s) /\ Ordered(s) /\ pos[c] \in DOMAIN s
      BY <1>1, Here
    <3>2. Has(s, "open")
      BY DoctorHas DEF Steps
    <3> HIDE DEF s
    <3>3. s[Len(s)] = "close"
      BY <3>1, <3>2 DEF WellFormed, Has, Acquiring
    <3>4. pos[c] = Len(s)
      BY <1>1, <3>1, Zenon DEF Ordered
    <3> QED BY <1>1, <3>3, <3>4
  <2> QED BY <1>1, <1>4, <2>2, <2>3, ChecksPreserve, Statuses DEF Checking, Excused
<1> QED BY <1>3, <1>4 DEF ConfigureDylib

----------------------------------------------------------------------------
(* The gates, the plan and the library.                                    *)
LEMMA HfGatePreserves ==
  ASSUME IInv, PackInv, IInv', NEW c \in Callers, HfGate(c)
  PROVE  PackInv'
<1> DEFINE s == Steps(c)
           i == pos[c]
           w == work[c]
<1>1. /\ outcome[c] = "running" /\ s[i] = "hf_gate"
      /\ Decide(c, build.hf, w, "TOKENIZER_DISABLED")
  BY DEF HfGate, At
<1>2. Knows(c, s, i, w, session[c], opened[c], runtime) /\ w \in Locals
  BY <1>1, Here
<1>3. Same(s, i, i + 1, {s[i]})
  BY <1>1, PassHere
<1>4. /\ Remembers(s, i + 1, w) /\ Holds(s, i + 1, w, session[c], opened[c])
      /\ calm[c] => Linked(s, i + 1, w, session[c]) /\ Found(s, i + 1)
  BY <1>1, StepParts DEF GenerationReads, IoReads
<1> HIDE DEF s, i, w
<1>5. build.hf => Prepared(s, i + 1, runtime)
  BY <1>1, <1>2, <1>3 DEF Knows, Prepared, Same
<1>6. build.hf => Knows(c, s, i + 1, w, session[c], opened[c], runtime)
  BY <1>4, <1>5 DEF Knows
<1> QED BY <1>1, <1>2, <1>6, DecideKnows, OthersBlamed, OthersExcused, Statuses DEF s, i

LEMMA OrtGatePreserves ==
  ASSUME IInv, PackInv, IInv', NEW c \in Callers, OrtGate(c)
  PROVE  PackInv'
<1> DEFINE s == Steps(c)
           i == pos[c]
           w == work[c]
<1>1. /\ outcome[c] = "running" /\ s[i] = "ort_gate"
      /\ Decide(c, build.ort, w, "RUNTIME_DISABLED")
  BY DEF OrtGate, At
<1>2. Knows(c, s, i, w, session[c], opened[c], runtime) /\ w \in Locals
  BY <1>1, Here
<1>3. Same(s, i, i + 1, {s[i]})
  BY <1>1, PassHere
<1>4. /\ Remembers(s, i + 1, w) /\ Holds(s, i + 1, w, session[c], opened[c])
      /\ calm[c] => Linked(s, i + 1, w, session[c]) /\ Found(s, i + 1)
  BY <1>1, StepParts DEF GenerationReads, IoReads
<1> HIDE DEF s, i, w
<1>5. build.ort => Prepared(s, i + 1, runtime)
  BY <1>1, <1>2, <1>3 DEF Knows, Prepared, Same
<1>6. build.ort => Knows(c, s, i + 1, w, session[c], opened[c], runtime)
  BY <1>4, <1>5 DEF Knows
<1> QED BY <1>1, <1>2, <1>6, DecideKnows, OthersBlamed, OthersExcused, Statuses DEF s, i

(* The plan is the disk's, and it is for ONNX Runtime.                     *)
LEMMA PlanPreserves ==
  ASSUME IInv, PackInv, IInv', NEW c \in Callers, Plan(c)
  PROVE  PackInv'
<1> DEFINE s == Steps(c)
           i == pos[c]
           w == work[c]
           fine == Plans[w.manifest].ok
<1>1. outcome[c] = "running" /\ s[i] = "plan" /\ Decide(c, fine, w, "MODEL_PACK_ERROR")
  BY DEF Plan, At
<1>2. Knows(c, s, i, w, session[c], opened[c], runtime) /\ w \in Locals
  BY <1>1, Here
<1>3. Same(s, i, i + 1, {s[i]}) /\ (i + 1 \in DOMAIN s => s[i + 1] \notin {"verify", "init_runtime"})
  BY <1>1, PassHere
<1>4. /\ Prepared(s, i + 1, runtime) /\ Holds(s, i + 1, w, session[c], opened[c])
      /\ calm[c] => Linked(s, i + 1, w, session[c])
  BY <1>1, StepParts DEF GenerationReads, IoReads
<1>5. /\ w.manifest \in Packs /\ (calm[c] => w.manifest = disk[ManifestPath])
  <2>1. Since("discover", s, i)
    BY <1>1, Here, Needs
  <2> QED BY <1>1, <2>1, Discovered
<1>6. ~ MayRun(c, {"plan_gguf"})
  BY <1>1, Calling, PlansOne
<1> HIDE DEF s, i, w
<1>7. fine => Remembers(s, i + 1, w)
  BY <1>1, <1>2, <1>3 DEF Knows, Remembers, Same
<1>8. fine /\ calm[c] => Found(s, i + 1)
  <2> SUFFICES ASSUME fine, calm[c] PROVE Found(s, i + 1)
    OBVIOUS
  <2>1. Found(s, i) /\ Plans[disk[ManifestPath]].ok
    BY <1>2, <1>5 DEF Knows
  <2>2. /\ After({"verify"}, s, i + 1) <=> After({"verify"}, s, i)
        /\ After({"read_generation"}, s, i + 1) <=> After({"read_generation"}, s, i)
        /\ After({"read_io"}, s, i + 1) <=> After({"read_io"}, s, i)
        /\ After({"runtime_generation", "strict_generation"}, s, i + 1) <=>
             After({"runtime_generation", "strict_generation"}, s, i)
        /\ After({"runtime_io", "strict_io"}, s, i + 1) <=> After({"runtime_io", "strict_io"}, s, i)
        /\ After({"load_tokenizer"}, s, i + 1) <=> After({"load_tokenizer"}, s, i)
        /\ After({"join_loads"}, s, i + 1) <=> After({"join_loads"}, s, i)
        /\ After({"open"}, s, i + 1) <=> After({"open"}, s, i)
    BY <1>1, <1>3 DEF Same
  <2> QED BY <2>1, <2>2, Zenon DEF Found
<1>9. fine => Knows(c, s, i + 1, w, session[c], opened[c], runtime)
  BY <1>4, <1>7, <1>8 DEF Knows
<1>10. ~ fine /\ calm[c] => Causes(c, "MODEL_PACK_ERROR")
  <2> SUFFICES ASSUME ~ fine, calm[c] PROVE Causes(c, "MODEL_PACK_ERROR")
    OBVIOUS
  <2>1. ~ AssetsSound(MayRun(c, {"strict_generation"}))
    BY <1>5, Zenon DEF AssetsSound
  <2> QED BY <1>6, <2>1, PackBlamed
<1>11. Excused(c, "MODEL_PACK_ERROR") /\ "MODEL_PACK_ERROR" \in Status
  BY OthersExcused, Statuses
<1> HIDE DEF fine
<1> QED BY <1>1, <1>2, <1>9, <1>10, <1>11, DecideKnows, Zenon DEF s, i, w

(* A model that does not load for want of llama.cpp is no fault of the     *)
(* section; nobody who loads one is a doctor.                              *)
LEMMA LoadLlamaPreserves ==
  ASSUME IInv, PackInv, IInv', NEW c \in Callers, LoadLlama(c)
  PROVE  PackInv'
<1>1. outcome[c] = "running" /\ Steps(c)[pos[c]] = "load_llama"
  BY DEF LoadLlama, At
<1>2. PICK status \in {"ok", "MODEL_PACK_ERROR"} \cup ReadinessStatus :
        Decide(c, status = "ok", work[c], status)
  BY DEF LoadLlama
<1>3. MayRun(c, {"verify_trusted", "load_llama"}) /\ MayRun(c, {"load_llama"})
  BY <1>1, Calling
<1>4. CASE status = "ok"
  <2>1. Others(c) /\ runtime' = runtime
    BY <1>2, DecideOthers
  <2>2. Knows(c, Steps(c), pos[c] + 1, work[c], session[c], opened[c], runtime)
        /\ work[c] \in Locals /\ session[c] \in [OrtRole -> SessionStates]
    BY <1>1, CheckKnows, Here DEF Checking
  <2>3. Advance(c, work[c]) /\ UNCHANGED <<session, opened>>
    BY <1>2, <1>4 DEF Decide
  <2>4. CallerKnows(c)'
    BY <1>1, <2>1, <2>2, <2>3, AdvanceKnows DEF IInv
  <2> QED BY <2>1, <2>4, OthersKnow DEF IInv
<1>5. CASE status = "MODEL_PACK_ERROR"
  <2>1. Decide(c, FALSE, work[c], "MODEL_PACK_ERROR")
    BY <1>2, <1>5
  <2>2. /\ Steps(c)[pos[c]] \in Checking /\ "MODEL_PACK_ERROR" \in Status
        /\ Causes(c, "MODEL_PACK_ERROR") /\ Excused(c, "MODEL_PACK_ERROR")
    BY <1>1, <1>3, PackBlamed, OthersExcused, Statuses DEF Checking
  <2> QED BY <1>1, <2>1, <2>2, ChecksPreserve, Zenon
<1>6. CASE status \in ReadinessStatus
  <2>1. Others(c)
    BY <1>2, DecideOthers
  <2>2. Leave(c, status)
    BY <1>2, <1>6 DEF Decide, Fail, ReadinessStatus
  <2>3. status \in Tolerated(c) /\ status \in Status
    <3>1. /\ section[c] \in DOMAIN command[c].program /\ InOrder(command[c].program)
          /\ pos[c] \in DOMAIN Steps(c)
      BY <1>1, Here
    <3>2. Has(Steps(c), "load_llama")
      BY <1>1, <3>1 DEF Has
    <3> QED BY <1>6, <3>1, <3>2, Statuses DEF InOrder, Steps, Tolerated, ReadinessStatus
  <2>4. command[c].program # Doctor
    <3>1. Since("plan_gguf", Steps(c), pos[c])
      BY <1>1, Here, Needs
    <3>2. MayRun(c, {"plan_gguf"})
      BY <1>1, <3>1, Calling
    <3>3. ~ MayRun(c, {"plan", "runtime_branch"})
      BY <1>1, <3>2, PlansOne
    <3>4. Calls(Doctor, {"plan", "runtime_branch"})
      BY DoctorHas DEF Calls
    <3> QED BY <3>3, <3>4 DEF MayRun
  <2>5. CallerKnows(c)'
    BY <1>1, <2>1, <2>2, <2>3, <2>4, Leaves DEF Onwards, IInv
  <2> QED BY <2>1, <2>5, OthersKnow DEF IInv
<1> QED BY <1>4, <1>5, <1>6

(* The override, or an environment that names a file, or neither.          *)
LEMMA DylibPathIs ==
  ASSUME PackInv
  PROVE  /\ DylibPath \in Dylibs \cup {None}
         /\ DylibPath = None => env \notin DylibFiles
BY OpenAssumption DEF PackInv, DiskInv, DylibPath

LEMMA ResolveDylibPreserves ==
  ASSUME IInv, PackInv, IInv', NEW c \in Callers, ResolveDylib(c)
  PROVE  PackInv'
<1> DEFINE s == Steps(c)
           i == pos[c]
           w == work[c]
           u == [w EXCEPT !.dylib = DylibPath]
<1>1. /\ outcome[c] = "running" /\ s[i] = "resolve_dylib"
      /\ Decide(c, DylibPath # None, u, "RUNTIME_NOT_CONFIGURED")
  BY DEF ResolveDylib, At
<1>2. Knows(c, s, i, w, session[c], opened[c], runtime) /\ w \in Locals
  BY <1>1, Here
<1>3. /\ u.manifest = w.manifest /\ u.tokenizer = w.tokenizer /\ u.generation = w.generation
      /\ u.io = w.io /\ u.measured = w.measured /\ u.translation = w.translation
      /\ u.dylib = DylibPath
  BY <1>2 DEF Locals
<1>4. u \in Locals
  BY <1>2, DylibPathIs DEF Locals
<1> HIDE DEF u
<1>5. DylibPath # None => Knows(c, s, i + 1, u, session[c], opened[c], runtime)
  <2> SUFFICES ASSUME DylibPath # None
               PROVE  Knows(c, s, i + 1, u, session[c], opened[c], runtime)
    OBVIOUS
  <2>1. /\ s[i] \notin {"measure", "discover", "plan", "load_tokenizer", "hf_gate", "ort_gate",
                        "init_runtime", "open", "join_loads", "load_past", "verify",
                        "runtime_generation", "runtime_io"} \cup GenerationReads \cup IoReads
        /\ u.translation \in {"ok", w.translation} /\ u.dylib # None
    BY <1>1, <1>3 DEF GenerationReads, IoReads
  <2>2. /\ Remembers(s, i + 1, u) /\ Prepared(s, i + 1, runtime)
        /\ Holds(s, i + 1, u, session[c], opened[c])
    BY <1>1, <1>3, <2>1, StepParts
  <2>3. calm[c] => Linked(s, i + 1, u, session[c]) /\ Found(s, i + 1)
    BY <1>1, <1>3, <2>1, StepParts
  <2> QED BY <2>2, <2>3 DEF Knows
<1>6. /\ Since("ort_gate", s, i) /\ Since("runtime_generation", s, i) /\ Since("runtime_io", s, i)
  BY <1>1, Here, Needs
<1>7. ~ (DylibPath # None) /\ calm[c] =>
        Causes(c, "RUNTIME_NOT_CONFIGURED") /\ Excused(c, "RUNTIME_NOT_CONFIGURED")
  <2> SUFFICES ASSUME DylibPath = None, calm[c]
               PROVE  Causes(c, "RUNTIME_NOT_CONFIGURED") /\ Excused(c, "RUNTIME_NOT_CONFIGURED")
    OBVIOUS
  <2>1. build.ort /\ env \notin DylibFiles
    BY <1>2, <1>6, DylibPathIs DEF Knows, Prepared
  <2>2. After({"runtime_generation"}, s, i) /\ After({"runtime_io"}, s, i)
    BY <1>6, SinceIsAfter
  <2>3. /\ After({"runtime_generation", "strict_generation"}, s, i)
        /\ After({"runtime_io", "strict_io"}, s, i)
    BY <2>2 DEF After
  <2>4. NotConfigured
    BY <1>2, <2>1, <2>3 DEF Knows, Found, NotConfigured
  <2> QED BY <2>1, <2>4, OthersBlamed DEF Excused
<1> QED BY <1>1, <1>4, <1>5, <1>7, DecideKnows, Statuses

(* Whatever was initialised first, a library is.                           *)
LEMMA InitRuntimePreserves ==
  ASSUME IInv, PackInv, IInv', NEW c \in Callers, InitRuntime(c)
  PROVE  PackInv'
<1> DEFINE s == Steps(c)
           i == pos[c]
           w == work[c]
           u == [w EXCEPT !.dylib = None]
           library == IF runtime = None THEN w.dylib ELSE runtime
<1>1. outcome[c] = "running" /\ s[i] = "init_runtime"
  BY DEF InitRuntime, At
<1>2. Knows(c, s, i, w, session[c], opened[c], runtime) /\ w \in Locals
      /\ session[c] \in [OrtRole -> SessionStates] /\ i \in DOMAIN s
  BY <1>1, Here
<1>3. /\ u.manifest = w.manifest /\ u.tokenizer = w.tokenizer /\ u.generation = w.generation
      /\ u.io = w.io /\ u.measured = w.measured /\ u.translation = w.translation
  BY <1>2 DEF Locals
<1>4. u \in Locals /\ library \in Dylibs \cup {None}
  BY <1>2 DEF Locals, PackInv, DiskInv
<1>5. \/ /\ runtime' = library /\ Advance(c, u)
         /\ UNCHANGED <<disk, writes, build, env, override, early, command, session, opened, calm>>
      \/ Decide(c, FALSE, w, "ORT_ERROR")
  BY DEF InitRuntime
<1>6. library # None
  BY <1>1, <1>2 DEF Knows, Remembers
<1> HIDE DEF u, library
<1>7. CASE Decide(c, FALSE, w, "ORT_ERROR")
  <2>1. Causes(c, "ORT_ERROR") /\ Excused(c, "ORT_ERROR") /\ "ORT_ERROR" \in Status
    BY OthersBlamed, OthersExcused, Statuses
  <2> QED BY <1>1, <1>7, <2>1, DecideKnows, Zenon
<1>8. CASE /\ runtime' = library /\ Advance(c, u)
           /\ UNCHANGED <<disk, writes, build, env, override, early, command, session, opened,
                          calm>>
  <2>1. Others(c)
    <3>1. LocallyQuiet(c, u)
      BY <1>2, <1>4 DEF LocallyQuiet, Locals, u
    <3>2. Forward(c)
      BY <1>8, <3>1, AdvanceIs DEF IInv
    <3>3. Apart(c)
      BY <1>8, <3>2, MovesApart DEF IInv, HeldInv, ShapeInv
    <3>4. work' \in {[work EXCEPT ![c] = u], [work EXCEPT ![c] = Blank]}
      BY <1>8 DEF Advance, EndSection
    <3>5. {override', runtime', early'} \subseteq Dylibs \cup {None}
      BY <1>4, <1>8 DEF PackInv, DiskInv
    <3>6. runtime # None => runtime' = runtime
      BY <1>8 DEF library
    <3> QED BY <1>8, <3>3, <3>4, <3>5, <3>6 DEF Apart, Others, IInv, HeldInv, ShapeInv
  <2>2. Knows(c, s, i + 1, u, session[c], opened[c], library)
    <3>1. /\ s[i] \notin {"measure", "discover", "plan", "load_tokenizer", "hf_gate", "ort_gate",
                          "open", "join_loads", "load_past", "verify", "resolve_dylib",
                          "runtime_generation", "runtime_io"} \cup GenerationReads \cup IoReads
          /\ u.translation \in {"ok", w.translation}
      BY <1>1, <1>3 DEF GenerationReads, IoReads
    <3>2. /\ Remembers(s, i + 1, u) /\ Holds(s, i + 1, u, session[c], opened[c])
          /\ Same(s, i, i + 1, {s[i]})
      BY <1>1, <1>3, <3>1, StepParts, PassHere
    <3>3. calm[c] => Linked(s, i + 1, u, session[c]) /\ Found(s, i + 1)
      BY <1>1, <1>3, <3>1, StepParts
    <3> HIDE DEF s, i
    <3>4. Prepared(s, i + 1, library)
      BY <1>1, <1>2, <1>6, <3>2 DEF Knows, Prepared, Same
    <3> QED BY <3>2, <3>3, <3>4 DEF Knows
  <2>3. CallerKnows(c)'
    BY <1>1, <1>2, <1>4, <1>8, <2>1, <2>2, AdvanceKnows DEF IInv
  <2> QED BY <2>1, <2>3, OthersKnow DEF IInv
<1> QED BY <1>5, <1>7, <1>8

(* A doctor ends here with a pack for llama.cpp, its config unread.        *)
LEMMA RuntimeBranchPreserves ==
  ASSUME IInv, PackInv, IInv', NEW c \in Callers, RuntimeBranch(c)
  PROVE  PackInv'
<1> DEFINE s == Steps(c)
           i == pos[c]
           w == work[c]
<1>1. outcome[c] = "running" /\ s[i] = "runtime_branch" /\ s[i] \in Checking
  BY DEF RuntimeBranch, At, Checking
<1>2. Knows(c, s, i, w, session[c], opened[c], runtime) /\ i \in DOMAIN s /\ Ordered(s)
  BY <1>1, Here
<1>3. Since("discover", s, i) /\ After({"verify"}, s, i)
  BY <1>1, <1>2, Needs, SinceIsAfter
<1>4. w.manifest \in Packs /\ (calm[c] => w.manifest = disk[ManifestPath] /\ PackIntact)
  BY <1>1, <1>2, <1>3, Discovered DEF Knows, Found
<1>5. /\ "MODEL_PACK_ERROR" \in Status /\ Excused(c, "MODEL_PACK_ERROR")
  BY OthersExcused, Statuses
<1>6. CASE Decide(c, TRUE, w, "MODEL_PACK_ERROR")
  BY <1>1, <1>5, <1>6, ChecksPreserve, Zenon
<1>7. CASE Pack(c).runtime = LLAMA_CPP_RUNTIME /\ Decide(c, FALSE, w, "MODEL_PACK_ERROR")
  <2>1. ~ Plans[w.manifest].ok
    BY <1>4, <1>7, PlanPaths DEF Pack, LLAMA_CPP_RUNTIME, ONNX_RUNTIME
  <2>2. ~ MayRun(c, {"plan_gguf"})
    BY <1>1, Calling, PlansOne
  <2>3. calm[c] => Causes(c, "MODEL_PACK_ERROR")
    <3> SUFFICES ASSUME calm[c] PROVE Causes(c, "MODEL_PACK_ERROR")
      OBVIOUS
    <3>1. ~ AssetsSound(MayRun(c, {"strict_generation"}))
      BY <1>4, <2>1, Zenon DEF AssetsSound
    <3> QED BY <2>2, <3>1, PackBlamed
  <2> QED BY <1>1, <1>5, <1>7, <2>3, ChecksPreserve, Zenon
<1>8. CASE /\ GgufPlans[work[c].manifest].ok
           /\ outcome' = [outcome EXCEPT ![c] = "ok"]
           /\ work' = [work EXCEPT ![c] = Blank]
           /\ UNCHANGED <<disk, writes, process, command, section, pos, session, opened, calm>>
  <2>1. /\ outcome'[c] = "ok" /\ work'[c] = Blank /\ pos'[c] = pos[c] /\ section'[c] = section[c]
    BY <1>8 DEF IInv, HeldInv, ShapeInv
  <2>2. Others(c)
    BY <1>8 DEF Others, process, IInv, HeldInv, ShapeInv, PackInv, DiskInv
  <2>3. Free(c)'
    BY <2>1 DEF IInv, HeldInv, CallerInv
  <2>4. InProgram(c)'
    BY <1>1, <1>8, Here DEF InProgram, Steps
  <2>5. Typed(c)'
    BY <2>1, <2>2, <2>3, <2>4, FreeIsTyped DEF IInv
  <2>6. Doctors(c)'
    BY <1>4, <1>8, <2>1, <2>2, CausesStay DEF Agrees, Others
  <2>7. Causes(c, outcome[c])'
    BY <2>1 DEF Causes
  <2>8. CallerKnows(c)'
    BY <2>1, <2>5, <2>6, <2>7 DEF CallerKnows
  <2> QED BY <2>2, <2>8, OthersKnow DEF IInv
<1> QED BY <1>6, <1>7, <1>8 DEF RuntimeBranch

----------------------------------------------------------------------------
(* Discovery begins a section, or begins it again after a measure, and so  *)
(* nothing is there for the new locals to contradict.                      *)
LEMMA Beginning ==
  ASSUME NEW s, Ordered(s), NEW i \in DOMAIN s, i \in Nat \ {0}, s[i] = "discover"
  PROVE  \A step : step # "measure" => ~ Since(step, s, i)
<1>1. i = 1 \/ Previous("measure", s, i)
  BY Zenon DEF Ordered
<1>2. CASE i = 1
  BY <1>2, NothingYet
<1>3. CASE Previous("measure", s, i)
  <2>1. i - 1 \in Nat \ {0} /\ s[i - 1] = "measure" /\ (i - 1) + 1 = i
    BY <1>3 DEF Previous
  <2> QED BY <2>1, JustDone
<1> QED BY <1>1, <1>2, <1>3

(* Nothing but the rest of the loads and the handle follows the join.      *)
LEMMA NotJoined ==
  ASSUME NEW s, Ordered(s), DOMAIN s = 1 .. Len(s), Len(s) \in Nat, NEW i \in DOMAIN s,
         s[i] \notin AfterJoin \cup {"open"} \cup WithHandle
  PROVE  ~ After({"join_loads"}, s, i)
<1> SUFFICES ASSUME After({"join_loads"}, s, i) PROVE FALSE
  OBVIOUS
<1>1. PICK j \in 1 .. i - 1 : s[j] = "join_loads"
  BY DEF After
<1>2. j \in DOMAIN s
  BY <1>1
<1>3. Only(AfterJoin \cup {"open"} \cup WithHandle, s, j)
  BY <1>1, <1>2, Zenon DEF Ordered
<1>4. i \in j + 1 .. Len(s)
  BY <1>1
<1> QED BY <1>3, <1>4, Zenon DEF Only

LEMMA DiscoverPreserves ==
  ASSUME IInv, PackInv, IInv', NEW c \in Callers, Discover(c)
  PROVE  PackInv'
<1> DEFINE s == Steps(c)
           i == pos[c]
           w == work[c]
           content == disk[ManifestPath]
           u == [Blank EXCEPT !.manifest = content, !.measured = w.measured]
           fine == content \in Packs
<1>1. outcome[c] = "running" /\ s[i] = "discover" /\ Decide(c, fine, u, "MODEL_PACK_ERROR")
  BY DEF Discover, At, ReadAt
<1>2. /\ Knows(c, s, i, w, session[c], opened[c], runtime) /\ w \in Locals
      /\ i \in DOMAIN s /\ Ordered(s) /\ i \in Nat \ {0}
      /\ DOMAIN s = 1 .. Len(s) /\ Len(s) \in Nat
  BY <1>1, Here
<1>3. /\ u.manifest = content /\ u.files = 0 /\ u.generation = None /\ u.io = None
      /\ u.tokenizer = None /\ u.dylib = None /\ u.translation = "ok"
      /\ u.measured = w.measured
  BY DEF Blank
<1>4. u \in Locals
  <2>1. content \in ReadContent
    BY DEF PackInv, DiskInv, Disks, Path, ReadContent
  <2> QED BY <1>2, <2>1 DEF Locals, Blank, ReadContent
<1> HIDE DEF u
<1>5. Same(s, i, i + 1, {"discover"})
  <2>1. \A k \in i .. (i + 1) - 1 : s[k] \in {"discover"}
    BY <1>1, <1>2
  <2>2. "measure" \notin {"discover"} /\ 1 <= i /\ i <= i + 1 /\ i + 1 \in Nat /\ i \in Nat
    BY <1>2
  <2> HIDE DEF s, i
  <2> QED BY <2>1, <2>2, PassingIsSame
<1>6. \A step : step \notin {"measure", "discover"} => ~ Since(step, s, i + 1)
  <2>1. \A step : step # "measure" => ~ Since(step, s, i)
    BY <1>1, <1>2, Beginning
  <2> HIDE DEF s, i
  <2> QED BY <1>5, <2>1 DEF Same
<1>7. ~ After({"join_loads"}, s, i)
  BY <1>1, <1>2, NotJoined DEF AfterJoin, WithHandle
<1>8. i + 1 \in DOMAIN s => s[i + 1] # "init_runtime"
  <2> SUFFICES ASSUME i + 1 \in DOMAIN s, s[i + 1] = "init_runtime" PROVE FALSE
    OBVIOUS
  <2> HIDE DEF s, i
  <2>1. Previous("resolve_dylib", s, i + 1)
    BY <1>2, Zenon DEF Ordered
  <2>2. (i + 1) - 1 = i
    BY <1>2
  <2> QED BY <1>1, <2>1, <2>2 DEF Previous
<1>9. fine => Len(FilesOn(content)) \in Nat \ {0}
  BY PackIsManifest
<1> HIDE DEF s, i, w
<1>10. fine => Remembers(s, i + 1, u)
  BY <1>3, <1>6, <1>8, <1>9 DEF Remembers
<1>11. Prepared(s, i + 1, runtime)
  BY <1>6 DEF Prepared
<1>12. Holds(s, i + 1, u, session[c], opened[c])
  <2>1. /\ After({"open"}, s, i + 1) <=> After({"open"}, s, i)
        /\ After({"join_loads"}, s, i + 1) <=> After({"join_loads"}, s, i)
        /\ After({"load_past"}, s, i + 1) <=> After({"load_past"}, s, i)
    BY <1>5 DEF Same
  <2> QED BY <1>2, <1>7, <2>1 DEF Knows, Holds
<1>13. calm[c] => Linked(s, i + 1, u, session[c])
  <2> SUFFICES ASSUME calm[c] PROVE Linked(s, i + 1, u, session[c])
    OBVIOUS
  <2>1. Linked(s, i, w, session[c])
    BY <1>2 DEF Knows
  <2>2. After({"measure"}, s, i + 1) <=> After({"measure"}, s, i)
    BY <1>5 DEF Same
  <2>3. /\ \A path : ReadAs({"load_tokenizer"}, s, i + 1, path) = None
        /\ \A path : ReadAs(GenerationReads, s, i + 1, path) = None
        /\ \A path : ReadAs(IoReads, s, i + 1, path) = None
    BY <1>6 DEF ReadAs, SinceAny, GenerationReads, IoReads
  <2>4. 1 .. u.files = {}
    BY <1>3
  <2> QED BY <1>3, <2>1, <2>2, <2>3, <2>4 DEF Linked
<1>14. calm[c] => Found(s, i + 1)
  <2> SUFFICES ASSUME calm[c] PROVE Found(s, i + 1)
    OBVIOUS
  <2>1. \A step \in {"verify", "plan", "load_tokenizer", "join_loads", "open"}
                    \cup GenerationReads \cup IoReads : step \notin {"discover"}
    BY DEF GenerationReads, IoReads
  <2> QED BY <1>2, <1>5, <2>1, FoundOn DEF Knows
<1>15. fine => Knows(c, s, i + 1, u, session[c], opened[c], runtime)
  BY <1>10, <1>11, <1>12, <1>13, <1>14 DEF Knows
<1>16. ~ fine /\ calm[c] => Causes(c, "MODEL_PACK_ERROR") /\ Excused(c, "MODEL_PACK_ERROR")
  BY PackBlamed, OthersExcused DEF PackIntact
<1> HIDE DEF fine
<1> QED BY <1>1, <1>4, <1>15, <1>16, DecideKnows, Statuses DEF s, i, w

(* File by file, the pack is found intact.                                 *)
LEMMA VerifyFilePreserves ==
  ASSUME IInv, PackInv, IInv', NEW c \in Callers, VerifyFile(c)
  PROVE  PackInv'
<1> DEFINE s == Steps(c)
           i == pos[c]
           w == work[c]
           files == FilesOn(w.manifest)
           next == w.files + 1
           u == [w EXCEPT !.files = next]
           wrong == \/ MissingRequiredLanguage(Pack(c)) \/ disk[files[next].path] = Absent
                    \/ DigestOf[disk[files[next].path]] # files[next].sha256
<1>1. outcome[c] = "running" /\ s[i] = "verify"
  BY DEF VerifyFile, At
<1>2. /\ Knows(c, s, i, w, session[c], opened[c], runtime) /\ w \in Locals
      /\ i \in DOMAIN s /\ session[c] \in [OrtRole -> SessionStates]
  BY <1>1, Here
<1>3. w.manifest \in Packs /\ (calm[c] => w.manifest = disk[ManifestPath])
  <2>1. Since("discover", s, i)
    BY <1>1, Here, Needs
  <2> QED BY <1>1, <2>1, Discovered
<1>4. /\ u.manifest = w.manifest /\ u.tokenizer = w.tokenizer /\ u.generation = w.generation
      /\ u.io = w.io /\ u.measured = w.measured /\ u.translation \in {"ok", w.translation}
      /\ u.files = next /\ u \in Locals /\ next \in Nat
  BY <1>2 DEF Locals
<1>5. files = Pack(c).files
  BY DEF FilesOn, Pack
<1>6. \/ wrong /\ Decide(c, FALSE, u, "MODEL_PACK_ERROR")
      \/ ~ wrong /\ next = Len(files) /\ Decide(c, TRUE, u, "MODEL_PACK_ERROR")
      \/ /\ ~ wrong /\ next # Len(files) /\ work' = [work EXCEPT ![c] = u]
         /\ UNCHANGED <<disk, writes, process, command, control, session, opened, calm>>
  BY <1>5 DEF VerifyFile, ReadAt
<1>7. /\ w.files < Len(files) /\ Len(files) \in Nat /\ DOMAIN files = 1 .. Len(files)
      /\ w.files \in Nat
  BY <1>1, <1>2, <1>3, PackIsManifest DEF Knows, Remembers, Locals
<1>8. calm[c] /\ ~ wrong => \A k \in 1 .. next : FileIntact(files[k])
  <2> SUFFICES ASSUME calm[c], ~ wrong PROVE \A k \in 1 .. next : FileIntact(files[k])
    OBVIOUS
  <2>1. \A k \in 1 .. w.files : FileIntact(files[k])
    BY <1>1, <1>2 DEF Knows, Linked
  <2>2. FileIntact(files[next])
    BY DEF FileIntact
  <2> HIDE DEF files
  <2> QED BY <1>7, <2>1, <2>2
<1>9. "MODEL_PACK_ERROR" \in Status /\ Excused(c, "MODEL_PACK_ERROR")
  BY OthersExcused, Statuses
<1>10. CASE wrong /\ Decide(c, FALSE, u, "MODEL_PACK_ERROR")
  <2>1. calm[c] => Causes(c, "MODEL_PACK_ERROR")
    <3> SUFFICES ASSUME calm[c] PROVE Causes(c, "MODEL_PACK_ERROR")
      OBVIOUS
    <3>1. next \in DOMAIN files
      BY <1>7
    <3>2. ~ Intact(Pack(c))
      BY <1>5, <1>10, <3>1 DEF Intact
    <3>3. Pack(c) = Manifests[disk[ManifestPath]].value
      BY <1>3 DEF Pack
    <3>4. ~ PackIntact
      BY <3>2, <3>3 DEF PackIntact
    <3> QED BY <3>4, PackBlamed
  <2> QED BY <1>1, <1>9, <1>10, <2>1, DecideKnows, Zenon
<1>11. CASE ~ wrong /\ next = Len(files) /\ Decide(c, TRUE, u, "MODEL_PACK_ERROR")
  <2>1. s[i] \notin {"measure", "discover", "plan", "load_tokenizer", "hf_gate", "ort_gate",
                     "open", "join_loads", "load_past", "resolve_dylib", "init_runtime",
                     "runtime_generation", "runtime_io"} \cup GenerationReads \cup IoReads
    BY <1>1 DEF GenerationReads, IoReads
  <2>2. /\ Remembers(s, i + 1, u) /\ Prepared(s, i + 1, runtime)
        /\ Holds(s, i + 1, u, session[c], opened[c]) /\ Same(s, i, i + 1, {s[i]})
    BY <1>1, <1>4, <2>1, StepParts, PassHere
  <2>3. calm[c] => Linked(s, i + 1, u, session[c])
    BY <1>1, <1>4, <2>1, StepParts
  <2>4. calm[c] => Found(s, i + 1)
    <3> SUFFICES ASSUME calm[c] PROVE Found(s, i + 1)
      OBVIOUS
    <3>1. PackIntact
      <4>1. Intact(Pack(c))
        BY <1>5, <1>7, <1>8, <1>11 DEF Intact, FileIntact
      <4>2. Pack(c) = Manifests[disk[ManifestPath]].value /\ disk[ManifestPath] \in Packs
        BY <1>3 DEF Pack
      <4> QED BY <4>1, <4>2 DEF PackIntact
    <3>2. Found(s, i)
      BY <1>2 DEF Knows
    <3> HIDE DEF s, i
    <3>3. /\ After({"plan"}, s, i + 1) <=> After({"plan"}, s, i)
          /\ After({"read_generation"}, s, i + 1) <=> After({"read_generation"}, s, i)
          /\ After({"read_io"}, s, i + 1) <=> After({"read_io"}, s, i)
          /\ After({"runtime_generation", "strict_generation"}, s, i + 1) <=>
               After({"runtime_generation", "strict_generation"}, s, i)
          /\ After({"runtime_io", "strict_io"}, s, i + 1) <=>
               After({"runtime_io", "strict_io"}, s, i)
          /\ After({"load_tokenizer"}, s, i + 1) <=> After({"load_tokenizer"}, s, i)
          /\ After({"join_loads"}, s, i + 1) <=> After({"join_loads"}, s, i)
          /\ After({"open"}, s, i + 1) <=> After({"open"}, s, i)
      BY <1>1, <2>2 DEF Same
    <3> QED BY <3>1, <3>2, <3>3, Zenon DEF Found
  <2>5. Knows(c, s, i + 1, u, session[c], opened[c], runtime)
    BY <2>2, <2>3, <2>4 DEF Knows
  <2> QED BY <1>1, <1>4, <1>9, <1>11, <2>5, DecideKnows, Zenon
<1>12. CASE /\ ~ wrong /\ next # Len(files) /\ work' = [work EXCEPT ![c] = u]
            /\ UNCHANGED <<disk, writes, process, command, control, session, opened, calm>>
  <2>1. Others(c)
    BY <1>12 DEF Others, process, control, IInv, HeldInv, ShapeInv, PackInv, DiskInv
  <2>2. Knows(c, s, i, u, session[c], opened[c], runtime)
    <3>1. Remembers(s, i, u)
      <4>1. u.files < Len(FilesOn(u.manifest))
        BY <1>4, <1>7, <1>12
      <4> HIDE DEF s, i, w, u
      <4>2. Remembers(s, i, w)
        BY <1>2 DEF Knows
      <4> QED BY <1>1, <1>4, <4>1, <4>2, LaterStill DEF Remembers
    <3>2. Holds(s, i, u, session[c], opened[c])
      BY <1>2, <1>4 DEF Knows, Holds
    <3>3. calm[c] => Linked(s, i, u, session[c])
      BY <1>2, <1>4, <1>8, <1>12 DEF Knows, Linked
    <3> QED BY <1>2, <3>1, <3>2, <3>3 DEF Knows
  <2>3. /\ section'[c] = section[c] /\ outcome'[c] = "running" /\ pos'[c] = i /\ work'[c] = u
        /\ session'[c] = session[c] /\ opened'[c] = opened[c] /\ runtime' = runtime
    BY <1>1, <1>12 DEF control, process, IInv, HeldInv, ShapeInv
  <2>4. CallerKnows(c)'
    BY <1>1, <1>2, <1>4, <2>1, <2>2, <2>3, Arrives
  <2> QED BY <2>1, <2>4, OthersKnow DEF IInv
<1> QED BY <1>6, <1>10, <1>11, <1>12

----------------------------------------------------------------------------
(* The two halves of a summary.                                            *)
LEMMA SummaryHere ==
  ASSUME IInv, PackInv, NEW c \in Callers, outcome[c] = "running", calm[c],
         Since("discover", Steps(c), pos[c])
  PROVE  Summary(c) = SummaryAt(Steps(c), pos[c])
BY Here DEF Knows, Linked, Summary, SummaryAt

LEMMA MeasurePreserves ==
  ASSUME IInv, PackInv, IInv', NEW c \in Callers, Measure(c)
  PROVE  PackInv'
<1> DEFINE s == Steps(c)
           i == pos[c]
           w == work[c]
           u == [Blank EXCEPT !.measured = Summary(c)]
<1>1. outcome[c] = "running" /\ s[i] = "measure" /\ Decide(c, TRUE, u, "ok")
  BY DEF Measure, At
<1>2. /\ Knows(c, s, i, w, session[c], opened[c], runtime) /\ w \in Locals
      /\ i \in DOMAIN s /\ Ordered(s) /\ WellFormed(s) /\ i \in Nat \ {0}
      /\ DOMAIN s = 1 .. Len(s) /\ Len(s) \in Nat /\ session[c] \in [OrtRole -> SessionStates]
  BY <1>1, Here
<1>3. /\ u.manifest = None /\ u.files = 0 /\ u.generation = None /\ u.io = None
      /\ u.tokenizer = None /\ u.dylib = None /\ u.translation = "ok"
      /\ u.measured = Summary(c)
  BY DEF Blank
<1>4. u \in Locals
  BY <1>2 DEF Locals, Blank, ReadContent, Summary
<1>5. calm[c] => Summary(c) = SummaryAt(s, i)
  BY <1>1, <1>2, Needs, SummaryHere
<1> HIDE DEF s, i, w, u
<1>6. \A step : step # "measure" => ~ Since(step, s, i + 1)
  BY <1>1, <1>2, JustDone
<1>7. ASSUME NEW some, "measure" \notin some PROVE After(some, s, i + 1) <=> After(some, s, i)
  BY <1>1, <1>2, <1>7 DEF After
<1>8. i + 1 \in DOMAIN s => s[i + 1] \notin {"verify", "init_runtime"}
  <2> SUFFICES ASSUME i + 1 \in DOMAIN s PROVE s[i + 1] \notin {"verify", "init_runtime"}
    OBVIOUS
  <2>1. /\ s[i + 1] = "verify" => Previous("discover", s, i + 1)
        /\ s[i + 1] = "init_runtime" => Previous("resolve_dylib", s, i + 1)
    BY <1>2, Zenon DEF Ordered
  <2>2. (i + 1) - 1 = i
    BY <1>2
  <2> QED BY <1>1, <2>1, <2>2 DEF Previous
<1>9. Remembers(s, i + 1, u)
  BY <1>3, <1>6, <1>8 DEF Remembers
<1>10. Prepared(s, i + 1, runtime)
  BY <1>6 DEF Prepared
<1>11. Holds(s, i + 1, u, session[c], opened[c])
  <2>1. ~ After({"join_loads"}, s, i)
    BY <1>1, <1>2, NotJoined DEF AfterJoin, WithHandle
  <2>2. /\ After({"open"}, s, i + 1) <=> After({"open"}, s, i)
        /\ After({"join_loads"}, s, i + 1) <=> After({"join_loads"}, s, i)
        /\ After({"load_past"}, s, i + 1) <=> After({"load_past"}, s, i)
    BY <1>7
  <2> QED BY <1>2, <2>1, <2>2 DEF Knows, Holds
<1>12. calm[c] => Linked(s, i + 1, u, session[c])
  <2> SUFFICES ASSUME calm[c] PROVE Linked(s, i + 1, u, session[c])
    OBVIOUS
  <2>1. Linked(s, i, w, session[c])
    BY <1>2 DEF Knows
  <2>2. /\ \A path : ReadAs({"load_tokenizer"}, s, i + 1, path) = None
        /\ \A path : ReadAs(GenerationReads, s, i + 1, path) = None
        /\ \A path : ReadAs(IoReads, s, i + 1, path) = None
    BY <1>6 DEF ReadAs, SinceAny, GenerationReads, IoReads
  <2>3. u.measured = SummaryAt(s, i) /\ s[i] = "measure" /\ i \in DOMAIN s
    BY <1>1, <1>2, <1>3, <1>5
  <2> QED BY <1>3, <1>6, <1>8, <2>1, <2>2, <2>3 DEF Linked
<1>13. calm[c] => Found(s, i + 1)
  <2> SUFFICES ASSUME calm[c] PROVE Found(s, i + 1)
    OBVIOUS
  <2>1. Found(s, i)
    BY <1>2 DEF Knows
  <2>2. /\ After({"verify"}, s, i + 1) <=> After({"verify"}, s, i)
        /\ After({"plan"}, s, i + 1) <=> After({"plan"}, s, i)
        /\ After({"read_generation"}, s, i + 1) <=> After({"read_generation"}, s, i)
        /\ After({"read_io"}, s, i + 1) <=> After({"read_io"}, s, i)
        /\ After({"runtime_generation", "strict_generation"}, s, i + 1) <=>
             After({"runtime_generation", "strict_generation"}, s, i)
        /\ After({"runtime_io", "strict_io"}, s, i + 1) <=> After({"runtime_io", "strict_io"}, s, i)
        /\ After({"load_tokenizer"}, s, i + 1) <=> After({"load_tokenizer"}, s, i)
        /\ After({"join_loads"}, s, i + 1) <=> After({"join_loads"}, s, i)
        /\ After({"open"}, s, i + 1) <=> After({"open"}, s, i)
    BY <1>7
  <2> QED BY <2>1, <2>2, Zenon DEF Found
<1>14. Knows(c, s, i + 1, u, session[c], opened[c], runtime)
  BY <1>9, <1>10, <1>11, <1>12, <1>13 DEF Knows
<1>15. Others(c) /\ runtime' = runtime
  BY <1>1, DecideOthers
<1>16. Advance(c, u) /\ UNCHANGED <<session, opened>>
  BY <1>1 DEF Decide
<1>17. CallerKnows(c)'
  BY <1>1, <1>2, <1>4, <1>14, <1>15, <1>16, AdvanceKnows DEF IInv, s, i
<1> QED BY <1>15, <1>17, OthersKnow DEF IInv

(* On a disk nobody touched the second summary is the first one's length.  *)
LEMMA FillPreserves ==
  ASSUME IInv, PackInv, IInv', NEW c \in Callers, Fill(c)
  PROVE  PackInv'
<1> DEFINE s == Steps(c)
           i == pos[c]
<1>1. PICK fits \in BOOLEAN :
        /\ Summary(c) = work[c].measured => fits
        /\ Decide(c, fits, work[c], "BUFFER_TOO_SMALL")
  BY DEF Fill
<1>2. outcome[c] = "running" /\ s[i] = "fill" /\ s[i] \in Checking
  BY DEF Fill, At, Checking
<1>3. calm[c] => Summary(c) = work[c].measured
  <2> SUFFICES ASSUME calm[c] PROVE Summary(c) = work[c].measured
    OBVIOUS
  <2>1. Ordered(s) /\ i \in DOMAIN s /\ Linked(s, i, work[c], session[c])
    BY <1>2, Here DEF Knows
  <2>2. Summary(c) = SummaryAt(s, i)
    BY <1>2, <2>1, Needs, SummaryHere
  <2> HIDE DEF s, i
  <2>3. /\ After({"measure"}, s, i)
        /\ \A m \in DOMAIN s : s[m] = "measure" =>
             \A done \in GenerationReads \cup IoReads : Since(done, s, i) <=> Since(done, s, m)
    BY <1>2, <2>1, Zenon DEF Ordered
  <2>4. PICK m \in DOMAIN s : s[m] = "measure" /\ work[c].measured = SummaryAt(s, m)
    BY <2>1, <2>3 DEF Linked
  <2>5. /\ SinceAny(GenerationReads, s, i) <=> SinceAny(GenerationReads, s, m)
        /\ SinceAny(IoReads, s, i) <=> SinceAny(IoReads, s, m)
    BY <2>3, <2>4 DEF SinceAny
  <2>6. SummaryAt(s, i) = SummaryAt(s, m)
    BY <2>5, Zenon DEF SummaryAt, ReadAs
  <2> QED BY <2>2, <2>4, <2>6
<1>4. "BUFFER_TOO_SMALL" \in Status /\ Excused(c, "BUFFER_TOO_SMALL")
  BY OthersExcused, Statuses
<1> QED BY <1>1, <1>2, <1>3, <1>4, ChecksPreserve, Zenon

----------------------------------------------------------------------------
(* The config files and the tokenizer: what a read leaves in the locals,   *)
(* and what it tells of the disk.                                          *)
LEMMA ReadJust ==
  ASSUME IInv, PackInv, NEW c \in Callers, outcome[c] = "running", NEW done,
         Steps(c)[pos[c]] \in done, "measure" \notin done
  PROVE  \A path : ReadAs(done, Steps(c), pos[c] + 1, path) = ReadOptional(path)
<1>1. pos[c] \in Nat \ {0}
  BY Here
<1>2. Since(Steps(c)[pos[c]], Steps(c), pos[c] + 1)
  BY <1>1, JustDone
<1> QED BY <1>2 DEF ReadAs, SinceAny

LEMMA ReadStill ==
  ASSUME IInv, PackInv, NEW c \in Callers, outcome[c] = "running", NEW done,
         Steps(c)[pos[c]] \notin done \cup {"measure", "discover"}
  PROVE  \A path :
           ReadAs(done, Steps(c), pos[c] + 1, path) = ReadAs(done, Steps(c), pos[c], path)
<1>1. Same(Steps(c), pos[c], pos[c] + 1, {Steps(c)[pos[c]]})
  BY PassHere
<1>2. SinceAny(done, Steps(c), pos[c] + 1) <=> SinceAny(done, Steps(c), pos[c])
  BY <1>1 DEF Same, SinceAny
<1> QED BY <1>2 DEF ReadAs

LEMMA NotReadYet ==
  ASSUME NEW s, Ordered(s), NEW i \in DOMAIN s, s[i] \in {"read_generation", "read_io"}
  PROVE  ~ Since("runtime_generation", s, i) /\ ~ Since("runtime_io", s, i)
<1>1. ~ After({"runtime_generation", "runtime_io"}, s, i)
  BY Zenon DEF Ordered
<1> QED BY <1>1 DEF After, Since

LEMMA GenerationRead ==
  ASSUME IInv, PackInv, NEW c \in Callers, outcome[c] = "running",
         Steps(c)[pos[c]] \in GenerationReads,
         NEW content, content = ReadOptional(Planned(c).generator.generation_config),
         \/ Steps(c)[pos[c]] = "read_generation" /\ content = None
         \/ GenerationIn(content).ok /\ content # None
  PROVE  LET u == [work[c] EXCEPT !.generation = content] IN
         u \in Locals /\ Knows(c, Steps(c), pos[c] + 1, u, session[c], opened[c], runtime)
<1> DEFINE s == Steps(c)
           i == pos[c]
           w == work[c]
           path == Planned(c).generator.generation_config
           u == [w EXCEPT !.generation = content]
<1>1. /\ Knows(c, s, i, w, session[c], opened[c], runtime) /\ w \in Locals
      /\ i \in DOMAIN s /\ Ordered(s)
  BY Here
<1>2. Since("discover", s, i) /\ Since("plan", s, i)
  BY <1>1, Needs
<1>3. path \in Path \cup {None} /\ (calm[c] => Planned(c) = DiskPlan)
  BY <1>2, PlannedHere
<1>4. content \in ReadContent
  BY <1>3, Reads
<1>5. /\ u \in Locals /\ u.manifest = w.manifest /\ u.tokenizer = w.tokenizer /\ u.io = w.io
      /\ u.measured = w.measured /\ u.translation = w.translation /\ u.generation = content
  BY <1>1, <1>4 DEF Locals
<1>6. s[i] \notin {"measure", "discover", "plan", "load_tokenizer", "hf_gate", "ort_gate", "open",
                   "join_loads", "load_past", "resolve_dylib", "init_runtime", "runtime_io",
                   "verify"} \cup IoReads
  BY DEF GenerationReads, IoReads
<1>7. /\ Same(s, i, i + 1, {s[i]})
      /\ i + 1 \in DOMAIN s => s[i + 1] # "verify"
      /\ i + 1 \in DOMAIN s => s[i + 1] # "init_runtime"
  BY <1>6, PassHere
<1>8. Prepared(s, i + 1, runtime)
  BY <1>6, StepParts
<1>9. /\ calm[c] => /\ \A p : ReadAs(GenerationReads, s, i + 1, p) = ReadOptional(p)
                    /\ \A p : ReadAs(IoReads, s, i + 1, p) = ReadAs(IoReads, s, i, p)
                    /\ \A p : ReadAs({"load_tokenizer"}, s, i + 1, p) =
                              ReadAs({"load_tokenizer"}, s, i, p)
  BY <1>6, ReadJust, ReadStill DEF GenerationReads
<1>10. calm[c] => /\ s[i] = "read_generation" => GenerationSound(path, FALSE)
                  /\ s[i] # "read_generation" => GenerationSound(path, TRUE)
  BY <1>3, Reads DEF GenerationSound
<1>11. s[i] \in GenerationReads /\ content = ReadOptional(path)
       /\ (s[i] # "read_generation" => GenerationIn(content).ok)
  OBVIOUS
<1>12. s[i] = "read_generation" => ~ Since("runtime_generation", s, i)
  BY <1>1, NotReadYet
<1> HIDE DEF u, s, i, w, path
<1>13. Remembers(s, i + 1, u)
  <2>1. Since("runtime_generation", s, i + 1) => GenerationIn(content).ok
    <3>1. CASE s[i] = "read_generation"
      BY <1>7, <1>12, <3>1 DEF Same
    <3> QED BY <1>11, <3>1
  <2>2. /\ Since("discover", s, i + 1) <=> Since("discover", s, i)
        /\ Since("plan", s, i + 1) <=> Since("plan", s, i)
        /\ Since("load_tokenizer", s, i + 1) <=> Since("load_tokenizer", s, i)
        /\ Since("runtime_io", s, i + 1) <=> Since("runtime_io", s, i)
        /\ After({"translate"}, s, i + 1) <=> After({"translate"}, s, i)
    BY <1>6, <1>7, <1>11 DEF Same, GenerationReads
  <2> QED BY <1>1, <1>5, <1>7, <2>1, <2>2 DEF Knows, Remembers
<1>14. Holds(s, i + 1, u, session[c], opened[c])
  <2>1. \A step \in {"open", "join_loads", "load_past"} : step \notin {s[i]}
    BY <1>6
  <2> QED BY <1>1, <1>5, <1>7, <2>1, HoldsOn DEF Knows
<1>15. calm[c] => Linked(s, i + 1, u, session[c])
  <2> SUFFICES ASSUME calm[c] PROVE Linked(s, i + 1, u, session[c])
    OBVIOUS
  <2>1. Linked(s, i, w, session[c]) /\ path = DiskPlan.generator.generation_config
    BY <1>1, <1>3 DEF Knows, path
  <2>2. /\ Since("discover", s, i + 1) <=> Since("discover", s, i)
        /\ After({"measure"}, s, i + 1) <=> After({"measure"}, s, i)
    BY <1>6, <1>7 DEF Same
  <2>3. /\ u.tokenizer = ReadAs({"load_tokenizer"}, s, i + 1, DiskPlan.tokenizer.tokenizer)
        /\ u.generation = ReadAs(GenerationReads, s, i + 1, DiskPlan.generator.generation_config)
        /\ u.io = ReadAs(IoReads, s, i + 1, DiskPlan.generator.config)
    BY <1>5, <1>9, <1>11, <2>1, Zenon DEF Linked
  <2> QED BY <1>5, <1>7, <2>1, <2>2, <2>3 DEF Linked
<1>16. calm[c] => Found(s, i + 1)
  <2> SUFFICES ASSUME calm[c] PROVE Found(s, i + 1)
    OBVIOUS
  <2>1. Found(s, i) /\ path = DiskPlan.generator.generation_config
    BY <1>1, <1>3 DEF Knows, path
  <2>2. /\ After({"verify"}, s, i + 1) <=> After({"verify"}, s, i)
        /\ After({"plan"}, s, i + 1) <=> After({"plan"}, s, i)
        /\ After({"read_io"}, s, i + 1) <=> After({"read_io"}, s, i)
        /\ After({"runtime_io", "strict_io"}, s, i + 1) <=> After({"runtime_io", "strict_io"}, s, i)
        /\ After({"load_tokenizer"}, s, i + 1) <=> After({"load_tokenizer"}, s, i)
        /\ After({"join_loads"}, s, i + 1) <=> After({"join_loads"}, s, i)
        /\ After({"open"}, s, i + 1) <=> After({"open"}, s, i)
    BY <1>6, <1>7 DEF Same, IoReads
  <2>3. /\ s[i] # "read_generation" =>
             (After({"read_generation"}, s, i + 1) <=> After({"read_generation"}, s, i))
        /\ s[i] = "read_generation" =>
             (After({"runtime_generation", "strict_generation"}, s, i + 1) <=>
                After({"runtime_generation", "strict_generation"}, s, i))
    BY <1>7 DEF Same
  <2>4. CASE s[i] = "read_generation"
    <3>1. GenerationSound(DiskPlan.generator.generation_config, FALSE)
      BY <1>10, <2>1, <2>4
    <3> QED BY <2>1, <2>2, <2>3, <2>4, <3>1, Zenon DEF Found
  <2>5. CASE s[i] # "read_generation"
    <3>1. GenerationSound(DiskPlan.generator.generation_config, TRUE)
      BY <1>10, <2>1, <2>5
    <3> QED BY <2>1, <2>2, <2>3, <2>5, <3>1, Zenon DEF Found
  <2> QED BY <2>4, <2>5
<1>17. Knows(c, s, i + 1, u, session[c], opened[c], runtime)
  BY <1>8, <1>13, <1>14, <1>15, <1>16 DEF Knows
<1> QED BY <1>5, <1>17 DEF s, i, w, u

LEMMA GenerationFails ==
  ASSUME IInv, PackInv, NEW c \in Callers, outcome[c] = "running", calm[c],
         Steps(c)[pos[c]] \in GenerationReads,
         NEW content, content = ReadOptional(Planned(c).generator.generation_config),
         \/ content # None /\ ~ GenerationIn(content).ok
         \/ Steps(c)[pos[c]] = "strict_generation" /\ ~ (content # None /\ GenerationIn(content).ok),
         Steps(c)[pos[c]] # "runtime_generation"
  PROVE  Causes(c, "MODEL_PACK_ERROR")
<1> DEFINE path == Planned(c).generator.generation_config
<1>1. Since("discover", Steps(c), pos[c]) /\ Since("plan", Steps(c), pos[c])
  BY Here, Needs
<1>2. path \in Path \cup {None} /\ Planned(c) = DiskPlan
  BY <1>1, PlannedHere
<1>3. ~ MayRun(c, {"plan_gguf"})
  <2>1. MayRun(c, {"plan", "runtime_branch"})
    BY <1>1, Calling
  <2> QED BY <2>1, PlansOne
<1>4. Steps(c)[pos[c]] = "strict_generation" => MayRun(c, {"strict_generation"})
  BY Calling
<1>5. ~ GenerationSound(path, MayRun(c, {"strict_generation"}))
  BY <1>2, <1>4, Reads DEF GenerationSound
<1>6. ~ AssetsSound(MayRun(c, {"strict_generation"}))
  <2> HIDE DEF path
  <2>1. path = DiskPlan.generator.generation_config
    BY <1>2 DEF path
  <2> QED BY <1>5, <2>1, Zenon DEF AssetsSound, ConfigsSound
<1> QED BY <1>3, <1>6, PackBlamed

LEMMA ReadGenerationPreserves ==
  ASSUME IInv, PackInv, IInv', NEW c \in Callers, ReadGeneration(c)
  PROVE  PackInv'
<1> DEFINE content == ReadOptional(Planned(c).generator.generation_config)
           fine == content = None \/ GenerationIn(content).ok
           u == [work[c] EXCEPT !.generation = content]
<1>1. /\ outcome[c] = "running" /\ Steps(c)[pos[c]] = "read_generation"
      /\ Decide(c, fine, u, "MODEL_PACK_ERROR") /\ Steps(c)[pos[c]] \in GenerationReads
  BY DEF ReadGeneration, At, GenerationReads
<1>2. fine => u \in Locals
              /\ Knows(c, Steps(c), pos[c] + 1, u, session[c], opened[c], runtime)
  BY <1>1, GenerationRead
<1>3. ~ fine /\ calm[c] => Causes(c, "MODEL_PACK_ERROR")
  BY <1>1, GenerationFails
<1>4. "MODEL_PACK_ERROR" \in Status /\ Excused(c, "MODEL_PACK_ERROR")
  BY OthersExcused, Statuses
<1> HIDE DEF fine, u
<1> QED BY <1>1, <1>2, <1>3, <1>4, DecideKnows, Zenon

LEMMA StrictStatusIs ==
  ASSUME NEW c \in Callers, outcome[c] = "running"
  PROVE  /\ Steps(c)[pos[c]] \in {"strict_generation", "strict_io"} =>
              StrictStatus(c) = "MODEL_PACK_ERROR"
         /\ Steps(c)[pos[c]] \notin {"strict_generation", "strict_io"} =>
              StrictStatus(c) = "ORT_ERROR"
         /\ StrictStatus(c) \in Status /\ Excused(c, StrictStatus(c))
BY OthersExcused, Statuses DEF StrictStatus, At

LEMMA RuntimeGenerationPreserves ==
  ASSUME IInv, PackInv, IInv', NEW c \in Callers, RuntimeGeneration(c)
  PROVE  PackInv'
<1> DEFINE content == ReadOptional(Planned(c).generator.generation_config)
           fine == content # None /\ GenerationIn(content).ok
           u == [work[c] EXCEPT !.generation = content]
           status == StrictStatus(c)
<1>1. /\ outcome[c] = "running"
      /\ Steps(c)[pos[c]] \in {"runtime_generation", "strict_generation"}
      /\ Decide(c, fine, u, status) /\ Steps(c)[pos[c]] \in GenerationReads
  BY DEF RuntimeGeneration, At, GenerationReads
<1>2. fine => u \in Locals
              /\ Knows(c, Steps(c), pos[c] + 1, u, session[c], opened[c], runtime)
  BY <1>1, GenerationRead
<1>3. ~ fine /\ calm[c] => Causes(c, status)
  <2>1. CASE Steps(c)[pos[c]] = "strict_generation"
    BY <1>1, <2>1, GenerationFails, StrictStatusIs
  <2>2. CASE Steps(c)[pos[c]] = "runtime_generation"
    BY <1>1, <2>2, OthersBlamed, StrictStatusIs
  <2> QED BY <1>1, <2>1, <2>2
<1>4. status \in Status /\ Excused(c, status)
  BY <1>1, StrictStatusIs
<1> HIDE DEF fine, u, status
<1> QED BY <1>1, <1>2, <1>3, <1>4, DecideKnows, Zenon

----------------------------------------------------------------------------
(* The same for the config that names the tensors; one that has no ort_io  *)
(* object will do for the assets.                                          *)
LEMMA IoRead ==
  ASSUME IInv, PackInv, NEW c \in Callers, outcome[c] = "running",
         Steps(c)[pos[c]] \in IoReads,
         NEW content, content = ReadOptional(Planned(c).generator.config),
         \/ Steps(c)[pos[c]] = "read_io" /\ (content = None \/ MissingOrtIo(content))
         \/ IoIn(content).ok /\ content # None
  PROVE  LET u == [work[c] EXCEPT !.io = content] IN
         u \in Locals /\ Knows(c, Steps(c), pos[c] + 1, u, session[c], opened[c], runtime)
<1> DEFINE s == Steps(c)
           i == pos[c]
           w == work[c]
           path == Planned(c).generator.config
           u == [w EXCEPT !.io = content]
<1>1. /\ Knows(c, s, i, w, session[c], opened[c], runtime) /\ w \in Locals
      /\ i \in DOMAIN s /\ Ordered(s)
  BY Here
<1>2. Since("discover", s, i) /\ Since("plan", s, i)
  BY <1>1, Needs
<1>3. path \in Path \cup {None} /\ (calm[c] => Planned(c) = DiskPlan)
  BY <1>2, PlannedHere
<1>4. content \in ReadContent
  BY <1>3, Reads
<1>5. /\ u \in Locals /\ u.manifest = w.manifest /\ u.tokenizer = w.tokenizer
      /\ u.generation = w.generation /\ u.measured = w.measured
      /\ u.translation = w.translation /\ u.io = content
  BY <1>1, <1>4 DEF Locals
<1>6. s[i] \notin {"measure", "discover", "plan", "load_tokenizer", "hf_gate", "ort_gate", "open",
                   "join_loads", "load_past", "resolve_dylib", "init_runtime",
                   "runtime_generation", "verify"} \cup GenerationReads
  BY DEF GenerationReads, IoReads
<1>7. /\ Same(s, i, i + 1, {s[i]})
      /\ i + 1 \in DOMAIN s => s[i + 1] # "verify"
      /\ i + 1 \in DOMAIN s => s[i + 1] # "init_runtime"
  BY <1>6, PassHere
<1>8. Prepared(s, i + 1, runtime)
  BY <1>6, StepParts
<1>9. /\ calm[c] => /\ \A p : ReadAs(IoReads, s, i + 1, p) = ReadOptional(p)
                    /\ \A p : ReadAs(GenerationReads, s, i + 1, p) =
                              ReadAs(GenerationReads, s, i, p)
                    /\ \A p : ReadAs({"load_tokenizer"}, s, i + 1, p) =
                              ReadAs({"load_tokenizer"}, s, i, p)
  BY <1>6, ReadJust, ReadStill DEF IoReads
<1>10. calm[c] => /\ s[i] = "read_io" => IoSound(path, FALSE)
                  /\ s[i] # "read_io" => IoSound(path, TRUE)
  BY <1>3, Reads DEF IoSound
<1>11. s[i] \in IoReads /\ content = ReadOptional(path) /\ (s[i] # "read_io" => IoIn(content).ok)
  OBVIOUS
<1>12. s[i] = "read_io" => ~ Since("runtime_io", s, i)
  BY <1>1, NotReadYet
<1> HIDE DEF u, s, i, w, path
<1>13. Remembers(s, i + 1, u)
  <2>1. Since("runtime_io", s, i + 1) => IoIn(content).ok
    <3>1. CASE s[i] = "read_io"
      BY <1>7, <1>12, <3>1 DEF Same
    <3> QED BY <1>11, <3>1
  <2>2. /\ Since("discover", s, i + 1) <=> Since("discover", s, i)
        /\ Since("plan", s, i + 1) <=> Since("plan", s, i)
        /\ Since("load_tokenizer", s, i + 1) <=> Since("load_tokenizer", s, i)
        /\ Since("runtime_generation", s, i + 1) <=> Since("runtime_generation", s, i)
        /\ After({"translate"}, s, i + 1) <=> After({"translate"}, s, i)
    BY <1>6, <1>7, <1>11 DEF Same, IoReads
  <2> QED BY <1>1, <1>5, <1>7, <2>1, <2>2 DEF Knows, Remembers
<1>14. Holds(s, i + 1, u, session[c], opened[c])
  <2>1. \A step \in {"open", "join_loads", "load_past"} : step \notin {s[i]}
    BY <1>6
  <2> QED BY <1>1, <1>5, <1>7, <2>1, HoldsOn DEF Knows
<1>15. calm[c] => Linked(s, i + 1, u, session[c])
  <2> SUFFICES ASSUME calm[c] PROVE Linked(s, i + 1, u, session[c])
    OBVIOUS
  <2>1. Linked(s, i, w, session[c]) /\ path = DiskPlan.generator.config
    BY <1>1, <1>3 DEF Knows, path
  <2>2. /\ Since("discover", s, i + 1) <=> Since("discover", s, i)
        /\ After({"measure"}, s, i + 1) <=> After({"measure"}, s, i)
    BY <1>6, <1>7 DEF Same
  <2>3. /\ u.tokenizer = ReadAs({"load_tokenizer"}, s, i + 1, DiskPlan.tokenizer.tokenizer)
        /\ u.generation = ReadAs(GenerationReads, s, i + 1, DiskPlan.generator.generation_config)
        /\ u.io = ReadAs(IoReads, s, i + 1, DiskPlan.generator.config)
    BY <1>5, <1>9, <1>11, <2>1, Zenon DEF Linked
  <2> QED BY <1>5, <1>7, <2>1, <2>2, <2>3 DEF Linked
<1>16. calm[c] => Found(s, i + 1)
  <2> SUFFICES ASSUME calm[c] PROVE Found(s, i + 1)
    OBVIOUS
  <2>1. Found(s, i) /\ path = DiskPlan.generator.config
    BY <1>1, <1>3 DEF Knows, path
  <2>2. /\ After({"verify"}, s, i + 1) <=> After({"verify"}, s, i)
        /\ After({"plan"}, s, i + 1) <=> After({"plan"}, s, i)
        /\ After({"read_generation"}, s, i + 1) <=> After({"read_generation"}, s, i)
        /\ After({"runtime_generation", "strict_generation"}, s, i + 1) <=>
             After({"runtime_generation", "strict_generation"}, s, i)
        /\ After({"load_tokenizer"}, s, i + 1) <=> After({"load_tokenizer"}, s, i)
        /\ After({"join_loads"}, s, i + 1) <=> After({"join_loads"}, s, i)
        /\ After({"open"}, s, i + 1) <=> After({"open"}, s, i)
    BY <1>6, <1>7 DEF Same, GenerationReads
  <2>3. /\ s[i] # "read_io" => (After({"read_io"}, s, i + 1) <=> After({"read_io"}, s, i))
        /\ s[i] = "read_io" =>
             (After({"runtime_io", "strict_io"}, s, i + 1) <=>
                After({"runtime_io", "strict_io"}, s, i))
    BY <1>7 DEF Same
  <2>4. CASE s[i] = "read_io"
    <3>1. IoSound(DiskPlan.generator.config, FALSE)
      BY <1>10, <2>1, <2>4
    <3> QED BY <2>1, <2>2, <2>3, <2>4, <3>1, Zenon DEF Found
  <2>5. CASE s[i] # "read_io"
    <3>1. IoSound(DiskPlan.generator.config, TRUE)
      BY <1>10, <2>1, <2>5
    <3> QED BY <2>1, <2>2, <2>3, <2>5, <3>1, Zenon DEF Found
  <2> QED BY <2>4, <2>5
<1>17. Knows(c, s, i + 1, u, session[c], opened[c], runtime)
  BY <1>8, <1>13, <1>14, <1>15, <1>16 DEF Knows
<1> QED BY <1>5, <1>17 DEF s, i, w, u

LEMMA IoFails ==
  ASSUME IInv, PackInv, NEW c \in Callers, outcome[c] = "running", calm[c],
         Steps(c)[pos[c]] \in IoReads,
         NEW content, content = ReadOptional(Planned(c).generator.config),
         \/ content # None /\ ~ IoIn(content).ok /\ ~ MissingOrtIo(content)
         \/ Steps(c)[pos[c]] = "strict_io" /\ ~ (content # None /\ IoIn(content).ok),
         Steps(c)[pos[c]] # "runtime_io"
  PROVE  Causes(c, "MODEL_PACK_ERROR")
<1> DEFINE path == Planned(c).generator.config
<1>1. Since("discover", Steps(c), pos[c]) /\ Since("plan", Steps(c), pos[c])
  BY Here, Needs
<1>2. path \in Path \cup {None} /\ Planned(c) = DiskPlan
  BY <1>1, PlannedHere
<1>3. ~ MayRun(c, {"plan_gguf"})
  <2>1. MayRun(c, {"plan", "runtime_branch"})
    BY <1>1, Calling
  <2> QED BY <2>1, PlansOne
<1>4. Steps(c)[pos[c]] = "strict_io" => MayRun(c, {"strict_generation"})
  <2>1. Steps(c)[pos[c]] = "strict_io" => MayRun(c, {"strict_io"})
    BY Calling
  <2>2. InOrder(command[c].program)
    BY Here
  <2> QED BY <2>1, <2>2 DEF MayRun, InOrder
<1>5. ~ IoSound(path, MayRun(c, {"strict_generation"}))
  BY <1>2, <1>4, Reads DEF IoSound
<1>6. ~ AssetsSound(MayRun(c, {"strict_generation"}))
  <2> HIDE DEF path
  <2>1. path = DiskPlan.generator.config
    BY <1>2 DEF path
  <2> QED BY <1>5, <2>1, Zenon DEF AssetsSound, ConfigsSound
<1> QED BY <1>3, <1>6, PackBlamed

LEMMA ReadIoPreserves ==
  ASSUME IInv, PackInv, IInv', NEW c \in Callers, ReadIo(c)
  PROVE  PackInv'
<1> DEFINE content == ReadOptional(Planned(c).generator.config)
           fine == content = None \/ MissingOrtIo(content) \/ IoIn(content).ok
           u == [work[c] EXCEPT !.io = content]
<1>1. /\ outcome[c] = "running" /\ Steps(c)[pos[c]] = "read_io"
      /\ Decide(c, fine, u, "MODEL_PACK_ERROR") /\ Steps(c)[pos[c]] \in IoReads
  BY DEF ReadIo, At, IoReads
<1>2. fine => u \in Locals
              /\ Knows(c, Steps(c), pos[c] + 1, u, session[c], opened[c], runtime)
  BY <1>1, IoRead
<1>3. ~ fine /\ calm[c] => Causes(c, "MODEL_PACK_ERROR")
  BY <1>1, IoFails
<1>4. "MODEL_PACK_ERROR" \in Status /\ Excused(c, "MODEL_PACK_ERROR")
  BY OthersExcused, Statuses
<1> HIDE DEF fine, u
<1> QED BY <1>1, <1>2, <1>3, <1>4, DecideKnows, Zenon

LEMMA RuntimeIoPreserves ==
  ASSUME IInv, PackInv, IInv', NEW c \in Callers, RuntimeIo(c)
  PROVE  PackInv'
<1> DEFINE content == ReadOptional(Planned(c).generator.config)
           fine == content # None /\ IoIn(content).ok
           u == [work[c] EXCEPT !.io = content]
           status == StrictStatus(c)
<1>1. /\ outcome[c] = "running" /\ Steps(c)[pos[c]] \in {"runtime_io", "strict_io"}
      /\ Decide(c, fine, u, status) /\ Steps(c)[pos[c]] \in IoReads
  BY DEF RuntimeIo, At, IoReads
<1>2. fine => u \in Locals
              /\ Knows(c, Steps(c), pos[c] + 1, u, session[c], opened[c], runtime)
  BY <1>1, IoRead
<1>3. ~ fine /\ calm[c] => Causes(c, status)
  <2>1. CASE Steps(c)[pos[c]] = "strict_io"
    BY <1>1, <2>1, IoFails, StrictStatusIs
  <2>2. CASE Steps(c)[pos[c]] = "runtime_io"
    BY <1>1, <2>2, OthersBlamed, StrictStatusIs
  <2> QED BY <1>1, <2>1, <2>2
<1>4. status \in Status /\ Excused(c, status)
  BY <1>1, StrictStatusIs
<1> HIDE DEF fine, u, status
<1> QED BY <1>1, <1>2, <1>3, <1>4, DecideKnows, Zenon

LEMMA LoadTokenizerPreserves ==
  ASSUME IInv, PackInv, IInv', NEW c \in Callers, LoadTokenizer(c)
  PROVE  PackInv'
<1> DEFINE s == Steps(c)
           i == pos[c]
           w == work[c]
           path == Planned(c).tokenizer.tokenizer
           content == disk[path]
           fine == content \in TokenizerFiles
           u == [w EXCEPT !.tokenizer = content]
<1>1. /\ outcome[c] = "running" /\ s[i] = "load_tokenizer"
      /\ Decide(c, fine, u, "TOKENIZER_ERROR")
  BY DEF LoadTokenizer, At, ReadAt
<1>2. /\ Knows(c, s, i, w, session[c], opened[c], runtime) /\ w \in Locals
      /\ i \in DOMAIN s /\ Ordered(s)
  BY <1>1, Here
<1>3. Since("discover", s, i) /\ Since("plan", s, i) /\ Since("hf_gate", s, i)
  BY <1>1, <1>2, Needs
<1>4. path \in Path /\ (calm[c] => Planned(c) = DiskPlan)
  BY <1>1, <1>3, PlannedHere
<1>5. content \in ReadContent /\ content = ReadOptional(path)
  BY <1>4, Reads, DataAssumption
<1>6. /\ u \in Locals /\ u.manifest = w.manifest /\ u.generation = w.generation /\ u.io = w.io
      /\ u.measured = w.measured /\ u.translation = w.translation /\ u.tokenizer = content
  BY <1>2, <1>5 DEF Locals
<1>7. s[i] \notin {"measure", "discover", "plan", "verify", "hf_gate", "ort_gate", "open",
                   "join_loads", "load_past", "resolve_dylib", "init_runtime",
                   "runtime_generation", "runtime_io"} \cup GenerationReads \cup IoReads
  BY <1>1 DEF GenerationReads, IoReads
<1>8. /\ Same(s, i, i + 1, {s[i]})
      /\ i + 1 \in DOMAIN s => s[i + 1] # "verify"
      /\ i + 1 \in DOMAIN s => s[i + 1] # "init_runtime"
  BY <1>1, PassHere
<1>9. Prepared(s, i + 1, runtime)
  BY <1>1, <1>7, StepParts
<1>10. /\ \A p : ReadAs({"load_tokenizer"}, s, i + 1, p) = ReadOptional(p)
       /\ \A p : ReadAs(GenerationReads, s, i + 1, p) = ReadAs(GenerationReads, s, i, p)
       /\ \A p : ReadAs(IoReads, s, i + 1, p) = ReadAs(IoReads, s, i, p)
  BY <1>1, <1>7, ReadJust, ReadStill
<1>11. calm[c] => path = DiskPlan.tokenizer.tokenizer /\ (TokenizerSound <=> fine)
  BY <1>4 DEF TokenizerSound
<1>12. ~ fine /\ calm[c] => Causes(c, "TOKENIZER_ERROR") /\ Excused(c, "TOKENIZER_ERROR")
  BY <1>2, <1>3, <1>11, OthersBlamed, OthersExcused DEF Knows, Prepared
<1> HIDE DEF u, s, i, w, path, content, fine
<1>13. fine => Remembers(s, i + 1, u)
  <2>1. /\ Since("discover", s, i + 1) <=> Since("discover", s, i)
        /\ Since("plan", s, i + 1) <=> Since("plan", s, i)
        /\ Since("runtime_generation", s, i + 1) <=> Since("runtime_generation", s, i)
        /\ Since("runtime_io", s, i + 1) <=> Since("runtime_io", s, i)
        /\ After({"translate"}, s, i + 1) <=> After({"translate"}, s, i)
    BY <1>1, <1>8 DEF Same
  <2> QED BY <1>2, <1>6, <1>8, <2>1 DEF Knows, Remembers, fine
<1>14. Holds(s, i + 1, u, session[c], opened[c])
  <2>1. \A step \in {"open", "join_loads", "load_past"} : step \notin {s[i]}
    BY <1>7
  <2> QED BY <1>2, <1>6, <1>8, <2>1, HoldsOn DEF Knows
<1>15. calm[c] => Linked(s, i + 1, u, session[c])
  <2> SUFFICES ASSUME calm[c] PROVE Linked(s, i + 1, u, session[c])
    OBVIOUS
  <2>1. Linked(s, i, w, session[c]) /\ path = DiskPlan.tokenizer.tokenizer
    BY <1>2, <1>11 DEF Knows
  <2>2. /\ Since("discover", s, i + 1) <=> Since("discover", s, i)
        /\ After({"measure"}, s, i + 1) <=> After({"measure"}, s, i)
    BY <1>1, <1>8 DEF Same
  <2>3. /\ u.tokenizer = ReadAs({"load_tokenizer"}, s, i + 1, DiskPlan.tokenizer.tokenizer)
        /\ u.generation = ReadAs(GenerationReads, s, i + 1, DiskPlan.generator.generation_config)
        /\ u.io = ReadAs(IoReads, s, i + 1, DiskPlan.generator.config)
    BY <1>5, <1>6, <1>10, <2>1, Zenon DEF Linked
  <2> QED BY <1>6, <1>8, <2>1, <2>2, <2>3 DEF Linked
<1>16. fine /\ calm[c] => Found(s, i + 1)
  <2> SUFFICES ASSUME fine, calm[c] PROVE Found(s, i + 1)
    OBVIOUS
  <2>1. Found(s, i) /\ TokenizerSound
    BY <1>2, <1>11 DEF Knows
  <2>2. /\ After({"verify"}, s, i + 1) <=> After({"verify"}, s, i)
        /\ After({"plan"}, s, i + 1) <=> After({"plan"}, s, i)
        /\ After({"read_generation"}, s, i + 1) <=> After({"read_generation"}, s, i)
        /\ After({"runtime_generation", "strict_generation"}, s, i + 1) <=>
             After({"runtime_generation", "strict_generation"}, s, i)
        /\ After({"read_io"}, s, i + 1) <=> After({"read_io"}, s, i)
        /\ After({"runtime_io", "strict_io"}, s, i + 1) <=> After({"runtime_io", "strict_io"}, s, i)
        /\ After({"join_loads"}, s, i + 1) <=> After({"join_loads"}, s, i)
        /\ After({"open"}, s, i + 1) <=> After({"open"}, s, i)
    BY <1>1, <1>8 DEF Same
  <2> QED BY <2>1, <2>2, Zenon DEF Found
<1>17. fine => Knows(c, s, i + 1, u, session[c], opened[c], runtime)
  BY <1>9, <1>13, <1>14, <1>15, <1>16 DEF Knows
<1>18. "TOKENIZER_ERROR" \in Status
  BY Statuses
<1> QED BY <1>1, <1>6, <1>12, <1>17, <1>18, DecideKnows, Zenon DEF s, i, w

----------------------------------------------------------------------------
(* A step that goes on with the sessions and the handle changed.           *)
LEMMA GoesOn ==
  ASSUME IInv, PackInv, IInv', NEW c \in Callers, outcome[c] = "running", Others(c),
         NEW held \in [OrtRole -> SessionStates], NEW out, session'[c] = held, opened'[c] = out,
         runtime' = runtime, Advance(c, work[c]),
         Knows(c, Steps(c), pos[c] + 1, work[c], held, out, runtime)
  PROVE  PackInv'
<1>1. work[c] \in Locals
  BY Here
<1>2. CallerKnows(c)'
  BY <1>1, AdvanceKnows DEF IInv
<1> QED BY <1>2, OthersKnow DEF IInv

(* The load threads of the caller are begun, and joined next.              *)
LEMMA SpawnLoadsPreserves ==
  ASSUME IInv, PackInv, IInv', NEW c \in Callers, SpawnLoads(c)
  PROVE  PackInv'
<1> DEFINE s == Steps(c)
           i == pos[c]
           w == work[c]
           held == [session[c] EXCEPT !["Encoder"] = Loading, !["Decoder"] = Loading]
<1>1. /\ outcome[c] = "running" /\ s[i] = "spawn_loads" /\ Advance(c, w)
      /\ session' = [session EXCEPT ![c]["Encoder"] = Loading, ![c]["Decoder"] = Loading]
      /\ UNCHANGED <<disk, writes, process, command, opened, calm>>
  BY DEF SpawnLoads, At
<1>2. /\ Knows(c, s, i, w, session[c], opened[c], runtime) /\ w \in Locals
      /\ i \in DOMAIN s /\ Ordered(s) /\ session[c] \in [OrtRole -> SessionStates]
      /\ DOMAIN s = 1 .. Len(s) /\ Len(s) \in Nat
  BY <1>1, Here
<1>3. session'[c] = held
  BY <1>1 DEF IInv, HeldInv, ShapeInv
<1>4. /\ held \in [OrtRole -> SessionStates] /\ held["DecoderWithPast"] = session[c]["DecoderWithPast"]
      /\ held["Encoder"] = Loading /\ held["Decoder"] = Loading
  BY <1>2 DEF OrtRole, SessionStates
<1>5. Others(c)
  <2>1. LocallyQuiet(c, w)
    BY <1>2 DEF LocallyQuiet, Locals
  <2>2. Forward(c)
    BY <1>1, <2>1, AdvanceIs DEF IInv
  <2>3. Apart(c)
    BY <1>1, <2>2, MovesApart DEF IInv, HeldInv, ShapeInv
  <2>4. work' \in {[work EXCEPT ![c] = w], [work EXCEPT ![c] = Blank]}
    BY <1>1 DEF Advance, EndSection
  <2> QED BY <1>1, <2>3, <2>4 DEF Apart, Others, process, IInv, HeldInv, ShapeInv, PackInv, DiskInv
<1>6. s[i] \notin {"measure", "discover", "plan", "load_tokenizer", "hf_gate", "ort_gate", "open",
                   "join_loads", "load_past", "resolve_dylib", "init_runtime", "verify",
                   "runtime_generation", "runtime_io"} \cup GenerationReads \cup IoReads
  BY <1>1 DEF GenerationReads, IoReads
<1>7. /\ Remembers(s, i + 1, w) /\ Prepared(s, i + 1, runtime)
      /\ Holds(s, i + 1, w, session[c], opened[c]) /\ Same(s, i, i + 1, {s[i]})
      /\ calm[c] => Linked(s, i + 1, w, session[c]) /\ Found(s, i + 1)
  BY <1>1, <1>6, StepParts, PassHere
<1> HIDE DEF s, i, w, held
<1>8. ~ After({"join_loads"}, s, i + 1)
  <2>1. ~ After({"join_loads"}, s, i)
    BY <1>1, <1>2, NotJoined DEF AfterJoin, WithHandle
  <2> QED BY <1>6, <1>7, <2>1 DEF Same
<1>9. Holds(s, i + 1, w, held, opened[c])
  BY <1>4, <1>7, <1>8 DEF Holds
<1>10. calm[c] => Linked(s, i + 1, w, held)
  <2>1. Loading.state # "loaded"
    BY DEF Loading
  <2> QED BY <1>4, <1>7, <2>1 DEF Linked, OrtRole
<1>11. Knows(c, s, i + 1, w, held, opened[c], runtime)
  BY <1>7, <1>9, <1>10 DEF Knows
<1>12. opened'[c] = opened[c] /\ runtime' = runtime
  BY <1>1 DEF process
<1> QED BY <1>1, <1>3, <1>4, <1>5, <1>11, <1>12, GoesOn DEF s, i, w

LEMMA OthersApart ==
  ASSUME IInv, PackInv, NEW c \in Callers, Apart(c), NEW u,
         work' \in {[work EXCEPT ![c] = u], [work EXCEPT ![c] = Blank]},
         UNCHANGED <<disk, writes, process, command, calm>>
  PROVE  Others(c) /\ runtime' = runtime
BY DEF Apart, Others, process, IInv, HeldInv, ShapeInv, PackInv, DiskInv

(* A session that runs has a graph, and the plan's path of its role.       *)
LEMMA LoadedHasGraph ==
  ASSUME NEW held \in [OrtRole -> SessionStates], NEW role \in OrtRole
  PROVE  held[role].state = "loaded" => held[role].graph \in Graphs
<1>1. held[role] \in SessionStates
  OBVIOUS
<1> QED BY <1>1 DEF SessionStates, NoSession, Loading

(* A session is there once in a section, and after it the handle.          *)
LEMMA LoadsInOrder ==
  ASSUME NEW s, Ordered(s), WellFormed(s), DOMAIN s = 1 .. Len(s), Len(s) \in Nat,
         NEW i \in DOMAIN s, s[i] = "join_loads"
  PROVE  /\ ~ After({"join_loads"}, s, i) /\ ~ After({"load_past"}, s, i)
         /\ ~ After({"open"}, s, i) /\ Has(s, "open")
         /\ \A j \in DOMAIN s : s[j] = "open" =>
              /\ j > i /\ ~ After({"open"}, s, j)
              /\ After({"load_past"}, s, j)
              /\ \A k \in i .. j - 1 : s[k] \in {"join_loads"} \cup AfterJoin
<1>1. \A j \in DOMAIN s : s[j] \in {"join_loads", "load_past", "open"} => ~ After({s[j]}, s, j)
  BY Zenon DEF Ordered
<1>2. \A j \in DOMAIN s : s[j] = "open" => Only(WithHandle, s, j)
  BY Zenon DEF Ordered
<1>3. \A j \in DOMAIN s : s[j] = "translate" => Only(WithHandle, s, j)
  BY Zenon DEF Ordered
<1>4. \A j \in DOMAIN s : s[j] = "close" => j = Len(s)
  BY Zenon DEF Ordered
<1>5. Has(s, "load_past") /\ Only(AfterJoin \cup {"open"} \cup WithHandle, s, i)
  BY Zenon DEF Ordered
<1>6. \A j \in DOMAIN s : s[j] = "load_past" => After({"join_loads"}, s, j)
  BY Needs, SinceIsAfter
<1>7. \A j \in DOMAIN s : s[j] = "join_loads" => j = i
  BY <1>1 DEF After
<1>8. \A j \in DOMAIN s : s[j] = "load_past" => j > i
  BY <1>6, <1>7 DEF After
<1>9. ~ After({"load_past"}, s, i)
  BY <1>8 DEF After
<1>10. ~ After({"open"}, s, i)
  BY <1>2 DEF After, Only, WithHandle
<1>11. Has(s, "open") /\ Has(s, "join_loads")
  BY DEF WellFormed, Has
<1>12. ASSUME NEW j \in DOMAIN s, s[j] = "open"
       PROVE  /\ j > i /\ ~ After({"open"}, s, j) /\ After({"load_past"}, s, j)
              /\ \A k \in i .. j - 1 : s[k] \in {"join_loads"} \cup AfterJoin
  <2>1. j > i
    <3>1. PICK m \in 1 .. j - 1 : s[m] = "spawn_loads"
      BY <1>11, <1>12 DEF WellFormed, After
    <3>2. s[m + 1] = "join_loads" /\ m + 1 \in DOMAIN s
      BY <3>1 DEF WellFormed
    <3>3. m + 1 = i
      BY <1>7, <3>2
    <3> QED BY <1>12, <3>1, <3>3
  <2>2. ~ After({"open"}, s, j)
    BY <1>1, <1>12
  <2>3. After({"load_past"}, s, j)
    <3>1. PICK k \in DOMAIN s : s[k] = "load_past"
      BY <1>5 DEF Has
    <3>2. ~ (k > j)
      BY <1>2, <1>12, <3>1 DEF Only, WithHandle
    <3> QED BY <1>12, <3>1, <3>2 DEF After
  <2>4. ASSUME NEW k \in i .. j - 1 PROVE s[k] \in {"join_loads"} \cup AfterJoin
    <3>1. CASE k = i
      BY <3>1
    <3>2. CASE k # i
      <4>1. s[k] \in AfterJoin \cup {"open"} \cup WithHandle
        BY <1>5, <3>2 DEF Only
      <4>2. s[k] # "open"
        BY <2>2 DEF After
      <4>3. s[k] # "close"
        BY <1>4
      <4>4. s[k] # "translate"
        BY <1>3, <1>12 DEF Only, WithHandle
      <4> QED BY <4>1, <4>2, <4>3, <4>4 DEF WithHandle
    <3> QED BY <3>1, <3>2
  <2> QED BY <2>1, <2>2, <2>3, <2>4
<1> QED BY <1>1, <1>9, <1>10, <1>11, <1>12

(* A load thread reports its session, or that there is none.               *)
LEMMA LoadSessionPreserves ==
  ASSUME IInv, PackInv, IInv', NEW c \in Callers, NEW role \in OrtRole, LoadSession(c, role)
  PROVE  PackInv'
<1> DEFINE s == Steps(c)
           i == pos[c]
           w == work[c]
           held == session'[c]
<1>1. PICK loaded :
        /\ session' = [session EXCEPT ![c][role] = loaded]
        /\ \/ /\ disk[PathOf(c, role)] \in Graphs
              /\ loaded = [state |-> "loaded", graph |-> disk[PathOf(c, role)]]
           \/ loaded \in [state : {"failed", "panicked"}, graph : {None}]
  <2> DEFINE whole == [state |-> "loaded", graph |-> disk[PathOf(c, role)]]
             lost(state) == [state |-> state, graph |-> None]
  <2>1. \/ /\ disk[PathOf(c, role)] \in Graphs
           /\ session' = [session EXCEPT ![c][role] = whole]
        \/ \E state \in {"failed", "panicked"} :
             session' = [session EXCEPT ![c][role] = lost(state)]
    BY DEF LoadSession, ReadAt
  <2>2. \A state \in {"failed", "panicked"} :
          lost(state) \in [state : {"failed", "panicked"}, graph : {None}]
    OBVIOUS
  <2> HIDE DEF lost
  <2> QED BY <2>1, <2>2
<1>2. session[c][role] = Loading
      /\ UNCHANGED <<disk, writes, process, command, control, work, opened, calm>>
  BY DEF LoadSession
<1>3. /\ \A d \in Callers \ {c} : session'[d] = session[d]
      /\ \A r \in OrtRole : held[r] = IF r = role THEN loaded ELSE session[c][r]
      /\ held = [r \in OrtRole |-> held[r]]
  BY <1>1 DEF IInv, HeldInv, ShapeInv
<1>4. ~ NoneLoads(c) /\ role # "DecoderWithPast"
  BY <1>2 DEF NoneLoads, IInv, HeldInv, CallerInv
<1>5. outcome[c] = "running" /\ s[i] = "join_loads"
  BY <1>4 DEF IInv, HeldInv, CallerInv, At
<1>6. /\ Knows(c, s, i, w, session[c], opened[c], runtime) /\ w \in Locals
      /\ i \in DOMAIN s /\ Ordered(s) /\ WellFormed(s) /\ DOMAIN s = 1 .. Len(s) /\ Len(s) \in Nat
      /\ session[c] \in [OrtRole -> SessionStates]
  BY <1>5, Here
<1>7. Since("discover", s, i) /\ Since("plan", s, i)
  BY <1>5, <1>6, Needs
<1>8. calm[c] => Planned(c) = DiskPlan
  BY <1>5, <1>7, PlannedHere
<1>9. loaded \in SessionStates /\ (calm[c] /\ loaded.state = "loaded" =>
                                     loaded.graph = disk[PathIn(DiskPlan.generator, role)])
  BY <1>1, <1>8 DEF SessionStates, PathOf
<1>10. held \in [OrtRole -> SessionStates]
  BY <1>3, <1>6, <1>9
<1>11. ~ After({"join_loads"}, s, i)
  BY <1>5, <1>6, LoadsInOrder
<1> HIDE DEF s, i, w, held
<1>12. Holds(s, i, w, held, opened[c])
  <2>1. held["DecoderWithPast"] = session[c]["DecoderWithPast"]
    BY <1>3, <1>4 DEF OrtRole
  <2> QED BY <1>6, <1>11, <2>1 DEF Knows, Holds
<1>13. calm[c] => Linked(s, i, w, held)
  BY <1>3, <1>6, <1>9 DEF Knows, Linked
<1>14. Knows(c, s, i, w, held, opened[c], runtime)
  BY <1>6, <1>12, <1>13 DEF Knows
<1>15. Others(c)
  BY <1>2, <1>3 DEF Others, control, process, PackInv, DiskInv
<1>16. /\ section'[c] = section[c] /\ outcome'[c] = "running" /\ pos'[c] = i /\ work'[c] = w
       /\ opened'[c] = opened[c] /\ runtime' = runtime
  BY <1>2, <1>5 DEF control, process, i, w
<1>17. CallerKnows(c)'
  BY <1>5, <1>6, <1>10, <1>14, <1>15, <1>16, Arrives DEF s, held
<1> QED BY <1>15, <1>17, OthersKnow DEF IInv

(* Both required sessions are there: on to the past decoder, or straight   *)
(* to the handle.                                                          *)
LEMMA JoinedKnows ==
  ASSUME IInv, PackInv, NEW c \in Callers, outcome[c] = "running",
         Steps(c)[pos[c]] = "join_loads",
         session[c]["Encoder"].state = "loaded", session[c]["Decoder"].state = "loaded"
  PROVE  LET s == Steps(c)
             i == pos[c] IN
         /\ HasPast(c) => Knows(c, s, i + 1, work[c], session[c], opened[c], runtime)
         /\ ~ HasPast(c) =>
              \A j \in DOMAIN s : s[j] = "open" =>
                Knows(c, s, j, work[c], session[c], opened[c], runtime)
<1> DEFINE s == Steps(c)
           i == pos[c]
           w == work[c]
           held == session[c]
           skip == {"join_loads"} \cup AfterJoin
<1>1. /\ Knows(c, s, i, w, held, opened[c], runtime) /\ i \in Nat \ {0}
      /\ i \in DOMAIN s /\ Ordered(s) /\ WellFormed(s) /\ DOMAIN s = 1 .. Len(s) /\ Len(s) \in Nat
  BY Here
<1>2. Since("discover", s, i) /\ Since("plan", s, i) /\ Since("init_runtime", s, i)
  BY <1>1, Needs
<1>3. HasPast(c) <=> HasPastIn(w.manifest)
  BY <1>2, PlannedHere
<1>4. /\ ~ After({"join_loads"}, s, i) /\ ~ After({"load_past"}, s, i) /\ ~ After({"open"}, s, i)
      /\ \A j \in DOMAIN s : s[j] = "open" =>
           /\ j > i /\ ~ After({"open"}, s, j) /\ After({"load_past"}, s, j)
           /\ \A k \in i .. j - 1 : s[k] \in skip
  BY <1>1, LoadsInOrder
<1>5. runtime # None
  BY <1>1, <1>2 DEF Knows, Prepared
<1>6. /\ Remembers(s, i + 1, w) /\ Prepared(s, i + 1, runtime) /\ Same(s, i, i + 1, {s[i]})
      /\ calm[c] => Linked(s, i + 1, w, held)
  BY StepParts, PassHere DEF GenerationReads, IoReads
<1>7. /\ held["Encoder"].state = "loaded" /\ held["Decoder"].state = "loaded"
      /\ held["DecoderWithPast"] = NoSession /\ s[i] = "join_loads"
  BY <1>1, <1>4 DEF Knows, Holds
<1> HIDE DEF s, i, w, held
<1>8. ASSUME HasPast(c) PROVE Knows(c, s, i + 1, w, held, opened[c], runtime)
  <2>1. /\ After({"open"}, s, i + 1) <=> After({"open"}, s, i)
        /\ After({"load_past"}, s, i + 1) <=> After({"load_past"}, s, i)
    BY <1>6, <1>7 DEF Same
  <2>2. Holds(s, i + 1, w, held, opened[c])
    BY <1>1, <1>3, <1>4, <1>7, <1>8, <2>1 DEF Knows, Holds
  <2>3. calm[c] => Found(s, i + 1)
    <3> SUFFICES ASSUME calm[c] PROVE Found(s, i + 1)
      OBVIOUS
    <3>1. Found(s, i)
      BY <1>1 DEF Knows
    <3>2. /\ After({"verify"}, s, i + 1) <=> After({"verify"}, s, i)
          /\ After({"plan"}, s, i + 1) <=> After({"plan"}, s, i)
          /\ After({"read_generation"}, s, i + 1) <=> After({"read_generation"}, s, i)
          /\ After({"runtime_generation", "strict_generation"}, s, i + 1) <=>
               After({"runtime_generation", "strict_generation"}, s, i)
          /\ After({"read_io"}, s, i + 1) <=> After({"read_io"}, s, i)
          /\ After({"runtime_io", "strict_io"}, s, i + 1) <=>
               After({"runtime_io", "strict_io"}, s, i)
          /\ After({"load_tokenizer"}, s, i + 1) <=> After({"load_tokenizer"}, s, i)
      BY <1>6, <1>7 DEF Same
    <3> QED BY <1>4, <2>1, <3>1, <3>2, Zenon DEF Found
  <2> QED BY <1>6, <2>2, <2>3 DEF Knows
<1>9. ASSUME ~ HasPast(c), NEW j \in DOMAIN s, s[j] = "open"
      PROVE  Knows(c, s, j, w, held, opened[c], runtime)
  <2>1. j \in Nat /\ j > i /\ j \in i .. Len(s) + 1 /\ "measure" \notin skip
    BY <1>1, <1>4, <1>9 DEF AfterJoin
  <2>2. Passes(s, i, j, skip)
    BY <1>1, <1>4, <1>9, <2>1 DEF Passes
  <2>3. Same(s, i, j, skip)
    BY <2>2, PassesSame
  <2>4. Remembers(s, j, w)
    <3>1. \A step \in {"discover", "plan", "load_tokenizer", "runtime_generation", "runtime_io"} :
            step \notin skip
      BY DEF AfterJoin
    <3> HIDE DEF skip
    <3> QED BY <1>1, <1>9, <2>2, <3>1, RemembersOn DEF Knows
  <2>5. Prepared(s, j, runtime)
    BY <1>1, <1>2, <2>3 DEF Knows, Prepared, Same, AfterJoin
  <2>6. Holds(s, j, w, held, opened[c])
    <3>1. After({"open"}, s, j) <=> After({"open"}, s, i)
      BY <2>3 DEF Same, AfterJoin
    <3>2. After({"load_past"}, s, j)
      BY <1>4, <1>9
    <3>3. NoSession.state = "none"
      BY DEF NoSession
    <3> QED BY <1>1, <1>3, <1>7, <1>9, <3>1, <3>2, <3>3 DEF Knows, Holds
  <2>7. calm[c] => Linked(s, j, w, held)
    <3>1. \A step \in {"discover", "load_tokenizer"} \cup GenerationReads \cup IoReads :
            step \notin skip
      BY DEF AfterJoin, GenerationReads, IoReads
    <3> HIDE DEF skip
    <3> QED BY <1>1, <1>9, <2>2, <3>1, LinkedOn DEF Knows
  <2>8. calm[c] => Found(s, j)
    <3> SUFFICES ASSUME calm[c] PROVE Found(s, j)
      OBVIOUS
    <3>1. Found(s, i)
      BY <1>1 DEF Knows
    <3>2. /\ After({"verify"}, s, j) <=> After({"verify"}, s, i)
          /\ After({"plan"}, s, j) <=> After({"plan"}, s, i)
          /\ After({"read_generation"}, s, j) <=> After({"read_generation"}, s, i)
          /\ After({"runtime_generation", "strict_generation"}, s, j) <=>
               After({"runtime_generation", "strict_generation"}, s, i)
          /\ After({"read_io"}, s, j) <=> After({"read_io"}, s, i)
          /\ After({"runtime_io", "strict_io"}, s, j) <=> After({"runtime_io", "strict_io"}, s, i)
          /\ After({"load_tokenizer"}, s, j) <=> After({"load_tokenizer"}, s, i)
      BY <2>3 DEF Same, AfterJoin
    <3>3. ~ After({"open"}, s, j)
      BY <1>4, <1>9
    <3> QED BY <3>1, <3>2, <3>3, Zenon DEF Found
  <2> QED BY <2>4, <2>5, <2>6, <2>7, <2>8 DEF Knows
<1> QED BY <1>8, <1>9 DEF s, i, w, held

LEMMA JoinLoadsPreserves ==
  ASSUME IInv, PackInv, IInv', NEW c \in Callers, JoinLoads(c)
  PROVE  PackInv'
<1> DEFINE s == Steps(c)
           i == pos[c]
           w == work[c]
<1>1. outcome[c] = "running" /\ s[i] = "join_loads"
  BY DEF JoinLoads, At
<1>2. /\ w \in Locals /\ session[c] \in [OrtRole -> SessionStates]
      /\ Ordered(s) /\ WellFormed(s) /\ i \in DOMAIN s /\ DOMAIN s = 1 .. Len(s) /\ Len(s) \in Nat
  BY <1>1, Here
<1>3. LocallyQuiet(c, w)
  BY <1>2 DEF LocallyQuiet, Locals
<1>4. CASE Decide(c, FALSE, w, "ORT_ERROR")
  <2>1. Causes(c, "ORT_ERROR") /\ Excused(c, "ORT_ERROR") /\ "ORT_ERROR" \in Status
    BY OthersBlamed, OthersExcused, Statuses
  <2> QED BY <1>1, <1>4, <2>1, DecideKnows, Zenon
<1>5. CASE ~ (\E role \in {"Encoder", "Decoder"} : session[c][role].state # "loaded")
  <2>1. /\ IF HasPast(c) THEN Advance(c, w) ELSE JumpTo(c, "open", w)
        /\ UNCHANGED <<disk, writes, process, command, session, opened, calm>>
    BY <1>5 DEF JoinLoads
  <2>2. /\ HasPast(c) => Knows(c, s, i + 1, w, session[c], opened[c], runtime)
        /\ ~ HasPast(c) => \A j \in DOMAIN s : s[j] = "open" =>
             Knows(c, s, j, w, session[c], opened[c], runtime)
    BY <1>1, <1>5, JoinedKnows
  <2>3. Forward(c) \/ JumpTo(c, "open", w)
    BY <1>3, <2>1, AdvanceIs DEF IInv
  <2>4. Apart(c)
    BY <2>1, <2>3, MovesApart DEF IInv, HeldInv, ShapeInv
  <2>5. work' \in {[work EXCEPT ![c] = w], [work EXCEPT ![c] = Blank]}
    BY <2>1 DEF Advance, EndSection, JumpTo
  <2>6. Others(c) /\ runtime' = runtime
    BY <2>1, <2>4, <2>5, OthersApart
  <2>7. session'[c] = session[c] /\ opened'[c] = opened[c]
    BY <2>1
  <2>8. CASE HasPast(c)
    BY <1>1, <1>2, <2>1, <2>2, <2>6, <2>7, <2>8, GoesOn
  <2>9. CASE ~ HasPast(c)
    <3>1. Has(s, "open")
      BY <1>1, <1>2, LoadsInOrder
    <3>2. JumpTo(c, "open", w)
      BY <2>1, <2>9
    <3> QED BY <1>1, <1>2, <2>2, <2>6, <2>7, <2>9, <3>1, <3>2, JumpKnows
  <2> QED BY <2>8, <2>9
<1> QED BY <1>4, <1>5 DEF JoinLoads

LEMMA LoadPastPreserves ==
  ASSUME IInv, PackInv, IInv', NEW c \in Callers, LoadPast(c)
  PROVE  PackInv'
<1> DEFINE s == Steps(c)
           i == pos[c]
           w == work[c]
           content == disk[PathOf(c, "DecoderWithPast")]
           loaded == [state |-> "loaded", graph |-> content]
           held == session'[c]
<1>1. outcome[c] = "running" /\ s[i] = "load_past"
  BY DEF LoadPast, At
<1>2. /\ Knows(c, s, i, w, session[c], opened[c], runtime) /\ w \in Locals /\ i \in Nat \ {0}
      /\ i \in DOMAIN s /\ Ordered(s) /\ session[c] \in [OrtRole -> SessionStates]
  BY <1>1, Here
<1>3. /\ Since("discover", s, i) /\ Since("plan", s, i) /\ After({"join_loads"}, s, i)
  BY <1>1, <1>2, Needs, SinceIsAfter
<1>4. CASE Decide(c, FALSE, w, "ORT_ERROR")
  <2>1. Causes(c, "ORT_ERROR") /\ Excused(c, "ORT_ERROR") /\ "ORT_ERROR" \in Status
    BY OthersBlamed, OthersExcused, Statuses
  <2> QED BY <1>1, <1>4, <2>1, DecideKnows, Zenon
<1>5. CASE /\ content \in Graphs
           /\ session' = [session EXCEPT ![c]["DecoderWithPast"] = loaded]
           /\ Advance(c, w)
           /\ UNCHANGED <<disk, writes, process, command, opened, calm>>
  <2>1. /\ \A d \in Callers \ {c} : session'[d] = session[d]
        /\ \A r \in OrtRole : held[r] = IF r = "DecoderWithPast" THEN loaded ELSE session[c][r]
        /\ held = [r \in OrtRole |-> held[r]] /\ DOMAIN session' = Callers
    BY <1>5 DEF IInv, HeldInv, ShapeInv
  <2>2. LocallyQuiet(c, w)
    BY <1>2 DEF LocallyQuiet, Locals
  <2>3. Forward(c)
    BY <1>5, <2>2, AdvanceIs DEF IInv
  <2>4. Apart(c)
    BY <1>5, <2>1, <2>3, MovesApart DEF IInv, HeldInv, ShapeInv
  <2>5. work' \in {[work EXCEPT ![c] = w], [work EXCEPT ![c] = Blank]}
    BY <1>5 DEF Advance, EndSection
  <2>6. Others(c) /\ runtime' = runtime
    BY <1>5, <2>4, <2>5, OthersApart
  <2>7. calm[c] => Planned(c) = DiskPlan
    BY <1>1, <1>3, PlannedHere
  <2>8. /\ loaded \in SessionStates /\ loaded.state = "loaded"
        /\ calm[c] => loaded.graph = disk[PathIn(DiskPlan.generator, "DecoderWithPast")]
    BY <1>5, <2>7 DEF SessionStates, PathOf
  <2>9. held \in [OrtRole -> SessionStates]
    BY <1>2, <2>1, <2>8
  <2>10. HasPastIn(w.manifest) /\ session[c]["Encoder"].state = "loaded"
         /\ session[c]["Decoder"].state = "loaded"
    <3>1. ~ After({"load_past"}, s, i)
      <4>1. s[i] \in {"join_loads", "load_past", "open"} => ~ After({s[i]}, s, i)
        BY <1>2, Zenon DEF Ordered
      <4> QED BY <1>1, <4>1
    <3> QED BY <1>2, <1>3, <3>1 DEF Knows, Holds
  <2>11. s[i] \notin {"measure", "discover", "plan", "load_tokenizer", "hf_gate", "ort_gate",
                      "init_runtime", "open", "join_loads", "resolve_dylib", "verify",
                      "runtime_generation", "runtime_io"} \cup GenerationReads \cup IoReads
    BY <1>1 DEF GenerationReads, IoReads
  <2>12. /\ Remembers(s, i + 1, w) /\ Prepared(s, i + 1, runtime) /\ Same(s, i, i + 1, {s[i]})
         /\ calm[c] => Linked(s, i + 1, w, session[c]) /\ Found(s, i + 1)
    BY <1>1, <2>11, StepParts, PassHere
  <2>13. After({"load_past"}, s, i + 1)
    BY <1>1, <1>2, JustDone
  <2> HIDE DEF s, i, w, held, loaded
  <2>14. Holds(s, i + 1, w, held, opened[c])
    <3>1. After({"open"}, s, i + 1) <=> After({"open"}, s, i)
      BY <1>1, <2>12 DEF Same
    <3>2. /\ held["Encoder"] = session[c]["Encoder"] /\ held["Decoder"] = session[c]["Decoder"]
          /\ held["DecoderWithPast"] = loaded
      BY <2>1 DEF OrtRole
    <3> QED BY <1>2, <2>8, <2>10, <2>13, <3>1, <3>2 DEF Knows, Holds
  <2>15. calm[c] => Linked(s, i + 1, w, held)
    BY <2>1, <2>8, <2>12 DEF Linked
  <2>16. Knows(c, s, i + 1, w, held, opened[c], runtime)
    BY <2>12, <2>14, <2>15 DEF Knows
  <2>17. session'[c] = held /\ opened'[c] = opened[c]
    BY <1>5 DEF held
  <2> QED BY <1>1, <1>5, <2>6, <2>9, <2>16, <2>17, GoesOn DEF s, i, w
<1> QED BY <1>4, <1>5 DEF LoadPast, ReadAt

----------------------------------------------------------------------------
(* In a section that opens a handle nothing is measured, so what was done  *)
(* was done with these locals.                                             *)
LEMMA NothingMeasured ==
  ASSUME NEW s, Ordered(s), DOMAIN s = 1 .. Len(s), Len(s) \in Nat, Has(s, "open"),
         NEW i \in 1 .. Len(s) + 1, NEW step, After({step}, s, i)
  PROVE  Since(step, s, i)
<1>1. \A k \in DOMAIN s : s[k] = "measure" => ~ Has(s, "open")
  BY Zenon DEF Ordered
<1>2. \A k \in 1 .. i - 1 : s[k] # "measure"
  BY <1>1
<1> QED BY <1>2 DEF After, Since

(* The sessions that run are those of the plan on the disk.                *)
LEMMA AllLoaded ==
  ASSUME IInv, PackInv, NEW c \in Callers, outcome[c] = "running", calm[c],
         Steps(c)[pos[c]] = "open", After({"join_loads"}, Steps(c), pos[c])
  PROVE  GraphsSound
<1> DEFINE s == Steps(c)
           i == pos[c]
           w == work[c]
           held == session[c]
           g == DiskPlan.generator
<1>1. /\ Knows(c, s, i, w, held, opened[c], runtime) /\ held \in [OrtRole -> SessionStates]
      /\ i \in DOMAIN s /\ Ordered(s) /\ WellFormed(s) /\ DOMAIN s = 1 .. Len(s) /\ Len(s) \in Nat
  BY Here
<1>2. PICK j \in DOMAIN s : s[j] = "join_loads"
  BY <1>1 DEF After
<1>3. After({"load_past"}, s, i)
  BY <1>1, <1>2, LoadsInOrder
<1>4. Since("discover", s, i)
  <2>1. Since("discover", s, j)
    BY <1>1, <1>2, Needs
  <2>2. After({"discover"}, s, j) /\ j < i /\ Has(s, "open") /\ i \in 1 .. Len(s) + 1
    BY <1>1, <1>2, <2>1, SinceIsAfter, LoadsInOrder
  <2>3. After({"discover"}, s, i)
    BY <1>1, <1>2, <2>2, LaterStill
  <2> HIDE DEF s, i
  <2> QED BY <1>1, <2>2, <2>3, NothingMeasured
<1>5. /\ w.manifest = disk[ManifestPath]
      /\ \A role \in OrtRole : held[role].state = "loaded" =>
           held[role].graph = disk[PathIn(g, role)]
  BY <1>1, <1>4 DEF Knows, Linked
<1>6. /\ held["Encoder"].state = "loaded" /\ held["Decoder"].state = "loaded"
      /\ g.decoder_with_past # None => held["DecoderWithPast"].state = "loaded"
  BY <1>1, <1>3, <1>5 DEF Knows, Holds, HasPastIn, Generator, DiskPlan
<1> HIDE DEF s, i, w, held, g
<1>7. \A role \in OrtRole : held[role].state = "loaded" => disk[PathIn(g, role)] \in Graphs
  BY <1>1, <1>5, LoadedHasGraph
<1>8. /\ disk[g.encoder.path] \in Graphs /\ disk[g.decoder.path] \in Graphs
      /\ g.decoder_with_past # None => disk[g.decoder_with_past.path] \in Graphs
  BY <1>6, <1>7 DEF PathIn, OrtRole
<1>9. GraphsSound <=> GraphsOf(g) \subseteq Graphs
  BY DEF GraphsSound, g
<1> QED BY <1>8, <1>9 DEF GraphsOf

LEMMA OpenPreserves ==
  ASSUME IInv, PackInv, IInv', NEW c \in Callers, Open(c)
  PROVE  PackInv'
<1> DEFINE s == Steps(c)
           i == pos[c]
           w == work[c]
           held == session[c]
<1>1. /\ outcome[c] = "running" /\ s[i] = "open" /\ Advance(c, w)
      /\ opened' = [opened EXCEPT ![c] = TRUE]
      /\ UNCHANGED <<disk, writes, process, command, session, calm>>
  BY DEF Open, At
<1>2. /\ Knows(c, s, i, w, held, opened[c], runtime) /\ w \in Locals /\ i \in Nat \ {0}
      /\ i \in DOMAIN s /\ held \in [OrtRole -> SessionStates]
  BY <1>1, Here
<1>3. LocallyQuiet(c, w)
  BY <1>2 DEF LocallyQuiet, Locals
<1>4. Forward(c)
  BY <1>1, <1>3, AdvanceIs DEF IInv
<1>5. Apart(c)
  BY <1>1, <1>4, MovesApart DEF IInv, HeldInv, ShapeInv
<1>6. work' \in {[work EXCEPT ![c] = w], [work EXCEPT ![c] = Blank]}
  BY <1>1 DEF Advance, EndSection
<1>7. Others(c) /\ runtime' = runtime
  BY <1>1, <1>5, <1>6, OthersApart
<1>8. session'[c] = held /\ opened'[c] = TRUE
  BY <1>1 DEF IInv, HeldInv, ShapeInv
<1>9. s[i] \notin {"measure", "discover", "plan", "load_tokenizer", "hf_gate", "ort_gate",
                   "init_runtime", "load_past", "join_loads", "resolve_dylib", "verify",
                   "runtime_generation", "runtime_io"} \cup GenerationReads \cup IoReads
  BY <1>1 DEF GenerationReads, IoReads
<1>10. /\ Remembers(s, i + 1, w) /\ Prepared(s, i + 1, runtime) /\ Same(s, i, i + 1, {s[i]})
       /\ calm[c] => Linked(s, i + 1, w, held)
  BY <1>1, <1>9, StepParts, PassHere
<1>11. After({"open"}, s, i + 1)
  BY <1>1, <1>2, JustDone
<1>12. calm[c] /\ After({"join_loads"}, s, i) => GraphsSound
  BY <1>1, AllLoaded
<1> HIDE DEF s, i, w, held
<1>13. Holds(s, i + 1, w, held, TRUE)
  <2>1. /\ After({"join_loads"}, s, i + 1) <=> After({"join_loads"}, s, i)
        /\ After({"load_past"}, s, i + 1) <=> After({"load_past"}, s, i)
    BY <1>1, <1>10 DEF Same
  <2> QED BY <1>2, <1>11, <2>1 DEF Knows, Holds
<1>14. calm[c] => Found(s, i + 1)
  <2> SUFFICES ASSUME calm[c] PROVE Found(s, i + 1)
    OBVIOUS
  <2>1. Found(s, i)
    BY <1>2 DEF Knows
  <2>2. /\ After({"verify"}, s, i + 1) <=> After({"verify"}, s, i)
        /\ After({"plan"}, s, i + 1) <=> After({"plan"}, s, i)
        /\ After({"read_generation"}, s, i + 1) <=> After({"read_generation"}, s, i)
        /\ After({"runtime_generation", "strict_generation"}, s, i + 1) <=>
             After({"runtime_generation", "strict_generation"}, s, i)
        /\ After({"read_io"}, s, i + 1) <=> After({"read_io"}, s, i)
        /\ After({"runtime_io", "strict_io"}, s, i + 1) <=> After({"runtime_io", "strict_io"}, s, i)
        /\ After({"load_tokenizer"}, s, i + 1) <=> After({"load_tokenizer"}, s, i)
        /\ After({"join_loads"}, s, i + 1) <=> After({"join_loads"}, s, i)
    BY <1>1, <1>10 DEF Same
  <2> QED BY <1>12, <2>1, <2>2, Zenon DEF Found
<1>15. Knows(c, s, i + 1, w, held, TRUE, runtime)
  BY <1>10, <1>13, <1>14 DEF Knows
<1> QED BY <1>1, <1>2, <1>7, <1>8, <1>15, GoesOn DEF s, i, w

----------------------------------------------------------------------------
(* A translation that fails goes straight to the close.                    *)
LEMMA TranslatePreserves ==
  ASSUME IInv, PackInv, IInv', NEW c \in Callers, Translate(c)
  PROVE  PackInv'
<1> DEFINE s == Steps(c)
           i == pos[c]
           w == work[c]
           held == session[c]
           u(status) == [w EXCEPT !.translation = status]
           skip == {"translate"}
<1>1. /\ outcome[c] = "running" /\ s[i] = "translate" /\ s[i] \in Checking
      /\ UNCHANGED <<disk, writes, process, command, session, opened, calm>>
  BY DEF Translate, At, Checking
<1>2. /\ Knows(c, s, i, w, held, opened[c], runtime) /\ w \in Locals /\ i \in Nat \ {0}
      /\ i \in DOMAIN s /\ held \in [OrtRole -> SessionStates] /\ Ordered(s) /\ WellFormed(s)
      /\ DOMAIN s = 1 .. Len(s) /\ Len(s) \in Nat
  BY <1>1, Here
<1>3. \A status : LocallyQuiet(c, u(status)) /\ LocallyQuiet(c, w)
  BY <1>2 DEF LocallyQuiet, Locals
<1>4. session'[c] = held /\ opened'[c] = opened[c]
  BY <1>1
<1>5. CASE Advance(c, w)
  <2>1. Forward(c)
    BY <1>3, <1>5, AdvanceIs DEF IInv
  <2>2. Apart(c)
    BY <1>1, <2>1, MovesApart DEF IInv, HeldInv, ShapeInv
  <2>3. work' \in {[work EXCEPT ![c] = w], [work EXCEPT ![c] = Blank]}
    BY <1>5 DEF Advance, EndSection
  <2>4. Others(c) /\ runtime' = runtime
    BY <1>1, <2>2, <2>3, OthersApart
  <2>5. Knows(c, s, i + 1, w, held, opened[c], runtime)
    BY <1>1, CheckKnows
  <2> QED BY <1>1, <1>2, <1>4, <1>5, <2>4, <2>5, GoesOn
<1>6. ASSUME NEW status \in TranslationStatus, JumpTo(c, "close", u(status)) PROVE PackInv'
  <2>1. Has(s, "close")
    BY <1>1, <1>2 DEF WellFormed
  <2>2. Apart(c)
    BY <1>1, <1>6, MovesApart DEF IInv, HeldInv, ShapeInv
  <2>3. work' \in {[work EXCEPT ![c] = u(status)], [work EXCEPT ![c] = Blank]}
    BY <1>6 DEF JumpTo
  <2>4. Others(c) /\ runtime' = runtime
    BY <1>1, <2>2, <2>3, OthersApart
  <2>5. /\ u(status).manifest = w.manifest /\ u(status).tokenizer = w.tokenizer
        /\ u(status).generation = w.generation /\ u(status).io = w.io
        /\ u(status).measured = w.measured /\ u(status) \in Locals
    BY <1>2 DEF Locals
  <2> HIDE DEF u, s, i, w, held, skip
  <2>6. ASSUME NEW j \in DOMAIN s, s[j] = "close"
        PROVE  Knows(c, s, j, u(status), held, opened[c], runtime)
    <3>1. \A k \in DOMAIN s : s[k] = "close" => k = Len(s)
      BY <1>2, Zenon DEF Ordered
    <3>2. Only(WithHandle, s, i)
      <4>1. s[i] \in {"open", "translate"} => Only(WithHandle, s, i)
        BY <1>2, Zenon DEF Ordered
      <4> QED BY <1>1, <4>1
    <3>3. j = Len(s) /\ i # j
      BY <1>1, <2>6, <3>1
    <3>4. \A k \in i .. j - 1 : s[k] = "translate"
      BY <1>1, <1>2, <3>1, <3>2, <3>3 DEF Only, WithHandle
    <3>5. j \in Nat /\ j \in i .. Len(s) + 1 /\ j > i
      <4>1. i \in 1 .. Len(s) /\ Len(s) \in Nat
        BY <1>2
      <4> QED BY <3>3, <4>1
    <3>6. Passes(s, i, j, skip) /\ Same(s, i, j, skip)
      <4>1. Passes(s, i, j, skip)
        BY <1>2, <3>4, <3>5 DEF Passes, skip
      <4> QED BY <4>1, PassesSame
    <3>7. \A step : step # "translate" => step \notin skip
      BY DEF skip
    <3>8. Remembers(s, j, u(status))
      <4>1. After({"translate"}, s, j)
        BY <1>1, <1>2, <3>5 DEF After
      <4>2. Remembers(s, j, w)
        BY <1>2, <2>6, <3>6, <3>7, RemembersOn DEF Knows
      <4> QED BY <2>5, <2>6, <4>1, <4>2 DEF Remembers
    <3>9. Prepared(s, j, runtime)
      BY <1>2, <3>6, <3>7, PreparedOn DEF Knows
    <3>10. Holds(s, j, u(status), held, opened[c])
      BY <1>2, <2>5, <3>6, <3>7, HoldsOn DEF Knows
    <3>11. calm[c] => Linked(s, j, u(status), held)
      <4>1. \A step \in {"discover", "load_tokenizer"} \cup GenerationReads \cup IoReads :
              step \notin skip
        BY <3>7 DEF GenerationReads, IoReads
      <4> QED BY <1>2, <2>5, <2>6, <3>6, <4>1, LinkedOn DEF Knows
    <3>12. calm[c] => Found(s, j)
      <4>1. \A step \in {"verify", "plan", "load_tokenizer", "join_loads", "open"}
                        \cup GenerationReads \cup IoReads : step \notin skip
        BY <3>7 DEF GenerationReads, IoReads
      <4> QED BY <1>2, <3>6, <4>1, FoundOn DEF Knows
    <3> QED BY <3>8, <3>9, <3>10, <3>11, <3>12 DEF Knows
  <2> DEFINE v == u(status)
  <2>7. /\ v \in Locals /\ JumpTo(c, "close", v)
        /\ \A j \in DOMAIN s : s[j] = "close" => Knows(c, s, j, v, held, opened[c], runtime)
    BY <1>6, <2>5, <2>6
  <2> HIDE DEF v
  <2> QED BY <1>1, <1>2, <1>4, <2>1, <2>4, <2>7, JumpKnows DEF s, i, w, held
<1>7. \/ Advance(c, w)
      \/ \E status \in TranslationStatus : JumpTo(c, "close", u(status))
  BY DEF Translate
<1> QED BY <1>5, <1>6, <1>7

(* The close ends the section, or reports what the translation answered.   *)
LEMMA ClosePreserves ==
  ASSUME IInv, PackInv, IInv', NEW c \in Callers, Close(c)
  PROVE  PackInv'
<1> DEFINE s == Steps(c)
           i == pos[c]
           w == work[c]
           status == w.translation
<1>1. /\ outcome[c] = "running" /\ s[i] = "close" /\ s[i] \in Checking /\ Drop(c)
      /\ IF status = "ok" THEN Advance(c, w) ELSE Leave(c, status)
      /\ UNCHANGED <<disk, writes, process, command, calm>>
  BY DEF Close, At, Checking
<1>2. /\ Knows(c, s, i, w, session[c], opened[c], runtime) /\ w \in Locals
      /\ i \in DOMAIN s /\ Ordered(s)
  BY <1>1, Here
<1>3. i = Len(s)
  <2>1. \A k \in DOMAIN s : s[k] \in {"close", "configure"} => k = Len(s)
    BY <1>2, Zenon DEF Ordered
  <2> QED BY <1>1, <1>2, <2>1
<1>4. Others(c)
  <2>1. Forward(c) \/ LeaveControl(c)
    BY <1>1 DEF Advance, Leave, Forward, LeaveControl, EndControl, EndSection
  <2>2. Apart(c)
    BY <1>1, <2>1, MovesApart DEF Drop, IInv, HeldInv, ShapeInv
  <2>3. work' \in {[work EXCEPT ![c] = w], [work EXCEPT ![c] = Blank]}
    BY <1>1 DEF Advance, Leave, EndSection
  <2> QED BY <1>1, <2>2, <2>3, OthersApart
<1>5. CASE status = "ok"
  <2>1. EndSection(c)
    BY <1>1, <1>3, <1>5 DEF Advance
  <2>2. Knows(c, s, i + 1, w, session[c], opened[c], runtime)
    BY <1>1, CheckKnows
  <2>3. Onwards(c)
    BY <1>1, <1>3, <2>2, DoctorEnds DEF Knows
  <2>4. CallerKnows(c)'
    BY <1>1, <1>4, <2>1, <2>3, Ends DEF IInv
  <2> QED BY <1>4, <2>4, OthersKnow DEF IInv
<1>6. CASE status # "ok"
  <2>1. status \in TranslationStatus /\ Leave(c, status)
    BY <1>1, <1>2, <1>6 DEF Locals
  <2>2. After({"translate"}, s, i)
    BY <1>2, <1>6 DEF Knows, Remembers
  <2>3. MayRun(c, {"translate"})
    BY <1>1, <2>2, Calling
  <2>4. Causes(c, status) /\ Excused(c, status) /\ status \in Status
    BY <2>1, <2>3, OthersBlamed, OthersExcused, Statuses DEF TranslationStatus
  <2> HIDE DEF status
  <2>5. CallerKnows(c)'
    BY <1>1, <1>4, <2>1, <2>4, LeaveKnows DEF IInv
  <2> QED BY <1>4, <2>5, OthersKnow DEF IInv
<1> QED BY <1>5, <1>6

----------------------------------------------------------------------------
(* An installer writes: whoever has begun is told so, and whoever has not  *)
(* holds nothing of the disk yet.                                          *)
LEMMA NotBegun ==
  ASSUME IInv, PackInv, NEW c \in Callers, outcome[c] = "running", calm[c], ~ Begun(c)
  PROVE  /\ section[c] = 1 /\ pos[c] = 1 /\ Steps(c)[1] # "verify"
         /\ work[c].tokenizer = None /\ work[c].generation = None /\ work[c].io = None
         /\ session[c] = NoSessions
<1>1. /\ Knows(c, Steps(c), pos[c], work[c], session[c], opened[c], runtime)
      /\ Ordered(Steps(c)) /\ pos[c] \in DOMAIN Steps(c)
      /\ pos[c] \in 1 .. Len(Steps(c)) /\ Len(Steps(c)) \in Nat
  BY Here
<1>2. section[c] \in 1 .. Len(command[c].program) /\ Len(command[c].program) \in Nat
  BY RunningFacts DEF IInv
<1>3. section[c] = 1 /\ pos[c] = 1
  BY <1>1, <1>2 DEF Begun
<1>4. Steps(c)[1] # "verify"
  BY <1>1, <1>3, FirstStep
<1>5. Linked(Steps(c), 1, work[c], session[c])
  BY <1>1, <1>3 DEF Knows
<1>6. work[c].tokenizer = None /\ work[c].generation = None /\ work[c].io = None
  BY <1>5, NothingYet DEF Linked, ReadAs, SinceAny
<1>7. session[c] = NoSessions
  <2>1. ~ After(Acquiring, Steps(c), pos[c])
    BY <1>3, NothingYet
  <2> QED BY <2>1 DEF IInv, HeldInv, CallerInv, Free
<1> QED BY <1>3, <1>4, <1>6, <1>7

LEMMA StartIsLinked ==
  ASSUME NEW s, NEW w, NEW held, held = NoSessions, s[1] # "verify",
         w.tokenizer = None, w.generation = None, w.io = None
  PROVE  Linked(s, 1, w, held)' /\ Found(s, 1)'
<1>1. Linked(s, 1, w, held)'
  BY NothingYet DEF Linked, ReadAs, SinceAny, NoSessions, NoSession
<1>2. Found(s, 1)'
  BY NothingYet DEF Found
<1> QED BY <1>1, <1>2

LEMMA InstallerPreserves ==
  ASSUME IInv, PackInv, IInv', Installer
  PROVE  PackInv'
<1>1. PICK install \in Installs : InstallerWrites(install[1], install[2])
  BY DEF Installer
<1> DEFINE path == install[1]
           content == install[2]
<1>2. /\ path \in Path /\ content \in Content \cup {Absent}
      /\ writes > 0 /\ writes' = writes - 1 /\ disk' = [disk EXCEPT ![path] = content]
      /\ calm' = [c \in Callers |-> calm[c] /\ outcome[c] = "running" /\ ~ Begun(c)]
      /\ UNCHANGED <<process, command, control, locals>>
  BY <1>1, DataAssumption DEF InstallerWrites
<1> HIDE DEF path, content
<1>3. DiskInv'
  BY <1>2 DEF PackInv, DiskInv, Disks, process
<1>4. ASSUME NEW c \in Callers PROVE CallerKnows(c)'
  <2>1. /\ section'[c] = section[c] /\ pos'[c] = pos[c] /\ outcome'[c] = outcome[c]
        /\ work'[c] = work[c] /\ session'[c] = session[c] /\ opened'[c] = opened[c]
        /\ command' = command /\ build' = build /\ runtime' = runtime
        /\ calm'[c] \in BOOLEAN
        /\ calm'[c] => calm[c] /\ outcome[c] = "running" /\ ~ Begun(c)
    BY <1>2 DEF control, locals, process
  <2>2. CallerKnows(c) /\ Steps(c)' = Steps(c)
    BY <2>1 DEF PackInv, Steps
  <2>3. Typed(c)'
    BY <2>1, <2>2 DEF CallerKnows, Typed, InProgram
  <2>4. ASSUME outcome[c] = "running"
        PROVE  Knows(c, Steps(c), pos[c], work[c], session[c], opened[c], runtime)'
    <3>1. Knows(c, Steps(c), pos[c], work[c], session[c], opened[c], runtime)
      BY <2>2, <2>4 DEF CallerKnows
    <3>2. /\ Remembers(Steps(c), pos[c], work[c])'
          /\ Holds(Steps(c), pos[c], work[c], session[c], opened[c])'
      BY <2>1, <2>2, <3>1 DEF Knows
    <3>3. Prepared(Steps(c), pos[c], runtime)'
      BY <2>1, <2>2, <3>1 DEF Knows, Prepared
    <3>4. calm'[c] => Linked(Steps(c), pos[c], work[c], session[c])' /\ Found(Steps(c), pos[c])'
      BY <2>1, <2>2, NotBegun, StartIsLinked
    <3> QED BY <2>1, <3>2, <3>3, <3>4 DEF Knows
  <2>5. calm'[c] => Causes(c, outcome[c])'
    BY <2>1 DEF Causes
  <2>6. Doctors(c)'
    BY <2>1, NotBegun DEF Doctors, Examined
  <2> QED BY <2>1, <2>3, <2>4, <2>5, <2>6 DEF CallerKnows
<1> QED BY <1>3, <1>4 DEF IInv, PackInv

LEMMA StutterPreserves ==
  ASSUME IInv, PackInv, IInv', UNCHANGED vars
  PROVE  PackInv'
<1>1. /\ UNCHANGED <<disk, writes, build, env, override, runtime, early, command, calm>>
      /\ UNCHANGED <<section, pos, outcome, work, session, opened>>
  BY DEF vars, process, control, locals
<1>2. \A c \in Callers : CallerKnows(c)'
  BY <1>1, StaysKnown
<1>3. DiskInv'
  BY <1>1 DEF PackInv, DiskInv
<1> QED BY <1>2, <1>3 DEF IInv, PackInv

----------------------------------------------------------------------------
LEMMA InitPack == Init => PackInv
<1> SUFFICES ASSUME Init PROVE PackInv
  OBVIOUS
<1>1. IInv
  BY InitInv
<1>2. PICK s \in Scenarios :
        disk = s.disk /\ writes = s.writes /\ build = s.build /\ env = s.env /\ command = s.command
  BY DEF Init
<1>3. DOMAIN command = Callers /\ \A c \in Callers : InOrder(command[c].program)
  BY <1>2, ScriptsAssumption, OrderAssumption
<1>4. DiskInv
  BY <1>2, <1>3, DataAssumption DEF Init, DiskInv
<1>5. ASSUME NEW c \in Callers PROVE CallerKnows(c)
  <2>1. /\ section[c] = 1 /\ pos[c] = 1 /\ work[c] = Blank /\ session[c] = NoSessions
        /\ opened[c] = FALSE /\ calm[c] = TRUE
        /\ outcome[c] = IF command[c].program = Idle THEN "ok" ELSE "running"
    BY DEF Init
  <2>2. outcome[c] = "running" => InProgram(c) /\ Steps(c)[1] \notin {"verify", "init_runtime"}
    <3> SUFFICES ASSUME outcome[c] = "running"
                 PROVE  InProgram(c) /\ Steps(c)[1] \notin {"verify", "init_runtime"}
      OBVIOUS
    <3>1. InProgram(c)
      BY <1>1 DEF IInv, HeldInv, CallerInv
    <3>2. Ordered(Steps(c)) /\ 1 \in DOMAIN Steps(c)
      BY <1>3, <2>1, <3>1 DEF InProgram, InOrder, Steps
    <3> QED BY <3>1, <3>2, FirstStep
  <2>3. Typed(c)
    BY <2>1, <2>2, BlankIsTyped DEF Typed
  <2>4. outcome[c] = "running" =>
          Knows(c, Steps(c), pos[c], work[c], session[c], opened[c], runtime)
    BY <2>1, <2>2, FreshKnows
  <2>5. Causes(c, outcome[c])
    BY <2>1 DEF Causes
  <2>6. Doctors(c)
    <3>1. Doctor # Idle
      <4>1. Len(Idle) = 0
        BY DEF Idle
      <4> QED BY <4>1, DoctorHas
    <3> QED BY <2>1, <3>1 DEF Doctors, Examined
  <2> QED BY <2>3, <2>4, <2>5, <2>6 DEF CallerKnows
<1> QED BY <1>1, <1>4, <1>5 DEF IInv, PackInv

LEMMA NextPack == IInv /\ PackInv /\ [Next]_vars => PackInv'
<1> SUFFICES ASSUME IInv, PackInv, [Next]_vars PROVE PackInv'
  OBVIOUS
<1>0. IInv'
  BY NextInv
<1>1. ASSUME NEW c \in Callers, CallerStep(c) PROVE PackInv'
  BY <1>0, <1>1, ParseArgumentsPreserves, DiscoverPreserves, VerifyFilePreserves,
     VerifyTrustedPreserves, RuntimeBranchPreserves, PlanPreserves, PlanGgufPreserves,
     ReadGenerationPreserves, ReadIoPreserves, RuntimeGenerationPreserves, RuntimeIoPreserves,
     GgufConfigPreserves, MeasurePreserves, FillPreserves, HfGatePreserves, OrtGatePreserves,
     LoadTokenizerPreserves, LoadLlamaPreserves, ConfigureDylibPreserves,
     ResolveDylibPreserves, InitRuntimePreserves, SpawnLoadsPreserves, JoinLoadsPreserves,
     LoadPastPreserves, OpenPreserves, TranslatePreserves, ClosePreserves, Zenon DEF CallerStep
<1>2. ASSUME NEW c \in Callers, LoadThread(c) PROVE PackInv'
  BY <1>0, <1>2, LoadSessionPreserves DEF LoadThread
<1>3. CASE Installer
  BY <1>0, <1>3, InstallerPreserves
<1>4. CASE UNCHANGED vars
  BY <1>0, <1>4, StutterPreserves
<1> QED BY <1>1, <1>2, <1>3, <1>4 DEF Next, Finished

(* The sessions of every caller are those of its plan, its locals what the *)
(* files were, and a status has its cause.                                 *)
THEOREM PackInvariance == Spec => [](IInv /\ PackInv)
<1>1. Init => IInv /\ PackInv
  BY InitInv, InitPack
<1>2. IInv /\ PackInv /\ [Next]_vars => IInv' /\ PackInv'
  BY NextInv, NextPack
<1> QED BY <1>1, <1>2, PTL DEF Spec

----------------------------------------------------------------------------
(* What a llama.cpp script finds on a disk nobody touches: the pack can be *)
(* planned, and the runtime config it has is one the open accepts.         *)
GgufSteps == {"plan_gguf", "gguf_config"}
GgufPlanFound == GgufPlans[disk[ManifestPath]].ok
GgufConfigFound == LlamaSound(GgufPlans[disk[ManifestPath]].value.runtime_config)
GgufFound(s, i) ==
  /\ After({"plan_gguf"}, s, i) => GgufPlanFound
  /\ After({"gguf_config"}, s, i) => GgufConfigFound
GgufInv ==
  \A c \in Callers : outcome[c] = "running" /\ calm[c] => GgufFound(Steps(c), pos[c])

(* It stays found where neither step is done.                              *)
LEMMA GgufOn ==
  ASSUME NEW s, NEW i \in Nat \ {0}, s[i] \notin GgufSteps, GgufFound(s, i)
  PROVE  GgufFound(s, i + 1)
<1>1. \A step \in GgufSteps : After({step}, s, i + 1) => After({step}, s, i)
  <2> SUFFICES ASSUME NEW step \in GgufSteps, After({step}, s, i + 1) PROVE After({step}, s, i)
    OBVIOUS
  <2>1. PICK k \in 1 .. (i + 1) - 1 : s[k] = step
    BY DEF After
  <2>2. k # i
    BY <2>1
  <2> QED BY <2>1, <2>2 DEF After
<1> QED BY <1>1 DEF GgufFound, GgufSteps

(* A script does neither from where it can jump.                           *)
LEMMA GgufJumps ==
  ASSUME NEW s, Ordered(s), DOMAIN s = 1 .. Len(s), Len(s) \in Nat,
         NEW i \in DOMAIN s, NEW j \in DOMAIN s,
         s[i] \in {"join_loads", "translate"}, GgufFound(s, i)
  PROVE  GgufFound(s, j)
<1>1. Only(AfterJoin \cup {"open"} \cup WithHandle, s, i)
  <2>1. /\ s[i] = "join_loads" => Only(AfterJoin \cup {"open"} \cup WithHandle, s, i)
        /\ s[i] \in {"open", "translate"} => Only(WithHandle, s, i)
    BY Zenon DEF Ordered
  <2> QED BY <2>1 DEF Only
<1>2. \A step \in GgufSteps : After({step}, s, j) => After({step}, s, i)
  <2> SUFFICES ASSUME NEW step \in GgufSteps, After({step}, s, j) PROVE After({step}, s, i)
    OBVIOUS
  <2>1. PICK k \in 1 .. j - 1 : s[k] = step
    BY DEF After
  <2>2. k # i /\ k \notin i + 1 .. Len(s)
    BY <1>1, <2>1 DEF Only, GgufSteps, AfterJoin, WithHandle
  <2> QED BY <2>1, <2>2 DEF After
<1> QED BY <1>2 DEF GgufFound, GgufSteps

(* Where a caller may go, so that what was found stays found.              *)
GgufMoves(c) ==
  \/ UNCHANGED control
  \/ LeaveControl(c)
  \/ /\ Forward(c)
     /\ \/ Steps(c)[pos[c]] \notin GgufSteps
        \/ calm[c] => GgufFound(Steps(c), pos[c] + 1)
  \/ /\ Steps(c)[pos[c]] \in {"join_loads", "translate"}
     /\ \E step, locally : JumpTo(c, step, locally) /\ Has(Steps(c), step)

LEMMA GgufKeeps ==
  ASSUME IInv, PackInv, GgufInv, NEW c \in Callers, outcome[c] = "running", GgufMoves(c),
         UNCHANGED <<disk, command, calm>>
  PROVE  GgufInv'
<1> DEFINE s == Steps(c)
           i == pos[c]
<1>1. /\ DOMAIN s = 1 .. Len(s) /\ Len(s) \in Nat /\ i \in DOMAIN s /\ i \in Nat \ {0}
      /\ Ordered(s)
  BY Here
<1>2. /\ DOMAIN section = Callers /\ DOMAIN pos = Callers /\ DOMAIN outcome = Callers
  BY DEF IInv, HeldInv, ShapeInv
<1>3. \A t, k : GgufFound(t, k)' <=> GgufFound(t, k)
  BY DEF GgufFound, GgufPlanFound, GgufConfigFound, LlamaSound
<1>4. ASSUME NEW d \in Callers, outcome[d] = "running", calm[d],
             section'[d] = section[d], pos'[d] = pos[d]
      PROVE  GgufFound(Steps(d), pos[d])'
  <2>1. Steps(d)' = Steps(d)
    BY <1>4 DEF Steps
  <2> QED BY <1>3, <1>4, <2>1 DEF GgufInv
<1>5. ASSUME NEW d \in Callers, d # c
      PROVE  section'[d] = section[d] /\ pos'[d] = pos[d] /\ outcome'[d] = outcome[d]
  BY <1>2, <1>5 DEF GgufMoves, LeaveControl, EndControl, Forward, JumpTo, control
<1>6. ASSUME calm[c] PROVE GgufFound(Steps(c), pos[c])'
  <2>1. GgufFound(s, i)
    BY <1>6 DEF GgufInv
  <2>2. ASSUME pos'[c] = 1 PROVE GgufFound(Steps(c), pos[c])'
    <3>1. GgufFound(Steps(c)', 1)
      BY NothingYet DEF GgufFound
    <3> QED BY <1>3, <2>2, <3>1
  <2>3. ASSUME section'[c] = section[c], GgufFound(s, pos'[c]) PROVE GgufFound(Steps(c), pos[c])'
    <3>1. Steps(c)' = s
      BY <2>3 DEF Steps
    <3> QED BY <1>3, <2>3, <3>1
  <2>4. CASE UNCHANGED control
    BY <2>1, <2>3, <2>4 DEF control
  <2>5. CASE LeaveControl(c)
    BY <1>2, <2>1, <2>2, <2>3, <2>5 DEF LeaveControl, EndControl
  <2>6. CASE /\ Forward(c)
             /\ s[i] \notin GgufSteps \/ (calm[c] => GgufFound(s, i + 1))
    <3>1. GgufFound(s, i + 1)
      BY <1>1, <1>6, <2>1, <2>6, GgufOn
    <3>2. pos'[c] = 1 \/ (pos'[c] = i + 1 /\ section'[c] = section[c])
      BY <1>2, <2>6 DEF Forward, EndControl
    <3> QED BY <2>2, <2>3, <3>1, <3>2
  <2>7. ASSUME NEW step, NEW locally, JumpTo(c, step, locally), Has(s, step),
               s[i] \in {"join_loads", "translate"}
        PROVE  GgufFound(Steps(c), pos[c])'
    <3>1. pos'[c] \in DOMAIN s /\ section'[c] = section[c]
      BY <1>2, <2>7, JumpMoves DEF IInv, JumpTo
    <3>2. GgufFound(s, pos'[c])
      BY <1>1, <2>1, <2>7, <3>1, GgufJumps
    <3> QED BY <2>3, <3>1, <3>2
  <2> QED BY <2>4, <2>5, <2>6, <2>7 DEF GgufMoves
<1> QED BY <1>4, <1>5, <1>6 DEF GgufInv

LEMMA DecideMoves ==
  ASSUME NEW c, NEW fine, NEW locally, NEW status, Decide(c, fine, locally, status)
  PROVE  /\ (fine /\ Forward(c)) \/ LeaveControl(c)
         /\ UNCHANGED <<disk, command, calm>>
BY DEF Decide, Fail, Advance, Leave, Forward, LeaveControl, EndControl, EndSection

LEMMA AdvanceMoves ==
  ASSUME NEW c
  PROVE  /\ \A locally : Advance(c, locally) => Forward(c)
         /\ \A status : Leave(c, status) => LeaveControl(c)
BY DEF Advance, Leave, Forward, LeaveControl, EndControl, EndSection

LEMMA GgufStepKeeps ==
  ASSUME IInv, PackInv, GgufInv, NEW c \in Callers, CallerStep(c)
  PROVE  GgufInv'
<1> DEFINE s == Steps(c)
           i == pos[c]
<1>1. ASSUME outcome[c] = "running", GgufMoves(c), UNCHANGED <<disk, command, calm>>
      PROVE  GgufInv'
  BY <1>1, GgufKeeps
<1>2. ASSUME outcome[c] = "running", s[i] \notin GgufSteps,
             \E fine, locally, status : Decide(c, fine, locally, status)
      PROVE  GgufInv'
  BY <1>1, <1>2, DecideMoves DEF GgufMoves
<1>3. ASSUME outcome[c] = "running", s[i] \notin GgufSteps, \E locally : Advance(c, locally),
             UNCHANGED <<disk, command, calm>>
      PROVE  GgufInv'
  BY <1>1, <1>3, AdvanceMoves DEF GgufMoves
<1>4. \A some : At(c, some) => outcome[c] = "running" /\ s[i] \in some
  BY DEF At
<1>5. ASSUME NEW some, At(c, some), some \cap GgufSteps = {},
             \E fine, locally, status : Decide(c, fine, locally, status)
      PROVE  GgufInv'
  BY <1>2, <1>4, <1>5
<1>6. CASE ParseArguments(c) \/ Discover(c) \/ VerifyTrusted(c) \/ Plan(c)
  <2>1. /\ At(c, {"arguments", "discover", "verify_trusted", "plan"})
        /\ \E fine, locally, status : Decide(c, fine, locally, status)
    BY <1>6, Zenon DEF ParseArguments, Discover, VerifyTrusted, Plan, At
  <2> QED BY <1>5, <2>1 DEF GgufSteps
<1>7. CASE ReadGeneration(c) \/ ReadIo(c) \/ RuntimeGeneration(c) \/ RuntimeIo(c)
  <2>1. /\ At(c, GenerationReads \cup IoReads)
        /\ \E fine, locally, status : Decide(c, fine, locally, status)
    BY <1>7, Zenon
    DEF ReadGeneration, ReadIo, RuntimeGeneration, RuntimeIo, At, GenerationReads, IoReads
  <2> QED BY <1>5, <2>1 DEF GgufSteps, GenerationReads, IoReads
<1>8. CASE Measure(c) \/ Fill(c) \/ HfGate(c) \/ OrtGate(c)
  <2>1. /\ At(c, {"measure", "fill", "hf_gate", "ort_gate"})
        /\ \E fine, locally, status : Decide(c, fine, locally, status)
    BY <1>8, Zenon DEF Measure, Fill, HfGate, OrtGate, At
  <2> QED BY <1>5, <2>1 DEF GgufSteps
<1>9. CASE LoadTokenizer(c) \/ LoadLlama(c) \/ ResolveDylib(c)
  <2>1. /\ At(c, {"load_tokenizer", "load_llama", "resolve_dylib"})
        /\ \E fine, locally, status : Decide(c, fine, locally, status)
    BY <1>9, Zenon DEF LoadTokenizer, LoadLlama, ResolveDylib, At
  <2> QED BY <1>5, <2>1 DEF GgufSteps
<1>10. CASE VerifyFile(c)
  <2>1. At(c, {"verify"})
    BY <1>10 DEF VerifyFile
  <2>2. CASE \E fine, locally, status : Decide(c, fine, locally, status)
    BY <1>5, <2>1, <2>2 DEF GgufSteps
  <2>3. CASE UNCHANGED <<disk, command, control, calm>>
    BY <1>1, <1>4, <2>1, <2>3 DEF GgufMoves
  <2> QED BY <1>10, <2>2, <2>3, Zenon DEF VerifyFile, process
<1>11. CASE RuntimeBranch(c)
  <2>1. At(c, {"runtime_branch"})
    BY <1>11 DEF RuntimeBranch
  <2>2. CASE \E fine, locally, status : Decide(c, fine, locally, status)
    BY <1>5, <2>1, <2>2 DEF GgufSteps
  <2>3. CASE /\ outcome' = [outcome EXCEPT ![c] = "ok"]
             /\ UNCHANGED <<disk, command, section, pos, calm>>
    BY <1>1, <1>4, <2>1, <2>3 DEF GgufMoves, LeaveControl
  <2> QED BY <1>11, <2>2, <2>3, Zenon DEF RuntimeBranch
<1>12. CASE PlanGguf(c)
  <2> DEFINE fine == GgufPlans[work[c].manifest].ok
  <2>1. /\ outcome[c] = "running" /\ s[i] = "plan_gguf"
        /\ Decide(c, fine, work[c], "MODEL_PACK_ERROR")
    BY <1>12 DEF PlanGguf, At
  <2>2. i \in Nat \ {0} /\ Since("discover", s, i)
    BY <2>1, Here, Needs
  <2>3. ASSUME fine, calm[c] PROVE GgufFound(s, i + 1)
    <3>1. work[c].manifest = disk[ManifestPath] /\ GgufFound(s, i)
      BY <2>1, <2>2, <2>3, Discovered DEF GgufInv
    <3>2. After({"gguf_config"}, s, i + 1) => After({"gguf_config"}, s, i)
      BY <2>1, <2>2 DEF After
    <3> QED BY <2>3, <3>1, <3>2 DEF GgufFound, GgufPlanFound
  <2> HIDE DEF fine
  <2> QED BY <1>1, <2>1, <2>3, DecideMoves DEF GgufMoves
<1>13. CASE GgufConfig(c)
  <2> DEFINE path == PlannedGguf(c).runtime_config
             fine == LlamaConfigIn(ReadOptional(path)).ok
  <2>1. /\ outcome[c] = "running" /\ s[i] = "gguf_config"
        /\ Decide(c, fine, work[c], "MODEL_PACK_ERROR")
    BY <1>13 DEF GgufConfig, At
  <2>2. i \in Nat \ {0} /\ Since("discover", s, i)
    BY <2>1, Here, Needs
  <2>3. ASSUME fine, calm[c] PROVE GgufFound(s, i + 1)
    <3>1. work[c].manifest = disk[ManifestPath] /\ GgufFound(s, i)
      BY <2>1, <2>2, <2>3, Discovered DEF GgufInv
    <3>2. After({"plan_gguf"}, s, i + 1) => After({"plan_gguf"}, s, i)
      BY <2>1, <2>2 DEF After
    <3>3. path = GgufPlans[disk[ManifestPath]].value.runtime_config
      BY <3>1 DEF PlannedGguf, LlamaModelPlan
    <3>4. LlamaSound(path)
      <4> HIDE DEF path
      <4> QED BY <2>3, Zenon DEF LlamaSound, ReadOptional, ReadAt
    <3> HIDE DEF path
    <3> QED BY <3>1, <3>2, <3>3, <3>4 DEF GgufFound, GgufConfigFound
  <2> HIDE DEF fine
  <2> QED BY <1>1, <2>1, <2>3, DecideMoves DEF GgufMoves
<1>14. CASE ConfigureDylib(c) \/ InitRuntime(c) \/ SpawnLoads(c) \/ LoadPast(c) \/ Open(c)
  <2>1. At(c, {"configure", "init_runtime", "spawn_loads", "load_past", "open"})
    BY <1>14, Zenon DEF ConfigureDylib, InitRuntime, SpawnLoads, LoadPast, Open, At
  <2>2. \/ \E fine, locally, status : Decide(c, fine, locally, status)
        \/ (\E locally : Advance(c, locally)) /\ UNCHANGED <<disk, command, calm>>
    BY <1>14, Zenon DEF ConfigureDylib, InitRuntime, SpawnLoads, LoadPast, Open
  <2> QED BY <1>3, <1>4, <1>5, <2>1, <2>2 DEF GgufSteps
<1>15. CASE JoinLoads(c)
  <2>1. At(c, {"join_loads"})
    BY <1>15 DEF JoinLoads
  <2>2. \/ \E fine, locally, status : Decide(c, fine, locally, status)
        \/ (\E locally : Advance(c, locally)) /\ UNCHANGED <<disk, command, calm>>
        \/ JumpTo(c, "open", work[c]) /\ UNCHANGED <<disk, command, calm>>
    BY <1>15, Zenon DEF JoinLoads
  <2>3. Has(s, "open")
    BY <1>4, <2>1, Here, LoadsInOrder
  <2> QED BY <1>1, <1>3, <1>4, <1>5, <2>1, <2>2, <2>3 DEF GgufSteps, GgufMoves
<1>16. CASE Translate(c)
  <2>1. At(c, {"translate"})
    BY <1>16 DEF Translate
  <2>2. /\ \/ \E locally : Advance(c, locally)
           \/ \E locally : JumpTo(c, "close", locally)
        /\ UNCHANGED <<disk, command, calm>>
    BY <1>16, Zenon DEF Translate
  <2>3. Has(s, "close")
    BY <1>4, <2>1, Here DEF WellFormed
  <2> QED BY <1>1, <1>3, <1>4, <2>1, <2>2, <2>3 DEF GgufSteps, GgufMoves
<1>17. CASE Close(c)
  <2>1. At(c, {"close"})
    BY <1>17 DEF Close
  <2>2. /\ Advance(c, work[c]) \/ Leave(c, work[c].translation)
        /\ UNCHANGED <<disk, command, calm>>
    BY <1>17, Zenon DEF Close
  <2> QED BY <1>1, <1>3, <1>4, <2>1, <2>2, AdvanceMoves DEF GgufSteps, GgufMoves
<1> QED BY <1>6, <1>7, <1>8, <1>9, <1>10, <1>11, <1>12, <1>13, <1>14, <1>15, <1>16, <1>17
        DEF CallerStep

LEMMA NextGguf == IInv /\ PackInv /\ GgufInv /\ [Next]_vars => GgufInv'
<1> SUFFICES ASSUME IInv, PackInv, GgufInv, [Next]_vars PROVE GgufInv'
  OBVIOUS
<1>1. ASSUME UNCHANGED <<disk, command, control, calm>> PROVE GgufInv'
  BY <1>1 DEF GgufInv, GgufFound, GgufPlanFound, GgufConfigFound, LlamaSound, Steps, control
<1>2. ASSUME NEW c \in Callers, CallerStep(c) PROVE GgufInv'
  BY <1>2, GgufStepKeeps
<1>3. ASSUME NEW c \in Callers, LoadThread(c) PROVE GgufInv'
  BY <1>1, <1>3 DEF LoadThread, LoadSession
<1>4. CASE Installer
  <2>1. PICK install \in Installs : InstallerWrites(install[1], install[2])
    BY <1>4 DEF Installer
  <2>2. ASSUME NEW c \in Callers, outcome'[c] = "running", calm'[c]
        PROVE  GgufFound(Steps(c), pos[c])'
    <3>1. /\ outcome[c] = "running" /\ calm[c] /\ ~ Begun(c)
          /\ UNCHANGED <<command, section, pos>>
      BY <2>1, <2>2 DEF InstallerWrites, control, process
    <3>2. pos'[c] = 1
      BY <3>1, NotBegun
    <3>3. ASSUME NEW t PROVE GgufFound(t, 1)'
      BY NothingYet DEF GgufFound
    <3> QED BY <3>2, <3>3
  <2> QED BY <2>2 DEF GgufInv
<1>5. CASE UNCHANGED vars
  BY <1>1, <1>5 DEF vars, process
<1> QED BY <1>2, <1>3, <1>4, <1>5 DEF Next, Finished

(* Whatever the installer does and however the calls interleave: a caller  *)
(* that is past the plan or past the config of a llama.cpp pack, on a disk *)
(* nobody touched, has a pack there that can be planned and whose config   *)
(* is usable (LlamaModelPlan, LlamaRuntimeConfig::from_json_file).         *)
THEOREM GgufInvariance == Spec => []GgufInv
<1>1. Init => GgufInv
  BY NothingYet DEF Init, GgufInv, GgufFound
<1>2. IInv /\ PackInv /\ GgufInv /\ [Next]_vars => GgufInv'
  BY NextGguf
<1> QED BY <1>1, <1>2, PackInvariance, PTL DEF Spec

----------------------------------------------------------------------------
(* What an opened handle was made of was made in its section, from the     *)
(* locals it still has.                                                    *)
LEMMA OpenedHas ==
  ASSUME IInv, PackInv, NEW c \in Callers, opened[c]
  PROVE  LET s == Steps(c)
             i == pos[c] IN
         /\ outcome[c] = "running" /\ Knows(c, s, i, work[c], session[c], opened[c], runtime)
         /\ session[c] \in [OrtRole -> SessionStates]
         /\ DOMAIN s = 1 .. Len(s) /\ Len(s) \in Nat /\ i \in DOMAIN s /\ Ordered(s)
         /\ WellFormed(s)
         /\ \A step : Has(s, step) /\ step \notin WithHandle \cup {"open"} =>
              After({step}, s, i)
         /\ \A step, j : j \in DOMAIN s /\ j < i /\ After({step}, s, j) => Since(step, s, i)
         /\ \A step : After({step}, s, i) => Since(step, s, i)
         /\ Has(s, "join_loads") => After({"load_past"}, s, i)
<1> DEFINE s == Steps(c)
           i == pos[c]
<1>1. outcome[c] = "running"
  BY DEF IInv, HeldInv, CallerInv, Free
<1>2. /\ Knows(c, s, i, work[c], session[c], opened[c], runtime)
      /\ session[c] \in [OrtRole -> SessionStates]
      /\ DOMAIN s = 1 .. Len(s) /\ Len(s) \in Nat /\ i \in DOMAIN s /\ Ordered(s)
      /\ WellFormed(s)
  BY <1>1, Here
<1>3. After({"open"}, s, i)
  BY <1>2 DEF Knows, Holds
<1> HIDE DEF s, i
<1>4. PICK h \in 1 .. i - 1 : s[h] = "open"
  BY <1>3 DEF After
<1>5. h \in DOMAIN s /\ Has(s, "open")
  BY <1>2, <1>4 DEF Has
<1>6. Only(WithHandle, s, h)
  <2>1. s[h] \in {"open", "translate"} => Only(WithHandle, s, h)
    BY <1>2, <1>5, Zenon DEF Ordered
  <2> QED BY <1>4, <2>1
<1>7. ASSUME NEW step, Has(s, step), step \notin WithHandle \cup {"open"}
      PROVE  After({step}, s, i)
  <2>1. PICK k \in DOMAIN s : s[k] = step
    BY <1>7 DEF Has
  <2>2. k < h
    BY <1>2, <1>4, <1>6, <1>7, <2>1 DEF Only
  <2> QED BY <1>2, <1>4, <2>1, <2>2 DEF After
<1>8. \A step : After({step}, s, i) => Since(step, s, i)
  BY <1>2, <1>5, NothingMeasured
<1>9. \A step, j : j \in DOMAIN s /\ j < i /\ After({step}, s, j) => After({step}, s, i)
  BY <1>2 DEF After
<1>10. Has(s, "join_loads") => After({"load_past"}, s, i)
  <2> SUFFICES ASSUME Has(s, "join_loads") PROVE After({"load_past"}, s, i)
    OBVIOUS
  <2>1. PICK j \in DOMAIN s : s[j] = "join_loads"
    BY DEF Has
  <2>2. After({"load_past"}, s, h)
    BY <1>2, <1>4, <1>5, <2>1, LoadsInOrder
  <2> QED BY <1>2, <1>4, <2>2 DEF After
<1> QED BY <1>1, <1>2, <1>7, <1>8, <1>9, <1>10 DEF s, i

(* A file of an intact pack is the one its manifest lists.                 *)
LEMMA IntactIsHeld ==
  ASSUME PackIntact, NEW path, Listed(disk[ManifestPath], path), path # None
  PROVE  Held(path, disk[path])
<1> DEFINE manifest == Manifests[disk[ManifestPath]].value
<1>1. PICK k \in DOMAIN manifest.files : manifest.files[k].path = path
  BY DEF Listed, FilesOn
<1>2. disk[path] # Absent /\ DigestOf[disk[path]] = manifest.files[k].sha256
  BY <1>1 DEF PackIntact, Intact
<1> QED BY <1>1, <1>2 DEF Held

LEMMA OpenedRuns ==
  ASSUME IInv, PackInv, NEW c \in Callers, opened[c], Runs(c, "join_loads")
  PROVE  /\ runtime # None
         /\ UsableGeneration(work[c].generation) /\ UsableIo(work[c].io)
         /\ \A role \in OrtRole :
              session[c][role].state =
                IF role = "DecoderWithPast" /\ ~ HasPast(c) THEN "none" ELSE "loaded"
<1> DEFINE s == Steps(c)
           i == pos[c]
<1>1. /\ outcome[c] = "running" /\ Knows(c, s, i, work[c], session[c], opened[c], runtime)
      /\ DOMAIN s = 1 .. Len(s) /\ Len(s) \in Nat /\ i \in DOMAIN s /\ Ordered(s)
      /\ WellFormed(s)
      /\ \A step : Has(s, step) /\ step \notin WithHandle \cup {"open"} => After({step}, s, i)
      /\ \A step, j : j \in DOMAIN s /\ j < i /\ After({step}, s, j) => Since(step, s, i)
      /\ \A step : After({step}, s, i) => Since(step, s, i)
      /\ Has(s, "join_loads") => After({"load_past"}, s, i)
  BY OpenedHas
<1>2. HasPast(c) <=> HasPastIn(work[c].manifest)
  BY DEF HasPast, HasPastIn, Generator, Planned
<1>3. Has(s, "join_loads") /\ After({"join_loads"}, s, i) /\ After({"load_past"}, s, i)
  BY <1>1 DEF Runs, WithHandle
<1> HIDE DEF s, i
<1>4. PICK j \in 1 .. i - 1 : s[j] = "join_loads"
  BY <1>3 DEF After
<1>5. Since("init_runtime", s, j)
  BY <1>1, <1>4, Needs
<1>6. PICK k \in 1 .. j - 1 : s[k] = "init_runtime"
  BY <1>5 DEF Since
<1>0. j \in DOMAIN s /\ k \in DOMAIN s /\ j < i
  BY <1>1, <1>4, <1>6
<1>7. Since("init_runtime", s, i)
  <2>1. After({"init_runtime"}, s, j)
    BY <1>5, SinceIsAfter
  <2> QED BY <1>0, <1>1, <2>1
<1>8. k > 1 /\ s[k - 1] = "resolve_dylib"
  <2>1. s[k] = "init_runtime" => Previous("resolve_dylib", s, k)
    BY <1>0, <1>1, Zenon DEF Ordered
  <2> QED BY <1>6, <2>1 DEF Previous
<1>9. k - 1 \in DOMAIN s /\ k - 1 < i
  BY <1>1, <1>4, <1>6, <1>8
<1>10. /\ After({"runtime_generation"}, s, k - 1) /\ After({"runtime_io"}, s, k - 1)
  BY <1>1, <1>8, <1>9, Needs, SinceIsAfter
<1>11. Since("runtime_generation", s, i) /\ Since("runtime_io", s, i)
  BY <1>1, <1>9, <1>10
<1>12. GenerationIn(work[c].generation).ok /\ IoIn(work[c].io).ok /\ runtime # None
  BY <1>1, <1>7, <1>11 DEF Knows, Remembers, Prepared
<1>13. /\ session[c]["Encoder"].state = "loaded" /\ session[c]["Decoder"].state = "loaded"
       /\ session[c]["DecoderWithPast"].state = IF HasPast(c) THEN "loaded" ELSE "none"
  BY <1>1, <1>2, <1>3 DEF Knows, Holds
<1> QED BY <1>12, <1>13, GenerationIsUsable, IoIsUsable DEF OrtRole

LEMMA OpenedIsListed ==
  ASSUME IInv, PackInv, NEW c \in Callers, opened[c], calm[c], Runs(c, "verify"), Runs(c, "plan")
  PROVE  \A part \in Parts(c) : Held(part[1], part[2])
<1> DEFINE s == Steps(c)
           i == pos[c]
           w == work[c]
           held == session[c]
           plan == DiskPlan
           g == plan.generator
           manifest == disk[ManifestPath]
<1>1. /\ outcome[c] = "running" /\ Knows(c, s, i, w, held, opened[c], runtime)
      /\ DOMAIN s = 1 .. Len(s) /\ i \in DOMAIN s /\ Ordered(s)
      /\ \A step : Has(s, step) /\ step \notin WithHandle \cup {"open"} => After({step}, s, i)
      /\ \A step : After({step}, s, i) => Since(step, s, i)
      /\ \A step, j : j \in DOMAIN s /\ j < i /\ After({step}, s, j) => Since(step, s, i)
      /\ Len(s) \in Nat
      /\ Has(s, "join_loads") => After({"load_past"}, s, i)
  BY OpenedHas
<1>2. After({"verify"}, s, i) /\ After({"plan"}, s, i)
  BY <1>1 DEF Runs, WithHandle
<1>3. Since("plan", s, i) /\ Since("discover", s, i)
  <2> HIDE DEF s, i
  <2>1. PICK j \in 1 .. i - 1 : s[j] = "plan"
    BY <1>2 DEF After
  <2>2. j \in DOMAIN s /\ j < i
    BY <1>1, <2>1
  <2>3. After({"discover"}, s, j)
    BY <1>1, <2>1, <2>2, Needs, SinceIsAfter
  <2> QED BY <1>1, <1>2, <2>2, <2>3
<1>4. PackIntact /\ Plans[manifest].ok /\ manifest \in Packs /\ Planned(c) = plan
  <2>1. PackIntact /\ Plans[manifest].ok
    BY <1>1, <1>2 DEF Knows, Found
  <2>2. Planned(c) = plan
    BY <1>1, <1>3, PlannedHere
  <2> QED BY <2>1, <2>2 DEF PackIntact
<1>5. LET past == g.decoder_with_past
          tokenizer == plan.tokenizer.tokenizer IN
      /\ Listed(manifest, tokenizer) /\ tokenizer # None
      /\ Listed(manifest, g.encoder.path) /\ g.encoder.path # None
      /\ Listed(manifest, g.decoder.path) /\ g.decoder.path # None
      /\ past # None => Listed(manifest, past.path) /\ past.path # None
      /\ Listed(manifest, g.config) /\ Listed(manifest, g.generation_config)
  BY <1>4, PlanPaths, Zenon DEF DiskPlan, Generator
<1>6. \A path : Listed(manifest, path) /\ path # None => Held(path, disk[path])
  BY <1>4, IntactIsHeld
<1>7. Linked(s, i, w, held)
  BY <1>1 DEF Knows
<1>8. held["DecoderWithPast"].state = "loaded" => g.decoder_with_past # None
  <2>1. CASE After({"load_past"}, s, i)
    <3>1. After({"join_loads"}, s, i)
      <4> HIDE DEF s, i
      <4>1. PICK j \in 1 .. i - 1 : s[j] = "load_past"
        BY <2>1 DEF After
      <4>2. j \in DOMAIN s
        BY <1>1, <4>1
      <4>3. After({"join_loads"}, s, j)
        BY <1>1, <4>1, <4>2, Needs, SinceIsAfter
      <4> QED BY <1>1, <4>1, <4>3 DEF After
    <3>2. w.manifest = manifest
      BY <1>3, <1>7 DEF Linked
    <3> QED BY <1>1, <2>1, <3>1, <3>2 DEF Knows, Holds, HasPastIn, Generator, DiskPlan
  <2>2. CASE ~ After({"load_past"}, s, i)
    BY <1>1, <2>2 DEF Knows, Holds, NoSession
  <2> QED BY <2>1, <2>2
<1>9. ASSUME NEW role \in OrtRole, held[role].state = "loaded"
      PROVE  Held(PathOf(c, role), held[role].graph)
  <2>1. PathOf(c, role) = PathIn(g, role) /\ held[role].graph = disk[PathIn(g, role)]
    BY <1>4, <1>7, <1>9 DEF PathOf, Linked
  <2>2. Listed(manifest, PathIn(g, role)) /\ PathIn(g, role) # None
    BY <1>5, <1>8, <1>9 DEF PathIn, OrtRole
  <2> QED BY <1>6, <2>1, <2>2
<1>10. /\ w.tokenizer # None => Held(Planned(c).tokenizer.tokenizer, w.tokenizer)
       /\ w.generation # None => Held(Planned(c).generator.generation_config, w.generation)
       /\ w.io # None => Held(Planned(c).generator.config, w.io)
  BY <1>4, <1>5, <1>6, <1>7 DEF Linked, ReadAs, ReadOptional, ReadAt
<1> QED BY <1>9, <1>10 DEF Parts

LEMMA OpenedGguf ==
  ASSUME IInv, PackInv, GgufInv, NEW c \in Callers, opened[c], calm[c],
         Runs(c, "verify"), Runs(c, "load_llama")
  PROVE  GgufSound
<1> DEFINE s == Steps(c)
           i == pos[c]
<1>1. /\ outcome[c] = "running" /\ Knows(c, s, i, work[c], session[c], opened[c], runtime)
      /\ DOMAIN s = 1 .. Len(s) /\ Len(s) \in Nat /\ i \in DOMAIN s /\ Ordered(s)
      /\ \A step : Has(s, step) /\ step \notin WithHandle \cup {"open"} => After({step}, s, i)
  BY OpenedHas
<1>2. After({"verify"}, s, i) /\ After({"load_llama"}, s, i)
  BY <1>1 DEF Runs, WithHandle
<1>3. GgufFound(s, i)
  BY <1>1 DEF GgufInv
<1>4. PackIntact
  BY <1>1, <1>2 DEF Knows, Found
<1> HIDE DEF s, i
<1>5. PICK j \in 1 .. i - 1 : s[j] = "load_llama"
  BY <1>2 DEF After
<1>6. j \in DOMAIN s
  BY <1>1, <1>5
<1>7. After({"plan_gguf"}, s, j) /\ After({"gguf_config"}, s, j)
  BY <1>1, <1>5, <1>6, Needs, SinceIsAfter
<1>8. After({"plan_gguf"}, s, i) /\ After({"gguf_config"}, s, i)
  BY <1>1, <1>5, <1>7 DEF After
<1> QED BY <1>3, <1>4, <1>8 DEF GgufFound, GgufPlanFound, GgufConfigFound, GgufSound

(* What the doctor plans for llama.cpp says that it is for llama.cpp.      *)
LEMMA PlanForLlama ==
  ASSUME PackIntact, GgufPlans[disk[ManifestPath]].ok
  PROVE  ForLlama
<1> DEFINE manifest == Manifests[disk[ManifestPath]].value
           checks == << <<manifest.runtime # LLAMA_CPP_RUNTIME, "UnsupportedRuntime">>,
                        <<Missing(manifest, "GgufModel"), "MissingGgufModel">> >>
<1>1. disk[ManifestPath] \in Packs
  BY DEF PackIntact
<1>2. GgufPlans[disk[ManifestPath]] = GgufModelAssetPlan(manifest)
  BY <1>1 DEF Packs, Manifests, GgufPlans, GgufPlanOf
<1>3. \E plan : GgufModelAssetPlan(manifest) = Checked(checks, plan)
  BY Zenon DEF GgufModelAssetPlan
<1>4. 1 \in DOMAIN checks /\ checks[1][1] = (manifest.runtime # LLAMA_CPP_RUNTIME)
  OBVIOUS
<1> HIDE DEF checks
<1>5. Clean(checks)
  BY <1>2, <1>3, CheckedOk, Zenon
<1> QED BY <1>4, <1>5 DEF Clean, ForLlama

----------------------------------------------------------------------------
(* The variables of the callers are functions, and stay so.                *)
Fn(f) == f = [c \in Callers |-> f[c]]
FunctionsInv == Fn(work) /\ Fn(session) /\ Fn(opened) /\ Fn(outcome) /\ Fn(calm)

LEMMA EditIsFunction ==
  ASSUME NEW f, Fn(f), NEW c, NEW e
  PROVE  Fn([f EXCEPT ![c] = e])
BY DEF Fn

LEMMA StepEdits ==
  ASSUME NEW c, FunctionsInv
  PROVE  /\ \A w : Advance(c, w) => Fn(work') /\ Fn(outcome')
         /\ \A step, w : JumpTo(c, step, w) => Fn(work') /\ Fn(outcome')
         /\ \A status : Leave(c, status) => Fn(work') /\ Fn(outcome')
         /\ EndSection(c) => Fn(work') /\ Fn(outcome')
         /\ Drop(c) => Fn(session') /\ Fn(opened')
<1>0. Fn(work) /\ Fn(outcome) /\ Fn(session) /\ Fn(opened)
  BY DEF FunctionsInv
<1>1. EndSection(c) => Fn(work') /\ Fn(outcome')
  <2> SUFFICES ASSUME EndSection(c) PROVE Fn(work') /\ Fn(outcome')
    OBVIOUS
  <2>1. Fn(work')
    BY <1>0 DEF EndSection, Fn
  <2>2. Fn(outcome')
    BY <1>0 DEF EndSection, Fn
  <2> QED BY <2>1, <2>2
<1>2. \A w : Advance(c, w) => Fn(work') /\ Fn(outcome')
  <2> SUFFICES ASSUME NEW w, Advance(c, w), ~ EndSection(c) PROVE Fn(work') /\ Fn(outcome')
    BY <1>1
  <2>1. work' = [work EXCEPT ![c] = w] /\ outcome' = outcome
    BY DEF Advance
  <2> QED BY <1>0, <2>1 DEF Fn
<1>3. \A step, w : JumpTo(c, step, w) => Fn(work') /\ Fn(outcome')
  <2> SUFFICES ASSUME NEW step, NEW w, JumpTo(c, step, w) PROVE Fn(work') /\ Fn(outcome')
    OBVIOUS
  <2>1. work' = [work EXCEPT ![c] = w] /\ outcome' = outcome
    BY DEF JumpTo
  <2> QED BY <1>0, <2>1 DEF Fn
<1>4. \A status : Leave(c, status) => Fn(work') /\ Fn(outcome')
  <2> SUFFICES ASSUME NEW status, Leave(c, status), ~ EndSection(c)
               PROVE  Fn(work') /\ Fn(outcome')
    BY <1>1
  <2>1. work' = [work EXCEPT ![c] = Blank] /\ outcome' = [outcome EXCEPT ![c] = status]
    BY DEF Leave
  <2> QED BY <1>0, <2>1 DEF Fn
<1>5. Drop(c) => Fn(session') /\ Fn(opened')
  <2> SUFFICES ASSUME Drop(c) PROVE Fn(session') /\ Fn(opened')
    OBVIOUS
  <2>1. Fn(session')
    BY <1>0 DEF Drop, Fn
  <2>2. Fn(opened')
    BY <1>0 DEF Drop, Fn
  <2> QED BY <2>1, <2>2
<1> QED BY <1>1, <1>2, <1>3, <1>4, <1>5

LEMMA DecideEdits ==
  ASSUME NEW c, FunctionsInv, NEW fine, NEW w, NEW status, Decide(c, fine, w, status)
  PROVE  FunctionsInv'
<1>1. UNCHANGED calm
  BY DEF Decide
<1>2. CASE Advance(c, w) /\ UNCHANGED <<session, opened>>
  BY <1>1, <1>2, StepEdits DEF FunctionsInv, Fn
<1>3. CASE Leave(c, status) /\ Drop(c)
  BY <1>1, <1>3, StepEdits DEF FunctionsInv, Fn
<1> QED BY <1>2, <1>3 DEF Decide, Fail

LEMMA InitFunctions == Init => FunctionsInv
BY DEF Init, FunctionsInv, Fn

LEMMA NextFunctions == FunctionsInv /\ [Next]_vars => FunctionsInv'
<1> SUFFICES ASSUME FunctionsInv, [Next]_vars PROVE FunctionsInv'
  OBVIOUS
<1>1. ASSUME NEW c \in Callers, CallerStep(c) PROVE FunctionsInv'
  <2>1. CASE \E fine, w, status : Decide(c, fine, w, status)
    BY <2>1, DecideEdits
  <2>2. CASE /\ \/ \E w : Advance(c, w)
                \/ \E step, w : JumpTo(c, step, w)
                \/ \E status : Leave(c, status)
             /\ UNCHANGED calm /\ Fn(session') /\ Fn(opened')
    BY <2>2, StepEdits DEF FunctionsInv, Fn
  <2>3. CASE /\ Fn(work') /\ Fn(outcome')
             /\ UNCHANGED <<session, opened, calm>>
    BY <2>3 DEF FunctionsInv, Fn
  <2>4. CASE ParseArguments(c) \/ Discover(c) \/ VerifyTrusted(c) \/ Plan(c) \/ PlanGguf(c)
             \/ ReadGeneration(c) \/ ReadIo(c) \/ RuntimeGeneration(c) \/ RuntimeIo(c)
             \/ GgufConfig(c) \/ Measure(c) \/ Fill(c) \/ HfGate(c) \/ OrtGate(c)
             \/ LoadTokenizer(c) \/ LoadLlama(c) \/ ResolveDylib(c)
    BY <2>1, <2>4, Zenon
    DEF ParseArguments, Discover, VerifyTrusted, Plan, PlanGguf, ReadGeneration, ReadIo,
        RuntimeGeneration, RuntimeIo, GgufConfig, Measure, Fill, HfGate, OrtGate, LoadTokenizer,
        LoadLlama, ResolveDylib
  <2>5. CASE VerifyFile(c)
    <3>1. \/ \E fine, w, status : Decide(c, fine, w, status)
          \/ \E w : /\ work' = [work EXCEPT ![c] = w]
                    /\ UNCHANGED <<control, session, opened, calm>>
      BY <2>5, Zenon DEF VerifyFile
    <3> QED BY <2>1, <2>3, <3>1, EditIsFunction DEF control, FunctionsInv
  <2>6. CASE RuntimeBranch(c)
    <3>1. \/ \E fine, w, status : Decide(c, fine, w, status)
          \/ /\ outcome' = [outcome EXCEPT ![c] = "ok"] /\ work' = [work EXCEPT ![c] = Blank]
             /\ UNCHANGED <<session, opened, calm>>
      BY <2>6, Zenon DEF RuntimeBranch
    <3> QED BY <2>1, <2>3, <3>1, EditIsFunction DEF FunctionsInv
  <2>7. CASE ConfigureDylib(c) \/ InitRuntime(c) \/ JoinLoads(c)
    <3>1. \/ \E fine, w, status : Decide(c, fine, w, status)
          \/ /\ (\E w : Advance(c, w)) \/ (\E step, w : JumpTo(c, step, w))
             /\ UNCHANGED <<session, opened, calm>>
      BY <2>7, Zenon DEF ConfigureDylib, InitRuntime, JoinLoads
    <3> QED BY <2>1, <2>2, <3>1 DEF FunctionsInv, Fn
  <2>8. CASE SpawnLoads(c)
    <3>1. Fn(session')
      BY <2>8 DEF SpawnLoads, FunctionsInv, Fn
    <3> QED BY <2>2, <2>8, <3>1 DEF SpawnLoads, FunctionsInv, Fn
  <2>9. CASE LoadPast(c)
    <3>1. CASE ~ Decide(c, FALSE, work[c], "ORT_ERROR")
      <4>1. Fn(session')
        BY <2>9, <3>1 DEF LoadPast, FunctionsInv, Fn
      <4> QED BY <2>2, <2>9, <3>1, <4>1 DEF LoadPast, FunctionsInv, Fn
    <3> QED BY <2>1, <3>1
  <2>10. CASE Open(c)
    <3>1. Fn(opened')
      BY <2>10, EditIsFunction DEF Open, FunctionsInv
    <3> QED BY <2>2, <2>10, <3>1 DEF Open, FunctionsInv, Fn
  <2>11. CASE Translate(c)
    <3>1. /\ (\E w : Advance(c, w)) \/ (\E step, w : JumpTo(c, step, w))
          /\ UNCHANGED <<session, opened, calm>>
      BY <2>11, Zenon DEF Translate
    <3> QED BY <2>2, <3>1 DEF FunctionsInv, Fn
  <2>12. CASE Close(c)
    <3>1. Fn(session') /\ Fn(opened')
      BY <2>12, StepEdits DEF Close
    <3>2. (\E w : Advance(c, w)) \/ (\E status : Leave(c, status))
      BY <2>12, Zenon DEF Close
    <3> QED BY <2>2, <2>12, <3>1, <3>2 DEF Close
  <2> QED BY <1>1, <2>4, <2>5, <2>6, <2>7, <2>8, <2>9, <2>10, <2>11, <2>12 DEF CallerStep
<1>2. ASSUME NEW c \in Callers, NEW role \in OrtRole, LoadSession(c, role) PROVE FunctionsInv'
  <2>1. PICK loaded : session' = [session EXCEPT ![c][role] = loaded]
    BY <1>2 DEF LoadSession
  <2> QED BY <1>2, <2>1 DEF LoadSession, control, FunctionsInv, Fn
<1>3. CASE Installer
  BY <1>3 DEF Installer, InstallerWrites, control, locals, FunctionsInv, Fn
<1>4. CASE UNCHANGED vars
  BY <1>4 DEF vars, control, locals, FunctionsInv, Fn
<1> QED BY <1>1, <1>2, <1>3, <1>4 DEF Next, LoadThread, Finished

(* Every variable has its type, and the step a caller is at is one of its  *)
(* program: no path a script takes runs past its end.                      *)
THEOREM TypeCorrect == Spec => []TypeOK
<1>1. Spec => []FunctionsInv
  BY InitFunctions, NextFunctions, PTL DEF Spec
<1>2. IInv /\ PackInv /\ FunctionsInv => TypeOK
  <2> SUFFICES ASSUME IInv, PackInv, FunctionsInv PROVE TypeOK
    OBVIOUS
  <2>1. \A c \in Callers :
          /\ command[c].program # Idle => InProgram(c)
          /\ work[c] \in Locals /\ session[c] \in [OrtRole -> SessionStates]
          /\ outcome[c] \in {"running", "ok"} \cup Status /\ calm[c] \in BOOLEAN
          /\ opened[c] \in BOOLEAN
    BY DEF PackInv, CallerKnows, Typed, IInv, HeldInv, ShapeInv
  <2>2. work \in [Callers -> Locals]
    BY <2>1 DEF FunctionsInv, Fn
  <2>3. session \in [Callers -> [OrtRole -> SessionStates]]
    BY <2>1 DEF FunctionsInv, Fn
  <2>4. opened \in [Callers -> BOOLEAN] /\ calm \in [Callers -> BOOLEAN]
    BY <2>1 DEF FunctionsInv, Fn
  <2>5. outcome \in [Callers -> {"running", "ok"} \cup Status]
    BY <2>1 DEF FunctionsInv, Fn
  <2>6. \A c \in Callers : command[c].program # Idle =>
          section[c] \in DOMAIN command[c].program /\ pos[c] \in DOMAIN Steps(c)
    BY <2>1 DEF InProgram
  <2>7. DiskInv
    BY DEF PackInv
  <2> QED BY <2>2, <2>3, <2>4, <2>5, <2>6, <2>7 DEF TypeOK, DiskInv
<1> QED BY <1>1, <1>2, PackInvariance, PTL

(* A handle is handed out only whole, whatever the installer does and      *)
(* however the calls interleave: its configs passed their checks, its      *)
(* sessions run on an initialised runtime, and when nothing was written    *)
(* meanwhile every file in it is one the manifest lists, and the pack of a *)
(* llama.cpp handle is whole, its runtime config included                  *)
(* (OfflineTranslator::open_verified, OrtTokenGenerator::load,             *)
(* LlamaTranslator::load).                                                 *)
THEOREM WholeWhenOpened == Spec => []OpenedIsWhole
<1>1. IInv /\ PackInv /\ GgufInv => OpenedIsWhole
  <2> SUFFICES ASSUME IInv, PackInv, GgufInv, NEW c \in Callers, opened[c]
               PROVE  /\ Runs(c, "load_tokenizer") => work[c].tokenizer \in TokenizerFiles
                      /\ Runs(c, "join_loads") =>
                           /\ runtime # None
                           /\ UsableGeneration(work[c].generation) /\ UsableIo(work[c].io)
                           /\ \A role \in OrtRole :
                                session[c][role].state =
                                  IF role = "DecoderWithPast" /\ ~ HasPast(c)
                                  THEN "none" ELSE "loaded"
                      /\ calm[c] /\ Runs(c, "verify") /\ Runs(c, "plan") =>
                           \A part \in Parts(c) : Held(part[1], part[2])
                      /\ calm[c] /\ Runs(c, "verify") /\ Runs(c, "load_llama") => GgufSound
    BY Zenon DEF OpenedIsWhole
  <2>1. Runs(c, "load_tokenizer") => work[c].tokenizer \in TokenizerFiles
    BY OpenedHas DEF Runs, WithHandle, Knows, Remembers
  <2> QED BY <2>1, OpenedRuns, OpenedIsListed, OpenedGguf
<1> QED BY <1>1, PackInvariance, GgufInvariance, PTL

(* A doctor that answers ok on a disk nobody touched has verified the pack,*)
(* and if the pack is one of ONNX graphs, every call it stands for accepts *)
(* it, as far as the build can tell (model_doctor of the command line).    *)
(* Of a pack for llama.cpp it promises no open.                            *)
THEOREM DoctorIsRight == Spec => []DoctorAgrees
<1>1. IInv /\ PackInv => DoctorAgrees
  <2> SUFFICES ASSUME IInv, PackInv, NEW c \in Callers, calm[c],
                      command[c].program = Doctor, outcome[c] = "ok"
               PROVE  /\ PackIntact
                      /\ ~ ForLlama =>
                           /\ AssetsSound(build.ort)
                           /\ build.hf => TokenizerSound
                           /\ build.ort /\ env \in DylibFiles => GraphsSound
    BY Zenon DEF DoctorAgrees
  <2>1. Agrees /\ build.ort \in BOOLEAN
    BY DEF PackInv, DiskInv, CallerKnows, Doctors
  <2>2. PackIntact
    BY <2>1 DEF Agrees, ConfigsFound, AssetsSound
  <2>3. ASSUME ~ ForLlama PROVE ConfigsFound /\ TokenizerFound /\ RuntimeFound
    BY <2>1, <2>2, <2>3, PlanForLlama DEF Agrees
  <2>4. CASE build.ort = TRUE
    BY <2>2, <2>3, <2>4 DEF TokenizerFound, RuntimeFound
  <2>5. CASE build.ort = FALSE
    BY <2>2, <2>3, <2>5 DEF ConfigsFound, TokenizerFound
  <2> QED BY <2>1, <2>4, <2>5
<1> QED BY <1>1, PackInvariance, PTL

(* A status names its cause: on a disk nobody touched the pack, the        *)
(* feature, the path of the runtime or the buffer is blamed only when it   *)
(* is at fault (ffi_status of the C ABI).                                  *)
THEOREM StatusesNameCauses == Spec => []StatusNamesCause
<1>1. IInv /\ PackInv => StatusNamesCause
  <2> SUFFICES ASSUME IInv, PackInv, NEW c \in Callers, calm[c] PROVE Causes(c, outcome[c])
    BY DEF StatusNamesCause, Causes
  <2> QED BY DEF PackInv, CallerKnows
<1> QED BY <1>1, PackInvariance, PTL

----------------------------------------------------------------------------
(* The laws of the parts that only compute, for any inputs a run may be    *)
(* given.                                                                  *)

(* Whatever generation.json holds, the checks accept it if and only if its *)
(* limit is in range and its seven tokens are seven.                       *)
THEOREM ConfigsAreJudged == Spec => []ConfigAcceptedIffUsable
<1>1. \A raw \in RawGenerations : raw \in RawGenerationConfig
  BY PureAssumption
<1>2. ConfigAcceptedIffUsable
  BY <1>1, DataAssumption, AcceptedIffUsable DEF ConfigAcceptedIffUsable
<1> QED BY <1>2, PTL

(* Whatever tensor the runtime returns, the token selected is the first of *)
(* the highest scores of the last position, or there is none.              *)
THEOREM TokenIsFirstMaximum == Spec => []NextTokenIsFirstMaximum
<1>1. ASSUME NEW output \in Outputs PROVE SelectsFirstMaximum(output)
  <2>1. PICK shape, values : output = [shape |-> shape, values |-> values]
    <3>1. output = [shape |-> output.shape, values |-> output.values]
      BY PureAssumption
    <3> QED BY <3>1
  <2>2. shape \in Seq(Nat) /\ values \in Seq(Int \cup {NonFinite}) /\ Len(values) <= USIZE_MAX
    BY <2>1, PureAssumption
  <2> QED BY <2>1, <2>2, PureAssumption, FirstMaximumSelected
<1>2. NextTokenIsFirstMaximum
  BY <1>1 DEF NextTokenIsFirstMaximum
<1> QED BY <1>2, PTL

(* Whatever text crosses the JNI adapter, in either direction and of any   *)
(* length, it is refused or unchanged.                                     *)
THEOREM TextIsUnchanged == Spec => []TextSurvives
<1>1. TextSurvives
  BY PureAssumption, EveryJavaStringSurvives, EveryByteStringSurvives DEF TextSurvives
<1> QED BY <1>1, PTL

(* Whatever arguments write-manifest is given and whatever directory it is *)
(* run in, the manifest it writes is one that the code accepts and plans,  *)
(* with exactly the files that are there.                                  *)
THEOREM ManifestsOpen == Spec => []ManifestWriterAgrees
<1>1. ASSUME NEW names \in ManifestNames, NEW directory \in Directories
      PROVE  WrittenManifestOpens(names, directory)
  BY PureAssumption, EveryManifestOpens
<1>2. ManifestWriterAgrees
  BY <1>1 DEF ManifestWriterAgrees
<1> QED BY <1>2, PTL
==============================================================================
