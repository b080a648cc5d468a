---------------------------- MODULE OfflineOpen ----------------------------
(***************************************************************************)
(* From a model pack on disk to a translator: discovery, verification,     *)
(* planning, the config files, the tokenizer, the ONNX Runtime and its     *)
(* sessions, in the order in which the facade, the C ABI and the command   *)
(* line go about it (CallScripts), each file access a step of its own.     *)
(* Several commands run at once in a process, on one runtime; an installer *)
(* may rewrite the pack under them.                                        *)
(*                                                                         *)
(* The disk maps a path to a content, and the constants say what a content *)
(* is when it is read as a manifest, as a config, as a tokenizer or as a   *)
(* graph, and its digest.  Trusted verification is ModelPackTrust's, and   *)
(* llama.cpp's load is LlamaBackend's: here they may pass or fail.         *)
(***************************************************************************)
EXTENDS AssetPlans, GenerationConfig, OrtIoConfig, LlamaRuntimeConfig, CallScripts,
        FiniteSets

CONSTANTS
  Callers,          \* threads of the process, each with one command
  ManifestPath,     \* manifest.json
  ModelPath,        \* the other paths of the pack directory
  Content, Absent,  \* what a path may hold; there is no file
  DigestOf,         \* its SHA-256
  RawManifests,     \* the contents that parse as a RawManifest, and their values
  GenerationFiles,  \* as RawGenerationConfig
  IoFiles,          \* as the envelope of the ort_io object
  LlamaFiles,       \* as RawLlamaRuntimeConfig
  TokenizerFiles,   \* the contents a tokenizer can be loaded from
  Graphs,           \* the contents a session can be created from
  Dylibs,           \* paths an application may name as the ONNX Runtime
  DylibFiles,       \* those that are absolute and point to a file
  Installs,         \* bound: the writes an installer may do, pairs of path and content
  Scenarios         \* what may be run, on which disk, in which build

Path == {ManifestPath} \cup ModelPath
Disks == [Path -> Content \cup {Absent}]

ASSUME OpenAssumption ==
  /\ ManifestPath \notin ModelPath
  /\ Absent \notin Content /\ None \notin Content /\ None \notin Dylibs
  /\ DOMAIN RawManifests \subseteq Content /\ DOMAIN GenerationFiles \subseteq Content
  /\ DOMAIN IoFiles \subseteq Content /\ DOMAIN LlamaFiles \subseteq Content
  /\ TokenizerFiles \subseteq Content /\ Graphs \subseteq Content
  /\ DylibFiles \subseteq Dylibs

(* Scripts that can be left anywhere with nothing held: whoever acquires   *)
(* ends with a close, the load threads are joined at once, and no early end*)
(* of the doctor (runtime_branch) follows an acquisition.                  *)
Acquiring == {"spawn_loads", "load_past", "open"}
After(done, steps, i) == \E j \in 1 .. i - 1 : steps[j] \in done
Has(steps, step) == \E i \in DOMAIN steps : steps[i] = step
WellFormed(steps) ==
  \A i \in DOMAIN steps :
    /\ steps[i] \in Acquiring => steps[Len(steps)] = "close"
    /\ steps[i] = "spawn_loads" => i < Len(steps) /\ steps[i + 1] = "join_loads"
    /\ steps[i] = "join_loads" => Has(steps, "open")
    /\ steps[i] = "translate" => Has(steps, "close")
    /\ steps[i] = "close" => After({"open"}, steps, i)
    /\ steps[i] = "open" /\ Has(steps, "join_loads") => After({"spawn_loads"}, steps, i)
    /\ steps[i] = "runtime_branch" => ~ After(Acquiring, steps, i)

ASSUME ScriptsAssumption ==
  \A s \in Scenarios :
    /\ DOMAIN s.command = Callers
    /\ \A c \in Callers :
         /\ s.command[c].program \in
              Seq([steps : Seq(STRING) \ {<<>>}, tolerated : SUBSET STRING])
         /\ \A i \in DOMAIN s.command[c].program : WellFormed(s.command[c].program[i].steps)

(* Scripts whose steps find what they use: made in this section, and since *)
(* the measure that blanks the locals.                                     *)
Since(done, steps, i) ==
  \E j \in 1 .. i - 1 : steps[j] = done /\ \A k \in j .. i - 1 : steps[k] # "measure"
Uses(some, made, steps, i) ==
  steps[i] \in some => \A done \in made : Since(done, steps, i)
Previous(step, steps, i) == i > 1 /\ steps[i - 1] = step
Only(some, steps, i) == \A k \in i + 1 .. Len(steps) : steps[k] \in some

GenerationReads == {"read_generation", "runtime_generation", "strict_generation"}
IoReads == {"read_io", "runtime_io", "strict_io"}
AfterJoin == {"resolve_dylib", "init_runtime", "load_past"}
WithHandle == {"translate", "close"}
Ordered(steps) ==
  \A i \in DOMAIN steps :
    /\ Uses({"verify", "verify_trusted", "plan", "plan_gguf", "measure", "fill"}, {"discover"},
            steps, i)
    /\ Uses({"runtime_branch"}, {"discover", "verify"}, steps, i)
    /\ Uses(GenerationReads \cup IoReads, {"discover", "plan"}, steps, i)
    /\ Uses({"gguf_config", "load_llama"}, {"discover", "plan_gguf"}, steps, i)
    /\ Uses({"load_llama"}, {"gguf_config"}, steps, i)
    /\ Uses({"load_tokenizer"}, {"discover", "plan", "hf_gate"}, steps, i)
    /\ Uses({"configure"}, {"ort_gate"}, steps, i)
    /\ Uses({"resolve_dylib"}, {"ort_gate", "runtime_generation", "runtime_io"}, steps, i)
    /\ Uses({"spawn_loads", "join_loads"}, {"discover", "plan", "init_runtime"}, steps, i)
    /\ Uses({"load_past"}, {"discover", "plan", "join_loads"}, steps, i)
    /\ steps[i] = "discover" => i = 1 \/ Previous("measure", steps, i)
    /\ steps[i] = "verify" => Previous("discover", steps, i)
    /\ steps[i] = "init_runtime" => Previous("resolve_dylib", steps, i)
    /\ steps[i] \in {"read_generation", "read_io"} =>
         ~ After({"runtime_generation", "runtime_io"}, steps, i)
    /\ steps[i] \in {"join_loads", "load_past", "open"} => ~ After({steps[i]}, steps, i)
    /\ steps[i] = "join_loads" =>
         Has(steps, "load_past") /\ Only(AfterJoin \cup {"open"} \cup WithHandle, steps, i)
    /\ steps[i] \in {"open", "translate"} => Only(WithHandle, steps, i)
    /\ steps[i] \in {"close", "configure"} => i = Len(steps)
    /\ steps[i] = "measure" => ~ Has(steps, "open")
    /\ steps[i] = "fill" =>
         /\ After({"measure"}, steps, i)
         /\ \A m \in DOMAIN steps : steps[m] = "measure" =>
              \A done \in GenerationReads \cup IoReads :
                Since(done, steps, i) <=> Since(done, steps, m)

(* The sections of a program as a whole.                                   *)
Calls(program, some) ==
  \E i \in DOMAIN program : \E step \in some : Has(program[i].steps, step)
InOrder(program) ==
  /\ \A i \in DOMAIN program :
       /\ Ordered(program[i].steps)
       /\ Has(program[i].steps, "load_llama") => ReadinessStatus \subseteq program[i].tolerated
  /\ Calls(program, {"plan_gguf"}) => ~ Calls(program, {"plan", "runtime_branch"})
  /\ Calls(program, {"strict_io"}) => Calls(program, {"strict_generation"})

ASSUME OrderAssumption ==
  \A program \in {s.command[c].program : s \in Scenarios, c \in Callers} : InOrder(program)

(* What the disk and the files on it may hold, and what may be run on it.  *)
SerdeManifest ==
  [schema_version : Nat, model_id : STRING \cup {None}, version : STRING \cup {None},
   architecture : STRING \cup {None}, runtime : STRING \cup {None},
   license : STRING \cup {None}, languages : Seq(STRING),
   files : Seq([path : Path, kind : STRING, sha256 : Seq(STRING)])]
ASSUME DataAssumption ==
  /\ None \notin Nat /\ None \notin Path /\ None # Absent
  /\ \A content \in DOMAIN RawManifests : RawManifests[content] \in SerdeManifest
  /\ \A content \in DOMAIN GenerationFiles : GenerationFiles[content] \in RawGenerationConfig
  /\ Installs \subseteq Path \X (Content \cup {Absent})
  /\ \A s \in Scenarios :
       /\ s.disk \in Disks /\ s.writes \in Nat
       /\ s.build \in [hf : BOOLEAN, ort : BOOLEAN] /\ s.env \in Dylibs \cup {None}

VARIABLES
  disk,      \* the pack directory
  writes,    \* bound: writes the installer has left
  build,     \* the cargo features the process was built with
  env,       \* ORT_DYLIB_PATH
  override,  \* ORT_DYLIB_PATH_OVERRIDE, a OnceLock
  runtime,   \* the library ONNX Runtime was first initialised from
  command,   \* the sections each caller runs, and the path it configures
  section,   \* which one it is in
  pos,       \* the step of the section it does next
  work,      \* the locals of the call
  session,   \* the sessions of the call, of each role
  opened,    \* its handle is out
  outcome,   \* "running", "ok" or the status the command failed with
  calm,      \* history: nothing was written from the command's beginning to now
  early      \* history: the path configured before any library was resolved

process == <<build, env, override, runtime, early>>
control == <<section, pos, outcome>>
locals == <<work, session, opened>>
vars == <<disk, writes, process, command, control, locals, calm>>

----------------------------------------------------------------------------
(* The program and its locals.                                             *)
Steps(c) == command[c].program[section[c]].steps
Tolerated(c) == command[c].program[section[c]].tolerated
At(c, steps) == outcome[c] = "running" /\ Steps(c)[pos[c]] \in steps

(* What each read of a file returned; None is not read, or not planned.    *)
Blank == [manifest |-> None, files |-> 0, generation |-> None, io |-> None,
          tokenizer |-> None, dylib |-> None, translation |-> "ok", measured |-> None]

OrtRole == {"Encoder", "Decoder", "DecoderWithPast"}
NoSession == [state |-> "none", graph |-> None]
NoSessions == [role \in OrtRole |-> NoSession]
Loading == [state |-> "loading", graph |-> None]

ReadAt(path) == disk[path]
FileAs(content, files) ==
  IF content = Absent THEN Err([kind |-> "ReadFile"])
  ELSE IF content \notin DOMAIN files THEN Err([kind |-> "ParseJson"])
  ELSE Ok(files[content])

GenerationIn(content) == FromJsonFile(FileAs(content, GenerationFiles))
IoIn(content) == IoFromJsonFile(FileAs(content, IoFiles))
LlamaConfigIn(content) ==
  LlamaFromJsonFile(IF content = None THEN None ELSE FileAs(content, LlamaFiles))

(* Manifests and plans are functions of the manifest's content; only what  *)
(* discovery accepts is planned.                                           *)
Manifests == [content \in DOMAIN RawManifests |-> FromRaw(RawManifests[content])]
Packs == {content \in DOMAIN RawManifests : FromRaw(RawManifests[content]).ok}
PlanOf(manifest) == IF manifest.ok THEN OfflineTranslatorPlan(manifest.value) ELSE manifest
GgufPlanOf(manifest) == IF manifest.ok THEN GgufModelAssetPlan(manifest.value) ELSE manifest
Plans == [content \in DOMAIN RawManifests |-> PlanOf(FromRaw(RawManifests[content]))]
GgufPlans == [content \in DOMAIN RawManifests |-> GgufPlanOf(FromRaw(RawManifests[content]))]

Pack(c) == Manifests[work[c].manifest].value
Planned(c) == Plans[work[c].manifest].value
PlannedGguf(c) == LlamaModelPlan(GgufPlans[work[c].manifest].value)

----------------------------------------------------------------------------
(* Moving through the script.  The locals die with the section.            *)
EndSection(c) ==
  /\ work' = [work EXCEPT ![c] = Blank]
  /\ pos' = [pos EXCEPT ![c] = 1]
  /\ IF section[c] < Len(command[c].program)
     THEN section' = [section EXCEPT ![c] = @ + 1] /\ UNCHANGED outcome
     ELSE outcome' = [outcome EXCEPT ![c] = "ok"] /\ UNCHANGED section

(* Mutant of Advance: one step past the last one.                          *)
AdvanceTooFar(c, locally) ==
  /\ pos' = [pos EXCEPT ![c] = @ + 1]
  /\ work' = [work EXCEPT ![c] = locally]
  /\ UNCHANGED <<section, outcome>>

Advance(c, locally) ==
  IF pos[c] = Len(Steps(c)) THEN EndSection(c)
  ELSE /\ pos' = [pos EXCEPT ![c] = @ + 1]
       /\ work' = [work EXCEPT ![c] = locally]
       /\ UNCHANGED <<section, outcome>>

JumpTo(c, step, locally) ==
  /\ pos' = [pos EXCEPT ![c] = CHOOSE i \in DOMAIN Steps(c) : Steps(c)[i] = step]
  /\ work' = [work EXCEPT ![c] = locally]
  /\ UNCHANGED <<section, outcome>>

(* An early return drops everything the call holds, but stops no thread.   *)
Drop(c) ==
  /\ session' = [session EXCEPT ![c] =
                   [role \in OrtRole |-> IF session[c][role] = Loading THEN Loading ELSE NoSession]]
  /\ opened' = [opened EXCEPT ![c] = FALSE]
Leave(c, status) ==
  IF status \in Tolerated(c) THEN EndSection(c)
  ELSE /\ outcome' = [outcome EXCEPT ![c] = status]
       /\ work' = [work EXCEPT ![c] = Blank]
       /\ UNCHANGED <<section, pos>>
Fail(c, status) == Leave(c, status) /\ Drop(c)

(* A step that only computes or reads: on with these locals, or out.       *)
Decide(c, fine, locally, status) ==
  /\ \/ fine /\ Advance(c, locally) /\ UNCHANGED <<session, opened>>
     \/ ~ fine /\ Fail(c, status)
  /\ UNCHANGED <<disk, writes, process, command, calm>>

----------------------------------------------------------------------------
(* Command line arguments, or the pointers and the path of an export, may  *)
(* be refused before anything happens.                                     *)
ParseArguments(c) ==
  /\ At(c, {"arguments"})
  /\ \E valid \in BOOLEAN : Decide(c, valid, work[c], "USAGE")

(* ModelPack::discover; what an earlier measure of the same call told stays.*)
Discover(c) ==
  /\ At(c, {"discover"})
  /\ LET content == ReadAt(ManifestPath) IN
     Decide(c, content \in Packs,
            [Blank EXCEPT !.manifest = content, !.measured = work[c].measured],
            "MODEL_PACK_ERROR")

(* ModelPack::verify: the languages, then file by file.                    *)
VerifyFile(c) ==
  /\ At(c, {"verify"})
  /\ LET files == Pack(c).files
         next == work[c].files + 1
         content == ReadAt(files[next].path)
         locally == [work[c] EXCEPT !.files = next]
     IN IF MissingRequiredLanguage(Pack(c)) \/ content = Absent
           \/ DigestOf[content] # files[next].sha256
        THEN Decide(c, FALSE, locally, "MODEL_PACK_ERROR")
        ELSE IF next = Len(files) THEN Decide(c, TRUE, locally, "MODEL_PACK_ERROR")
        ELSE /\ work' = [work EXCEPT ![c] = locally]
             /\ UNCHANGED <<disk, writes, process, command, control, session, opened, calm>>

(* ModelPack::verify_trusted, in one step: no file without metadata passes.*)
VerifyTrusted(c) ==
  /\ At(c, {"verify_trusted"})
  /\ \E trusted \in BOOLEAN :
       /\ trusted => /\ ~ MissingRequiredLanguage(Pack(c))
                     /\ \A i \in DOMAIN Pack(c).files : ReadAt(Pack(c).files[i].path) # Absent
       /\ Decide(c, trusted, work[c], "MODEL_PACK_ERROR")

(* The doctor is done with a GGUF pack once it is planned.                 *)
RuntimeBranch(c) ==
  /\ At(c, {"runtime_branch"})
  /\ IF Pack(c).runtime # LLAMA_CPP_RUNTIME THEN Decide(c, TRUE, work[c], "MODEL_PACK_ERROR")
     ELSE IF GgufPlans[work[c].manifest].ok
     THEN /\ outcome' = [outcome EXCEPT ![c] = "ok"]
          /\ work' = [work EXCEPT ![c] = Blank]
          /\ UNCHANGED <<disk, writes, process, command, section, pos, session, opened, calm>>
     ELSE Decide(c, FALSE, work[c], "MODEL_PACK_ERROR")

Plan(c) ==
  /\ At(c, {"plan"})
  /\ Decide(c, Plans[work[c].manifest].ok, work[c], "MODEL_PACK_ERROR")

PlanGguf(c) ==
  /\ At(c, {"plan_gguf"})
  /\ Decide(c, GgufPlans[work[c].manifest].ok, work[c], "MODEL_PACK_ERROR")

----------------------------------------------------------------------------
(* The config files of the assets: both are optional there.                *)
ReadOptional(path) == IF path = None THEN None ELSE ReadAt(path)

ReadGeneration(c) ==
  /\ At(c, {"read_generation"})
  /\ LET content == ReadOptional(Planned(c).generator.generation_config) IN
     Decide(c, content = None \/ GenerationIn(content).ok,
            [work[c] EXCEPT !.generation = content], "MODEL_PACK_ERROR")

(* Absent, Missing and Parsed are fine; any other error of the file is not.*)
MissingOrtIo(content) == ~ IoIn(content).ok /\ IoIn(content).error.kind = "MissingOrtIoConfig"
(* Mutant of ReadIo: a config file without the ort_io object is refused.   *)
ReadIoStrict(c) ==
  /\ At(c, {"read_io"})
  /\ LET content == ReadOptional(Planned(c).generator.config) IN
     Decide(c, content = None \/ IoIn(content).ok,
            [work[c] EXCEPT !.io = content], "MODEL_PACK_ERROR")

ReadIo(c) ==
  /\ At(c, {"read_io"})
  /\ LET content == ReadOptional(Planned(c).generator.config) IN
     Decide(c, content = None \/ MissingOrtIo(content) \/ IoIn(content).ok,
            [work[c] EXCEPT !.io = content], "MODEL_PACK_ERROR")

(* OrtGeneratorPlan::parse_runtime_config reads both again and wants both. *)
StrictStatus(c) ==
  IF At(c, {"strict_generation", "strict_io"}) THEN "MODEL_PACK_ERROR" ELSE "ORT_ERROR"

RuntimeGeneration(c) ==
  /\ At(c, {"runtime_generation", "strict_generation"})
  /\ LET content == ReadOptional(Planned(c).generator.generation_config) IN
     Decide(c, content # None /\ GenerationIn(content).ok,
            [work[c] EXCEPT !.generation = content], StrictStatus(c))

RuntimeIo(c) ==
  /\ At(c, {"runtime_io", "strict_io"})
  /\ LET content == ReadOptional(Planned(c).generator.config) IN
     Decide(c, content # None /\ IoIn(content).ok,
            [work[c] EXCEPT !.io = content], StrictStatus(c))

(* Mutant of GgufConfig: like the doctor, it leaves the config unread.     *)
GgufConfigUnread(c) ==
  At(c, {"gguf_config"}) /\ Decide(c, TRUE, work[c], "MODEL_PACK_ERROR")

GgufConfig(c) ==
  /\ At(c, {"gguf_config"})
  /\ LET content == ReadOptional(PlannedGguf(c).runtime_config) IN
     Decide(c, LlamaConfigIn(content).ok, work[c], "MODEL_PACK_ERROR")

(* The two halves of ffi_bytes: a summary that has changed since it was    *)
(* measured may have outgrown the buffer.                                  *)
Summary(c) == <<work[c].manifest, work[c].generation, work[c].io>>
Measure(c) ==
  /\ At(c, {"measure"})
  /\ Decide(c, TRUE, [Blank EXCEPT !.measured = Summary(c)], "ok")
Fill(c) ==
  /\ At(c, {"fill"})
  /\ \E fits \in BOOLEAN :
       /\ Summary(c) = work[c].measured => fits
       /\ Decide(c, fits, work[c], "BUFFER_TOO_SMALL")

----------------------------------------------------------------------------
HfGate(c) == At(c, {"hf_gate"}) /\ Decide(c, build.hf, work[c], "TOKENIZER_DISABLED")
OrtGate(c) == At(c, {"ort_gate"}) /\ Decide(c, build.ort, work[c], "RUNTIME_DISABLED")

(* HfTokenizer::from_file on the path of the plan.                         *)
LoadTokenizer(c) ==
  /\ At(c, {"load_tokenizer"})
  /\ LET content == ReadAt(Planned(c).tokenizer.tokenizer) IN
     Decide(c, content \in TokenizerFiles,
            [work[c] EXCEPT !.tokenizer = content], "TOKENIZER_ERROR")

(* LlamaTranslator::load, after the checks LlamaBackend does not see.      *)
LoadLlama(c) ==
  /\ At(c, {"load_llama"})
  /\ \E status \in {"ok", "MODEL_PACK_ERROR"} \cup ReadinessStatus :
       Decide(c, status = "ok", work[c], status)

(* configure_ort_dylib_path: validated, then set once; the same path again *)
(* is fine.                                                                *)
Unresolved == runtime = None /\ \A c \in Callers : work[c].dylib = None
ConfigureDylib(c) ==
  /\ At(c, {"configure"})
  /\ LET path == command[c].dylib IN
     IF path \in DylibFiles /\ override \in {None, path}
     THEN /\ override' = path
          /\ early' = IF override = None /\ Unresolved THEN path ELSE early
          /\ Advance(c, work[c])
          /\ UNCHANGED <<disk, writes, build, env, runtime, command, session, opened, calm>>
     ELSE Decide(c, FALSE, work[c], "RUNTIME_NOT_CONFIGURED")

----------------------------------------------------------------------------
(* Mutant of DylibPath: the environment goes before the override.          *)
DylibPathEnvFirst == IF env \in DylibFiles THEN env ELSE override

(* prepare_ort_runtime: which library, then the library.  The override was *)
(* validated when it was set, the environment is validated now.            *)
DylibPath ==
  IF override # None THEN override ELSE IF env \in DylibFiles THEN env ELSE None
ResolveDylib(c) ==
  /\ At(c, {"resolve_dylib"})
  /\ Decide(c, DylibPath # None, [work[c] EXCEPT !.dylib = DylibPath],
            "RUNTIME_NOT_CONFIGURED")

(* Mutant of InitRuntime: a library that does not load is tried again.     *)
InitRuntimeRetrying(c) ==
  /\ At(c, {"init_runtime"})
  /\ \/ /\ runtime' = IF runtime = None THEN work[c].dylib ELSE runtime
        /\ Advance(c, [work[c] EXCEPT !.dylib = None])
     \/ /\ JumpTo(c, "resolve_dylib", [work[c] EXCEPT !.dylib = None])
        /\ UNCHANGED runtime
  /\ UNCHANGED <<disk, writes, build, env, override, early, command, session, opened, calm>>

(* ort::init_from and commit, whose answer is ignored: what was initialised*)
(* first stays.  The library may fail to load.                             *)
InitRuntime(c) ==
  /\ At(c, {"init_runtime"})
  /\ \/ /\ runtime' = IF runtime = None THEN work[c].dylib ELSE runtime
        /\ Advance(c, [work[c] EXCEPT !.dylib = None])
        /\ UNCHANGED <<disk, writes, build, env, override, early, command, session, opened, calm>>
     \/ Decide(c, FALSE, work[c], "ORT_ERROR")

(* load_required_generator_sessions: two scoped threads.                   *)
SpawnLoads(c) ==
  /\ At(c, {"spawn_loads"})
  /\ session' = [session EXCEPT ![c]["Encoder"] = Loading, ![c]["Decoder"] = Loading]
  /\ Advance(c, work[c])
  /\ UNCHANGED <<disk, writes, process, command, opened, calm>>

PathIn(generator, role) ==
  CASE role = "Encoder" -> generator.encoder.path
    [] role = "Decoder" -> generator.decoder.path
    [] OTHER -> generator.decoder_with_past.path
PathOf(c, role) == PathIn(Planned(c).generator, role)

(* One thread: a session on the file as it is now, an error or a panic.    *)
LoadSession(c, role) ==
  /\ session[c][role] = Loading
  /\ LET content == ReadAt(PathOf(c, role)) IN
     \/ /\ content \in Graphs
        /\ session' = [session EXCEPT ![c][role] = [state |-> "loaded", graph |-> content]]
     \/ \E state \in {"failed", "panicked"} :
          session' = [session EXCEPT ![c][role] = [state |-> state, graph |-> None]]
  /\ UNCHANGED <<disk, writes, process, command, control, work, opened, calm>>

(* Both threads are joined before either result is looked at.              *)
HasPast(c) == Planned(c).generator.decoder_with_past # None
(* Mutant of JoinLoads: only the encoder's result is looked at.            *)
JoinLoadsEncoderOnly(c) ==
  /\ At(c, {"join_loads"})
  /\ \A role \in {"Encoder", "Decoder"} : session[c][role] # Loading
  /\ IF session[c]["Encoder"].state # "loaded"
     THEN Decide(c, FALSE, work[c], "ORT_ERROR")
     ELSE /\ IF Planned(c).generator.decoder_with_past # None
             THEN Advance(c, work[c]) ELSE JumpTo(c, "open", work[c])
          /\ UNCHANGED <<disk, writes, process, command, session, opened, calm>>

(* Mutant of JoinLoads: an error of the encoder returns before the decoder *)
(* is joined.                                                              *)
JoinLoadsInOrder(c) ==
  /\ At(c, {"join_loads"}) /\ session[c]["Encoder"] # Loading
  /\ \/ /\ session[c]["Encoder"].state # "loaded"
        /\ Decide(c, FALSE, work[c], "ORT_ERROR")
     \/ /\ session[c]["Encoder"].state = "loaded" /\ session[c]["Decoder"] # Loading
        /\ IF session[c]["Decoder"].state # "loaded"
           THEN Decide(c, FALSE, work[c], "ORT_ERROR")
           ELSE /\ IF Planned(c).generator.decoder_with_past # None
                   THEN Advance(c, work[c]) ELSE JumpTo(c, "open", work[c])
                /\ UNCHANGED <<disk, writes, process, command, session, opened, calm>>

JoinLoads(c) ==
  /\ At(c, {"join_loads"})
  /\ \A role \in {"Encoder", "Decoder"} : session[c][role] # Loading
  /\ IF \E role \in {"Encoder", "Decoder"} : session[c][role].state # "loaded"
     THEN Decide(c, FALSE, work[c], "ORT_ERROR")
     ELSE /\ IF HasPast(c) THEN Advance(c, work[c]) ELSE JumpTo(c, "open", work[c])
          /\ UNCHANGED <<disk, writes, process, command, session, opened, calm>>

(* OrtEngine::load on the caller's own thread.                             *)
LoadPast(c) ==
  /\ At(c, {"load_past"})
  /\ LET content == ReadAt(PathOf(c, "DecoderWithPast")) IN
     \/ /\ content \in Graphs
        /\ session' = [session EXCEPT ![c]["DecoderWithPast"] =
                         [state |-> "loaded", graph |-> content]]
        /\ Advance(c, work[c])
        /\ UNCHANGED <<disk, writes, process, command, opened, calm>>
     \/ Decide(c, FALSE, work[c], "ORT_ERROR")

----------------------------------------------------------------------------
(* Box::into_raw, and the out pointer.                                     *)
Open(c) ==
  /\ At(c, {"open"})
  /\ opened' = [opened EXCEPT ![c] = TRUE]
  /\ Advance(c, work[c])
  /\ UNCHANGED <<disk, writes, process, command, session, calm>>

(* A translation may fail; what it answered is looked at after the close,  *)
(* and no further run is made.                                             *)
TranslationStatus == {"TRANSLATION_ERROR", "BUFFER_TOO_SMALL", "TEXT_ERROR", "INVALID_PAIR"}
Translate(c) ==
  /\ At(c, {"translate"})
  /\ \/ Advance(c, work[c])
     \/ \E status \in TranslationStatus :
          JumpTo(c, "close", [work[c] EXCEPT !.translation = status])
  /\ UNCHANGED <<disk, writes, process, command, session, opened, calm>>

Close(c) ==
  /\ At(c, {"close"})
  /\ Drop(c)
  /\ IF work[c].translation = "ok" THEN Advance(c, work[c]) ELSE Leave(c, work[c].translation)
  /\ UNCHANGED <<disk, writes, process, command, calm>>

----------------------------------------------------------------------------
(* The installer writes, replaces or deletes one file.                     *)
Begun(c) == section[c] > 1 \/ pos[c] > 1
InstallerWrites(path, content) ==
  /\ writes > 0 /\ content # disk[path]
  /\ writes' = writes - 1
  /\ disk' = [disk EXCEPT ![path] = content]
  /\ calm' = [c \in Callers |-> calm[c] /\ outcome[c] = "running" /\ ~ Begun(c)]
  /\ UNCHANGED <<process, command, control, locals>>

CallerStep(c) ==
  \/ ParseArguments(c)
  \/ Discover(c) \/ VerifyFile(c) \/ VerifyTrusted(c)
  \/ RuntimeBranch(c) \/ Plan(c) \/ PlanGguf(c)
  \/ ReadGeneration(c) \/ ReadIo(c) \/ RuntimeGeneration(c) \/ RuntimeIo(c) \/ GgufConfig(c)
  \/ Measure(c) \/ Fill(c)
  \/ HfGate(c) \/ OrtGate(c) \/ LoadTokenizer(c) \/ LoadLlama(c) \/ ConfigureDylib(c)
  \/ ResolveDylib(c) \/ InitRuntime(c) \/ SpawnLoads(c) \/ JoinLoads(c) \/ LoadPast(c)
  \/ Open(c) \/ Translate(c) \/ Close(c)
LoadThread(c) == \E role \in OrtRole : LoadSession(c, role)
Installer == \E install \in Installs : InstallerWrites(install[1], install[2])

Init ==
  /\ \E s \in Scenarios :
       disk = s.disk /\ writes = s.writes /\ build = s.build /\ env = s.env /\ command = s.command
  /\ override = None /\ runtime = None /\ early = None
  /\ section = [c \in Callers |-> 1] /\ pos = [c \in Callers |-> 1]
  /\ work = [c \in Callers |-> Blank]
  /\ session = [c \in Callers |-> NoSessions]
  /\ opened = [c \in Callers |-> FALSE]
  /\ outcome = [c \in Callers |-> IF command[c].program = Idle THEN "ok" ELSE "running"]
  /\ calm = [c \in Callers |-> TRUE]

(* The process is done, or waits for the next command.                     *)
Finished == (\A c \in Callers : outcome[c] # "running") /\ UNCHANGED vars

Next == (\E c \in Callers : CallerStep(c) \/ LoadThread(c)) \/ Installer \/ Finished

(* As long as a thread can run, one does; the installer need never write.  *)
Running == \E c \in Callers : CallerStep(c) \/ LoadThread(c)
Spec == Init /\ [][Next]_vars /\ WF_vars(Running)
----------------------------------------------------------------------------
(* What the disk would answer if nothing were written any more.            *)
Held(path, content) ==
  /\ content # Absent
  /\ \E i \in DOMAIN Manifests[disk[ManifestPath]].value.files :
       LET file == Manifests[disk[ManifestPath]].value.files[i] IN
       file.path = path /\ file.sha256 = DigestOf[content]
Intact(manifest) ==
  /\ ~ MissingRequiredLanguage(manifest)
  /\ \A i \in DOMAIN manifest.files :
       LET file == manifest.files[i] IN
       disk[file.path] # Absent /\ DigestOf[disk[file.path]] = file.sha256
PackIntact == disk[ManifestPath] \in Packs /\ Intact(Manifests[disk[ManifestPath]].value)

DiskPlan == Plans[disk[ManifestPath]].value
GenerationSound(path, wanted) ==
  IF path = None THEN ~ wanted ELSE GenerationIn(disk[path]).ok
IoSound(path, wanted) ==
  IF path = None THEN ~ wanted
  ELSE IoIn(disk[path]).ok \/ (~ wanted /\ MissingOrtIo(disk[path]))
ConfigsSound(generator, wanted) ==
  GenerationSound(generator.generation_config, wanted) /\ IoSound(generator.config, wanted)
AssetsSound(strict) ==
  PackIntact /\ Plans[disk[ManifestPath]].ok /\ ConfigsSound(DiskPlan.generator, strict)
TokenizerSound == disk[DiskPlan.tokenizer.tokenizer] \in TokenizerFiles
GraphsOf(generator) ==
  {disk[plan.path] : plan \in {generator.encoder, generator.decoder}
                              \cup ({generator.decoder_with_past} \ {None})}
GraphsSound == GraphsOf(DiskPlan.generator) \subseteq Graphs
LlamaSound(path) == path = None \/ LlamaConfigIn(disk[path]).ok
GgufSound ==
  /\ PackIntact /\ GgufPlans[disk[ManifestPath]].ok
  /\ LlamaSound(GgufPlans[disk[ManifestPath]].value.runtime_config)

Runs(c, step) == Has(Steps(c), step)
MayRun(c, some) == Calls(command[c].program, some)

----------------------------------------------------------------------------
(* Types.  The step a caller is at is one of its program.                  *)
SessionStates ==
  {NoSession, Loading} \cup [state : {"loaded"}, graph : Graphs]
  \cup [state : {"failed", "panicked"}, graph : {None}]
Status ==
  {"USAGE", "MODEL_PACK_ERROR", "TOKENIZER_ERROR", "TOKENIZER_DISABLED", "RUNTIME_DISABLED",
   "RUNTIME_NOT_CONFIGURED", "ORT_ERROR"} \cup TranslationStatus
ReadContent == Content \cup {None, Absent}
Locals ==
  [manifest : ReadContent, files : Nat, generation : ReadContent, io : ReadContent,
   tokenizer : ReadContent, dylib : Dylibs \cup {None},
   translation : {"ok"} \cup TranslationStatus,
   measured : {None} \cup (ReadContent \X ReadContent \X ReadContent)]

TypeOK ==
  /\ disk \in Disks /\ writes \in Nat
  /\ build \in [hf : BOOLEAN, ort : BOOLEAN]
  /\ {env, override, runtime, early} \subseteq Dylibs \cup {None}
  /\ DOMAIN command = Callers
  /\ \A c \in Callers : command[c].program # Idle =>
       section[c] \in DOMAIN command[c].program /\ pos[c] \in DOMAIN Steps(c)
  /\ work \in [Callers -> Locals]
  /\ session \in [Callers -> [OrtRole -> SessionStates]]
  /\ opened \in [Callers -> BOOLEAN]
  /\ outcome \in [Callers -> {"running", "ok"} \cup Status]
  /\ calm \in [Callers -> BOOLEAN]

(* A handle is handed out only whole, whatever the installer does: the     *)
(* limit and the seven ids of its config are usable, its tensors are named,*)
(* both required sessions run, the past decoder runs if and only if the    *)
(* pack has one, on an initialised runtime; and when nothing was written   *)
(* meanwhile, every file it was made of is the one the manifest lists, and *)
(* a llama.cpp pack is intact, planned and its runtime config, if it has   *)
(* one, is usable: a doctor has not read that config (DoctorAgrees), so it *)
(* is the open that must refuse the pack.                                  *)
UsableGeneration(content) ==
  content \in DOMAIN GenerationFiles /\ Usable(GenerationFiles[content])
UsableIo(content) ==
  /\ content \in DOMAIN IoFiles
  /\ IoFiles[content].ort_io # None
  /\ \A i \in DOMAIN DecoderFields :
       IoFiles[content].ort_io.decoder[DecoderFields[i]].trimmed # None
Parts(c) ==
  {<<PathOf(c, role), session[c][role].graph>> :
      role \in {r \in OrtRole : session[c][r].state = "loaded"}}
  \cup {part \in {<<Planned(c).tokenizer.tokenizer, work[c].tokenizer>>,
                  <<Planned(c).generator.generation_config, work[c].generation>>,
                  <<Planned(c).generator.config, work[c].io>>} : part[2] # None}
OpenedIsWhole ==
  \A c \in Callers : opened[c] =>
    /\ Runs(c, "load_tokenizer") => work[c].tokenizer \in TokenizerFiles
    /\ Runs(c, "join_loads") =>
         /\ runtime # None
         /\ UsableGeneration(work[c].generation) /\ UsableIo(work[c].io)
         /\ \A role \in OrtRole :
              session[c][role].state =
                IF role = "DecoderWithPast" /\ ~ HasPast(c) THEN "none" ELSE "loaded"
    /\ calm[c] /\ Runs(c, "verify") /\ Runs(c, "plan") =>
         \A part \in Parts(c) : Held(part[1], part[2])
    /\ calm[c] /\ Runs(c, "verify") /\ Runs(c, "load_llama") => GgufSound

(* Whatever fails, and wherever: between calls and after the command no    *)
(* session is left and no handle is open, and no load thread outlives the  *)
(* call that spawned it.                                                   *)
NothingLeaks ==
  \A c \in Callers :
    /\ outcome[c] # "running" \/ pos[c] = 1 => session[c] = NoSessions /\ ~ opened[c]
    /\ \A role \in OrtRole : session[c][role] = Loading => At(c, {"join_loads"})

(* A doctor that answers ok on a disk nobody touched has verified the pack,*)
(* and a pack of ONNX graphs is one that every call it stands for accepts, *)
(* as far as the build can tell: the assets always, the tokenizer and the  *)
(* strict configs where the features are compiled in, the graphs where a   *)
(* runtime can be resolved.  Of a pack for llama.cpp the doctor plans the  *)
(* assets and reads no runtime config (RuntimeBranch), so its ok promises  *)
(* no open; OpenedIsWhole says what the open itself must then refuse.      *)
ForLlama == Manifests[disk[ManifestPath]].value.runtime = LLAMA_CPP_RUNTIME
DoctorAgrees ==
  \A c \in Callers :
    calm[c] /\ command[c].program = Doctor /\ outcome[c] = "ok" =>
      /\ PackIntact
      /\ ~ ForLlama =>
           /\ AssetsSound(build.ort)
           /\ build.hf => TokenizerSound
           /\ build.ort /\ env \in DylibFiles => GraphsSound

(* A status names its cause: on a disk nobody touched the pack is blamed   *)
(* only if it is at fault, a feature only if it is not compiled in, the    *)
(* path of the runtime only if there was none, and the length of a summary *)
(* never changes between the two calls that fetch it.                      *)
StatusNamesCause ==
  \A c \in Callers : calm[c] =>
    CASE outcome[c] = "MODEL_PACK_ERROR" ->
           \/ MayRun(c, {"verify_trusted", "load_llama"})
           \/ IF MayRun(c, {"plan_gguf"}) THEN ~ GgufSound
              ELSE ~ AssetsSound(MayRun(c, {"strict_generation"}))
      [] outcome[c] = "TOKENIZER_ERROR" -> build.hf /\ ~ TokenizerSound
      [] outcome[c] = "TOKENIZER_DISABLED" -> ~ build.hf
      [] outcome[c] = "RUNTIME_DISABLED" -> ~ build.ort
      [] outcome[c] = "RUNTIME_NOT_CONFIGURED" ->
           build.ort /\ (env \notin DylibFiles \/ MayRun(c, {"configure"}))
      [] outcome[c] = "BUFFER_TOO_SMALL" -> MayRun(c, {"translate"})
      [] OTHER -> TRUE

(* A path configured before any load has looked for a library is the one   *)
(* the process runs on, whatever the environment says.                     *)
EarlyOverrideUsed ==
  early # None => override = early /\ runtime \in {None, early}

(* Every command returns: no load thread is waited for in vain, and no     *)
(* step of one caller waits on another caller.                             *)
EveryCommandReturns == <>(\A c \in Callers : outcome[c] # "running")
============================================================================
