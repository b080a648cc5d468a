--------------------------- MODULE ManifestWriter ---------------------------
(***************************************************************************)
(* localmt model write-manifest (localmt-cli): the manifest of a directory *)
(* with the standard layout.  The directory maps the paths that are files  *)
(* to their digests.                                                       *)
(***************************************************************************)
EXTENDS AssetPlans

Standard(path, role, required) == [path |-> path, role |-> role, required |-> required]
STANDARD_MODEL_FILES ==
  << Standard(<<"encoder.onnx">>, "Encoder", TRUE),
     Standard(<<"decoder.onnx">>, "Decoder", TRUE),
     Standard(<<"tokenizer.json">>, "Tokenizer", TRUE),
     Standard(<<"decoder-with-past.onnx">>, "DecoderWithPast", FALSE),
     Standard(<<"vocab.txt">>, "Vocabulary", FALSE),
     Standard(<<"config.json">>, "Config", FALSE),
     Standard(<<"generation.json">>, "GenerationConfig", FALSE) >>
StandardPaths == {STANDARD_MODEL_FILES[i].path : i \in DOMAIN STANDARD_MODEL_FILES}

(* Mutant of DefaultModelLanguages: the language added last is forgotten.  *)
DefaultModelLanguagesBefore == <<"English", "Russian", "Thai", "Vietnamese">>

DefaultModelLanguages == <<"English", "Russian", "Thai", "Vietnamese", "Japanese">>

(* The files that are there, in the standard order; a required one that is *)
(* not refuses the rest.                                                   *)
StandardFileChecks(directory) ==
  [i \in DOMAIN STANDARD_MODEL_FILES |->
     <<STANDARD_MODEL_FILES[i].required /\ STANDARD_MODEL_FILES[i].path \notin DOMAIN directory,
       "MissingStandardModelFile">>]
StandardModelFile(directory, item) ==
  IF item.path \notin DOMAIN directory THEN << >>
  ELSE << [path |-> item.path, role |-> item.role, sha256 |-> directory[item.path]] >>
StandardModelFiles(directory) ==
  LET File(i) == StandardModelFile(directory, STANDARD_MODEL_FILES[i])
  IN Checked(StandardFileChecks(directory),
             File(1) \o File(2) \o File(3) \o File(4) \o File(5) \o File(6) \o File(7))

(* The arguments are checked before the directory is looked at.            *)
WriteManifest(names, directory) ==
  LET files == StandardModelFiles(directory) IN
  IF Fails(NameChecks(names)) # {} THEN Checked(NameChecks(names), names)
  ELSE IF ~ files.ok THEN files
  ELSE NewCurrent(names, DefaultModelLanguages, files.value)

----------------------------------------------------------------------------
Present(directory, path) == IF path \in DOMAIN directory THEN path ELSE None
PlanNames(plan, directory) ==
  /\ plan.tokenizer = [tokenizer |-> <<"tokenizer.json">>,
                       vocabulary |-> Present(directory, <<"vocab.txt">>),
                       config |-> Present(directory, <<"config.json">>)]
  /\ plan.generator.encoder.path = <<"encoder.onnx">>
  /\ plan.generator.decoder.path = <<"decoder.onnx">>
  /\ plan.generator.generation_config = Present(directory, <<"generation.json">>)
  /\ IF <<"decoder-with-past.onnx">> \in DOMAIN directory
     THEN plan.generator.decoder_with_past.path = <<"decoder-with-past.onnx">>
     ELSE plan.generator.decoder_with_past = None

(* A manifest is written if and only if the three required files are there *)
(* and no argument is blank.  What is written is read back as it was, names*)
(* every language a pack must have, and a pack for the ONNX runtime is     *)
(* planned with exactly the files that are there.                          *)
WrittenManifestOpens(names, directory) ==
  LET written == WriteManifest(names, directory)
      plan == OfflineTranslatorPlan(written.value)
  IN /\ written.ok <=> /\ {<<"encoder.onnx">>, <<"decoder.onnx">>, <<"tokenizer.json">>}
                          \subseteq DOMAIN directory
                       /\ \A i \in DOMAIN NAMES : names[NAMES[i]] # None
     /\ written.ok =>
          /\ FromRaw(ToRaw(written.value)) = written
          /\ ~ MissingRequiredLanguage(written.value)
          /\ names.runtime = ONNX_RUNTIME => plan.ok /\ PlanNames(plan.value, directory)
=============================================================================
