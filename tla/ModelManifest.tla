--------------------------- MODULE ModelManifest ---------------------------
(***************************************************************************)
(* The manifest of a model pack (localmt-models): what ModelPack::discover *)
(* makes of the JSON on disk, what the manifest writer of the command line *)
(* serialises, and which file a role names.                                *)
(*                                                                         *)
(* A name is None when trim() leaves nothing of it.  A path is its         *)
(* sequence of std::path components, a digest its sequence of characters.  *)
(***************************************************************************)
EXTENDS CoreTypes, Integers

SCHEMA_VERSION == 0

(* ModelFileRole, with its spelling in the manifest.                       *)
RoleName ==
  [Encoder |-> "encoder", Decoder |-> "decoder", DecoderWithPast |-> "decoder_with_past",
   Tokenizer |-> "tokenizer", Vocabulary |-> "vocab", Config |-> "config",
   GenerationConfig |-> "generation_config", GgufModel |-> "gguf_model",
   ChatTemplate |-> "chat_template", LlamaRuntimeConfig |-> "llama_runtime_config"]
ModelFileRole == DOMAIN RoleName
RoleNamed(name) == CHOOSE role \in ModelFileRole : RoleName[role] = name

IsNormal(component) == component \notin {"/", ".", ".."}
InvalidRelativePath(path) == path = <<>> \/ \E i \in DOMAIN path : ~ IsNormal(path[i])

LowerHex == {"0", "1", "2", "3", "4", "5", "6", "7", "8", "9",
             "a", "b", "c", "d", "e", "f"}
HEX == <<"0", "1", "2", "3", "4", "5", "6", "7", "8", "9", "a", "b", "c", "d", "e", "f">>
InvalidSha256(digest) == Len(digest) # 64 \/ \E i \in DOMAIN digest : digest[i] \notin LowerHex

(* sha256_bytes_to_hex: the high half of each byte, then the low half.     *)
Sha256BytesToHex(bytes) ==
  [i \in 1 .. 2 * Len(bytes) |->
     LET byte == bytes[(i + 1) \div 2] IN
     HEX[IF i % 2 = 1 THEN 1 + (byte \div 16) ELSE 1 + (byte % 16)]]

----------------------------------------------------------------------------
(* The first element of a sequence that occurred before it.                *)
Repeats(s) == {i \in DOMAIN s : \E j \in 1 .. i - 1 : s[j] = s[i]}

LanguageCodeChecks(codes) ==
  [i \in DOMAIN codes |-> <<~ FromIso639_1(codes[i]).ok, "InvalidLanguage">>]
DistinctLanguagesChecks(languages) == << <<Repeats(languages) # {}, "DuplicateLanguage">> >>

ParseFileChecks(file) ==
  << <<InvalidRelativePath(file.path), "InvalidRelativePath">>,
     <<\A role \in ModelFileRole : RoleName[role] # file.kind, "UnsupportedFileRole">>,
     <<InvalidSha256(file.sha256), "InvalidSha256">> >>

(* Every file is parsed, in order, before the list as a whole is judged.   *)
FileChecks(files) ==
  [i \in 1 .. 3 * Len(files) |-> ParseFileChecks(files[1 + (i - 1) \div 3])[1 + ((i - 1) % 3)]]
ValidFilesChecks(kinds) ==
  << <<kinds = <<>>, "EmptyFileList">>, <<Repeats(kinds) # {}, "DuplicateFileRole">> >>

(* The string newtypes: a name may not be blank.                           *)
NAMES == <<"model_id", "version", "architecture", "runtime", "license">>
NameChecks(record) == [i \in DOMAIN NAMES |-> <<record[NAMES[i]] = None, "EmptyField">>]

----------------------------------------------------------------------------
Codes(languages) == [i \in DOMAIN languages |-> Iso639_1[languages[i]]]
RawFile(file) == [path |-> file.path, kind |-> RoleName[file.role], sha256 |-> file.sha256]
ParsedFile(raw) == [path |-> raw.path, role |-> RoleNamed(raw.kind), sha256 |-> raw.sha256]
Roles(files) == [i \in DOMAIN files |-> files[i].role]
Kinds(files) == [i \in DOMAIN files |-> files[i].kind]

(* ModelManifest::from_raw.                                                *)
FromRaw(raw) ==
  Checked(<< <<raw.schema_version # SCHEMA_VERSION, "UnsupportedSchema">> >>
          \o LanguageCodeChecks(raw.languages) \o DistinctLanguagesChecks(raw.languages)
          \o FileChecks(raw.files) \o ValidFilesChecks(Kinds(raw.files)) \o NameChecks(raw),
          [raw EXCEPT !.languages = [i \in DOMAIN raw.languages |->
                                       FromIso639_1(raw.languages[i]).value],
                      !.files = [i \in DOMAIN raw.files |-> ParsedFile(raw.files[i])]])

(* ModelManifest::new_current takes parts that are valid one by one.       *)
NewCurrent(names, languages, files) ==
  Checked(DistinctLanguagesChecks(languages) \o ValidFilesChecks(Roles(files)),
          [schema_version |-> SCHEMA_VERSION, model_id |-> names.model_id,
           version |-> names.version, architecture |-> names.architecture,
           runtime |-> names.runtime, license |-> names.license,
           languages |-> languages, files |-> files])

(* to_json_string_pretty, as serde reads it back.                          *)
ToRaw(manifest) ==
  [manifest EXCEPT !.languages = Codes(@), !.files = [i \in DOMAIN @ |-> RawFile(@[i])]]

----------------------------------------------------------------------------
REQUIRED_LANGUAGES == LanguageOrder
Supports(manifest, language) ==
  \E i \in DOMAIN manifest.languages : manifest.languages[i] = language
MissingRequiredLanguage(manifest) ==
  \E i \in DOMAIN REQUIRED_LANGUAGES : ~ Supports(manifest, REQUIRED_LANGUAGES[i])

(* ModelPack::file_path: the first file of the role, None without one.     *)
FilesOf(manifest, role) == {i \in DOMAIN manifest.files : manifest.files[i].role = role}
FilePath(manifest, role) ==
  IF FilesOf(manifest, role) = {} THEN None
  ELSE manifest.files[CHOOSE i \in FilesOf(manifest, role) :
                        \A j \in FilesOf(manifest, role) : i <= j].path
============================================================================
