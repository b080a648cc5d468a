----------------------------- MODULE PureParts -----------------------------
(***************************************************************************)
(* Laws of the parts that only compute, over inputs given as constants.    *)
(* They hold in every state; a run evaluates them in the one where no      *)
(* command was asked for.                                                  *)
(***************************************************************************)
EXTENDS OfflineOpen, OrtTensors, ManifestWriter, JniUtf

CONSTANTS
  RawGenerations,  \* generation.json files
  Outputs,         \* logits tensors
  JavaStrings,     \* what a JNI caller passes
  ByteStrings,     \* what the C ABI returns
  ManifestNames,   \* the arguments of write-manifest
  Directories      \* the model directories it is run in

ASSUME PureAssumption ==
  /\ USIZE_MAX \in Nat /\ NonFinite \notin Int
  /\ RawGenerations \subseteq RawGenerationConfig
  /\ Outputs \subseteq [shape : Seq(Nat), values : Seq(Int \cup {NonFinite})]
  /\ \A output \in Outputs : Len(output.values) <= USIZE_MAX
  /\ JavaStrings \subseteq Seq(Unit) /\ ByteStrings \subseteq Seq(Byte)
  /\ None \notin StandardPaths
  /\ \A directory \in Directories :
       \A path \in DOMAIN directory : ~ InvalidSha256(directory[path])

Resting == \A c \in Callers : command[c].program = Idle

(* A generation config is accepted if and only if its limit is in range and*)
(* its seven tokens are seven: no order of the checks hides a collision.   *)
ConfigAcceptedIffUsable ==
  Resting => \A raw \in RawGenerations : TryIntoConfig(raw).ok <=> Usable(raw)

(* The next token is the first of the highest scores of the last position, *)
(* or the tensor is refused.                                               *)
NextTokenIsFirstMaximum == Resting => \A output \in Outputs : SelectsFirstMaximum(output)

(* Text is the same on both sides of the JNI adapter, or it is refused: no *)
(* string is changed on its way to the engine and back.                    *)
TextSurvives ==
  Resting => /\ \A units \in JavaStrings : JavaStringSurvives(units)
             /\ \A bytes \in ByteStrings : BytesSurvive(bytes)

(* The manifest the command line writes for a directory is one that the    *)
(* code accepts and plans, for the languages it says and the files it has. *)
ManifestWriterAgrees ==
  Resting => \A names \in ManifestNames, directory \in Directories :
               WrittenManifestOpens(names, directory)
=============================================================================
