---------------------------- MODULE ModelPackTrust ----------------------------
(***************************************************************************)
(* The life of a model-pack directory, as crates/localmt-models sees it:   *)
(* full verification (hash every declared file), the local trust artifact  *)
(* that remembers a verification by file metadata, and the trusted open    *)
(* that checks metadata in place of the hashes.                            *)
(*                                                                         *)
(* Every file access is a step of its own, so that an installer, other     *)
(* callers and a crash can come between any two of them.  A digest is the  *)
(* content it is computed from (SHA-256 has no collisions here), and the   *)
(* metadata snapshot (byte length and modified time) is one stamp, fresh   *)
(* at every write of a model file.                                         *)
(***************************************************************************)
EXTENDS Integers

CONSTANTS
  Callers,       \* threads or processes that verify, trust or open the pack
  Files,         \* paths a manifest may declare
  Contents,      \* what a model file may hold; its digest tells it apart
  Missing,       \* there is no file at the path
  Manifests,     \* manifests that parse
  Declared,      \* Declared[m]: the digest m declares for each file it lists
  Supported,     \* manifests that list all the required languages
  NoManifest,    \* manifest.json is absent, or does not parse
  NoTrust, EmptyTrust, GarbledTrust,  \* artifacts that are not a trust record
  QuietInstall,  \* no install or update while a trust call runs
  MaxWrites      \* bound: writes of model files by the installer

ASSUME PackAssumption ==
  /\ Missing \notin Contents
  /\ NoManifest \notin Manifests
  /\ Supported \subseteq Manifests
  /\ \A m \in Manifests :
       DOMAIN Declared[m] \subseteq Files /\ DOMAIN Declared[m] # {}
  /\ \A m \in Manifests : Declared[m] \in [DOMAIN Declared[m] -> Contents]
  /\ QuietInstall \in BOOLEAN
  /\ MaxWrites \in Nat

VARIABLES
  manifest,  \* manifest.json on disk
  content,   \* each model file on disk
  stamp,     \* its byte length and modified time
  clock,     \* the stamp of the latest write of a model file
  artifact,  \* .localmt-trust.json on disk
  op,        \* what each caller asked for
  pc,        \* the file access it does next
  pack,      \* the manifest it discovered
  todo,      \* the declared files it has not come to yet
  trust,     \* the ModelPackTrust it builds or has read
  matched,   \* history: files that held their declared content when checked
  calm       \* history: the disk was fit for the call and is untouched since

disk == <<manifest, content, stamp, clock>>
call == <<op, pack>>
vars == <<disk, artifact, call, pc, todo, trust, matched, calm>>

-------------------------------------------------------------------------------
\* Records.

Stamps == 0..MaxWrites

Entries == [digest : Contents, stamp : Stamps]

\* A ModelPackTrust: the manifest's hash and one entry for each listed file.
TrustRecords ==
  [manifest : Manifests \cup {NoManifest},
   files : UNION {[S -> Entries] : S \in SUBSET Files}]

NoRecord == {NoTrust, EmptyTrust, GarbledTrust}

ASSUME NoRecordAssumption == NoRecord \cap TrustRecords = {}

EmptyRecord == [manifest |-> NoManifest, files |-> [f \in {} |-> {}]]

Listed(m) == DOMAIN Declared[m]

Digests(t) == [f \in DOMAIN t.files |-> t.files[f].digest]

\* sha256 of the file is the digest m declares.
Holds(m, f) == content[f] = Declared[m][f]

\* The file is there with the metadata the trust entry remembers.
SameMetadata(t, f) == content[f] # Missing /\ stamp[f] = t.files[f].stamp

\* A trusted open of the pack as it is on disk has nothing to object to.
ArtifactCurrent ==
  /\ manifest \in Supported
  /\ artifact \notin NoRecord
  /\ artifact.manifest = manifest
  /\ Digests(artifact) = Declared[manifest]
  /\ \A f \in Listed(manifest) : SameMetadata(artifact, f)

\* Every file of the pack on disk is what its manifest declares.
PackWhole ==
  manifest \in Supported /\ \A f \in Listed(manifest) : Holds(manifest, f)

Busy == {"hash_file", "hash_manifest", "snapshot", "open_artifact",
         "write_artifact", "read_trust", "check_manifest", "match_files",
         "check_metadata"}

Trusting(c) == op[c] = "trust" /\ pc[c] \in Busy

TypeOK ==
  /\ manifest \in Manifests \cup {NoManifest}
  /\ content \in [Files -> Contents \cup {Missing}]
  /\ stamp \in [Files -> Stamps]
  /\ clock \in Stamps
  /\ artifact \in TrustRecords \cup NoRecord
  /\ op \in [Callers -> {"verify", "trust", "open"}]
  /\ pc \in [Callers -> Busy \cup {"idle", "ok", "error"}]
  /\ pack \in [Callers -> Manifests \cup {NoManifest}]
  /\ \A c \in Callers : pc[c] \in Busy \cup {"ok"} => pack[c] \in Supported
  /\ todo \in [Callers -> SUBSET Files]
  /\ trust \in [Callers -> TrustRecords]
  /\ matched \in [Callers -> SUBSET Files]
  /\ calm \in [Callers -> BOOLEAN]

Init ==
  /\ manifest \in Manifests \cup {NoManifest}
  /\ content \in [Files -> Contents \cup {Missing}]
  /\ stamp = [f \in Files |-> 0]
  /\ clock = 0
  /\ artifact = NoTrust
  /\ op = [c \in Callers |-> "verify"]
  /\ pc = [c \in Callers |-> "idle"]
  /\ pack = [c \in Callers |-> NoManifest]
  /\ todo = [c \in Callers |-> {}]
  /\ trust = [c \in Callers |-> EmptyRecord]
  /\ matched = [c \in Callers |-> {}]
  /\ calm = [c \in Callers |-> FALSE]

-------------------------------------------------------------------------------
\* Helpers.

Goto(c, to) == pc' = [pc EXCEPT ![c] = to]

\* The caller has done with f and goes on to `next' after the last file.
Advance(c, f, next) ==
  /\ todo' = [todo EXCEPT ![c] = @ \ {f}]
  /\ Goto(c, IF todo[c] = {f} THEN next ELSE pc[c])

\* The caller's values are dropped with the call.
Drop(c) ==
  /\ todo' = [todo EXCEPT ![c] = {}]
  /\ trust' = [trust EXCEPT ![c] = EmptyRecord]
  /\ matched' = [matched EXCEPT ![c] = {}]

\* The call returns an Err.
Fail(c) == Goto(c, "error") /\ Drop(c)

\* The disk has changed under every caller of Cs.
Disturb(Cs) == calm' = [c \in Callers |-> calm[c] /\ c \notin Cs]

-------------------------------------------------------------------------------
\* The installer (external): a download, an unpacker, adb push.

MayInstall == QuietInstall => \A c \in Callers : ~Trusting(c)

WriteFile(f, x) ==
  /\ MayInstall
  /\ clock < MaxWrites
  /\ clock' = clock + 1
  /\ content' = [content EXCEPT ![f] = x]
  /\ stamp' = [stamp EXCEPT ![f] = clock']
  /\ Disturb(Callers)
  /\ UNCHANGED <<manifest, artifact, call, pc, todo, trust, matched>>

RemoveFile(f) ==
  /\ MayInstall
  /\ content' = [content EXCEPT ![f] = Missing]
  /\ Disturb(Callers)
  /\ UNCHANGED <<manifest, stamp, clock, artifact, call, pc, todo, trust,
                 matched>>

WriteManifest(m) ==
  /\ MayInstall
  /\ manifest' = m
  /\ Disturb(Callers)
  /\ UNCHANGED <<content, stamp, clock, artifact, call, pc, todo, trust,
                 matched>>

-------------------------------------------------------------------------------
\* ModelPack::discover, then verify or verify_trusted.

\* What the disk must be like for the call to owe its caller an Ok.
FitFor(o) == CASE o = "trust"  -> TRUE
               [] o = "open"   -> ArtifactCurrent
               [] o = "verify" -> PackWhole

\* Mutant: the required languages are not checked.
DiscoverAnyLanguages(c, o) ==
  /\ pc[c] \notin Busy
  /\ manifest \in Manifests
  /\ op' = [op EXCEPT ![c] = o]
  /\ pack' = [pack EXCEPT ![c] = manifest]
  /\ matched' = [matched EXCEPT ![c] = {}]
  /\ trust' = [trust EXCEPT ![c] = EmptyRecord]
  /\ calm' = [calm EXCEPT ![c] = FitFor(o)]
  /\ todo' = [todo EXCEPT ![c] = Listed(manifest)]
  /\ Goto(c, IF o = "open" THEN "read_trust" ELSE "hash_file")
  /\ UNCHANGED <<disk, artifact>>

\* manifest.json is read once; the required languages are checked from memory.
Discover(c, o) ==
  /\ pc[c] \notin Busy
  /\ op' = [op EXCEPT ![c] = o]
  /\ pack' = [pack EXCEPT ![c] = manifest]
  /\ matched' = [matched EXCEPT ![c] = {}]
  /\ trust' = [trust EXCEPT ![c] = EmptyRecord]
  /\ calm' = [calm EXCEPT ![c] = FitFor(o)]
  /\ IF manifest \in Supported
     THEN /\ todo' = [todo EXCEPT ![c] = Listed(manifest)]
          /\ Goto(c, IF o = "open" THEN "read_trust" ELSE "hash_file")
     ELSE /\ todo' = [todo EXCEPT ![c] = {}]
          /\ Goto(c, "error")
  /\ UNCHANGED <<disk, artifact>>

\* Mutant: the checksum is computed and not compared.
HashFileOnly(c, f) ==
  /\ pc[c] = "hash_file"
  /\ f \in todo[c]
  /\ IF content[f] # Missing
     THEN /\ Advance(c, f, IF op[c] = "trust" THEN "hash_manifest" ELSE "ok")
          /\ matched' = [matched EXCEPT ![c] =
               IF Holds(pack[c], f) THEN @ \cup {f} ELSE @]
          /\ UNCHANGED trust
     ELSE Fail(c)
  /\ UNCHANGED <<disk, artifact, call, calm>>

\* verify_files: the content of one file against its declared digest.  The
\* files come in the manifest's order, which is any order.
HashFile(c, f) ==
  /\ pc[c] = "hash_file"
  /\ f \in todo[c]
  /\ IF Holds(pack[c], f)
     THEN /\ Advance(c, f, IF op[c] = "trust" THEN "hash_manifest" ELSE "ok")
          /\ matched' = [matched EXCEPT ![c] = @ \cup {f}]
          /\ UNCHANGED trust
     ELSE Fail(c)
  /\ UNCHANGED <<disk, artifact, call, calm>>

-------------------------------------------------------------------------------
\* write_trust_file, on the pack verify has just answered.

\* from_verified_pack hashes manifest.json as it is now, ...
RehashManifest(c) ==
  /\ pc[c] = "hash_manifest"
  /\ \/ /\ trust' = [trust EXCEPT ![c].manifest = manifest]
        /\ todo' = [todo EXCEPT ![c] = Listed(pack[c])]
        /\ Goto(c, "snapshot")
        /\ UNCHANGED matched
     \/ manifest = NoManifest /\ Fail(c)
  /\ UNCHANGED <<disk, artifact, call, calm>>

\* ... and pairs each digest of the discovered manifest with the metadata the
\* file has now.
SnapshotFile(c, f) ==
  /\ pc[c] = "snapshot"
  /\ f \in todo[c]
  /\ IF content[f] # Missing
     THEN /\ trust' = [trust EXCEPT ![c].files =
               [g \in DOMAIN @ \cup {f} |->
                  IF g = f THEN [digest |-> Declared[pack[c]][f],
                                 stamp |-> stamp[f]]
                           ELSE @[g]]]
          /\ Advance(c, f, "open_artifact")
          /\ UNCHANGED matched
     ELSE Fail(c)
  /\ UNCHANGED <<disk, artifact, call, calm>>

\* fs::write opens the artifact, which empties it, or fails to, ...
OpenArtifact(c) ==
  /\ pc[c] = "open_artifact"
  /\ \/ /\ artifact' = EmptyTrust
        /\ Disturb(Callers \ {c})
        /\ Goto(c, "write_artifact")
        /\ UNCHANGED <<todo, trust, matched>>
     \/ Fail(c) /\ UNCHANGED <<artifact, calm>>
  /\ UNCHANGED <<disk, call>>

\* Mutant: the result of the write is dropped, as by `let _ =`.
WriteArtifactUnchecked(c) ==
  /\ pc[c] = "write_artifact"
  /\ artifact' \in {trust[c], GarbledTrust}
  /\ Goto(c, "ok")
  /\ Drop(c)
  /\ Disturb(Callers \ {c})
  /\ UNCHANGED <<disk, call>>

\* ... and writes the text from its first byte.  Over another caller's text it
\* leaves its own, or its own with a tail of the longer one.  The write may
\* stop half way.
WriteArtifact(c) ==
  /\ pc[c] = "write_artifact"
  /\ \/ /\ \/ artifact' = trust[c]
           \/ artifact # EmptyTrust /\ artifact' = GarbledTrust
        /\ Goto(c, "ok")
        /\ Drop(c)
     \/ artifact' \in {artifact, GarbledTrust} /\ Fail(c)
  /\ Disturb(Callers \ {c})
  /\ UNCHANGED <<disk, call>>

-------------------------------------------------------------------------------
\* verify_trust_file.

\* The artifact is read and parsed in one go.
ReadTrust(c) ==
  /\ pc[c] = "read_trust"
  /\ IF artifact \notin NoRecord
     THEN /\ trust' = [trust EXCEPT ![c] = artifact]
          /\ Goto(c, "check_manifest")
          /\ UNCHANGED <<todo, matched>>
     ELSE Fail(c)
  /\ UNCHANGED <<disk, artifact, call, calm>>

\* verify_manifest_hash hashes manifest.json again.
CheckManifest(c) ==
  /\ pc[c] = "check_manifest"
  /\ IF manifest = trust[c].manifest
     THEN Goto(c, "match_files") /\ UNCHANGED <<todo, trust, matched>>
     ELSE Fail(c)
  /\ UNCHANGED <<disk, artifact, call, calm>>

\* verify_manifest_files compares with the manifest discover read.
MatchFiles(c) ==
  /\ pc[c] = "match_files"
  /\ IF Digests(trust[c]) = Declared[pack[c]]
     THEN Goto(c, "check_metadata") /\ UNCHANGED <<todo, trust, matched>>
     ELSE Fail(c)
  /\ UNCHANGED <<disk, artifact, call, calm>>

\* Mutant: a file that is there is good enough.
CheckMetadataExists(c, f) ==
  /\ pc[c] = "check_metadata"
  /\ f \in todo[c]
  /\ IF content[f] # Missing
     THEN /\ Advance(c, f, "ok")
          /\ matched' = [matched EXCEPT ![c] =
               IF Holds(pack[c], f) THEN @ \cup {f} ELSE @]
          /\ UNCHANGED trust
     ELSE Fail(c)
  /\ UNCHANGED <<disk, artifact, call, calm>>

\* Mutant: the metadata must be the newest the directory has.
CheckMetadataNewest(c, f) ==
  /\ pc[c] = "check_metadata"
  /\ f \in todo[c]
  /\ IF SameMetadata(trust[c], f) /\ stamp[f] = clock
     THEN /\ Advance(c, f, "ok")
          /\ matched' = [matched EXCEPT ![c] =
               IF Holds(pack[c], f) THEN @ \cup {f} ELSE @]
          /\ UNCHANGED trust
     ELSE Fail(c)
  /\ UNCHANGED <<disk, artifact, call, calm>>

\* verify_file_metadata: no content is read.
CheckMetadata(c, f) ==
  /\ pc[c] = "check_metadata"
  /\ f \in todo[c]
  /\ IF SameMetadata(trust[c], f)
     THEN /\ Advance(c, f, "ok")
          /\ matched' = [matched EXCEPT ![c] =
               IF Holds(pack[c], f) THEN @ \cup {f} ELSE @]
          /\ UNCHANGED trust
     ELSE Fail(c)
  /\ UNCHANGED <<disk, artifact, call, calm>>

-------------------------------------------------------------------------------
\* A caller's process dies between two file accesses.
Crash(c) ==
  /\ pc[c] \in Busy
  /\ Goto(c, "idle")
  /\ Drop(c)
  /\ UNCHANGED <<disk, artifact, call, calm>>

Install ==
  \/ \E f \in Files, x \in Contents : WriteFile(f, x)
  \/ \E f \in Files : RemoveFile(f)
  \/ \E m \in Manifests \cup {NoManifest} : WriteManifest(m)

Step(c) ==
  \/ \E o \in {"verify", "trust", "open"} : Discover(c, o)
  \/ \E f \in Files : HashFile(c, f)
  \/ RehashManifest(c)
  \/ \E f \in Files : SnapshotFile(c, f)
  \/ OpenArtifact(c)
  \/ WriteArtifact(c)
  \/ ReadTrust(c)
  \/ CheckManifest(c)
  \/ MatchFiles(c)
  \/ \E f \in Files : CheckMetadata(c, f)
  \/ Crash(c)

Next == Install \/ \E c \in Callers : Step(c)

Spec == Init /\ [][Next]_vars

-------------------------------------------------------------------------------
\* Properties.

\* A file whose metadata is what the trust artifact on disk remembers holds the
\* content the artifact vouches for: write_trust_file writes an artifact "for
\* this exact pack state" (localmt-models lib.rs:136).
ArtifactIsTrue ==
  artifact \notin NoRecord =>
    \A f \in DOMAIN artifact.files :
      SameMetadata(artifact, f) => content[f] = artifact.files[f].digest

\* verify and verify_trusted answer Ok only when every file the returned
\* manifest lists held its declared content at the moment it was looked at,
\* although a trusted open reads no content, whoever else installs, trusts or
\* crashes meanwhile.
OkMeansMatched ==
  \A c \in Callers :
    pc[c] = "ok" /\ op[c] \in {"verify", "open"} =>
      matched[c] = Listed(pack[c])

\* A trusted open of a pack whose artifact is current, and a full verification
\* of a pack that is whole, do not fail when nothing is written meanwhile: no
\* false rejection at a hot start.
CalmCallsSucceed ==
  \A c \in Callers :
    pc[c] = "error" /\ op[c] \in {"verify", "open"} => ~calm[c]

\* After a trust call answers Ok, and as long as nobody else writes, the
\* artifact on disk is whole and opens the pack it was written for.
TrustAnswerIsCurrent ==
  \A c \in Callers :
    pc[c] = "ok" /\ op[c] = "trust" /\ calm[c] =>
      ArtifactCurrent /\ PackWhole

===============================================================================
