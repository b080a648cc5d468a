------------------------- MODULE ModelPackTrustProofs -------------------------
(***************************************************************************)
(* The safety properties of ModelPackTrust for every set of callers, files *)
(* and manifests and any number of installs and updates.                   *)
(***************************************************************************)
EXTENDS ModelPackTrust, TLAPS

\* No file and no record carries a stamp from the future.
StampInv == \A f \in Files : stamp[f] <= clock

\* What a record says of a file is so, or the metadata gives it away.
TrueRecord(t) ==
  \A f \in DOMAIN t.files :
    /\ t.files[f].stamp <= clock
    /\ SameMetadata(t, f) => content[f] = t.files[f].digest

RecordsTrue ==
  /\ artifact \notin NoRecord => TrueRecord(artifact)
  /\ \A c \in Callers : TrueRecord(trust[c])

\* Where a call can be, by what was asked.
CallPhases(o) ==
  CASE o = "verify" -> {"hash_file"}
    [] o = "trust"  -> {"hash_file", "hash_manifest", "snapshot",
                        "open_artifact", "write_artifact"}
    [] o = "open"   -> {"read_trust", "check_manifest", "match_files",
                        "check_metadata"}

\* The bookkeeping of a call: which files it has been through, and what its
\* record says.
CallInv(c) ==
  /\ pc[c] \in Busy => pc[c] \in CallPhases(op[c]) /\ todo[c] \subseteq Listed(pack[c])
  /\ pc[c] = "hash_file" =>
       matched[c] = Listed(pack[c]) \ todo[c] /\ trust[c] = EmptyRecord
  /\ pc[c] = "hash_manifest" => trust[c] = EmptyRecord
  /\ pc[c] \in {"snapshot", "open_artifact", "write_artifact"} =>
       /\ DOMAIN trust[c].files = Listed(pack[c]) \ todo[c]
       /\ \A f \in DOMAIN trust[c].files :
            trust[c].files[f].digest = Declared[pack[c]][f]
  /\ pc[c] \in {"open_artifact", "write_artifact"} => todo[c] = {}
  /\ pc[c] \in {"read_trust", "check_manifest", "match_files"} =>
       matched[c] = {} /\ todo[c] = Listed(pack[c])
  /\ pc[c] = "check_metadata" => Digests(trust[c]) = Declared[pack[c]]

\* The files a caller has hashed so far and found right.
Checked(c) == IF pc[c] = "hash_file" THEN matched[c] ELSE Listed(pack[c])

CheckedHold(c) == \A f \in Checked(c) : Holds(pack[c], f)

\* With nobody installing, the files a trust call has hashed stay as they were,
\* and an Ok is earned file by file.
QuietInv(c) ==
  /\ Trusting(c) => CheckedHold(c)
  /\ pc[c] = "check_metadata" => matched[c] = Listed(pack[c]) \ todo[c]
  /\ pc[c] = "ok" /\ op[c] \in {"verify", "open"} => matched[c] = Listed(pack[c])

\* A call nobody has disturbed still sees the disk it started from.
CalmInv(c) ==
  /\ pc[c] \in Busy => pack[c] = manifest
  /\ op[c] = "verify" /\ pc[c] \in Busy => PackWhole
  /\ op[c] = "open" /\ pc[c] \in Busy =>
       ArtifactCurrent /\ (pc[c] # "read_trust" => trust[c] = artifact)
  /\ Trusting(c) => CheckedHold(c)
  /\ pc[c] \in {"snapshot", "open_artifact", "write_artifact"} =>
       /\ trust[c].manifest = manifest
       /\ \A f \in DOMAIN trust[c].files : SameMetadata(trust[c], f)
  /\ pc[c] = "write_artifact" => artifact = EmptyTrust
  /\ pc[c] = "ok" /\ op[c] = "trust" => ArtifactCurrent /\ PackWhole
  /\ pc[c] = "error" => op[c] = "trust"

IInv ==
  /\ TypeOK
  /\ StampInv
  /\ QuietInstall => RecordsTrue
  /\ \A c \in Callers :
       /\ CallInv(c)
       /\ QuietInstall => QuietInv(c)
       /\ calm[c] => CalmInv(c)

-------------------------------------------------------------------------------
\* Records.

LEMMA EmptyRecordType == EmptyRecord \in TrustRecords /\ TrueRecord(EmptyRecord)
<1>1. EmptyRecord.files \in [{} -> Entries] /\ {} \in SUBSET Files
  BY DEF EmptyRecord
<1>2. EmptyRecord \in TrustRecords
  BY <1>1 DEF EmptyRecord, TrustRecords
<1>3. DOMAIN EmptyRecord.files = {}
  BY DEF EmptyRecord
<1> QED BY <1>2, <1>3 DEF TrueRecord

\* The files of a record: a subset of Files, with an entry each.
LEMMA RecordFiles ==
  ASSUME NEW t \in TrustRecords
  PROVE  /\ t.manifest \in Manifests \cup {NoManifest}
         /\ DOMAIN t.files \subseteq Files
         /\ t.files \in [DOMAIN t.files -> Entries]
BY DEF TrustRecords

\* A record stays true, and its metadata tests mean the same, while the disk
\* does not change.
LEMMA RecordKept ==
  ASSUME NEW t, UNCHANGED disk
  PROVE  /\ TrueRecord(t)' <=> TrueRecord(t)
         /\ \A f : SameMetadata(t, f)' <=> SameMetadata(t, f)
         /\ \A m, f : Holds(m, f)' <=> Holds(m, f)
         /\ PackWhole' <=> PackWhole
BY DEF disk, TrueRecord, SameMetadata, Holds, PackWhole

-------------------------------------------------------------------------------
\* A step of one caller.

\* What a step leaves to a caller that does not take it.
Unmoved(d) ==
  /\ pc'[d] = pc[d]
  /\ op'[d] = op[d]
  /\ pack'[d] = pack[d]
  /\ todo'[d] = todo[d]
  /\ trust'[d] = trust[d]
  /\ matched'[d] = matched[d]

LEMMA UnmovedCall ==
  ASSUME NEW d \in Callers, Unmoved(d), CallInv(d)
  PROVE  CallInv(d)'
BY DEF Unmoved, CallInv

LEMMA UnmovedQuiet ==
  ASSUME NEW d \in Callers, Unmoved(d), QuietInv(d),
         Trusting(d) => UNCHANGED content
  PROVE  QuietInv(d)'
<1>1. Trusting(d)' <=> Trusting(d)
  BY DEF Unmoved, Trusting
<1>2. Trusting(d) => CheckedHold(d)'
  BY DEF Unmoved, QuietInv, CheckedHold, Checked, Holds
<1> QED BY <1>1, <1>2 DEF Unmoved, QuietInv

LEMMA UnmovedCalm ==
  ASSUME NEW d \in Callers, Unmoved(d), CalmInv(d), UNCHANGED <<disk, artifact>>
  PROVE  CalmInv(d)'
<1>1. Trusting(d)' <=> Trusting(d)
  BY DEF Unmoved, Trusting
<1>2. CheckedHold(d)' <=> CheckedHold(d)
  BY DEF Unmoved, CheckedHold, Checked, Holds, disk
<1>3. (PackWhole' <=> PackWhole) /\ (ArtifactCurrent' <=> ArtifactCurrent)
  BY DEF PackWhole, ArtifactCurrent, Holds, SameMetadata, disk
<1>4. \A f : SameMetadata(trust[d], f)' <=> SameMetadata(trust[d], f)
  BY DEF SameMetadata, disk, Unmoved
<1> QED BY <1>1, <1>2, <1>3, <1>4 DEF Unmoved, CalmInv, disk, SameMetadata

\* A step of c keeps the invariant if it keeps c's own part of it and the
\* artifact's, and disturbs the others when it changes the artifact.
LEMMA StepKeepsInv ==
  ASSUME IInv, NEW c \in Callers, UNCHANGED disk, TypeOK',
         QuietInstall => (artifact' \notin NoRecord => TrueRecord(artifact)'),
         QuietInstall => TrueRecord(trust[c])',
         \A d \in Callers \ {c} :
           Unmoved(d) /\ (calm'[d] => calm[d] /\ UNCHANGED artifact),
         CallInv(c)', QuietInstall => QuietInv(c)', calm'[c] => CalmInv(c)'
  PROVE  IInv'
<1>1. StampInv'
  BY DEF IInv, StampInv, disk
<1>2. ASSUME QuietInstall PROVE RecordsTrue'
  <2> SUFFICES ASSUME NEW d \in Callers PROVE TrueRecord(trust[d])'
    BY <1>2 DEF RecordsTrue
  <2>1. CASE d = c
    BY <1>2, <2>1
  <2>2. CASE d # c
    <3>1. trust'[d] = trust[d] /\ TrueRecord(trust[d])
      BY <1>2, <2>2 DEF Unmoved, IInv, RecordsTrue
    <3> QED BY <3>1 DEF TrueRecord, SameMetadata, disk
  <2> QED BY <2>1, <2>2
<1>3. ASSUME NEW d \in Callers
      PROVE  /\ CallInv(d)'
             /\ QuietInstall => QuietInv(d)'
             /\ calm'[d] => CalmInv(d)'
  <2>1. CASE d = c
    BY <2>1
  <2>2. CASE d # c
    <3>1. Unmoved(d) /\ (calm'[d] => calm[d] /\ UNCHANGED artifact)
      BY <2>2
    <3>2. CallInv(d) /\ (QuietInstall => QuietInv(d)) /\ (calm[d] => CalmInv(d))
      BY DEF IInv
    <3> QED BY <3>1, <3>2, UnmovedCall, UnmovedQuiet, UnmovedCalm DEF disk
  <2> QED BY <2>1, <2>2
<1> QED BY <1>1, <1>2, <1>3 DEF IInv

LEMMA InitInv == Init => IInv
<1> SUFFICES ASSUME Init PROVE IInv
  OBVIOUS
<1>1. TypeOK
  BY EmptyRecordType, PackAssumption DEF Init, TypeOK, Stamps, Busy, NoRecord
<1>2. StampInv
  BY DEF Init, StampInv
<1>3. RecordsTrue
  BY EmptyRecordType DEF Init, RecordsTrue, NoRecord
<1>4. \A c \in Callers : CallInv(c) /\ QuietInv(c) /\ ~calm[c]
  BY DEF Init, CallInv, QuietInv, Trusting, Busy
<1> QED BY <1>1, <1>2, <1>3, <1>4 DEF IInv

-------------------------------------------------------------------------------
\* The installer.

\* An install or update keeps the invariant if every record stays true: it
\* disturbs every call, and there is no trust call to upset.
LEMMA InstallerKeepsInv ==
  ASSUME IInv, MayInstall, Disturb(Callers), TypeOK', StampInv',
         UNCHANGED <<artifact, call, pc, todo, trust, matched>>,
         \A t \in TrustRecords : TrueRecord(t) => TrueRecord(t)'
  PROVE  IInv'
<1> USE DEF call
<1>1. RecordsTrue => RecordsTrue'
  BY DEF RecordsTrue, IInv, TypeOK
<1>2. ASSUME NEW d \in Callers
      PROVE  /\ CallInv(d)' /\ ~calm'[d]
             /\ QuietInstall => QuietInv(d)'
  <2>1. Unmoved(d)
    BY DEF Unmoved
  <2>2. ~calm'[d]
    BY DEF Disturb
  <2>3. QuietInstall => ~Trusting(d)
    BY DEF MayInstall
  <2> QED BY <2>1, <2>2, <2>3, UnmovedCall, UnmovedQuiet DEF IInv
<1> QED BY <1>1, <1>2 DEF IInv

LEMMA WriteFileKeepsInv ==
  ASSUME IInv, NEW f \in Files, NEW x \in Contents, WriteFile(f, x)
  PROVE  IInv'
<1> USE DEF WriteFile, call
<1>1. TypeOK /\ StampInv
  BY DEF IInv
<1>2. clock \in Nat /\ clock' = clock + 1 /\ clock' \in Stamps
  BY <1>1, PackAssumption DEF TypeOK, Stamps
<1>3. TypeOK'
  BY <1>1, <1>2 DEF TypeOK, Disturb
<1>4. \A g \in Files : /\ stamp'[g] = IF g = f THEN clock' ELSE stamp[g]
                       /\ content'[g] = IF g = f THEN x ELSE content[g]
  BY <1>1 DEF TypeOK
<1>5. StampInv'
  BY <1>1, <1>2, <1>4 DEF StampInv, TypeOK, Stamps
<1>6. ASSUME NEW t \in TrustRecords, TrueRecord(t), NEW g \in DOMAIN t.files
      PROVE  /\ t.files[g].stamp <= clock'
             /\ SameMetadata(t, g)' => content'[g] = t.files[g].digest
  <2>1. t.files[g].stamp <= clock /\ t.files[g].stamp \in Int /\ g \in Files
    BY <1>6, RecordFiles DEF TrueRecord, Entries, Stamps
  <2>2. t.files[g].stamp < clock'
    BY <1>2, <2>1
  <2>3. CASE g = f
    BY <1>2, <1>4, <2>2, <2>3, <2>1 DEF SameMetadata
  <2>4. CASE g # f
    <3>1. content'[g] = content[g] /\ stamp'[g] = stamp[g]
      BY <1>4, <2>1, <2>4
    <3>2. SameMetadata(t, g) => content[g] = t.files[g].digest
      BY <1>6 DEF TrueRecord
    <3> QED BY <1>2, <2>1, <2>2, <3>1, <3>2 DEF SameMetadata
  <2> QED BY <2>3, <2>4
<1>7. \A t \in TrustRecords : TrueRecord(t) => TrueRecord(t)'
  BY <1>6 DEF TrueRecord, SameMetadata
<1> QED BY <1>3, <1>5, <1>7, InstallerKeepsInv

LEMMA RemoveFileKeepsInv ==
  ASSUME IInv, NEW f \in Files, RemoveFile(f)
  PROVE  IInv'
<1> USE DEF RemoveFile, call
<1>1. TypeOK /\ StampInv
  BY DEF IInv
<1>2. TypeOK' /\ StampInv'
  BY <1>1 DEF TypeOK, StampInv, Disturb
<1>3. \A g \in Files : content'[g] = IF g = f THEN Missing ELSE content[g]
  BY <1>1 DEF TypeOK
<1>4. ASSUME NEW t \in TrustRecords, TrueRecord(t)
      PROVE  TrueRecord(t)'
  <2>1. DOMAIN t.files \subseteq Files
    BY RecordFiles
  <2> QED BY <1>3, <1>4, <2>1 DEF TrueRecord, SameMetadata
<1> QED BY <1>2, <1>4, InstallerKeepsInv

LEMMA WriteManifestKeepsInv ==
  ASSUME IInv, NEW m \in Manifests \cup {NoManifest}, WriteManifest(m)
  PROVE  IInv'
<1> USE DEF WriteManifest, call
<1>1. TypeOK /\ StampInv
  BY DEF IInv
<1>2. TypeOK' /\ StampInv'
  BY <1>1 DEF TypeOK, StampInv, Disturb
<1>3. \A t \in TrustRecords : TrueRecord(t) => TrueRecord(t)'
  BY DEF TrueRecord, SameMetadata
<1> QED BY <1>2, <1>3, InstallerKeepsInv

-------------------------------------------------------------------------------
\* Starting, failing and dying.

LEMMA DiscoverKeepsInv ==
  ASSUME IInv, NEW c \in Callers, NEW o \in {"verify", "trust", "open"},
         Discover(c, o)
  PROVE  IInv'
<1> USE DEF Discover, Goto
<1>1. TypeOK
  BY DEF IInv
<1>2. /\ op'[c] = o /\ pack'[c] = manifest /\ matched'[c] = {}
      /\ trust'[c] = EmptyRecord /\ calm'[c] = FitFor(o)
      /\ \A d \in Callers \ {c} : Unmoved(d) /\ calm'[d] = calm[d]
  BY <1>1 DEF TypeOK, Unmoved
<1>3. /\ todo'[c] = IF manifest \in Supported THEN Listed(manifest) ELSE {}
      /\ pc'[c] = IF manifest \in Supported
                  THEN IF o = "open" THEN "read_trust" ELSE "hash_file"
                  ELSE "error"
  BY <1>1 DEF TypeOK
<1>4. TypeOK'
  <2>1. Listed(manifest) \subseteq Files \/ manifest \notin Supported
    BY PackAssumption DEF Listed
  <2>2. FitFor(o) \in BOOLEAN
    BY DEF FitFor, ArtifactCurrent, PackWhole
  <2>3. \A d \in Callers : pc'[d] \in Busy \cup {"ok"} => pack'[d] \in Supported
    <3> TAKE d \in Callers
    <3>1. CASE d = c
      BY <1>2, <1>3, <3>1 DEF Busy
    <3>2. CASE d # c
      BY <1>1, <1>2, <3>2 DEF TypeOK, Unmoved
    <3> QED BY <3>1, <3>2
  <2>4. todo' \in [Callers -> SUBSET Files]
    BY <1>1, <2>1 DEF TypeOK
  <2>5. pc' \in [Callers -> Busy \cup {"idle", "ok", "error"}]
    BY <1>1 DEF TypeOK, Busy
  <2> QED BY <1>1, <2>2, <2>3, <2>4, <2>5, EmptyRecordType DEF TypeOK, disk
<1>5. QuietInstall => (artifact' \notin NoRecord => TrueRecord(artifact)')
  BY DEF IInv, RecordsTrue, disk, TrueRecord, SameMetadata
<1>6. TrueRecord(trust[c])'
  <2>1. DOMAIN EmptyRecord.files = {}
    BY DEF EmptyRecord
  <2> QED BY <1>2, <2>1 DEF TrueRecord
<1>7. CallInv(c)'
  BY <1>2, <1>3 DEF CallInv, CallPhases, Busy
<1>8. QuietInv(c)'
  BY <1>2, <1>3 DEF QuietInv, Trusting, CheckedHold, Checked, Busy
<1>9. ASSUME calm'[c] PROVE CalmInv(c)'
  <2>1. FitFor(o) /\ UNCHANGED <<disk, artifact>>
    BY <1>2, <1>9
  <2>2. CASE o = "trust"
    BY <1>2, <1>3, <2>1, <2>2
       DEF CalmInv, Trusting, CheckedHold, Checked, disk, Busy
  <2>3. CASE o = "verify"
    BY <1>2, <1>3, <2>1, <2>3
       DEF CalmInv, FitFor, PackWhole, Trusting, disk, Holds
  <2>4. CASE o = "open"
    BY <1>2, <1>3, <2>1, <2>4
       DEF CalmInv, FitFor, ArtifactCurrent, Trusting, disk, SameMetadata
  <2> QED BY <2>2, <2>3, <2>4
<1> QED BY <1>2, <1>4, <1>5, <1>6, <1>7, <1>8, <1>9, StepKeepsInv

\* A call that fails drops its values; it was disturbed, or it was a trust call.
LEMMA EndKeepsInv ==
  ASSUME IInv, NEW c \in Callers, NEW to \in {"idle", "error"},
         Goto(c, to), Drop(c), UNCHANGED <<disk, call>>,
         artifact' \in TrustRecords \cup NoRecord,
         calm' \in [Callers -> BOOLEAN],
         QuietInstall => (artifact' \notin NoRecord => TrueRecord(artifact)'),
         \A d \in Callers \ {c} : calm'[d] => calm[d] /\ UNCHANGED artifact,
         to = "error" /\ calm'[c] => op[c] = "trust"
  PROVE  IInv'
<1> USE DEF Goto, Drop, call
<1>1. TypeOK
  BY DEF IInv
<1>2. /\ pc'[c] = to /\ todo'[c] = {} /\ matched'[c] = {}
      /\ trust'[c] = EmptyRecord
      /\ \A d \in Callers \ {c} : Unmoved(d)
  BY <1>1 DEF TypeOK, Unmoved
<1>3. TypeOK'
  BY <1>1, EmptyRecordType DEF TypeOK, disk, Busy
<1>4. TrueRecord(trust[c])'
  <2>1. DOMAIN EmptyRecord.files = {}
    BY DEF EmptyRecord
  <2> QED BY <1>2, <2>1 DEF TrueRecord
<1>5. CallInv(c)' /\ QuietInv(c)'
  BY <1>2 DEF CallInv, QuietInv, Trusting, Busy
<1>6. calm'[c] => CalmInv(c)'
  BY <1>2 DEF CalmInv, Trusting, Busy
<1> QED BY <1>2, <1>3, <1>4, <1>5, <1>6, StepKeepsInv

\* The common case: the artifact and the other callers are left alone.
LEMMA FailKeepsInv ==
  ASSUME IInv, NEW c \in Callers, Fail(c),
         UNCHANGED <<disk, artifact, call, calm>>,
         calm[c] => op[c] = "trust"
  PROVE  IInv'
<1>1. QuietInstall => (artifact' \notin NoRecord => TrueRecord(artifact)')
  BY DEF IInv, RecordsTrue, disk, TrueRecord, SameMetadata
<1> QED BY <1>1, EndKeepsInv DEF Fail, IInv, TypeOK

LEMMA CrashKeepsInv ==
  ASSUME IInv, NEW c \in Callers, Crash(c)
  PROVE  IInv'
<1>1. QuietInstall => (artifact' \notin NoRecord => TrueRecord(artifact)')
  BY DEF Crash, IInv, RecordsTrue, disk, TrueRecord, SameMetadata
<1> QED BY <1>1, EndKeepsInv DEF Crash, IInv, TypeOK

-------------------------------------------------------------------------------
\* Going on.

\* What a step that only reads the disk has to show.
LEMMA GoOnKeepsInv ==
  ASSUME IInv, NEW c \in Callers, pc[c] \in Busy,
         NEW to \in Busy \cup {"ok"}, Goto(c, to),
         UNCHANGED <<disk, artifact, call, calm>>,
         NEW rest \in SUBSET Files, todo' = [todo EXCEPT ![c] = rest],
         NEW record \in TrustRecords, trust' = [trust EXCEPT ![c] = record],
         NEW right \in SUBSET Files, matched' = [matched EXCEPT ![c] = right],
         QuietInstall => TrueRecord(record),
         CallInv(c)', QuietInstall => QuietInv(c)', calm[c] => CalmInv(c)'
  PROVE  IInv'
<1> USE DEF Goto, call
<1>1. TypeOK
  BY DEF IInv
<1>2. /\ trust'[c] = record
      /\ \A d \in Callers \ {c} : Unmoved(d)
  BY <1>1 DEF TypeOK, Unmoved
<1>3. TypeOK'
  BY <1>1 DEF TypeOK, disk
<1>4. QuietInstall => TrueRecord(trust[c])'
  BY <1>2 DEF TrueRecord, SameMetadata, disk
<1>5. QuietInstall => (artifact' \notin NoRecord => TrueRecord(artifact)')
  BY DEF IInv, RecordsTrue, disk, TrueRecord, SameMetadata
<1> QED BY <1>2, <1>3, <1>4, <1>5, StepKeepsInv

\* The facts about a busy caller that every action starts from.
LEMMA BusyFacts ==
  ASSUME IInv, NEW c \in Callers, pc[c] \in Busy
  PROVE  /\ pack[c] \in Supported /\ pack[c] \in Manifests
         /\ Listed(pack[c]) \subseteq Files
         /\ Declared[pack[c]] \in [Listed(pack[c]) -> Contents]
         /\ pc[c] \in CallPhases(op[c]) /\ todo[c] \subseteq Listed(pack[c])
         /\ trust[c] \in TrustRecords /\ todo[c] \in SUBSET Files
         /\ matched[c] \in SUBSET Files
         /\ CallInv(c)
         /\ QuietInstall => QuietInv(c) /\ TrueRecord(trust[c])
         /\ calm[c] => CalmInv(c)
         /\ todo = [todo EXCEPT ![c] = todo[c]]
         /\ trust = [trust EXCEPT ![c] = trust[c]]
         /\ matched = [matched EXCEPT ![c] = matched[c]]
<1>1. pack[c] \in Supported /\ pack[c] \in Manifests
  BY PackAssumption DEF IInv, TypeOK
<1>2. /\ Listed(pack[c]) \subseteq Files
      /\ Declared[pack[c]] \in [Listed(pack[c]) -> Contents]
  BY <1>1, PackAssumption DEF Listed
<1> QED BY <1>1, <1>2 DEF IInv, TypeOK, CallInv, RecordsTrue

\* What advancing past a file does, and where it leads.
LEMMA AdvanceFacts ==
  ASSUME TypeOK, NEW c \in Callers, NEW f \in todo[c], NEW next,
         Advance(c, f, next)
  PROVE  LET to == IF todo[c] = {f} THEN next ELSE pc[c]
         IN  /\ Goto(c, to) /\ pc'[c] = to
             /\ todo'[c] = todo[c] \ {f}
             /\ todo' = [todo EXCEPT ![c] = todo[c] \ {f}]
             /\ pc'[c] # pc[c] => todo'[c] = {}
BY DEF Advance, Goto, TypeOK

LEMMA HashFileKeepsInv ==
  ASSUME IInv, NEW c \in Callers, NEW f \in Files, HashFile(c, f)
  PROVE  IInv'
<1>1. pc[c] = "hash_file" /\ pc[c] \in Busy /\ f \in todo[c]
  BY DEF HashFile, Busy
<1>2. UNCHANGED <<disk, artifact, call, calm>>
  BY DEF HashFile
<1>3. /\ op[c] \in {"verify", "trust"}
      /\ matched[c] = Listed(pack[c]) \ todo[c] /\ trust[c] = EmptyRecord
      /\ todo[c] \subseteq Listed(pack[c])
  BY <1>1, BusyFacts DEF CallInv, CallPhases, IInv, TypeOK
<1>4. CASE Holds(pack[c], f)
  <2> DEFINE next == IF op[c] = "trust" THEN "hash_manifest" ELSE "ok"
             to == IF todo[c] = {f} THEN next ELSE pc[c]
  <2>1. /\ Advance(c, f, next)
        /\ matched' = [matched EXCEPT ![c] = matched[c] \cup {f}]
        /\ UNCHANGED trust
    BY <1>4 DEF HashFile
  <2>2. /\ Goto(c, to) /\ pc'[c] = to
        /\ todo'[c] = todo[c] \ {f}
        /\ todo' = [todo EXCEPT ![c] = todo[c] \ {f}]
    BY <1>1, <2>1, AdvanceFacts DEF IInv
  <2>3. /\ to \in Busy \cup {"ok"}
        /\ to \in {"hash_file", "hash_manifest", "ok"}
        /\ to = "hash_manifest" => op[c] = "trust"
        /\ to = "ok" => op[c] = "verify"
        /\ to # "hash_file" => todo[c] = {f}
    BY <1>1, <1>3 DEF Busy
  <2>4. matched'[c] = Listed(pack[c]) \ todo'[c]
    BY <1>1, <1>3, <2>1, <2>2 DEF IInv, TypeOK
  <2>5. /\ pc'[c] = to /\ op'[c] = op[c] /\ pack'[c] = pack[c]
        /\ trust'[c] = EmptyRecord /\ calm' = calm
    BY <1>2, <1>3, <2>1, <2>2 DEF call
  <2> HIDE DEF to, next
  <2>6. CallInv(c)'
    BY <1>3, <2>2, <2>3, <2>4, <2>5 DEF CallInv, CallPhases, Busy
  <2>7. ASSUME CheckedHold(c) PROVE CheckedHold(c)'
    <3> SUFFICES ASSUME NEW g \in Checked(c)' PROVE Holds(pack[c], g)'
      BY DEF CheckedHold
    <3>1. g \in matched[c] \cup {f}
      BY <1>1, <1>3, <2>2, <2>3, <2>4, <2>5 DEF Checked
    <3>2. Holds(pack[c], g)
      BY <1>1, <1>4, <2>7, <3>1 DEF CheckedHold, Checked
    <3> QED BY <1>2, <2>5, <3>2 DEF Holds, disk
  <2>8. QuietInstall => QuietInv(c)'
    <3>1. /\ Trusting(c)' => Trusting(c)
          /\ QuietInstall => QuietInv(c)
      BY <1>1, <2>5, BusyFacts DEF Trusting
    <3>2. pc'[c] = "ok" => matched'[c] = Listed(pack'[c])
      BY <2>2, <2>3, <2>4, <2>5
    <3> QED BY <2>3, <2>5, <2>7, <3>1, <3>2 DEF QuietInv
  <2>9. ASSUME calm[c] PROVE CalmInv(c)'
    <3>1. CalmInv(c)
      BY <1>1, <2>9, BusyFacts
    <3>2. PackWhole' <=> PackWhole
      BY <1>2 DEF PackWhole, Holds, disk
    <3>3. Trusting(c)' => CheckedHold(c)'
      BY <1>1, <2>5, <2>7, <3>1 DEF CalmInv, Trusting
    <3> QED BY <1>1, <1>2, <1>3, <2>3, <2>5, <3>1, <3>2, <3>3
            DEF CalmInv, disk, Busy
  <2>10. QuietInstall => TrueRecord(trust[c])
    BY <1>1, BusyFacts
  <2>11. trust' = [trust EXCEPT ![c] = trust[c]]
    BY <1>1, <2>1, BusyFacts
  <2>12. /\ todo[c] \ {f} \in SUBSET Files /\ matched[c] \cup {f} \in SUBSET Files
         /\ trust[c] \in TrustRecords
    BY <1>1, BusyFacts
  <2> QED BY <1>1, <1>2, <2>1, <2>2, <2>3, <2>6, <2>8, <2>9, <2>10, <2>11,
             <2>12, GoOnKeepsInv
<1>5. CASE ~Holds(pack[c], f)
  <2>1. ASSUME calm[c] PROVE op[c] = "trust"
    <3>1. CalmInv(c)
      BY <1>1, <2>1, BusyFacts
    <3> QED BY <1>1, <1>3, <1>5, <3>1 DEF CalmInv, PackWhole
  <2> QED BY <1>2, <1>5, <2>1, FailKeepsInv DEF HashFile
<1> QED BY <1>4, <1>5

LEMMA RehashManifestKeepsInv ==
  ASSUME IInv, NEW c \in Callers, RehashManifest(c)
  PROVE  IInv'
<1>1. pc[c] = "hash_manifest" /\ pc[c] \in Busy /\ "snapshot" \in Busy
  BY DEF RehashManifest, Busy
<1>2. UNCHANGED <<disk, artifact, call, calm>>
  BY DEF RehashManifest
<1>3. op[c] = "trust" /\ trust[c] = EmptyRecord
  BY <1>1, BusyFacts DEF CallInv, CallPhases, IInv, TypeOK
<1>4. CASE /\ trust' = [trust EXCEPT ![c].manifest = manifest]
           /\ todo' = [todo EXCEPT ![c] = Listed(pack[c])]
           /\ Goto(c, "snapshot")
           /\ UNCHANGED matched
  <2> DEFINE record == [EmptyRecord EXCEPT !.manifest = manifest]
  <2>1. trust' = [trust EXCEPT ![c] = record]
    BY <1>3, <1>4
  <2>2. /\ record = [manifest |-> manifest, files |-> EmptyRecord.files]
        /\ DOMAIN record.files = {}
    BY DEF EmptyRecord
  <2>3. record \in TrustRecords
    BY <2>2, EmptyRecordType DEF IInv, TypeOK, TrustRecords
  <2>4. TrueRecord(record)
    BY <2>2 DEF TrueRecord
  <2>5. /\ pc'[c] = "snapshot" /\ op'[c] = op[c] /\ pack'[c] = pack[c]
        /\ trust'[c] = record /\ todo'[c] = Listed(pack[c])
    BY <1>2, <1>4, <2>1 DEF Goto, call, IInv, TypeOK
  <2>6. record.manifest = manifest
    BY <2>2
  <2> HIDE DEF record
  <2>7. CallInv(c)'
    BY <1>3, <2>2, <2>5 DEF CallInv, CallPhases
  <2>8. Trusting(c) /\ (CheckedHold(c)' <=> CheckedHold(c))
    BY <1>1, <1>2, <1>3, <2>5 DEF Trusting, CheckedHold, Checked, Holds, disk
  <2>9. QuietInstall => QuietInv(c)'
    BY <1>1, <2>5, <2>8, BusyFacts DEF QuietInv
  <2>10. calm[c] => CalmInv(c)'
    BY <1>1, <1>2, <1>3, <2>2, <2>5, <2>6, <2>8, BusyFacts DEF CalmInv, disk
  <2>11. matched' = [matched EXCEPT ![c] = matched[c]]
    BY <1>1, <1>4, BusyFacts
  <2>12. Listed(pack[c]) \in SUBSET Files /\ matched[c] \in SUBSET Files
    BY <1>1, BusyFacts
  <2> QED BY <1>1, <1>2, <1>4, <2>1, <2>3, <2>4, <2>7, <2>9, <2>10, <2>11,
             <2>12, GoOnKeepsInv
<1>5. CASE manifest = NoManifest /\ Fail(c)
  BY <1>2, <1>3, <1>5, FailKeepsInv
<1> QED BY <1>4, <1>5 DEF RehashManifest

LEMMA SnapshotFileKeepsInv ==
  ASSUME IInv, NEW c \in Callers, NEW f \in Files, SnapshotFile(c, f)
  PROVE  IInv'
<1>1. pc[c] = "snapshot" /\ pc[c] \in Busy /\ f \in todo[c]
  BY DEF SnapshotFile, Busy
<1>2. UNCHANGED <<disk, artifact, call, calm>>
  BY DEF SnapshotFile
<1>3. /\ op[c] = "trust"
      /\ DOMAIN trust[c].files = Listed(pack[c]) \ todo[c]
      /\ \A g \in DOMAIN trust[c].files :
           trust[c].files[g].digest = Declared[pack[c]][g]
      /\ todo[c] \subseteq Listed(pack[c])
  BY <1>1, BusyFacts DEF CallInv, CallPhases, IInv, TypeOK
<1>4. CASE content[f] # Missing
  <2> DEFINE entry == [digest |-> Declared[pack[c]][f], stamp |-> stamp[f]]
             files == [g \in DOMAIN trust[c].files \cup {f} |->
                         IF g = f THEN entry ELSE trust[c].files[g]]
             record == [trust[c] EXCEPT !.files = files]
             to == IF todo[c] = {f} THEN "open_artifact" ELSE pc[c]
  <2>1. /\ trust' = [trust EXCEPT ![c] = record]
        /\ Advance(c, f, "open_artifact")
        /\ UNCHANGED matched
    BY <1>4 DEF SnapshotFile
  <2>2. /\ Goto(c, to) /\ pc'[c] = to
        /\ todo'[c] = todo[c] \ {f}
        /\ todo' = [todo EXCEPT ![c] = todo[c] \ {f}]
    BY <1>1, <2>1, AdvanceFacts DEF IInv
  <2>3. /\ to \in Busy /\ to \in {"snapshot", "open_artifact"}
        /\ to = "open_artifact" => todo[c] = {f}
    BY <1>1 DEF Busy
  <2>4. /\ trust[c] \in TrustRecords
        /\ DOMAIN trust[c].files \subseteq Files
        /\ trust[c].files \in [DOMAIN trust[c].files -> Entries]
        /\ trust[c].manifest \in Manifests \cup {NoManifest}
        /\ entry \in Entries
    <3>1. f \in Listed(pack[c]) /\ stamp[f] \in Stamps
      BY <1>1, <1>3 DEF IInv, TypeOK
    <3>2. Declared[pack[c]][f] \in Contents
      BY <1>1, <3>1, BusyFacts
    <3> QED BY <1>1, <3>1, <3>2, BusyFacts, RecordFiles DEF Entries
  <2>5. /\ record.files = files /\ record.manifest = trust[c].manifest
        /\ DOMAIN record.files = DOMAIN trust[c].files \cup {f}
        /\ record \in TrustRecords
    <3>1. files \in [DOMAIN trust[c].files \cup {f} -> Entries]
      BY <2>4
    <3>2. record = [manifest |-> trust[c].manifest, files |-> files]
      BY <2>4 DEF TrustRecords
    <3> QED BY <2>4, <3>1, <3>2 DEF TrustRecords
  <2>6. \A g \in DOMAIN record.files :
          record.files[g] = IF g = f THEN entry ELSE trust[c].files[g]
    BY <2>5
  <2>7. DOMAIN record.files = Listed(pack[c]) \ todo'[c]
    BY <1>1, <1>3, <2>2, <2>5
  <2>8. /\ pc'[c] = to /\ op'[c] = op[c] /\ pack'[c] = pack[c]
        /\ trust'[c] = record /\ calm' = calm
    BY <1>2, <2>1, <2>2 DEF call, IInv, TypeOK
  <2>9. entry.digest = Declared[pack[c]][f] /\ entry.stamp = stamp[f]
    OBVIOUS
  <2> HIDE DEF to, record, files, entry
  <2>10. \A g \in DOMAIN record.files :
           record.files[g].digest = Declared[pack[c]][g]
    BY <1>3, <2>5, <2>6, <2>9
  <2>11. CallInv(c)'
    BY <1>3, <2>2, <2>3, <2>7, <2>8, <2>10 DEF CallInv, CallPhases, Busy
  <2>12. Trusting(c) /\ (CheckedHold(c)' <=> CheckedHold(c))
    BY <1>1, <1>2, <1>3, <2>3, <2>8 DEF Trusting, CheckedHold, Checked, Holds, disk
  <2>13. QuietInstall => QuietInv(c)'
    BY <1>1, <2>3, <2>8, <2>12, BusyFacts DEF QuietInv
  <2>14. ASSUME calm[c] PROVE CalmInv(c)'
    <3>1. CalmInv(c)
      BY <1>1, <2>14, BusyFacts
    <3>2. \A g \in DOMAIN record.files : SameMetadata(record, g)
      BY <1>1, <1>4, <2>5, <2>6, <2>9, <3>1 DEF CalmInv, SameMetadata
    <3>3. \A g \in DOMAIN trust'[c].files : SameMetadata(trust[c], g)'
      BY <1>2, <2>8, <3>2 DEF SameMetadata, disk
    <3>4. trust'[c].manifest = manifest'
      BY <1>1, <1>2, <2>5, <2>8, <3>1 DEF CalmInv, disk
    <3> QED BY <1>1, <1>2, <1>3, <2>3, <2>8, <2>12, <3>1, <3>3, <3>4
            DEF CalmInv, disk
  <2>15. ASSUME QuietInstall PROVE TrueRecord(record)
    <3>1. Holds(pack[c], f)
      BY <1>1, <1>3, <2>12, <2>15, BusyFacts
         DEF QuietInv, CheckedHold, Checked
    <3>2. TrueRecord(trust[c]) /\ stamp[f] <= clock
      BY <1>1, <2>15, BusyFacts DEF IInv, StampInv
    <3> QED BY <2>5, <2>6, <2>9, <3>1, <3>2
            DEF TrueRecord, SameMetadata, Holds
  <2>16. matched' = [matched EXCEPT ![c] = matched[c]]
    BY <1>1, <2>1, BusyFacts
  <2>17. todo[c] \ {f} \in SUBSET Files /\ matched[c] \in SUBSET Files
    BY <1>1, BusyFacts
  <2> QED BY <1>1, <1>2, <2>1, <2>2, <2>3, <2>5, <2>11, <2>13, <2>14, <2>15,
             <2>16, <2>17, GoOnKeepsInv
<1>5. CASE content[f] = Missing
  BY <1>2, <1>3, <1>5, FailKeepsInv DEF SnapshotFile
<1> QED BY <1>4, <1>5

\* An artifact that stays, stays true.
LEMMA ArtifactKept ==
  ASSUME IInv, UNCHANGED disk, QuietInstall, artifact \notin NoRecord
  PROVE  TrueRecord(artifact) /\ (artifact' = artifact => TrueRecord(artifact)')
BY DEF IInv, RecordsTrue, disk, TrueRecord, SameMetadata

LEMMA OpenArtifactKeepsInv ==
  ASSUME IInv, NEW c \in Callers, OpenArtifact(c)
  PROVE  IInv'
<1> USE DEF call
<1>1. pc[c] = "open_artifact" /\ pc[c] \in Busy /\ UNCHANGED <<disk, call>>
  BY DEF OpenArtifact, Busy
<1>2. op[c] = "trust"
  BY <1>1, BusyFacts DEF CallPhases, IInv, TypeOK
<1>3. CASE /\ artifact' = EmptyTrust
           /\ Disturb(Callers \ {c})
           /\ Goto(c, "write_artifact")
           /\ UNCHANGED <<todo, trust, matched>>
  <2>1. /\ pc'[c] = "write_artifact"
        /\ calm'[c] = calm[c]
        /\ \A d \in Callers \ {c} : Unmoved(d) /\ ~calm'[d]
    BY <1>1, <1>3 DEF Goto, Disturb, Unmoved, IInv, TypeOK
  <2>2. TypeOK'
    BY <1>1, <1>3 DEF IInv, TypeOK, disk, Goto, Disturb, Busy, NoRecord
  <2>3. artifact' \in NoRecord
    BY <1>3 DEF NoRecord
  <2>4. QuietInstall => TrueRecord(trust[c])'
    BY <1>1, <1>3, BusyFacts DEF TrueRecord, SameMetadata, disk
  <2>5. CallInv(c)'
    BY <1>1, <1>3, <2>1, BusyFacts DEF CallInv, CallPhases, IInv, TypeOK
  <2>6. Trusting(c) /\ (CheckedHold(c)' <=> CheckedHold(c))
    BY <1>1, <1>2, <2>1, <1>3
       DEF Trusting, CheckedHold, Checked, Holds, disk
  <2>7. QuietInstall => QuietInv(c)'
    BY <1>1, <2>1, <2>6, BusyFacts DEF QuietInv
  <2>8. calm'[c] => CalmInv(c)'
    BY <1>1, <1>2, <1>3, <2>1, <2>6, BusyFacts DEF CalmInv, disk, SameMetadata
  <2> QED BY <1>1, <2>1, <2>2, <2>3, <2>4, <2>5, <2>7, <2>8, StepKeepsInv
<1>4. CASE Fail(c) /\ UNCHANGED <<artifact, calm>>
  BY <1>1, <1>2, <1>4, FailKeepsInv
<1> QED BY <1>3, <1>4 DEF OpenArtifact

\* What an undisturbed trust call has written opens the pack on disk.
LEMMA WrittenIsCurrent ==
  ASSUME IInv, NEW c \in Callers, pc[c] = "write_artifact", calm[c],
         UNCHANGED disk, artifact' = trust[c]
  PROVE  ArtifactCurrent' /\ PackWhole'
<1>1. pc[c] \in Busy
  BY DEF Busy
<1>2. CalmInv(c) /\ CallInv(c) /\ op[c] = "trust"
  BY <1>1, BusyFacts DEF CallPhases, IInv, TypeOK
<1>3. /\ pack[c] = manifest /\ manifest \in Supported
      /\ trust[c].manifest = manifest
      /\ DOMAIN trust[c].files = Listed(manifest)
      /\ \A f \in Listed(manifest) :
           /\ Holds(manifest, f) /\ SameMetadata(trust[c], f)
           /\ trust[c].files[f].digest = Declared[manifest][f]
  <2>1. pack[c] = manifest /\ manifest \in Supported
    BY <1>1, <1>2, BusyFacts DEF CalmInv
  <2>2. /\ trust[c].manifest = manifest
        /\ \A f \in DOMAIN trust[c].files : SameMetadata(trust[c], f)
    BY <1>2 DEF CalmInv
  <2>3. /\ DOMAIN trust[c].files = Listed(manifest)
        /\ \A f \in DOMAIN trust[c].files :
             trust[c].files[f].digest = Declared[manifest][f]
    <3>1. DOMAIN trust[c].files = Listed(pack[c]) \ todo[c] /\ todo[c] = {}
      BY <1>2 DEF CallInv
    <3> QED BY <1>2, <2>1, <3>1 DEF CallInv
  <2>4. \A f \in Listed(manifest) : Holds(manifest, f)
    BY <1>1, <1>2, <2>1 DEF CalmInv, Trusting, CheckedHold, Checked
  <2> QED BY <2>1, <2>2, <2>3, <2>4
<1>4. trust[c] \in TrustRecords /\ trust[c] \notin NoRecord
  BY <1>1, BusyFacts, NoRecordAssumption
<1>5. Digests(trust[c]) = Declared[manifest]
  <2>1. Declared[manifest] \in [Listed(manifest) -> Contents]
    BY <1>1, <1>3, BusyFacts
  <2> QED BY <1>3, <2>1 DEF Digests
<1>6. ArtifactCurrent'
  <2>1. manifest' = manifest /\ artifact' \notin NoRecord
    BY <1>4 DEF disk
  <2>2. \A f \in Listed(manifest) : SameMetadata(artifact, f)'
    BY <1>3 DEF SameMetadata, disk
  <2> QED BY <1>3, <1>5, <2>1, <2>2 DEF ArtifactCurrent, Digests
<1>7. PackWhole'
  BY <1>3 DEF PackWhole, Holds, disk
<1> QED BY <1>6, <1>7

LEMMA WriteArtifactKeepsInv ==
  ASSUME IInv, NEW c \in Callers, WriteArtifact(c)
  PROVE  IInv'
<1> USE DEF call
<1>1. /\ pc[c] = "write_artifact" /\ pc[c] \in Busy
      /\ UNCHANGED <<disk, call>> /\ Disturb(Callers \ {c})
  BY DEF WriteArtifact, Busy
<1>2. op[c] = "trust" /\ trust[c] \in TrustRecords /\ pack[c] \in Supported
  BY <1>1, BusyFacts DEF CallPhases, IInv, TypeOK
<1>3. /\ calm' \in [Callers -> BOOLEAN] /\ calm'[c] = calm[c]
      /\ \A d \in Callers \ {c} : ~calm'[d]
  BY <1>1 DEF Disturb, IInv, TypeOK
<1>4. CASE /\ \/ artifact' = trust[c]
              \/ artifact # EmptyTrust /\ artifact' = GarbledTrust
           /\ Goto(c, "ok")
           /\ Drop(c)
  <2>1. /\ pc'[c] = "ok" /\ op'[c] = "trust" /\ trust'[c] = EmptyRecord
        /\ \A d \in Callers \ {c} : Unmoved(d)
    BY <1>1, <1>2, <1>4 DEF Goto, Drop, Unmoved, IInv, TypeOK
  <2>2. artifact' \in TrustRecords \cup NoRecord
    BY <1>2, <1>4 DEF NoRecord
  <2>3. TypeOK'
    BY <1>1, <1>2, <1>3, <1>4, <2>2, EmptyRecordType
       DEF IInv, TypeOK, disk, Goto, Drop, Busy
  <2>4. QuietInstall => (artifact' \notin NoRecord => TrueRecord(artifact)')
    BY <1>1, <1>4, BusyFacts DEF NoRecord, TrueRecord, SameMetadata, disk
  <2>5. TrueRecord(trust[c])'
    <3>1. DOMAIN EmptyRecord.files = {}
      BY DEF EmptyRecord
    <3> QED BY <2>1, <3>1 DEF TrueRecord
  <2>6. CallInv(c)' /\ QuietInv(c)'
    BY <2>1 DEF CallInv, QuietInv, Trusting, Busy
  <2>7. ASSUME calm'[c] PROVE CalmInv(c)'
    <3>1. calm[c] /\ artifact = EmptyTrust
      BY <1>1, <1>3, <2>7, BusyFacts DEF CalmInv
    <3>2. ArtifactCurrent' /\ PackWhole'
      BY <1>1, <1>4, <3>1, WrittenIsCurrent
    <3> QED BY <2>1, <3>2 DEF CalmInv, Trusting, Busy
  <2> QED BY <1>1, <1>3, <2>1, <2>3, <2>4, <2>5, <2>6, <2>7, StepKeepsInv
<1>5. CASE artifact' \in {artifact, GarbledTrust} /\ Fail(c)
  <2>1. artifact' \in TrustRecords \cup NoRecord
    BY <1>5 DEF NoRecord, IInv, TypeOK
  <2>2. QuietInstall => (artifact' \notin NoRecord => TrueRecord(artifact)')
    BY <1>1, <1>5, ArtifactKept DEF NoRecord
  <2> QED BY <1>1, <1>2, <1>3, <1>5, <2>1, <2>2, EndKeepsInv DEF Fail
<1> QED BY <1>4, <1>5 DEF WriteArtifact

\* What holds of a caller inside a trusted open.
LEMMA OpenFacts ==
  ASSUME IInv, NEW c \in Callers,
         pc[c] \in {"read_trust", "check_manifest", "match_files",
                    "check_metadata"}
  PROVE  /\ pc[c] \in Busy /\ op[c] = "open" /\ ~Trusting(c)
         /\ calm[c] => /\ ArtifactCurrent /\ pack[c] = manifest
                       /\ pc[c] # "read_trust" => trust[c] = artifact
<1>1. pc[c] \in Busy
  BY DEF Busy
<1>2. op[c] = "open"
  BY <1>1, BusyFacts DEF CallPhases, IInv, TypeOK
<1> QED BY <1>1, <1>2, BusyFacts DEF Trusting, CalmInv

LEMMA ReadTrustKeepsInv ==
  ASSUME IInv, NEW c \in Callers, ReadTrust(c)
  PROVE  IInv'
<1>1. pc[c] = "read_trust" /\ pc[c] \in Busy /\ "check_manifest" \in Busy
  BY DEF ReadTrust, Busy
<1>2. UNCHANGED <<disk, artifact, call, calm>>
  BY DEF ReadTrust
<1>3. CASE artifact \notin NoRecord
  <2>1. /\ trust' = [trust EXCEPT ![c] = artifact]
        /\ Goto(c, "check_manifest") /\ UNCHANGED <<todo, matched>>
    BY <1>3 DEF ReadTrust
  <2>2. artifact \in TrustRecords /\ (QuietInstall => TrueRecord(artifact))
    BY <1>3 DEF IInv, TypeOK, RecordsTrue
  <2>3. /\ pc'[c] = "check_manifest" /\ op'[c] = "open" /\ pack'[c] = pack[c]
        /\ trust'[c] = artifact /\ todo'[c] = todo[c] /\ matched'[c] = matched[c]
    BY <1>1, <1>2, <2>1, OpenFacts DEF Goto, call, IInv, TypeOK
  <2>4. CallInv(c)'
    BY <1>1, <2>3, BusyFacts DEF CallInv, CallPhases
  <2>5. QuietInv(c)'
    BY <2>3 DEF QuietInv, Trusting
  <2>6. ArtifactCurrent' <=> ArtifactCurrent
    BY <1>2 DEF ArtifactCurrent, SameMetadata, disk
  <2>7. calm[c] => CalmInv(c)'
    BY <1>1, <1>2, <2>3, <2>6, OpenFacts DEF CalmInv, Trusting, disk
  <2> QED BY <1>1, <1>2, <2>1, <2>2, <2>4, <2>5, <2>7, BusyFacts, GoOnKeepsInv
<1>4. CASE artifact \in NoRecord
  BY <1>1, <1>2, <1>4, OpenFacts, FailKeepsInv DEF ReadTrust, ArtifactCurrent
<1> QED BY <1>3, <1>4

LEMMA CheckManifestKeepsInv ==
  ASSUME IInv, NEW c \in Callers, CheckManifest(c)
  PROVE  IInv'
<1>1. pc[c] = "check_manifest" /\ pc[c] \in Busy /\ "match_files" \in Busy
  BY DEF CheckManifest, Busy
<1>2. UNCHANGED <<disk, artifact, call, calm>>
  BY DEF CheckManifest
<1>3. CASE manifest = trust[c].manifest
  <2>1. Goto(c, "match_files") /\ UNCHANGED <<todo, trust, matched>>
    BY <1>3 DEF CheckManifest
  <2>2. /\ pc'[c] = "match_files" /\ op'[c] = "open" /\ pack'[c] = pack[c]
        /\ trust'[c] = trust[c] /\ todo'[c] = todo[c] /\ matched'[c] = matched[c]
    BY <1>1, <1>2, <2>1, OpenFacts DEF Goto, call, IInv, TypeOK
  <2>3. CallInv(c)'
    BY <1>1, <2>2, BusyFacts DEF CallInv, CallPhases
  <2>4. QuietInv(c)'
    BY <2>2 DEF QuietInv, Trusting
  <2>5. ArtifactCurrent' <=> ArtifactCurrent
    BY <1>2 DEF ArtifactCurrent, SameMetadata, disk
  <2>6. calm[c] => CalmInv(c)'
    BY <1>1, <1>2, <2>2, <2>5, OpenFacts DEF CalmInv, Trusting, disk
  <2> QED BY <1>1, <1>2, <2>1, <2>3, <2>4, <2>6, BusyFacts, GoOnKeepsInv
<1>4. CASE manifest # trust[c].manifest
  BY <1>1, <1>2, <1>4, OpenFacts, FailKeepsInv
     DEF CheckManifest, ArtifactCurrent
<1> QED BY <1>3, <1>4

LEMMA MatchFilesKeepsInv ==
  ASSUME IInv, NEW c \in Callers, MatchFiles(c)
  PROVE  IInv'
<1>1. pc[c] = "match_files" /\ pc[c] \in Busy /\ "check_metadata" \in Busy
  BY DEF MatchFiles, Busy
<1>2. UNCHANGED <<disk, artifact, call, calm>>
  BY DEF MatchFiles
<1>3. CASE Digests(trust[c]) = Declared[pack[c]]
  <2>1. Goto(c, "check_metadata") /\ UNCHANGED <<todo, trust, matched>>
    BY <1>3 DEF MatchFiles
  <2>2. /\ pc'[c] = "check_metadata" /\ op'[c] = "open" /\ pack'[c] = pack[c]
        /\ trust'[c] = trust[c] /\ todo'[c] = todo[c] /\ matched'[c] = matched[c]
    BY <1>1, <1>2, <2>1, OpenFacts DEF Goto, call, IInv, TypeOK
  <2>3. matched[c] = {} /\ todo[c] = Listed(pack[c])
    BY <1>1, BusyFacts DEF CallInv
  <2>4. CallInv(c)'
    BY <1>3, <2>2, <2>3 DEF CallInv, CallPhases, Digests
  <2>5. QuietInv(c)'
    BY <2>2, <2>3 DEF QuietInv, Trusting
  <2>6. ArtifactCurrent' <=> ArtifactCurrent
    BY <1>2 DEF ArtifactCurrent, SameMetadata, disk
  <2>7. calm[c] => CalmInv(c)'
    BY <1>1, <1>2, <2>2, <2>6, OpenFacts DEF CalmInv, Trusting, disk
  <2> QED BY <1>1, <1>2, <2>1, <2>4, <2>5, <2>7, BusyFacts, GoOnKeepsInv
<1>4. CASE Digests(trust[c]) # Declared[pack[c]]
  BY <1>1, <1>2, <1>4, OpenFacts, FailKeepsInv DEF MatchFiles, ArtifactCurrent
<1> QED BY <1>3, <1>4

\* A file whose metadata a true record of this manifest remembers is right,
\* without its content being read.
LEMMA MetadataImpliesContent ==
  ASSUME IInv, QuietInstall, NEW c \in Callers, pc[c] = "check_metadata",
         NEW f \in todo[c], SameMetadata(trust[c], f)
  PROVE  Holds(pack[c], f)
<1>1. pc[c] \in Busy
  BY DEF Busy
<1>2. /\ f \in Listed(pack[c]) /\ TrueRecord(trust[c])
      /\ Digests(trust[c]) = Declared[pack[c]]
  BY <1>1, BusyFacts DEF CallInv
<1>3. f \in DOMAIN trust[c].files
  BY <1>2 DEF Digests, Listed
<1>4. trust[c].files[f].digest = Declared[pack[c]][f]
  BY <1>2, <1>3 DEF Digests
<1> QED BY <1>2, <1>3, <1>4 DEF TrueRecord, Holds

LEMMA CheckMetadataKeepsInv ==
  ASSUME IInv, NEW c \in Callers, NEW f \in Files, CheckMetadata(c, f)
  PROVE  IInv'
<1>1. pc[c] = "check_metadata" /\ pc[c] \in Busy /\ f \in todo[c]
  BY DEF CheckMetadata, Busy
<1>2. UNCHANGED <<disk, artifact, call, calm>>
  BY DEF CheckMetadata
<1>3. CASE SameMetadata(trust[c], f)
  <2> DEFINE to == IF todo[c] = {f} THEN "ok" ELSE pc[c]
             right == IF Holds(pack[c], f) THEN matched[c] \cup {f}
                                           ELSE matched[c]
  <2>1. /\ Advance(c, f, "ok") /\ UNCHANGED trust
        /\ matched' = [matched EXCEPT ![c] = right]
    BY <1>3 DEF CheckMetadata
  <2>2. /\ Goto(c, to) /\ pc'[c] = to
        /\ todo'[c] = todo[c] \ {f}
        /\ todo' = [todo EXCEPT ![c] = todo[c] \ {f}]
    BY <1>1, <2>1, AdvanceFacts DEF IInv
  <2>3. /\ to \in Busy \cup {"ok"} /\ to \in {"check_metadata", "ok"}
        /\ to = "ok" => todo[c] = {f}
    BY <1>1 DEF Busy
  <2>4. /\ op'[c] = "open" /\ pack'[c] = pack[c]
        /\ trust'[c] = trust[c] /\ matched'[c] = right
    BY <1>1, <1>2, <2>1, OpenFacts DEF call, IInv, TypeOK
  <2>5. QuietInstall => right = matched[c] \cup {f}
    BY <1>1, <1>3, MetadataImpliesContent
  <2>6. right \in SUBSET Files /\ todo[c] \ {f} \in SUBSET Files
    BY <1>1, BusyFacts
  <2> HIDE DEF to, right
  <2>7. CallInv(c)'
    BY <1>1, <2>2, <2>3, <2>4, BusyFacts DEF CallInv, CallPhases, Busy
  <2>8. ASSUME QuietInstall PROVE QuietInv(c)'
    <3>1. /\ matched[c] = Listed(pack[c]) \ todo[c]
          /\ todo[c] \subseteq Listed(pack[c])
      BY <1>1, <2>8, BusyFacts DEF QuietInv
    <3>2. matched'[c] = Listed(pack[c]) \ todo'[c]
      BY <1>1, <2>2, <2>4, <2>5, <2>8, <3>1
    <3> QED BY <2>2, <2>3, <2>4, <3>2 DEF QuietInv, Trusting
  <2>9. ArtifactCurrent' <=> ArtifactCurrent
    BY <1>2 DEF ArtifactCurrent, SameMetadata, disk
  <2>10. calm[c] => CalmInv(c)'
    BY <1>1, <1>2, <2>2, <2>3, <2>4, <2>9, OpenFacts
       DEF CalmInv, Trusting, disk, Busy
  <2> QED BY <1>1, <1>2, <2>1, <2>2, <2>3, <2>6, <2>7, <2>8, <2>10, BusyFacts,
             GoOnKeepsInv
<1>4. CASE ~SameMetadata(trust[c], f)
  <2>1. f \in Listed(pack[c])
    BY <1>1, BusyFacts
  <2> QED BY <1>1, <1>2, <1>4, <2>1, OpenFacts, FailKeepsInv
          DEF CheckMetadata, ArtifactCurrent
<1> QED BY <1>3, <1>4

LEMMA NextInv == IInv /\ [Next]_vars => IInv'
<1> SUFFICES ASSUME IInv, [Next]_vars PROVE IInv'
  OBVIOUS
<1>1. CASE UNCHANGED vars
  <2> USE <1>1 DEF vars, disk, call
  <2>1. TypeOK' /\ StampInv'
    BY DEF IInv, TypeOK, StampInv
  <2>2. QuietInstall => RecordsTrue'
    BY DEF IInv, RecordsTrue, TrueRecord, SameMetadata
  <2>3. ASSUME NEW d \in Callers
        PROVE  /\ CallInv(d)'
               /\ QuietInstall => QuietInv(d)'
               /\ calm'[d] => CalmInv(d)'
    <3>1. Unmoved(d)
      BY DEF Unmoved
    <3>2. CallInv(d) /\ (QuietInstall => QuietInv(d)) /\ (calm[d] => CalmInv(d))
      BY DEF IInv
    <3>3. UNCHANGED <<disk, artifact>> /\ UNCHANGED content /\ calm' = calm
      OBVIOUS
    <3> QED BY <3>1, <3>2, <3>3, UnmovedCall, UnmovedQuiet, UnmovedCalm
  <2> QED BY <2>1, <2>2, <2>3 DEF IInv
<1>2. CASE Install
  BY <1>2, WriteFileKeepsInv, RemoveFileKeepsInv, WriteManifestKeepsInv
     DEF Install
<1>3. ASSUME NEW c \in Callers, Step(c) PROVE IInv'
  BY <1>3, DiscoverKeepsInv, HashFileKeepsInv, RehashManifestKeepsInv,
     SnapshotFileKeepsInv, OpenArtifactKeepsInv, WriteArtifactKeepsInv,
     ReadTrustKeepsInv, CheckManifestKeepsInv, MatchFilesKeepsInv,
     CheckMetadataKeepsInv, CrashKeepsInv
     DEF Step
<1> QED BY <1>1, <1>2, <1>3 DEF Next

-------------------------------------------------------------------------------
\* The theorems.

\* The invariant the other theorems rest on holds throughout.
THEOREM Invariance == Spec => []IInv
BY InitInv, NextInv, PTL DEF Spec

\* Artifacts are records or known rubbish, and a call past discovery works on a
\* supported manifest.
THEOREM TypeCorrect == Spec => []TypeOK
<1>1. IInv => TypeOK
  BY DEF IInv
<1> QED BY Invariance, <1>1, PTL

\* Unless the installer runs during a trust call, a trust artifact vouches only
\* for what is on disk, or for files whose metadata has changed since.
THEOREM ArtifactStaysTrue ==
  ASSUME QuietInstall
  PROVE  Spec => []ArtifactIsTrue
<1>1. IInv => ArtifactIsTrue
  BY DEF IInv, RecordsTrue, TrueRecord, ArtifactIsTrue
<1> QED BY Invariance, <1>1, PTL

\* Under the same condition an Ok, of a verification or of a trusted open that
\* reads no content, means every listed file was right when it was looked at.
THEOREM OkIsEarned ==
  ASSUME QuietInstall
  PROVE  Spec => []OkMeansMatched
<1>1. IInv => OkMeansMatched
  BY DEF IInv, QuietInv, OkMeansMatched
<1> QED BY Invariance, <1>1, PTL

\* No call fails on a fit disk nobody writes to, installs during trust calls or
\* not.
THEOREM NoFalseRejection == Spec => []CalmCallsSucceed
<1>1. IInv => CalmCallsSucceed
  BY DEF IInv, CalmInv, CalmCallsSucceed
<1> QED BY Invariance, <1>1, PTL

\* What a trust call answers is on disk, whole and current, until somebody else
\* writes.
THEOREM TrustOkIsCurrent == Spec => []TrustAnswerIsCurrent
<1>1. IInv => TrustAnswerIsCurrent
  BY DEF IInv, CalmInv, TrustAnswerIsCurrent
<1> QED BY Invariance, <1>1, PTL

===============================================================================
