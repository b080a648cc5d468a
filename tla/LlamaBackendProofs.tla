-------------------------- MODULE LlamaBackendProofs --------------------------
(***************************************************************************)
(* The safety properties of LlamaBackend for every finite set of clients   *)
(* and every set of libraries.                                             *)
(***************************************************************************)
EXTENDS LlamaBackend, FiniteSetTheorems, TLAPS

\* The library every load uses while the process has one runtime.
Source == IF env # NoLib THEN env ELSE override

\* The mutex is held exactly by the client inside a locked phase.
LockInv ==
  \A c \in Clients : lockHolder = c <=> pc[c] \in LockedPhases

\* The count is the number of leases, and is zero while the backend is being
\* initialised or freed.
CountInv ==
  /\ LeasesCounted
  /\ \A c \in Clients : pc[c] \in {"initialised", "freeing"} => refcount = 0

\* Every client past idle names a library; the loader counts its openers.
MapInv ==
  /\ \A c \in Clients : pc[c] # "idle" => lib[c] \in Libs
  /\ \A l \in Libs : dlHandles[l] = Cardinality(Openers(l))

\* The native objects a client owns follow from where it is.
HandleInv ==
  \A c \in Clients :
    handles[c] = CASE pc[c] \in {"model", "free_model"} -> {"model"}
                   [] pc[c] \in {"context", "ready", "free_context"} ->
                        {"model", "context"}
                   [] OTHER -> {}

\* With one runtime, every load has resolved to it.
SourceInv ==
  OneRuntime =>
    \A c \in Clients : pc[c] \in NativePhases \cup {"resolved"} => lib[c] = Source

\* With one runtime, its backend is up exactly while a lease exists or a client
\* is between initialising or freeing it and letting the mutex go.
BackendNeeded ==
  refcount > 0 \/ \E c \in Clients : pc[c] \in {"initialised", "freeing"}

UpInv == OneRuntime => up = IF BackendNeeded THEN {Source} ELSE {}

\* Only a mapped image has an initialised backend.
UpMapped == \A l \in up : dlHandles[l] > 0

IInv ==
  /\ TypeOK
  /\ LockInv
  /\ CountInv
  /\ MapInv
  /\ HandleInv
  /\ SourceInv
  /\ UpInv
  /\ UpMapped

-------------------------------------------------------------------------------
\* Counting leases and openers.

\* A client that moves joins or leaves the lease holders by where it goes.
LEMMA LeaseHoldersStep ==
  ASSUME TypeOK, NEW c \in Clients, NEW to, Goto(c, to)
  PROVE  LeaseHolders' = IF to \in LeasedPhases THEN LeaseHolders \cup {c}
                                                ELSE LeaseHolders \ {c}
BY DEF TypeOK, Goto, LeaseHolders

\* The lease holders are finitely many; their number is positive when there is
\* one and leaves room under usize::MAX while some client is none.
LEMMA LeaseHoldersBound ==
  ASSUME NEW c \in Clients
  PROVE  /\ IsFiniteSet(LeaseHolders)
         /\ Cardinality(LeaseHolders) \in Nat
         /\ c \in LeaseHolders => Cardinality(LeaseHolders) > 0
         /\ c \notin LeaseHolders => Cardinality(LeaseHolders) < UsizeMax
<1>1. /\ IsFiniteSet(LeaseHolders)
      /\ Cardinality(LeaseHolders) \in Nat
  BY ClientsAssumption, FS_Subset, FS_CardinalityType DEF LeaseHolders
<1>2. ASSUME c \in LeaseHolders PROVE Cardinality(LeaseHolders) > 0
  BY <1>1, <1>2, FS_EmptySet
<1>3. ASSUME c \notin LeaseHolders PROVE Cardinality(LeaseHolders) < UsizeMax
  <2>1. LeaseHolders \in SUBSET (Clients \ {c})
    BY <1>3 DEF LeaseHolders
  <2>2. /\ IsFiniteSet(Clients \ {c})
        /\ Cardinality(Clients \ {c}) = Cardinality(Clients) - 1
    BY ClientsAssumption, FS_RemoveElement
  <2>3. Cardinality(LeaseHolders) <= Cardinality(Clients \ {c})
    BY <2>1, <2>2, FS_Subset
  <2>4. Cardinality(Clients) \in Nat
    BY ClientsAssumption, FS_CardinalityType
  <2> QED BY <1>1, <2>2, <2>3, <2>4, ClientsAssumption
<1> QED BY <1>1, <1>2, <1>3

\* What one move does to the number of lease holders.
LEMMA LeaseCountStep ==
  ASSUME TypeOK, NEW c \in Clients, NEW to, Goto(c, to)
  PROVE  Cardinality(LeaseHolders)' =
           Cardinality(LeaseHolders)
             + (IF to \in LeasedPhases THEN 1 ELSE 0)
             - (IF pc[c] \in LeasedPhases THEN 1 ELSE 0)
<1>1. IsFiniteSet(LeaseHolders) /\ Cardinality(LeaseHolders) \in Nat
  BY LeaseHoldersBound
<1>2. c \in LeaseHolders <=> pc[c] \in LeasedPhases
  BY DEF LeaseHolders
<1>3. /\ Cardinality(LeaseHolders \cup {c}) =
             IF c \in LeaseHolders THEN Cardinality(LeaseHolders)
                                   ELSE Cardinality(LeaseHolders) + 1
      /\ Cardinality(LeaseHolders \ {c}) =
             IF c \in LeaseHolders THEN Cardinality(LeaseHolders) - 1
                                   ELSE Cardinality(LeaseHolders)
  BY <1>1, FS_AddElement, FS_RemoveElement
<1>4. LeaseHolders' = IF to \in LeasedPhases THEN LeaseHolders \cup {c}
                                             ELSE LeaseHolders \ {c}
  BY LeaseHoldersStep
<1> QED BY <1>1, <1>2, <1>3, <1>4

\* What one move does to the openers of a library, when the client ends up with
\* library m.
LEMMA OpenersStep ==
  ASSUME TypeOK, NEW c \in Clients, NEW l \in Libs, NEW to, NEW m,
         Goto(c, to), lib' = [lib EXCEPT ![c] = m]
  PROVE  Cardinality(Openers(l))' =
           Cardinality(Openers(l))
             + (IF to \in NativePhases \cup ConfigurePhases /\ m = l
                THEN 1 ELSE 0)
             - (IF pc[c] \in NativePhases \cup ConfigurePhases /\ lib[c] = l
                THEN 1 ELSE 0)
<1>1. IsFiniteSet(Openers(l)) /\ Cardinality(Openers(l)) \in Nat
  BY ClientsAssumption, FS_Subset, FS_CardinalityType DEF Openers
<1>2. c \in Openers(l) <=>
        pc[c] \in NativePhases \cup ConfigurePhases /\ lib[c] = l
  BY DEF Openers
<1>3. /\ Cardinality(Openers(l) \cup {c}) =
             IF c \in Openers(l) THEN Cardinality(Openers(l))
                                 ELSE Cardinality(Openers(l)) + 1
      /\ Cardinality(Openers(l) \ {c}) =
             IF c \in Openers(l) THEN Cardinality(Openers(l)) - 1
                                 ELSE Cardinality(Openers(l))
  BY <1>1, FS_AddElement, FS_RemoveElement
<1>4. Openers(l)' = IF to \in NativePhases \cup ConfigurePhases /\ m = l
                    THEN Openers(l) \cup {c} ELSE Openers(l) \ {c}
  <2>1. pc' = [pc EXCEPT ![c] = to] /\ pc \in [Clients -> Phases]
    BY DEF TypeOK, Goto
  <2>2. lib \in [Clients -> Libs \cup {NoLib}]
    BY DEF TypeOK
  <2>3. \A d \in Clients : /\ pc'[d] = IF d = c THEN to ELSE pc[d]
                           /\ lib'[d] = IF d = c THEN m ELSE lib[d]
    BY <2>1, <2>2
  <2> QED BY <2>3 DEF Openers
<1> QED BY <1>1, <1>2, <1>3, <1>4

\* An opener counts: the loader keeps the library of such a client mapped.
LEMMA OpenerMapped ==
  ASSUME NEW c \in Clients, NEW l \in Libs, c \in Openers(l)
  PROVE  /\ Cardinality(Openers(l)) \in Nat
         /\ Cardinality(Openers(l)) > 0
         /\ \A d \in Openers(l) : d # c => Cardinality(Openers(l)) > 1
<1>1. /\ IsFiniteSet(Openers(l)) /\ Cardinality(Openers(l)) \in Nat
      /\ Cardinality(Openers(l) \ {c}) = Cardinality(Openers(l)) - 1
      /\ IsFiniteSet(Openers(l) \ {c})
      /\ Cardinality(Openers(l) \ {c}) \in Nat
  BY ClientsAssumption, FS_Subset, FS_CardinalityType, FS_RemoveElement
     DEF Openers
<1>2. ASSUME NEW d \in Openers(l), d # c
      PROVE  Cardinality(Openers(l)) > 1
  <2>1. Cardinality(Openers(l) \ {c}) # 0
    BY <1>1, <1>2, FS_EmptySet
  <2> QED BY <1>1, <2>1
<1> QED BY <1>1, <1>2

-------------------------------------------------------------------------------
\* Preservation, conjunct by conjunct.  A step is one client's.

ClientStep(c) ==
  \/ \E l \in Libs : BeginConfigure(c, l)
  \/ BeginLoad(c)
  \/ Close(c)
  \/ Continue(c)

\* Variables keep their types; the count stays below usize::MAX before it is
\* incremented, so saturation never happens.
LEMMA TypeStep ==
  ASSUME IInv, NEW c \in Clients, ClientStep(c)
  PROVE  TypeOK'
<1> USE LibsAssumption DEF IInv, TypeOK, Goto
<1>1. CASE \E l \in Libs : BeginConfigure(c, l)
  BY <1>1 DEF BeginConfigure, OpenHandle, Phases, ConfigurePhases
<1>2. CASE BeginLoad(c)
  BY <1>2 DEF BeginLoad, ResolvedPath, Phases
<1>3. CASE Close(c)
  BY <1>3 DEF Close, Phases, NativePhases, LeasedPhases
<1>4. CASE SetOverride(c)
  BY <1>4 DEF SetOverride, MapInv, Phases, ConfigurePhases
<1>5. CASE DropPreflight(c) \/ CloseLibrary(c)
  <2>1. /\ pc[c] \in {"drop_preflight", "drop_native"}
        /\ CloseHandle(c)
        /\ UNCHANGED <<env, override, configured, refcount, lockHolder, handles>>
    BY <1>5 DEF DropPreflight, CloseLibrary
  <2>2. lib[c] \in Libs /\ c \in Openers(lib[c])
    BY <2>1 DEF MapInv, Openers, NativePhases, ConfigurePhases
  <2>3. dlHandles[lib[c]] \in Nat /\ dlHandles[lib[c]] > 0
    BY <2>2, OpenerMapped DEF MapInv
  <2> QED BY <2>1, <2>2, <2>3 DEF CloseHandle, Phases
<1>6. CASE OpenLibrary(c)
  BY <1>6 DEF OpenLibrary, OpenHandle, MapInv, Phases, NativePhases
<1>7. CASE OpenLibraryFails(c)
  BY <1>7 DEF OpenLibraryFails, Phases
<1>8. CASE LockForAcquire(c)
  BY <1>8 DEF LockForAcquire, LockAndGoto, Phases, NativePhases
<1>9. CASE InitBackend(c)
  BY <1>9 DEF InitBackend, MapInv, Phases, NativePhases
<1>10. CASE TakeLease(c)
  <2>1. c \notin LeaseHolders
    BY <1>10 DEF TakeLease, LeaseHolders, LeasedPhases
  <2>2. refcount < UsizeMax
    BY <2>1, LeaseHoldersBound DEF CountInv, LeasesCounted
  <2> QED BY <1>10, <2>2, ClientsAssumption
          DEF TakeLease, SaturatingInc, Phases, NativePhases, LeasedPhases
<1>11. CASE LoadModel(c) \/ CreateContext(c)
  BY <1>11 DEF LoadModel, CreateContext, Phases, NativePhases, LeasedPhases
<1>12. CASE GetVocab(c)
  BY <1>12 DEF GetVocab, Phases, NativePhases, LeasedPhases
<1>13. CASE FreeContext(c) \/ FreeModel(c)
  BY <1>13 DEF FreeContext, FreeModel, Phases, NativePhases, LeasedPhases
<1>14. CASE LockForRelease(c)
  BY <1>14 DEF LockForRelease, LockAndGoto, Phases, NativePhases, LeasedPhases
<1>15. CASE Release(c)
  BY <1>15, ClientsAssumption DEF Release, Phases, NativePhases
<1>16. CASE FreeBackend(c)
  BY <1>16 DEF FreeBackend, Phases, NativePhases
<1> QED
  BY <1>1, <1>2, <1>3, <1>4, <1>5, <1>6, <1>7, <1>8, <1>9, <1>10, <1>11,
     <1>12, <1>13, <1>14, <1>15, <1>16 DEF ClientStep, Continue

\* Mutual exclusion: the mutex passes through NoClient.
LEMMA LockStep ==
  ASSUME IInv, NEW c \in Clients, ClientStep(c)
  PROVE  LockInv'
<1> USE ClientsAssumption DEF IInv, TypeOK, LockInv, LockedPhases, Goto
<1>1. CASE LockForAcquire(c) \/ LockForRelease(c)
  BY <1>1 DEF LockForAcquire, LockForRelease, LockAndGoto
<1>2. CASE TakeLease(c) \/ FreeBackend(c)
  BY <1>2 DEF TakeLease, FreeBackend
<1>3. CASE Release(c)
  BY <1>3 DEF Release
<1>4. CASE InitBackend(c)
  BY <1>4 DEF InitBackend
<1>5. CASE \/ \E l \in Libs : BeginConfigure(c, l)
           \/ BeginLoad(c) \/ Close(c) \/ SetOverride(c)
  BY <1>5 DEF BeginConfigure, BeginLoad, Close, SetOverride
<1>6. CASE DropPreflight(c) \/ CloseLibrary(c)
  BY <1>6 DEF DropPreflight, CloseLibrary, CloseHandle
<1>7. CASE OpenLibrary(c) \/ OpenLibraryFails(c)
  BY <1>7 DEF OpenLibrary, OpenLibraryFails
<1>8. CASE LoadModel(c) \/ CreateContext(c) \/ GetVocab(c)
  BY <1>8 DEF LoadModel, CreateContext, GetVocab
<1>9. CASE FreeContext(c) \/ FreeModel(c)
  BY <1>9 DEF FreeContext, FreeModel
<1> QED
  BY <1>1, <1>2, <1>3, <1>4, <1>5, <1>6, <1>7, <1>8, <1>9
     DEF ClientStep, Continue

\* A step that neither takes nor drops a lease leaves the count alone.
LEMMA CountStep ==
  ASSUME IInv, NEW c \in Clients, ClientStep(c)
  PROVE  CountInv'
<1> USE DEF IInv
<1>0. /\ refcount \in Nat /\ refcount = Cardinality(LeaseHolders)
      /\ pc \in [Clients -> Phases]
  BY ClientsAssumption DEF TypeOK, CountInv, LeasesCounted
<1>1. CASE TakeLease(c)
  <2>1. c \notin LeaseHolders
    BY <1>1 DEF TakeLease, LeaseHolders, LeasedPhases
  <2>2. refcount' = refcount + 1
    BY <1>0, <1>1, <2>1, LeaseHoldersBound, ClientsAssumption
       DEF TakeLease, SaturatingInc
  <2>3. Cardinality(LeaseHolders)' = Cardinality(LeaseHolders) + 1
    BY <1>1, LeaseCountStep DEF TakeLease, LeasedPhases
  <2>4. \A d \in Clients : pc'[d] \notin {"initialised", "freeing"}
    BY <1>0, <1>1, ClientsAssumption
       DEF TakeLease, Goto, LockInv, LockedPhases
  <2> QED BY <1>0, <2>2, <2>3, <2>4 DEF CountInv, LeasesCounted
<1>2. CASE Release(c)
  <2>1. refcount > 0
    BY <1>0, <1>2, LeaseHoldersBound DEF Release, LeaseHolders, LeasedPhases
  <2>2. Cardinality(LeaseHolders)' = Cardinality(LeaseHolders) - 1
    BY <1>0, <1>2, LeaseCountStep DEF Release, LeasedPhases
  <2>3. \A d \in Clients : pc'[d] \in {"initialised", "freeing"} =>
                             d = c /\ refcount = 1
    BY <1>0, <1>2, ClientsAssumption DEF Release, Goto, LockInv, LockedPhases
  <2> QED BY <1>0, <1>2, <2>1, <2>2, <2>3 DEF Release, CountInv, LeasesCounted
<1>3. CASE InitBackend(c)
  <2>1. Cardinality(LeaseHolders)' = Cardinality(LeaseHolders)
    BY <1>0, <1>3, LeaseCountStep DEF InitBackend, LeasedPhases
  <2> QED BY <1>0, <1>3, <2>1 DEF InitBackend, Goto, CountInv, LeasesCounted
<1>4. ASSUME NEW to,
             Goto(c, to),
             UNCHANGED refcount,
             to \in LeasedPhases <=> pc[c] \in LeasedPhases,
             to \notin {"initialised", "freeing"}
      PROVE  CountInv'
  <2>1. Cardinality(LeaseHolders)' = Cardinality(LeaseHolders)
    BY <1>0, <1>4, LeaseCountStep
  <2> QED BY <1>0, <1>4, <2>1 DEF Goto, CountInv, LeasesCounted
<1>5. CASE \/ \E l \in Libs : BeginConfigure(c, l)
           \/ BeginLoad(c) \/ SetOverride(c)
  BY <1>4, <1>5 DEF BeginConfigure, BeginLoad, SetOverride, LeasedPhases
<1>6. CASE Close(c) \/ FreeContext(c) \/ FreeModel(c)
  BY <1>4, <1>6 DEF Close, FreeContext, FreeModel, LeasedPhases
<1>7. CASE DropPreflight(c) \/ CloseLibrary(c)
  BY <1>4, <1>7 DEF DropPreflight, CloseLibrary, CloseHandle, LeasedPhases
<1>8. CASE OpenLibrary(c) \/ OpenLibraryFails(c)
  BY <1>4, <1>8 DEF OpenLibrary, OpenLibraryFails, LeasedPhases
<1>9. CASE LoadModel(c) \/ CreateContext(c) \/ GetVocab(c)
  BY <1>4, <1>9 DEF LoadModel, CreateContext, GetVocab, LeasedPhases
<1>10. CASE LockForAcquire(c) \/ LockForRelease(c)
  BY <1>4, <1>10 DEF LockForAcquire, LockForRelease, LockAndGoto, LeasedPhases
<1>11. CASE FreeBackend(c)
  BY <1>4, <1>11 DEF FreeBackend, LeasedPhases
<1> QED
  BY <1>1, <1>2, <1>3, <1>5, <1>6, <1>7, <1>8, <1>9, <1>10, <1>11
     DEF ClientStep, Continue

\* The loader's counts follow the clients' handles.
LEMMA MapStep ==
  ASSUME IInv, NEW c \in Clients, ClientStep(c)
  PROVE  MapInv'
<1> USE DEF IInv
<1> DEFINE Open == NativePhases \cup ConfigurePhases
           Opens(p, m, l) == IF p \in Open /\ m = l THEN 1 ELSE 0
<1>0. /\ pc \in [Clients -> Phases] /\ lib \in [Clients -> Libs \cup {NoLib}]
      /\ dlHandles \in [Libs -> Nat]
      /\ lib = [lib EXCEPT ![c] = lib[c]]
      /\ \A l \in Libs : dlHandles[l] = Cardinality(Openers(l))
  BY DEF TypeOK, MapInv
<1>1. ASSUME NEW to, NEW m \in Libs \cup {NoLib},
             Goto(c, to), lib' = [lib EXCEPT ![c] = m],
             to # "idle" => m \in Libs,
             \A l \in Libs : dlHandles'[l] = dlHandles[l]
               + Opens(to, m, l) - Opens(pc[c], lib[c], l)
      PROVE  MapInv'
  <2>1. \A d \in Clients : pc'[d] # "idle" => lib'[d] \in Libs
    BY <1>0, <1>1 DEF Goto, MapInv
  <2>2. ASSUME NEW l \in Libs
        PROVE  dlHandles'[l] = Cardinality(Openers(l))'
    <3>1. Cardinality(Openers(l))' = Cardinality(Openers(l))
            + Opens(to, m, l) - Opens(pc[c], lib[c], l)
      BY <1>1, OpenersStep
    <3> QED BY <1>0, <1>1, <3>1
  <2> QED BY <2>1, <2>2 DEF MapInv
<1>2. CASE \E l \in Libs : BeginConfigure(c, l)
  <2>1. PICK l \in Libs : BeginConfigure(c, l)
    BY <1>2
  <2>2. pc[c] = "idle" /\ Goto(c, "configuring") /\ lib' = [lib EXCEPT ![c] = l]
    BY <2>1 DEF BeginConfigure
  <2>3. \A k \in Libs : dlHandles'[k] = dlHandles[k]
          + Opens("configuring", l, k) - Opens(pc[c], lib[c], k)
    BY <1>0, <2>1, <2>2
       DEF BeginConfigure, OpenHandle, NativePhases, LeasedPhases, ConfigurePhases
  <2> QED BY <1>1, <2>2, <2>3, ZenonT(60)
<1>3. CASE OpenLibrary(c)
  <2>1. /\ pc[c] = "resolved" /\ Goto(c, "native") /\ lib' = lib
        /\ lib[c] \in Libs
    BY <1>3 DEF OpenLibrary, MapInv
  <2>2. \A k \in Libs : dlHandles'[k] = dlHandles[k]
          + Opens("native", lib[c], k) - Opens(pc[c], lib[c], k)
    BY <1>0, <1>3, <2>1
       DEF OpenLibrary, OpenHandle, NativePhases, LeasedPhases, ConfigurePhases
  <2> QED BY <1>0, <1>1, <2>1, <2>2
<1>4. CASE DropPreflight(c) \/ CloseLibrary(c)
  <2>1. /\ pc[c] \in {"drop_preflight", "drop_native"}
        /\ CloseHandle(c)
    BY <1>4 DEF DropPreflight, CloseLibrary
  <2>2. lib[c] \in Libs
    BY <2>1 DEF MapInv
  <2>3. \A k \in Libs : dlHandles'[k] = dlHandles[k]
          + Opens("idle", NoLib, k) - Opens(pc[c], lib[c], k)
    BY <1>0, <2>1, <2>2
       DEF CloseHandle, NativePhases, LeasedPhases, ConfigurePhases
  <2>4. Goto(c, "idle") /\ lib' = [lib EXCEPT ![c] = NoLib]
    BY <2>1 DEF CloseHandle
  <2> HIDE DEF Opens, IInv
  <2> QED BY <1>1, <2>3, <2>4
<1>5. CASE BeginLoad(c) \/ OpenLibraryFails(c)
  <2>1. PICK to \in {"resolved", "idle"}, m \in Libs \cup {NoLib} :
          /\ Goto(c, to)
          /\ lib' = [lib EXCEPT ![c] = m]
          /\ to # "idle" => m \in Libs
    BY <1>5 DEF BeginLoad, OpenLibraryFails, ResolvedPath, TypeOK
  <2>2. \A k \in Libs : dlHandles'[k] = dlHandles[k]
          + Opens(to, m, k) - Opens(pc[c], lib[c], k)
    BY <1>0, <1>5 DEF BeginLoad, OpenLibraryFails, NativePhases, LeasedPhases,
                      ConfigurePhases
  <2> HIDE DEF Opens, IInv
  <2> QED BY <1>1, <2>1, <2>2
<1>6. ASSUME NEW to, Goto(c, to), to \in Open, pc[c] \in Open,
             UNCHANGED <<lib, dlHandles>>
      PROVE  MapInv'
  <2>1. lib[c] \in Libs
    BY <1>6 DEF MapInv, NativePhases, LeasedPhases, ConfigurePhases
  <2>2. \A k \in Libs : dlHandles'[k] = dlHandles[k]
          + Opens(to, lib[c], k) - Opens(pc[c], lib[c], k)
    BY <1>0, <1>6
  <2> QED BY <1>0, <1>1, <1>6, <2>1, <2>2
<1> USE DEF NativePhases, LeasedPhases, ConfigurePhases
<1>7. CASE SetOverride(c) \/ Close(c) \/ GetVocab(c)
  BY <1>6, <1>7 DEF SetOverride, Close, GetVocab
<1>8. CASE LockForAcquire(c) \/ LockForRelease(c)
  BY <1>6, <1>8 DEF LockForAcquire, LockForRelease, LockAndGoto
<1>9. CASE InitBackend(c) \/ TakeLease(c)
  BY <1>6, <1>9 DEF InitBackend, TakeLease
<1>10. CASE LoadModel(c) \/ CreateContext(c)
  BY <1>6, <1>10 DEF LoadModel, CreateContext
<1>11. CASE FreeContext(c) \/ FreeModel(c)
  BY <1>6, <1>11 DEF FreeContext, FreeModel
<1>12. CASE Release(c) \/ FreeBackend(c)
  BY <1>6, <1>12 DEF Release, FreeBackend
<1> QED
  BY <1>2, <1>3, <1>4, <1>5, <1>7, <1>8, <1>9, <1>10, <1>11, <1>12
     DEF ClientStep, Continue

\* Objects are created and freed in step with the phases.
LEMMA HandleStep ==
  ASSUME IInv, NEW c \in Clients, ClientStep(c)
  PROVE  HandleInv'
<1> USE DEF IInv, TypeOK, HandleInv, Goto
<1>1. CASE LoadModel(c) \/ CreateContext(c)
  BY <1>1 DEF LoadModel, CreateContext
<1>2. CASE FreeContext(c) \/ FreeModel(c)
  BY <1>2 DEF FreeContext, FreeModel
<1>3. CASE GetVocab(c) \/ Close(c)
  BY <1>3 DEF GetVocab, Close
<1>4. CASE \/ \E l \in Libs : BeginConfigure(c, l)
           \/ BeginLoad(c) \/ SetOverride(c)
  BY <1>4 DEF BeginConfigure, BeginLoad, SetOverride
<1>5. CASE DropPreflight(c) \/ CloseLibrary(c)
  BY <1>5 DEF DropPreflight, CloseLibrary, CloseHandle
<1>6. CASE OpenLibrary(c) \/ OpenLibraryFails(c)
  BY <1>6 DEF OpenLibrary, OpenLibraryFails
<1>7. CASE LockForAcquire(c) \/ LockForRelease(c)
  BY <1>7 DEF LockForAcquire, LockForRelease, LockAndGoto
<1>8. CASE InitBackend(c) \/ TakeLease(c)
  BY <1>8 DEF InitBackend, TakeLease
<1>9. CASE Release(c) \/ FreeBackend(c)
  BY <1>9 DEF Release, FreeBackend
<1> QED
  BY <1>1, <1>2, <1>3, <1>4, <1>5, <1>6, <1>7, <1>8, <1>9
     DEF ClientStep, Continue

\* The override is written once, so a process that has one runtime after a step
\* had it before, and its library can only change from none to the first path.
LEMMA SourceStable ==
  ASSUME IInv, NEW c \in Clients, ClientStep(c), OneRuntime'
  PROVE  /\ OneRuntime
         /\ \/ Source' = Source
            \/ Source = NoLib /\ SetOverride(c)
<1>1. env' = env /\ (override' = override \/ (override = NoLib /\ SetOverride(c)))
  <2>1. CASE SetOverride(c)
    BY <2>1 DEF SetOverride
  <2>2. CASE Continue(c) /\ ~SetOverride(c)
    BY <2>2 DEF Continue, DropPreflight, OpenLibrary, OpenLibraryFails,
                LockForAcquire, InitBackend, TakeLease, LoadModel,
                CreateContext, GetVocab, FreeContext, FreeModel,
                LockForRelease, Release, FreeBackend, CloseLibrary
  <2>3. CASE (\E l \in Libs : BeginConfigure(c, l)) \/ BeginLoad(c) \/ Close(c)
    BY <2>3 DEF BeginConfigure, BeginLoad, Close
  <2> QED BY <2>1, <2>2, <2>3 DEF ClientStep
<1> QED BY <1>1 DEF OneRuntime, Source

\* A backend is needed only by some load in progress or some translator.
LEMMA NeededByLoader ==
  ASSUME IInv, BackendNeeded
  PROVE  \E d \in Clients : /\ pc[d] \in LeasedPhases \cup {"initialised", "freeing"}
                            /\ lib[d] \in Libs
                            /\ d \in Openers(lib[d])
<1>1. \E d \in Clients : pc[d] \in LeasedPhases \cup {"initialised", "freeing"}
  <2>1. CASE refcount > 0
    <3>1. LeaseHolders # {}
      BY <2>1, FS_EmptySet DEF IInv, CountInv, LeasesCounted
    <3> QED BY <3>1 DEF LeaseHolders
  <2>2. CASE \E d \in Clients : pc[d] \in {"initialised", "freeing"}
    BY <2>2
  <2> QED BY <2>1, <2>2 DEF BackendNeeded
<1> QED
  BY <1>1 DEF IInv, MapInv, Openers, NativePhases, LeasedPhases

\* A load resolves to the one runtime and keeps it.
LEMMA SourceStep ==
  ASSUME IInv, NEW c \in Clients, ClientStep(c)
  PROVE  SourceInv'
<1> SUFFICES ASSUME OneRuntime',
                    NEW d \in Clients, pc'[d] \in NativePhases \cup {"resolved"}
             PROVE  lib'[d] = Source'
  BY DEF SourceInv
<1> DEFINE Loading == NativePhases \cup {"resolved"}
<1>1. /\ OneRuntime
      /\ Source' = Source \/ (Source = NoLib /\ SetOverride(c))
  BY SourceStable
<1>2. /\ \A e \in Clients : pc[e] \in Loading => lib[e] = Source /\ lib[e] \in Libs
      /\ pc \in [Clients -> Phases] /\ lib \in [Clients -> Libs \cup {NoLib}]
  BY <1>1 DEF IInv, SourceInv, MapInv, TypeOK, NativePhases, LeasedPhases
<1>3. CASE BeginLoad(c)
  <2>1. ResolvedPath = Source /\ Source' = Source
    BY <1>1, <1>3 DEF BeginLoad, ResolvedPath, Source, OneRuntime
  <2> QED BY <1>2, <1>3, <2>1 DEF BeginLoad, Goto
<1>4. CASE SetOverride(c)
  BY <1>1, <1>2, <1>4, LibsAssumption
     DEF SetOverride, Goto, NativePhases, LeasedPhases
<1>5. ASSUME pc[d] \in Loading, lib'[d] = lib[d], ~SetOverride(c)
      PROVE  lib'[d] = Source'
  BY <1>1, <1>2, <1>5
<1>6. CASE \E l \in Libs : BeginConfigure(c, l)
  <2>1. ~SetOverride(c)
    BY <1>6 DEF BeginConfigure, SetOverride
  <2> QED BY <1>2, <1>5, <1>6, <2>1
          DEF BeginConfigure, Goto, NativePhases, LeasedPhases
<1> USE DEF Goto, SetOverride, NativePhases, LeasedPhases
<1>7. CASE DropPreflight(c) \/ CloseLibrary(c)
  BY <1>2, <1>5, <1>7 DEF DropPreflight, CloseLibrary, CloseHandle
<1>8. CASE OpenLibrary(c) \/ OpenLibraryFails(c)
  BY <1>2, <1>5, <1>8 DEF OpenLibrary, OpenLibraryFails
<1>9. CASE LockForAcquire(c) \/ LockForRelease(c)
  BY <1>2, <1>5, <1>9 DEF LockForAcquire, LockForRelease, LockAndGoto
<1>10. CASE InitBackend(c) \/ TakeLease(c)
  BY <1>2, <1>5, <1>10 DEF InitBackend, TakeLease
<1>11. CASE LoadModel(c) \/ CreateContext(c) \/ GetVocab(c)
  BY <1>2, <1>5, <1>11 DEF LoadModel, CreateContext, GetVocab
<1>12. CASE Close(c) \/ FreeContext(c) \/ FreeModel(c)
  BY <1>2, <1>5, <1>12 DEF Close, FreeContext, FreeModel
<1>13. CASE Release(c) \/ FreeBackend(c)
  BY <1>2, <1>5, <1>13 DEF Release, FreeBackend
<1> QED
  BY <1>3, <1>4, <1>6, <1>7, <1>8, <1>9, <1>10, <1>11, <1>12, <1>13
     DEF ClientStep, Continue

\* The backend goes up with the first lease and down with the last.
LEMMA UpStep ==
  ASSUME IInv, NEW c \in Clients, ClientStep(c)
  PROVE  UpInv'
<1> SUFFICES ASSUME OneRuntime'
             PROVE  up' = IF BackendNeeded' THEN {Source'} ELSE {}
  BY DEF UpInv
<1>1. /\ OneRuntime
      /\ Source' = Source \/ (Source = NoLib /\ SetOverride(c))
  BY SourceStable
<1>2. /\ up = IF BackendNeeded THEN {Source} ELSE {}
      /\ \A e \in Clients :
           pc[e] \in NativePhases => lib[e] = Source /\ lib[e] \in Libs
  BY <1>1 DEF IInv, UpInv, SourceInv, MapInv, NativePhases, LeasedPhases
<1>3. /\ pc \in [Clients -> Phases] /\ refcount \in Nat
      /\ \A e \in Clients : pc[e] \in {"initialised", "freeing"} => refcount = 0
      /\ \A d, e \in Clients :
           pc[d] \in LockedPhases /\ pc[e] \in LockedPhases => d = e
  BY ClientsAssumption DEF IInv, TypeOK, CountInv, LockInv
<1>4. CASE SetOverride(c)
  <2>1. BackendNeeded' = BackendNeeded /\ up' = up
    BY <1>3, <1>4 DEF SetOverride, Goto, BackendNeeded
  <2>2. BackendNeeded => Source # NoLib
    BY <1>2, NeededByLoader, LibsAssumption DEF NativePhases
  <2> QED BY <1>1, <1>2, <2>1, <2>2
<1>5. CASE InitBackend(c)
  <2>1. BackendNeeded' /\ ~BackendNeeded
    BY <1>3, <1>5 DEF InitBackend, Goto, BackendNeeded, LockedPhases
  <2>2. lib[c] = Source /\ Source' = Source
    BY <1>1, <1>2, <1>5 DEF InitBackend, SetOverride, NativePhases
  <2> QED BY <1>2, <1>5, <2>1, <2>2 DEF InitBackend
<1>6. CASE FreeBackend(c)
  <2>1. BackendNeeded /\ ~BackendNeeded'
    BY <1>3, <1>6 DEF FreeBackend, Goto, BackendNeeded, LockedPhases
  <2>2. lib[c] = Source
    BY <1>2, <1>6 DEF FreeBackend, NativePhases
  <2> QED BY <1>2, <1>6, <2>1, <2>2 DEF FreeBackend
<1>7. CASE DropPreflight(c) \/ CloseLibrary(c)
  <2>1. /\ pc[c] \in {"drop_preflight", "drop_native"}
        /\ CloseHandle(c)
        /\ refcount' = refcount
    BY <1>7 DEF DropPreflight, CloseLibrary
  <2>2. BackendNeeded' = BackendNeeded /\ Source' = Source
    BY <1>1, <1>3, <2>1 DEF CloseHandle, Goto, BackendNeeded, SetOverride
  <2>3. ASSUME BackendNeeded PROVE up' = up
    <3>1. PICK d \in Clients :
            /\ pc[d] \in LeasedPhases \cup {"initialised", "freeing"}
            /\ lib[d] \in Libs /\ d \in Openers(lib[d])
      BY <2>3, NeededByLoader
    <3>2. d # c /\ lib[d] = Source
      BY <1>2, <2>1, <3>1 DEF LeasedPhases, NativePhases
    <3>3. CASE lib[c] = Source
      <4>1. c \in Openers(lib[d])
        BY <2>1, <3>2, <3>3 DEF Openers, NativePhases, ConfigurePhases
      <4>2. dlHandles[lib[c]] > 1
        BY <3>1, <3>2, <3>3, <4>1, OpenerMapped DEF IInv, MapInv
      <4> QED BY <2>1, <4>2 DEF CloseHandle
    <3>4. CASE lib[c] # Source
      BY <1>2, <2>1, <2>3, <3>4 DEF CloseHandle
    <3> QED BY <3>3, <3>4
  <2>4. ASSUME ~BackendNeeded PROVE up' = up
    BY <1>2, <2>1, <2>4 DEF CloseHandle
  <2> QED BY <1>2, <2>2, <2>3, <2>4
<1>8. CASE TakeLease(c)
  <2>1. BackendNeeded
    BY <1>3, <1>8 DEF TakeLease, BackendNeeded
  <2>2. refcount' > 0
    <3>1. Cardinality(LeaseHolders) < UsizeMax
      BY <1>8, LeaseHoldersBound DEF TakeLease, LeaseHolders, LeasedPhases
    <3> QED BY <1>3, <1>8, <3>1, ClientsAssumption
            DEF TakeLease, SaturatingInc, IInv, CountInv, LeasesCounted
  <2>3. Source' = Source /\ up' = up
    BY <1>1, <1>8 DEF TakeLease, SetOverride
  <2> QED BY <1>2, <2>1, <2>2, <2>3 DEF BackendNeeded
<1>9. CASE Release(c)
  <2>1. refcount > 0
    BY <1>3, <1>9, LeaseHoldersBound
       DEF Release, LeaseHolders, LeasedPhases, IInv, CountInv, LeasesCounted
  <2>2. BackendNeeded /\ BackendNeeded'
    BY <1>3, <1>9, <2>1 DEF Release, Goto, BackendNeeded
  <2>3. Source' = Source /\ up' = up
    BY <1>1, <1>9 DEF Release, SetOverride
  <2> QED BY <1>2, <2>2, <2>3
<1>10. ASSUME NEW to, Goto(c, to), UNCHANGED <<refcount, up>>, ~SetOverride(c),
              to \notin {"initialised", "freeing"},
              pc[c] \notin {"initialised", "freeing"}
       PROVE  up' = IF BackendNeeded' THEN {Source'} ELSE {}
  <2>1. BackendNeeded' = BackendNeeded
    BY <1>3, <1>10 DEF Goto, BackendNeeded
  <2> QED BY <1>1, <1>2, <1>10, <2>1
<1>11. CASE (\E l \in Libs : BeginConfigure(c, l)) \/ BeginLoad(c) \/ Close(c)
  BY <1>10, <1>11 DEF BeginConfigure, BeginLoad, Close, SetOverride
<1>12. CASE OpenLibrary(c) \/ OpenLibraryFails(c)
  BY <1>10, <1>12 DEF OpenLibrary, OpenLibraryFails, SetOverride
<1>13. CASE LockForAcquire(c) \/ LockForRelease(c)
  BY <1>10, <1>13 DEF LockForAcquire, LockForRelease, LockAndGoto, SetOverride
<1>14. CASE LoadModel(c) \/ CreateContext(c) \/ GetVocab(c)
  BY <1>10, <1>14 DEF LoadModel, CreateContext, GetVocab, SetOverride
<1>15. CASE FreeContext(c) \/ FreeModel(c)
  BY <1>10, <1>15 DEF FreeContext, FreeModel, SetOverride
<1> QED
  BY <1>4, <1>5, <1>6, <1>7, <1>8, <1>9, <1>11, <1>12, <1>13, <1>14, <1>15
     DEF ClientStep, Continue

\* An image that loses its last handle loses its backend with it.
LEMMA UpMappedStep ==
  ASSUME IInv, NEW c \in Clients, ClientStep(c)
  PROVE  UpMapped'
<1>0. /\ up \in SUBSET Libs /\ dlHandles \in [Libs -> Nat]
      /\ \A l \in up : dlHandles[l] > 0
  BY DEF IInv, TypeOK, UpMapped
<1>1. CASE DropPreflight(c) \/ CloseLibrary(c)
  <2>1. /\ pc[c] \in {"drop_preflight", "drop_native"}
        /\ CloseHandle(c)
    BY <1>1 DEF DropPreflight, CloseLibrary
  <2> QED BY <1>0, <2>1 DEF CloseHandle, UpMapped
<1>2. CASE InitBackend(c)
  <2>1. lib[c] \in Libs /\ c \in Openers(lib[c])
    BY <1>2 DEF InitBackend, IInv, MapInv, Openers, NativePhases
  <2>2. dlHandles[lib[c]] > 0
    BY <2>1, OpenerMapped DEF IInv, MapInv
  <2> QED BY <1>0, <1>2, <2>2 DEF InitBackend, UpMapped
<1>3. CASE (\E l \in Libs : BeginConfigure(c, l)) \/ OpenLibrary(c)
  BY <1>0, <1>3 DEF BeginConfigure, OpenLibrary, OpenHandle, UpMapped
<1>4. CASE FreeBackend(c)
  BY <1>0, <1>4 DEF FreeBackend, UpMapped
<1>5. CASE UNCHANGED <<up, dlHandles>>
  BY <1>0, <1>5 DEF UpMapped
<1>6. CASE BeginLoad(c) \/ Close(c) \/ SetOverride(c) \/ OpenLibraryFails(c)
  BY <1>5, <1>6 DEF BeginLoad, Close, SetOverride, OpenLibraryFails
<1>7. CASE LockForAcquire(c) \/ TakeLease(c) \/ LockForRelease(c) \/ Release(c)
  BY <1>5, <1>7 DEF LockForAcquire, TakeLease, LockForRelease, Release
<1>8. CASE \/ LoadModel(c) \/ CreateContext(c) \/ GetVocab(c)
           \/ FreeContext(c) \/ FreeModel(c)
  BY <1>5, <1>8 DEF LoadModel, CreateContext, GetVocab, FreeContext, FreeModel
<1> QED
  BY <1>1, <1>2, <1>3, <1>4, <1>6, <1>7, <1>8 DEF ClientStep, Continue

-------------------------------------------------------------------------------
\* The inductive invariant.

LEMMA InitIInv == Init => IInv
<1> SUFFICES ASSUME Init PROVE IInv
  OBVIOUS
<1>1. TypeOK
  BY ClientsAssumption DEF Init, TypeOK, Phases
<1>2. LeaseHolders = {} /\ \A l \in Libs : Openers(l) = {}
  BY DEF Init, LeaseHolders, LeasedPhases, Openers, NativePhases, ConfigurePhases
<1>3. CountInv /\ MapInv
  BY <1>2, FS_EmptySet DEF Init, CountInv, LeasesCounted, MapInv
<1>4. LockInv
  BY ClientsAssumption DEF Init, LockInv, LockedPhases
<1>5. HandleInv
  BY DEF Init, HandleInv
<1>6. SourceInv
  BY DEF Init, SourceInv, NativePhases, LeasedPhases
<1>7. UpInv /\ UpMapped
  BY DEF Init, UpInv, UpMapped, BackendNeeded
<1> QED BY <1>1, <1>3, <1>4, <1>5, <1>6, <1>7 DEF IInv

LEMMA NextIInv == IInv /\ [Next]_vars => IInv'
<1>1. ASSUME IInv, NEW c \in Clients, ClientStep(c)
      PROVE  IInv'
  BY <1>1, TypeStep, LockStep, CountStep, MapStep, HandleStep, SourceStep,
     UpStep, UpMappedStep DEF IInv
<1>2. ASSUME IInv, UNCHANGED vars
      PROVE  IInv'
  BY <1>2 DEF vars, IInv, TypeOK, LockInv, CountInv, LeasesCounted, LeaseHolders,
              MapInv, Openers, HandleInv, SourceInv, OneRuntime, Source, UpInv,
              BackendNeeded, UpMapped
<1>3. Next => \E c \in Clients : ClientStep(c)
  BY DEF Next, ClientStep
<1> QED BY <1>1, <1>2, <1>3

\* IInv is an invariant of every behaviour of the runtime.
THEOREM Invariance == Spec => []IInv
<1> QED BY InitIInv, NextIInv, PTL DEF Spec

-------------------------------------------------------------------------------
\* The properties of the README, for every value of the constants.

\* Every variable stays in its type; in particular the count stays a usize and
\* no handle count goes negative.
THEOREM TypeCorrect == Spec => []TypeOK
<1>1. IInv => TypeOK
  BY DEF IInv
<1> QED BY <1>1, Invariance, PTL

\* The reference count is the number of live leases.
THEOREM RefcountExact == Spec => []LeasesCounted
<1>1. IInv => LeasesCounted
  BY DEF IInv, CountInv
<1> QED BY <1>1, Invariance, PTL

\* A lease keeps the backend of its own library up, in a process with one
\* llama.cpp runtime.
THEOREM BackendOutlivesLeases == Spec => []BackendUpWhileLeased
<1>1. IInv => BackendUpWhileLeased
  <2> SUFFICES ASSUME IInv, OneRuntime, NEW c \in LeaseHolders
               PROVE  lib[c] \in up
    BY DEF BackendUpWhileLeased
  <2>1. c \in Clients /\ pc[c] \in LeasedPhases
    BY DEF LeaseHolders
  <2>2. BackendNeeded
    BY <2>1, LeaseHoldersBound DEF IInv, CountInv, LeasesCounted, BackendNeeded
  <2> QED BY <2>1, <2>2 DEF IInv, UpInv, SourceInv, NativePhases
<1> QED BY <1>1, Invariance, PTL

\* llama_backend_init and llama_backend_free alternate, in a process with one
\* llama.cpp runtime.
THEOREM InitFreeAlternate == Spec => []InitFreeBalanced
<1>1. IInv => InitFreeBalanced
  <2> SUFFICES ASSUME IInv, OneRuntime, NEW c \in Clients
               PROVE  /\ pc[c] = "acquiring" /\ refcount = 0 => lib[c] \notin up
                      /\ pc[c] = "freeing" => lib[c] \in up
    BY DEF InitFreeBalanced
  <2>1. ASSUME pc[c] = "acquiring", refcount = 0 PROVE up = {}
    BY <2>1 DEF IInv, LockInv, LockedPhases, UpInv, BackendNeeded
  <2>2. ASSUME pc[c] = "freeing" PROVE lib[c] \in up
    BY <2>2 DEF IInv, UpInv, BackendNeeded, SourceInv, NativePhases
  <2> QED BY <2>1, <2>2
<1> QED BY <1>1, Invariance, PTL

\* Native code is only called while its library is mapped, in every process.
THEOREM CallsAreMapped == Spec => []CallsIntoMappedLibrary
<1>1. IInv => CallsIntoMappedLibrary
  <2> SUFFICES ASSUME IInv, NEW c \in Clients,
                      pc[c] \in NativePhases \cup ConfigurePhases
               PROVE  dlHandles[lib[c]] > 0
    BY DEF CallsIntoMappedLibrary
  <2>1. lib[c] \in Libs /\ c \in Openers(lib[c])
    BY DEF IInv, MapInv, Openers, NativePhases, LeasedPhases, ConfigurePhases
  <2> QED BY <2>1, OpenerMapped DEF IInv, MapInv
<1> QED BY <1>1, Invariance, PTL

\* Contexts live inside models, and both inside the lease.
THEOREM HandlesNested == Spec => []HandlesInsideLease
<1>1. IInv => HandlesInsideLease
  BY DEF IInv, HandleInv, HandlesInsideLease, LeaseHolders, LeasedPhases
<1> QED BY <1>1, Invariance, PTL

\* The count and the backend agree, for any set of callers.
THEOREM BackendFollowsLeases == Spec => []BackendMatchesLeases
BY RefcountExact, BackendOutlivesLeases, InitFreeAlternate, PTL DEF BackendMatchesLeases

\* The drop order holds, whatever callers and libraries there are.
THEOREM DropsInOrder == Spec => []DropOrderKept
BY CallsAreMapped, HandlesNested, PTL DEF DropOrderKept

\* A quiet process owns no native resource.
THEOREM QuietMeansReleased == Spec => []NothingLeaks
<1>1. IInv => NothingLeaks
  <2> SUFFICES ASSUME IInv, \A c \in Clients : pc[c] \in {"idle", "resolved"}
               PROVE  /\ refcount = 0
                      /\ lockHolder = NoClient
                      /\ \A c \in Clients : handles[c] = {}
                      /\ \A l \in Libs : dlHandles[l] = 0
                      /\ up = {}
    BY DEF NothingLeaks
  <2>1. LeaseHolders = {} /\ \A l \in Libs : Openers(l) = {}
    BY DEF LeaseHolders, LeasedPhases, Openers, NativePhases, ConfigurePhases
  <2>2. refcount = 0 /\ \A l \in Libs : dlHandles[l] = 0
    BY <2>1, FS_EmptySet DEF IInv, CountInv, LeasesCounted, MapInv
  <2>3. lockHolder = NoClient
    BY DEF IInv, TypeOK, LockInv, LockedPhases
  <2>4. \A c \in Clients : handles[c] = {}
    BY DEF IInv, HandleInv
  <2>5. up = {}
    BY <2>2 DEF IInv, TypeOK, UpMapped
  <2> QED BY <2>2, <2>3, <2>4, <2>5
<1> QED BY <1>1, Invariance, PTL

\* A library is unmapped only after llama_backend_free.
THEOREM FreedBeforeUnmapped == Spec => UnmappedOnlyWhenDown
<1>1. IInv /\ [Next]_vars =>
        [OneRuntime =>
           \A l \in Libs : dlHandles[l] > 0 /\ dlHandles'[l] = 0 => l \notin up]_vars
  <2> SUFFICES ASSUME IInv, Next, OneRuntime, NEW l \in Libs,
                      dlHandles[l] > 0, dlHandles'[l] = 0, l \in up
               PROVE  FALSE
    OBVIOUS
  <2>1. PICK c \in Clients : ClientStep(c)
    BY DEF Next, ClientStep
  <2>2. BackendNeeded /\ l = Source
    BY DEF IInv, UpInv
  <2>3. PICK d \in Clients : /\ pc[d] \in LeasedPhases \cup {"initialised", "freeing"}
                             /\ lib[d] \in Libs
    BY <2>2, NeededByLoader
  <2>4. lib[d] = l
    BY <2>2, <2>3 DEF IInv, SourceInv, NativePhases
  <2>5. pc'[d] \in NativePhases /\ lib'[d] = l
    <3>1. CASE d # c
      BY <2>1, <2>3, <2>4, <3>1
         DEF IInv, TypeOK, ClientStep, Continue, Goto, CloseHandle, LockAndGoto,
             BeginConfigure, BeginLoad, Close, SetOverride, DropPreflight,
             OpenLibrary, OpenLibraryFails, LockForAcquire, InitBackend,
             TakeLease, LoadModel, CreateContext, GetVocab, FreeContext,
             FreeModel, LockForRelease, Release, FreeBackend, CloseLibrary,
             NativePhases
    <3>2. CASE d = c
      BY <2>1, <2>3, <2>4, <3>2
         DEF IInv, TypeOK, ClientStep, Continue, Goto, CloseHandle, LockAndGoto,
             BeginConfigure, BeginLoad, Close, SetOverride, DropPreflight,
             OpenLibrary, OpenLibraryFails, LockForAcquire, InitBackend,
             TakeLease, LoadModel, CreateContext, GetVocab, FreeContext,
             FreeModel, LockForRelease, Release, FreeBackend, CloseLibrary,
             NativePhases, LeasedPhases
    <3> QED BY <3>1, <3>2
  <2>6. IInv'
    BY NextIInv
  <2>7. d \in Openers(l)'
    BY <2>5 DEF Openers
  <2>8. IsFiniteSet(Openers(l)') /\ dlHandles'[l] = Cardinality(Openers(l)')
    BY <2>6, ClientsAssumption, FS_Subset DEF IInv, MapInv, Openers
  <2> QED BY <2>7, <2>8, FS_EmptySet
<1> QED BY <1>1, Invariance, PTL DEF Spec, UnmappedOnlyWhenDown

-------------------------------------------------------------------------------
\* Acknowledged paths.

\* Only the override itself was ever acknowledged.
AckInv == configured = {} \/ (override # NoLib /\ configured = {override})

LEMMA AckStep == IInv /\ AckInv /\ [Next]_vars => AckInv'
<1> SUFFICES ASSUME IInv, AckInv, [Next]_vars PROVE AckInv'
  OBVIOUS
<1>1. ASSUME NEW c \in Clients, SetOverride(c) PROVE AckInv'
  <2>1. lib[c] \in Libs
    BY <1>1 DEF SetOverride, IInv, MapInv
  <2> QED BY <1>1, <2>1, LibsAssumption DEF AckInv, SetOverride
<1>2. CASE UNCHANGED <<override, configured>>
  BY <1>2 DEF AckInv
<1>3. ASSUME NEW c \in Clients, ClientStep(c), ~SetOverride(c)
      PROVE  UNCHANGED <<override, configured>>
  BY <1>3 DEF ClientStep, Continue, BeginConfigure, BeginLoad, Close,
              DropPreflight, OpenLibrary, OpenLibraryFails, LockForAcquire,
              InitBackend, TakeLease, LoadModel, CreateContext, GetVocab,
              FreeContext, FreeModel, LockForRelease, Release, FreeBackend,
              CloseLibrary
<1>4. Next => \E c \in Clients : ClientStep(c)
  BY DEF Next, ClientStep
<1> QED BY <1>1, <1>2, <1>3, <1>4 DEF vars

\* A load that begins after a configure call answered Ok uses its path.
THEOREM AcknowledgedPathWins == Spec => AcknowledgedPathIsUsed
<1>1. Init => AckInv
  BY DEF Init, AckInv
<1>2. IInv /\ AckInv /\ [Next]_vars =>
        [\A c \in Clients :
           /\ pc[c] = "idle" /\ pc'[c] = "resolved"
           /\ configured # {}
           => configured = {lib'[c]}]_vars
  <2> SUFFICES ASSUME IInv, AckInv, Next, NEW c \in Clients,
                      pc[c] = "idle", pc'[c] = "resolved", configured # {}
               PROVE  configured = {lib'[c]}
    OBVIOUS
  <2>1. PICK d \in Clients : ClientStep(d)
    BY DEF Next, ClientStep
  <2>2. BeginLoad(c)
    BY <2>1
       DEF IInv, TypeOK, ClientStep, Continue, Goto, CloseHandle, LockAndGoto,
           BeginConfigure, BeginLoad, Close, SetOverride, DropPreflight,
           OpenLibrary, OpenLibraryFails, LockForAcquire, InitBackend,
           TakeLease, LoadModel, CreateContext, GetVocab, FreeContext,
           FreeModel, LockForRelease, Release, FreeBackend, CloseLibrary
  <2> QED BY <2>2 DEF BeginLoad, ResolvedPath, AckInv, IInv, TypeOK
<1> QED BY <1>1, <1>2, AckStep, Invariance, PTL DEF Spec, AcknowledgedPathIsUsed
===============================================================================
